---------------------------- MODULE ChargeCurrent ----------------------------
(***************************************************************************)
(* energy-manager, logic/charge_current: how much the battery may be       *)
(* charged, whether the inverter assists, and how much may be fed in.  The *)
(* task decides with each message it hears, notes what it decided and      *)
(* publishes it only when it has changed; the channel may drop it.  Two    *)
(* other tasks hear the same topics at their own pace and write the same   *)
(* fields, but decide nothing.                                             *)
(*                                                                         *)
(* Nobody else changes these three settings of the inverter.               *)
(***************************************************************************)
EXTENDS Integers, Sequences, SequencesExt

CONSTANTS
    Slots, Capacity, MaxOutages,    \* of AppBus
    Limits,         \* ChargeCfg: the limit of each mode, in A
    Powers,         \* powers of the PV inverter and of the house, in W
    Threshold,      \* pv_excess_threshold_w
    MaxRestarts     \* bound: ends of the process

VARIABLES
    heard,          \* ac_ignore, ac_pv_on_output_w and house_power_w
    recorded,       \* last_charge_current_a and last_power_assist
    sends,          \* what compute_and_publish has still to publish
    outQ, link, outages,
    inverter,       \* the settings of the inverter
    restarts,
    \* history variables
    decided,        \* the mode of the last decision
    missed          \* the topics whose last message was dropped

chargeVars == <<heard, recorded, sends, outQ, link, outages, inverter, restarts,
                decided, missed>>

None == -1
Topics == {"charge", "assist", "feed_in"}
Modes == {"offgrid", "grid_pv_excess", "grid_no_excess"}
Values == {0, 1} \cup {Limits[m] : m \in Modes}

Bus == INSTANCE AppBus WITH Messages <- [topic : Topics, value : Values]

ChargeAssumption ==
    /\ Bus!BusAssumption
    /\ Limits \in [Modes -> Nat]
    /\ Powers \subseteq Nat /\ Threshold \in Nat /\ MaxRestarts \in Nat

Unheard == [ac_ignore |-> None, pv |-> None, house |-> None]

ChargeInit ==
    /\ heard = Unheard
    /\ recorded = <<>> /\ sends = <<>>
    /\ Bus!BusInit
    /\ inverter = [t \in Topics |-> None]
    /\ restarts = 0 /\ decided = "none" /\ missed = {}

-----------------------------------------------------------------------------
Known(w) == IF w = None THEN 0 ELSE w

\* rules::evaluate; the grid is assumed until ac_ignore has been heard.
Mode(h) ==
    IF h.ac_ignore = 1 THEN "offgrid"
    ELSE IF Known(h.pv) - Known(h.house) > Threshold THEN "grid_pv_excess"
    ELSE "grid_no_excess"

\* What is published in a mode, in this order.
Settings(m) ==
    <<[topic |-> "charge", value |-> Limits[m]],
      [topic |-> "assist", value |-> IF m = "offgrid" THEN 1 ELSE 0]>>
    \o (IF m = "offgrid" THEN <<>> ELSE <<[topic |-> "feed_in", value |-> 0]>>)

\* Variant: only the limit is compared.
LimitChanged(m) == recorded = <<>> \/ recorded[1] # Settings(m)[1]

Changed(m) == recorded # SubSeq(Settings(m), 1, 2)

\* A message of one of the three topics, whose value may be null, and
\* compute_and_publish on what is in the state by then.
Hear(field, value) ==
    /\ sends = <<>>
    /\ heard' = IF value = None THEN heard ELSE [heard EXCEPT ![field] = value]
    /\ decided' = Mode(heard')
    /\ IF Changed(decided')
       THEN recorded' = SubSeq(Settings(decided'), 1, 2) /\ sends' = Settings(decided')
       ELSE UNCHANGED <<recorded, sends>>
    /\ UNCHANGED <<outQ, link, outages, inverter, restarts, missed>>

\* The task of the inverter writes ac_ignore, and that of solar_power the power
\* of the house, which a null makes unknown.
OthersHear(field, value) ==
    /\ heard' = [heard EXCEPT ![field] = value]
    /\ UNCHANGED <<recorded, sends, outQ, link, outages, inverter, restarts, decided, missed>>

PublishSetting ==
    /\ sends # <<>>
    /\ Bus!Publish(Head(sends))
    /\ missed' = IF outQ' = outQ THEN missed \cup {Head(sends).topic}
                 ELSE missed \ {Head(sends).topic}
    /\ sends' = Tail(sends)
    /\ UNCHANGED <<heard, recorded, inverter, restarts, decided>>

-----------------------------------------------------------------------------
\* The inverter takes the first message, whether or not its acknowledgement
\* gets back.
InverterTakes ==
    /\ Bus!Acknowledged \/ Bus!Unacknowledged
    /\ inverter' = [inverter EXCEPT ![Head(outQ).topic] = Head(outQ).value]
    /\ UNCHANGED <<heard, recorded, sends, restarts, decided, missed>>

TopicsIn(q) == {q[i].topic : i \in DOMAIN q}

ChargeLinkBack ==
    /\ \E forgotten \in 0..Len(outQ) : Bus!LinkBack(forgotten)
    /\ missed' = missed \cup (TopicsIn(outQ) \ TopicsIn(outQ'))
    /\ UNCHANGED <<heard, recorded, sends, inverter, restarts, decided>>

ChargeRestart ==
    /\ restarts < MaxRestarts
    /\ restarts' = restarts + 1
    /\ heard' = Unheard /\ recorded' = <<>> /\ sends' = <<>>
    /\ decided' = "none"
    /\ Bus!BusRestart
    /\ missed' = missed \cup TopicsIn(outQ \o sends)
    /\ UNCHANGED inverter

ChargeNext ==
    \/ \E v \in {None, 0, 1} : Hear("ac_ignore", v)
    \/ \E f \in {"pv", "house"}, w \in Powers : Hear(f, w)
    \/ \E v \in {0, 1} : OthersHear("ac_ignore", v)
    \/ \E w \in Powers \cup {None} : OthersHear("house", w)
    \/ PublishSetting \/ InverterTakes \/ ChargeLinkBack \/ ChargeRestart

ChargeSpec == ChargeInit /\ [][ChargeNext]_chargeVars

-----------------------------------------------------------------------------
ChargeTypesOK ==
    /\ heard \in [ac_ignore : {None, 0, 1}, pv : Powers \cup {None}, house : Powers \cup {None}]
    /\ Bus!BusTypeOK
    /\ inverter \in [Topics -> Values \cup {None}]
    /\ decided \in Modes \cup {"none"}
    /\ recorded = <<>> \/ \E m \in Modes : recorded = SubSeq(Settings(m), 1, 2)

\* Once everything is delivered, the inverter is set as was last decided, but
\* for the settings whose last message a full channel or a forgotten session
\* lost: a setting is only repeated when the decision changes.
InverterAsDecided ==
    decided # "none" /\ sends = <<>> /\ outQ = <<>> =>
        \A i \in DOMAIN Settings(decided) :
            LET s == Settings(decided)[i]
            IN  s.topic \in missed \/ inverter[s.topic] = s.value
=============================================================================
