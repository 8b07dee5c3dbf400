----------------------------- MODULE SmartShunt -----------------------------
(***************************************************************************)
(* What was charged and discharged today: energy-manager integrates the    *)
(* current of the battery, from the SmartShunt itself or, when that has    *)
(* been silent, from the Venus system; it publishes the sums, retained,    *)
(* and daly-bms-server takes them, or integrates the published current     *)
(* when they are missing.  Days are UTC days.  A current is -1, 0 or 1, so *)
(* that a sum is a time.                                                   *)
(***************************************************************************)
EXTENDS Integers, Sequences

CONSTANTS
    DayLength,      \* of a day
    StaleAfter,     \* STALE_AFTER
    MaxGap,         \* 600 s: a gap of so much is not integrated
    Currents,       \* of the battery
    MaxTime, MaxEnergy, MaxRestarts \* bounds

VARIABLES
    now,
    seen,           \* shunt_last_seen_ts
    em,             \* ah_charged_today, ..., ah_last_day, ah_last_ts
    battery,        \* battery_current_a and whether soc_pct is known
    energy,         \* the charged energy: baseline, its day, today's, and
                    \* as a history the day it was last heard of
    counter,        \* the counter of the device
    midnight,       \* history: the counter as the day began
    withAh,         \* this energy-manager publishes its sums
    published,      \* the retained message of santuario/system/venus
    server,         \* shunt_ah_charged_today, ..., shunt_ah_last_ts
    restarts

shuntVars == <<now, seen, em, battery, energy, counter, midnight, withAh,
               published, server, restarts>>

None == -1
Day(t) == t \div DayLength
NoSums == [charged |-> 0, discharged |-> 0, day |-> None, last |-> None]
NoEnergy == [baseline |-> None, day |-> None, today |-> 0, heard |-> None]
NoMessage == [soc |-> FALSE, current |-> 0, sums |-> NoSums]

ShuntAssumption ==
    /\ {DayLength, StaleAfter, MaxGap} \subseteq Nat \ {0}
    /\ Currents \subseteq -1..1
    /\ MaxEnergy \in Nat

ShuntInit ==
    /\ now = 0 /\ seen = None
    /\ em = NoSums /\ battery = [current |-> 0, soc |-> FALSE]
    /\ energy = NoEnergy
    /\ counter = 0 /\ midnight = 0
    /\ withAh \in BOOLEAN /\ published = NoMessage
    /\ server = NoSums
    /\ restarts = 0

-----------------------------------------------------------------------------
\* Variant: the sums go on after midnight.
IntegratedOn(sums, current, at) ==
    LET gap == at - sums.last
        counts == sums.last # None /\ gap > 0 /\ gap < MaxGap
    IN  [day |-> Day(at), last |-> at,
         charged |-> sums.charged + (IF counts /\ current > 0 THEN gap ELSE 0),
         discharged |-> sums.discharged + (IF counts /\ current < 0 THEN gap ELSE 0)]

\* integrate_ah: the current that comes now held since the last one.
Integrated(sums, current, at) ==
    LET before == IF sums.day = Day(at) THEN sums ELSE [NoSums EXCEPT !.last = sums.last]
        gap == at - sums.last
        counts == sums.last # None /\ gap > 0 /\ gap < MaxGap
    IN  [day |-> Day(at), last |-> at,
         charged |-> before.charged + (IF counts /\ current > 0 THEN gap ELSE 0),
         discharged |-> before.discharged + (IF counts /\ current < 0 THEN gap ELSE 0)]

\* publish_state, after whatever was noted.
PublishState ==
    published' = [soc |-> battery'.soc, current |-> battery'.current,
                  sums |-> IF withAh THEN em' ELSE NoSums]

ShuntFresh == seen # None /\ now - seen < StaleAfter

Current(a) ==
    /\ em' = Integrated(em, a, now)
    /\ battery' = [battery EXCEPT !.current = a]

Others(soc) ==
    /\ battery' = [battery EXCEPT !.soc = @ \/ soc]
    /\ UNCHANGED em

\* A topic of the SmartShunt itself.
FromShunt ==
    /\ seen' = now
    /\ (\E a \in Currents : Current(a)) \/ \E soc \in BOOLEAN : Others(soc)
    /\ PublishState
    /\ UNCHANGED <<now, energy, counter, midnight, withAh, server, restarts>>

\* A topic of the system or of the inverter, heard while the shunt is silent.
FromSystem ==
    /\ ~ShuntFresh
    /\ (\E a \in Currents : Current(a)) \/ \E soc \in BOOLEAN : Others(soc)
    /\ PublishState
    /\ UNCHANGED <<now, seen, energy, counter, midnight, withAh, server, restarts>>

\* Variant: a baseline that is there is kept.
CapturesOnce == energy.baseline = None

\* baseline_decision.
Captures == energy.day # Day(now) \/ energy.baseline = None

\* History/ChargedEnergy, and DischargedEnergy in the same way.
EnergyCounter ==
    LET baseline == IF Captures THEN counter ELSE energy.baseline
    IN  /\ energy' = [baseline |-> baseline, today |-> counter - baseline,
                      heard |-> Day(now),
                      day |-> IF Captures THEN Day(now) ELSE energy.day]
        /\ UNCHANGED <<em, battery>> /\ PublishState
        /\ UNCHANGED <<now, seen, counter, midnight, withAh, server, restarts>>

\* on_venus_smartshunt: a message without state of charge is not looked at.
ServerTakes(message) ==
    /\ message.soc
    /\ server' = IF withAh THEN [message.sums EXCEPT !.day = Day(now), !.last = now]
                 ELSE Integrated(server, message.current, now)

\* MQTT delivers the message that was last published; one that is overtaken
\* is as good as lost.
ServerReceives ==
    /\ ServerTakes(published)
    /\ UNCHANGED <<now, seen, em, battery, energy, counter, midnight, withAh,
                   published, restarts>>

\* Both programs keep these values in memory; the broker keeps the message.
EnergyManagerRestarts ==
    /\ restarts < MaxRestarts /\ restarts' = restarts + 1
    /\ seen' = None /\ em' = NoSums
    /\ battery' = [current |-> 0, soc |-> FALSE]
    /\ energy' = NoEnergy
    /\ UNCHANGED <<now, counter, midnight, withAh, published, server>>

ServerRestarts ==
    /\ restarts < MaxRestarts /\ restarts' = restarts + 1
    /\ server' = NoSums
    /\ UNCHANGED <<now, seen, em, battery, energy, counter, midnight, withAh, published>>

Charging ==
    /\ counter < MaxEnergy /\ counter' = counter + 1
    /\ UNCHANGED <<now, seen, em, battery, energy, midnight, withAh, published,
                   server, restarts>>

TimePasses ==
    /\ now < MaxTime /\ now' = now + 1
    /\ midnight' = IF Day(now') # Day(now) THEN counter ELSE midnight
    /\ UNCHANGED <<seen, em, battery, energy, counter, withAh, published, server, restarts>>

ShuntNext ==
    \/ FromShunt \/ FromSystem \/ EnergyCounter \/ ServerReceives
    \/ EnergyManagerRestarts \/ ServerRestarts \/ Charging \/ TimePasses

ShuntSpec == ShuntInit /\ [][ShuntNext]_shuntVars

-----------------------------------------------------------------------------
ShuntTypesOK ==
    /\ seen \in None..now /\ counter \in 0..MaxEnergy
    /\ em.last \in None..now /\ server.last \in None..now
    /\ energy.baseline \in None..counter /\ energy.today \in 0..counter

\* A moment is charged or discharged at most once, and nothing of it before
\* the day, but for one gap that reaches over midnight.
Bounded(sums) ==
    sums.day # None =>
        sums.charged + sums.discharged <= sums.last - sums.day * DayLength + MaxGap - 1

\* The sums of a day hold no more than the day had, whichever source the
\* current came from, in which order, and whoever integrated it; the energy
\* of the day leaves out what the counter had at midnight (smartshunt/mod.rs
\* and state.rs, on_venus_smartshunt).  The sums the server takes are those
\* of the last current energy-manager heard: up to the first current of a new
\* day they are those of yesterday.
CountsOfToday ==
    /\ Bounded(em) /\ (withAh \/ Bounded(server))
    /\ energy.heard = Day(now) => energy.today <= counter - midnight
=============================================================================
