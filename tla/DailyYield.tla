----------------------------- MODULE DailyYield -----------------------------
(***************************************************************************)
(* energy-manager: the production of the day of the PV inverter is what    *)
(* its energy counter has gained on a baseline.  logic/solar_power takes   *)
(* the baseline with the first message of a UTC day, logic/meteo forgets   *)
(* it five seconds after local midnight, and the broker keeps a copy for   *)
(* the next start, which the persist watcher of main.rs takes up.  Three   *)
(* tasks share the state behind one lock, and publish after releasing it.  *)
(*                                                                         *)
(* Local midnight comes before the UTC one, as it does east of Greenwich.  *)
(* The yields of the chargers, which come ready made from Victron, are     *)
(* left out of the total.                                                  *)
(***************************************************************************)
EXTENDS Integers, Sequences

CONSTANTS
    Slots, Capacity, MaxOutages,    \* of AppBus
    MaxDay,         \* bound: days
    MaxEnergy,      \* bound: what the counter counts
    MaxCrashes      \* bound: ends of the process

VARIABLES
    running,        \* whether the process runs
    baseline,       \* EnergyState::pvinv_baseline_kwh
    baselineDay,    \* EnergyState::pvinv_baseline_day
    yield,          \* EnergyState::pvinv_yield_today_kwh
    yesterday,      \* EnergyState::yield_yesterday_kwh
    solarSends,     \* what mqtt_task has still to publish
    resetTotal,     \* total_today, once do_reset has read it
    resetSends,     \* what do_reset has still to publish
    restoring,      \* the baseline on_retained_baseline has found to be today's
    outQ, link, outages,            \* of AppBus
    retained,       \* the two retained messages
    owed,           \* those the broker has still to send on this connection
    utcDay, localDay, counter, resetDue, crashes,
    \* history
    utcStart,       \* the counter at the last UTC midnight
    localStart,     \* the counter at the last local midnight
    measured,       \* whether yield is of a message of this UTC day
    renewed         \* whether this local day has had its reset, and yield
                    \* is of a message since; "no" once a baseline that was
                    \* retained has been taken up

None == -1
stateVars == <<baseline, baselineDay, yield, yesterday>>
taskVars == <<running, solarSends, resetTotal, resetSends, restoring>>
networkVars == <<outQ, link, outages>>
clockVars == <<utcDay, localDay, resetDue, utcStart, localStart>>
historyVars == <<measured, renewed>>
yieldVars == <<stateVars, taskVars, networkVars, retained, owed, clockVars,
               counter, crashes, historyVars>>

Baseline(day, kwh) == [topic |-> "baseline", day |-> day, kwh |-> kwh]
NoBaseline == [topic |-> "baseline", day |-> None, kwh |-> None]
YieldYesterday(kwh) == [topic |-> "yesterday", day |-> None, kwh |-> kwh]
Telemetry == [topic |-> "other", day |-> None, kwh |-> None]

YieldMessages ==
    {Baseline(d, k) : d \in 0..MaxDay, k \in 0..MaxEnergy}
    \cup {YieldYesterday(k) : k \in 0..MaxEnergy} \cup {NoBaseline, Telemetry}

Bus == INSTANCE AppBus WITH Messages <- YieldMessages

YieldAssumption ==
    /\ Bus!BusAssumption
    /\ MaxDay \in Nat /\ MaxEnergy \in Nat /\ MaxCrashes \in Nat

-----------------------------------------------------------------------------
Init ==
    /\ running = TRUE
    /\ baseline = None /\ baselineDay = None /\ yield = 0 /\ yesterday = 0
    /\ solarSends = <<>> /\ resetTotal = None /\ resetSends = <<>>
    /\ restoring = NoBaseline
    /\ Bus!BusInit
    /\ retained = [baseline |-> NoBaseline, yesterday |-> YieldYesterday(0)]
    /\ owed = {}
    /\ utcDay = 0 /\ localDay = 0 /\ counter = 0 /\ resetDue = FALSE /\ crashes = 0
    /\ utcStart = 0 /\ localStart = 0 /\ measured = FALSE /\ renewed = "no"

\* rules::baseline_decision.
NewDay == baselineDay # utcDay
Captures == NewDay \/ baseline = None

\* mqtt_task: a message with the reading of the counter.
Energy ==
    /\ running /\ link /\ solarSends = <<>>
    /\ baseline' = IF Captures THEN counter ELSE baseline
    /\ baselineDay' = IF NewDay THEN utcDay ELSE baselineDay
    /\ yield' = IF counter >= baseline' THEN counter - baseline' ELSE 0
    /\ solarSends' = IF Captures THEN <<Baseline(utcDay, counter)>> ELSE <<>>
    /\ measured' = TRUE
    /\ renewed' = IF renewed = "reset" THEN "measured" ELSE renewed
    /\ UNCHANGED <<yesterday, running, resetTotal, resetSends, restoring,
                   networkVars, retained, owed, clockVars, counter, crashes>>

\* The publication of a task, after it has released the lock.
SolarPublishes ==
    /\ solarSends # <<>>
    /\ Bus!Publish(Head(solarSends))
    /\ solarSends' = Tail(solarSends)
    /\ UNCHANGED <<stateVars, running, resetTotal, resetSends, restoring,
                   retained, owed, clockVars, counter, crashes, historyVars>>

\* do_reset reads the total of the day under one lock,
ResetReads ==
    /\ running /\ resetDue
    /\ resetTotal' = yield
    /\ resetDue' = FALSE
    /\ UNCHANGED <<stateVars, running, solarSends, resetSends, restoring,
                   networkVars, retained, owed, utcDay, localDay, counter,
                   crashes, utcStart, localStart, historyVars>>

\* Variant: only the yield is set back.
ResetKeepsBaseline ==
    /\ resetTotal # None
    /\ yesterday' = resetTotal
    /\ yield' = 0
    /\ resetSends' = <<YieldYesterday(resetTotal), NoBaseline>>
    /\ resetTotal' = None
    /\ renewed' = "reset"
    /\ UNCHANGED <<baseline, baselineDay, running, solarSends, restoring,
                   networkVars, retained, owed, clockVars, counter, crashes, measured>>

\* starts the day anew under another,
ResetWrites ==
    /\ resetTotal # None
    /\ yesterday' = resetTotal
    /\ yield' = 0
    /\ baseline' = None
    /\ resetSends' = <<YieldYesterday(resetTotal), NoBaseline>>
    /\ resetTotal' = None
    /\ renewed' = "reset"
    /\ UNCHANGED <<baselineDay, running, solarSends, restoring, networkVars,
                   retained, owed, clockVars, counter, crashes, measured>>

\* and publishes both.
ResetPublishes ==
    /\ resetSends # <<>>
    /\ Bus!Publish(Head(resetSends))
    /\ resetSends' = Tail(resetSends)
    /\ UNCHANGED <<stateVars, running, solarSends, resetTotal, restoring,
                   retained, owed, clockVars, counter, crashes, historyVars>>

\* Variant: any day will do.
AnyDay(m) == m # NoBaseline

OfToday(m) == m # NoBaseline /\ m.day = utcDay

\* The retained baseline reaches the persist watcher: the day is compared
\* before the lock is asked for.
BaselineArrives ==
    /\ running /\ link /\ "baseline" \in owed /\ restoring = NoBaseline
    /\ owed' = owed \ {"baseline"}
    /\ restoring' = IF OfToday(retained.baseline)
                    THEN Baseline(utcDay, retained.baseline.kwh) ELSE NoBaseline
    /\ UNCHANGED <<stateVars, running, solarSends, resetTotal, resetSends,
                   networkVars, retained, clockVars, counter, crashes, historyVars>>

BaselineRestored ==
    /\ restoring # NoBaseline
    /\ restoring' = NoBaseline
    /\ IF baseline = None
       THEN /\ baseline' = restoring.kwh /\ baselineDay' = restoring.day
            /\ renewed' = "no"
       ELSE UNCHANGED <<baseline, baselineDay, renewed>>
    /\ UNCHANGED <<yield, yesterday, running, solarSends, resetTotal, resetSends,
                   networkVars, retained, owed, clockVars, counter, crashes,
                   measured>>

\* on_retained_yield_yesterday.
YesterdayArrives ==
    /\ running /\ link /\ "yesterday" \in owed /\ restoring = NoBaseline
    /\ owed' = owed \ {"yesterday"}
    /\ yesterday' = retained.yesterday.kwh
    /\ UNCHANGED <<baseline, baselineDay, yield, taskVars, networkVars, retained,
                   clockVars, counter, crashes, historyVars>>

\* The rest of the process publishes too, once a second and more.
OthersPublish ==
    /\ running /\ ~link
    /\ Bus!Accepted(Telemetry)
    /\ UNCHANGED <<stateVars, taskVars, retained, owed, clockVars, counter,
                   crashes, historyVars>>

-----------------------------------------------------------------------------
(* The broker, the sun and the clock.                                      *)

Deliver ==
    /\ Bus!Acknowledged
    /\ LET m == Head(outQ)
       IN  retained' = IF m.topic \in DOMAIN retained
                       THEN [retained EXCEPT ![m.topic] = m] ELSE retained
    /\ UNCHANGED <<stateVars, taskVars, owed, clockVars, counter, crashes, historyVars>>

LinkGone ==
    /\ Bus!LinkLost
    /\ owed' = {}
    /\ UNCHANGED <<stateVars, taskVars, retained, clockVars, counter, crashes, historyVars>>

\* Each subscription brings what is retained at that time or a little later,
\* ahead of publications that wait for room behind it.
Reconnects ==
    /\ running
    /\ \E forgotten \in 0..Len(outQ) : Bus!LinkBack(forgotten)
    /\ owed' = {"baseline", "yesterday"}
    /\ UNCHANGED <<stateVars, taskVars, retained, clockVars, counter, crashes, historyVars>>

Produces ==
    /\ counter < MaxEnergy
    /\ counter' = counter + 1
    /\ UNCHANGED <<stateVars, taskVars, networkVars, retained, owed, clockVars,
                   crashes, historyVars>>

\* The timer of midnight_reset_task fires in a process that runs.
LocalMidnight ==
    /\ localDay = utcDay /\ utcDay < MaxDay
    /\ localDay' = localDay + 1
    /\ resetDue' = running
    /\ localStart' = counter
    /\ renewed' = "no"
    /\ UNCHANGED <<stateVars, taskVars, networkVars, retained, owed, utcDay,
                   counter, crashes, utcStart, measured>>

\* The reset is long done.
UtcMidnight ==
    /\ localDay > utcDay
    /\ ~resetDue /\ resetTotal = None /\ resetSends = <<>>
    /\ utcDay' = utcDay + 1
    /\ utcStart' = counter
    /\ measured' = FALSE
    /\ UNCHANGED <<stateVars, taskVars, networkVars, retained, owed, localDay,
                   resetDue, localStart, counter, crashes, renewed>>

Crash ==
    /\ running /\ crashes < MaxCrashes
    /\ crashes' = crashes + 1
    /\ running' = FALSE
    /\ baseline' = None /\ baselineDay' = None /\ yield' = 0 /\ yesterday' = 0
    /\ solarSends' = <<>> /\ resetTotal' = None /\ resetSends' = <<>>
    /\ restoring' = NoBaseline /\ owed' = {} /\ resetDue' = FALSE
    /\ Bus!BusRestart
    /\ measured' = FALSE /\ renewed' = "no"
    /\ UNCHANGED <<retained, utcDay, localDay, counter, utcStart, localStart>>

StartAgain ==
    /\ ~running
    /\ running' = TRUE
    /\ UNCHANGED <<stateVars, solarSends, resetTotal, resetSends, restoring,
                   networkVars, retained, owed, clockVars, counter, crashes,
                   historyVars>>

Next ==
    \/ Energy \/ SolarPublishes \/ ResetReads \/ ResetWrites \/ ResetPublishes
    \/ BaselineArrives \/ BaselineRestored \/ YesterdayArrives \/ OthersPublish
    \/ Deliver \/ LinkGone \/ Reconnects \/ Produces \/ LocalMidnight \/ UtcMidnight
    \/ Crash \/ StartAgain

Spec == Init /\ [][Next]_yieldVars

-----------------------------------------------------------------------------
Readings == {None} \cup 0..MaxEnergy
Sent == {<<>>} \cup {<<m>> : m \in YieldMessages}
            \cup {<<m, NoBaseline>> : m \in YieldMessages}

TypeOK ==
    /\ Bus!BusTypeOK
    /\ running \in BOOLEAN
    /\ baseline \in Readings /\ baselineDay \in None..MaxDay
    /\ yield \in 0..MaxEnergy /\ yesterday \in 0..MaxEnergy
    /\ solarSends \in Sent /\ resetSends \in Sent
    /\ resetTotal \in Readings
    /\ restoring \in YieldMessages
    /\ retained.baseline \in YieldMessages /\ retained.yesterday \in YieldMessages
    /\ owed \subseteq {"baseline", "yesterday"}
    /\ utcDay \in 0..MaxDay /\ localDay \in {utcDay, utcDay + 1}
    /\ counter \in 0..MaxEnergy /\ crashes \in 0..MaxCrashes
    /\ resetDue \in BOOLEAN
    /\ utcStart \in 0..counter /\ localStart \in 0..counter
    /\ measured \in BOOLEAN /\ renewed \in {"no", "reset", "measured"}

\* The yield of a message never counts energy of an earlier UTC day: not
\* with a retained baseline that is old, or found to be today's just before
\* midnight, nor after a restart or with publications that were lost
\* (baseline.rs, "reject stale baselines from previous days").
NoEarlierDayCounted == measured => yield <= counter - utcStart

\* Nor, once the reset of local midnight is done, energy of the day it ended
\* ("Reset minuit (5 s après minuit) -> sauvegarde yield_yesterday, efface
\* les baselines journalières"), as long as no retained baseline is taken up
\* after it: until the UTC midnight, one of the day before is still today's.
NoResetDayCounted == renewed = "measured" => yield <= counter - localStart
=============================================================================
