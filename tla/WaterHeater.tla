----------------------------- MODULE WaterHeater -----------------------------
(***************************************************************************)
(* energy-manager, logic/water_heater and http_clients/lg_thinq.rs: the    *)
(* mode of the water heater, decided every five minutes and set through    *)
(* the service of LG, and the target temperature set 15 s after the mode.  *)
(* The same service is read by a poller and switched by the HTTP API; all  *)
(* three write what is known of the heater (EnergyState).                  *)
(*                                                                         *)
(* The unit of time is the tick of the control task.  Every request of the *)
(* service ends within a tick, and so does the delay of the target.  An    *)
(* interval equal to its limit is decided either way: the tick and the     *)
(* clock it is measured with may differ by some milliseconds.              *)
(***************************************************************************)
EXTENDS Integers

CONSTANTS
    Conditions,     \* what ac_ignore, soc_pct and irradiance_wm2 may be
    ManualModes,    \* what POST /api/water-heater/mode may ask for
    Cooldown,       \* mode_change_min_secs, in ticks
    Hold,           \* temp_max_hold_secs, in ticks
    MaxFaults       \* bound: requests that fail, and restarts

VARIABLES
    unit,           \* the heater: its mode, the target it holds, its tank
    heard,          \* the conditions
    known,          \* EnergyState: mode and tank as last read or set
    since,          \* age of water_heater_temp_max_since
    lastChange,     \* age of last_change
    phase,          \* where the control task is in its tick
    readback,       \* the mode read in this tick
    wanted,         \* the mode it decided on
    due,            \* the mode whose target the spawned task will set
    polled,         \* answered to the poller and not yet noted
    manual,         \* set by a request of the API and not yet noted
    faults,         \* requests that failed, and restarts
    \* history variables
    excused,        \* whether the target may be that of another mode
    wrongFor        \* ticks for which the heater should have been stopped

taskVars == <<phase, readback, wanted>>
heaterVars == <<unit, heard, known, since, lastChange, taskVars, due, polled,
                manual, faults, excused, wrongFor>>

None == -1
NoMode == "none"
Vacation == "VACATION"
HeatPump == "HEAT_PUMP"
WaterHeaterMode == {Vacation, HeatPump, "TURBO"}
Targets == {"heat_pump_target", "vacation_target"}
TargetOf(m) == IF m = HeatPump THEN "heat_pump_target" ELSE "vacation_target"

HeaterAssumption ==
    /\ ManualModes \subseteq WaterHeaterMode
    /\ Cooldown \in Nat \ {0} /\ Hold \in Nat \ {0} /\ MaxFaults \in Nat

Snapshot == [mode |-> unit.mode, tank |-> unit.tank]
Default == [mode |-> Vacation, tank |-> "none"]
Nothing == [mode |-> NoMode, tank |-> "none"]

HeaterInit ==
    /\ unit \in [mode : {Vacation, HeatPump}, target : Targets, tank : {"cool", "hot"}]
    /\ heard \in Conditions
    /\ known = Default /\ since = None /\ lastChange = None
    /\ phase = "tick" /\ readback = NoMode /\ wanted = NoMode
    /\ due = NoMode /\ polled = Nothing /\ manual = NoMode
    /\ faults = 0
    /\ excused = TRUE /\ wrongFor = [c \in {"asked", "hot"} |-> 0]

-----------------------------------------------------------------------------
(* The conditions, and the tank.  A change while the task reads or decides  *)
(* is for it as one before or after.                                       *)

Received == heard.ac_ignore # "none" /\ heard.soc # "none"

\* rules::evaluate, without the tank: on the grid, a low SOC, or little sun.
\* An irradiance never received counts as low.
Asked ==
    heard.ac_ignore = "grid" \/ heard.soc = "low" \/ heard.irradiance # "high"

Hears ==
    /\ phase \in {"set", "idle"}
    /\ heard' \in Conditions \ {heard}
    /\ UNCHANGED <<unit, known, since, lastChange, taskVars, due, polled, manual,
                   faults, excused>>

TankMoves ==
    /\ phase \in {"set", "idle"}
    /\ unit' = [unit EXCEPT !.tank = IF @ = "hot" THEN "cool" ELSE "hot"]
    /\ UNCHANGED <<heard, known, since, lastChange, taskVars, due, polled, manual,
                   faults, excused>>

\* Variant: the anchor is set anew by every reading of a hot tank.
AnchorAnew(tank) == IF tank = "hot" THEN 0 ELSE IF tank = "cool" THEN None ELSE since

\* anchor_temp_max, for the tank known: a hot tank keeps its first instant.
Anchor(tank) ==
    IF tank = "hot" /\ since = None THEN 0
    ELSE IF tank = "cool" THEN None ELSE since

-----------------------------------------------------------------------------
(* The control task.                                                       *)

Fault == faults < MaxFaults /\ faults' = faults + 1

ReadState ==
    /\ phase = "tick"
    /\ readback' = unit.mode
    /\ known' = Snapshot
    /\ phase' = "decide"
    /\ UNCHANGED <<unit, heard, since, lastChange, wanted, due, polled, manual,
                   faults, excused>>

\* The mode is compared with the one known, or with the default if the state
\* is locked at that moment.
ReadFails ==
    /\ phase = "tick" /\ Fault
    /\ readback' \in {known.mode, Vacation}
    /\ phase' = "decide"
    /\ UNCHANGED <<unit, heard, known, since, lastChange, wanted, due, polled,
                   manual, excused>>

\* Whether an interval has reached its limit.
Reached(age, limit) == {age > limit} \cup (IF age = limit THEN {TRUE} ELSE {})

Evaluated(held) == IF Asked \/ held THEN Vacation ELSE HeatPump

CanChange == IF lastChange = None THEN {TRUE} ELSE Reached(lastChange, Cooldown)

Decide ==
    /\ phase = "decide"
    /\ since' = Anchor(known.tank)
    /\ \E held \in IF known.tank = "hot" THEN Reached(since', Hold) ELSE {FALSE},
          can \in CanChange :
          IF Received /\ Evaluated(held) # readback /\ can
          THEN wanted' = Evaluated(held) /\ phase' = "set"
          ELSE wanted' = NoMode /\ phase' = "idle"
    /\ readback' = NoMode
    /\ UNCHANGED <<unit, heard, known, lastChange, due, polled, manual, faults, excused>>

SetMode ==
    /\ phase = "set"
    /\ unit' = [unit EXCEPT !.mode = wanted]
    /\ known' = [known EXCEPT !.mode = wanted]
    /\ lastChange' = 0
    /\ due' = wanted
    /\ wanted' = NoMode
    /\ phase' = "idle"
    /\ UNCHANGED <<heard, since, readback, polled, manual, faults, excused>>

\* An error; the service may have done what it was asked for.
SetModeFails ==
    /\ phase = "set" /\ Fault
    /\ \/ UNCHANGED <<unit, excused>>
       \/ unit' = [unit EXCEPT !.mode = wanted] /\ excused' = TRUE
    /\ wanted' = NoMode
    /\ phase' = "idle"
    /\ UNCHANGED <<heard, known, since, lastChange, readback, due, polled, manual>>

\* The task spawned by a change of mode, temp_set_delay_secs later.
SetTarget ==
    /\ due # NoMode
    /\ unit' = [unit EXCEPT !.target = TargetOf(due)]
    /\ excused' = (unit.mode # due)
    /\ due' = NoMode
    /\ UNCHANGED <<heard, known, since, lastChange, taskVars, polled, manual, faults>>

\* The target is not asked for again.
SetTargetFails ==
    /\ due # NoMode /\ Fault
    /\ due' = NoMode
    /\ excused' = TRUE
    /\ UNCHANGED <<unit, heard, known, since, lastChange, taskVars, polled, manual>>

-----------------------------------------------------------------------------
(* The poller, the API, time, and the end of the process.                  *)

PollAnswered ==
    /\ polled = Nothing
    /\ polled' = Snapshot
    /\ UNCHANGED <<unit, heard, known, since, lastChange, taskVars, due, manual,
                   faults, excused>>

PollNoted ==
    /\ polled # Nothing
    /\ known' = polled
    /\ since' = Anchor(polled.tank)
    /\ polled' = Nothing
    /\ UNCHANGED <<unit, heard, lastChange, taskVars, due, manual, faults, excused>>

\* wh_set_mode_handler: neither the cooldown nor the target is touched.
ManualSet(m) ==
    /\ manual = NoMode
    /\ unit' = [unit EXCEPT !.mode = m]
    /\ manual' = m
    /\ excused' = TRUE
    /\ UNCHANGED <<heard, known, since, lastChange, taskVars, due, polled, faults>>

ManualNoted ==
    /\ manual # NoMode
    /\ known' = [known EXCEPT !.mode = manual]
    /\ manual' = NoMode
    /\ UNCHANGED <<unit, heard, since, lastChange, taskVars, due, polled, faults, excused>>

Older(age, limit) == IF age = None \/ age > limit THEN age ELSE age + 1

Elapse ==
    /\ phase = "idle" /\ due = NoMode /\ polled = Nothing /\ manual = NoMode
    /\ phase' = "tick"
    /\ since' = Older(since, Hold)
    /\ lastChange' = Older(lastChange, Cooldown)
    /\ UNCHANGED <<unit, heard, known, readback, wanted, due, polled, manual, faults, excused>>

Restart ==
    /\ Fault
    /\ heard' \in Conditions
    /\ known' = Default /\ since' = None /\ lastChange' = None
    /\ phase' = "tick" /\ readback' = NoMode /\ wanted' = NoMode
    /\ due' = NoMode /\ polled' = Nothing /\ manual' = NoMode
    /\ excused' = (excused \/ due # NoMode)
    /\ UNCHANGED unit

-----------------------------------------------------------------------------
Wrong(c) ==
    /\ unit.mode # Vacation /\ Received
    /\ IF c = "asked" THEN Asked ELSE unit.tank = "hot"

\* The longest a heater that should stop goes on: a mode set by hand may be
\* changed to HEAT_PUMP just before the tank has been hot for long enough.
Longest(c) == (IF c = "asked" THEN 0 ELSE Hold + 1) + Cooldown + 1

Counted ==
    wrongFor' = [c \in DOMAIN wrongFor |->
        IF ~Wrong(c)' \/ faults' # faults THEN 0
        ELSE IF phase = "idle" /\ phase' = "tick" /\ wrongFor[c] <= Longest(c)
             THEN wrongFor[c] + 1 ELSE wrongFor[c]]

HeaterStep ==
    \/ Hears \/ TankMoves
    \/ ReadState \/ ReadFails \/ Decide \/ SetMode \/ SetModeFails
    \/ SetTarget \/ SetTargetFails
    \/ PollAnswered \/ PollNoted
    \/ \E m \in ManualModes : ManualSet(m)
    \/ ManualNoted
    \/ Elapse \/ Restart

HeaterNext == HeaterStep /\ Counted

HeaterSpec == HeaterInit /\ [][HeaterNext]_heaterVars

-----------------------------------------------------------------------------
HeaterTypeOK ==
    /\ unit \in [mode : WaterHeaterMode, target : Targets, tank : {"cool", "hot"}]
    /\ heard \in Conditions
    /\ known \in [mode : WaterHeaterMode, tank : {"none", "cool", "hot"}]
    /\ since \in None..(Hold + 1) /\ lastChange \in None..(Cooldown + 1)
    /\ phase \in {"tick", "decide", "set", "idle"}
    /\ {readback, wanted, due, manual} \subseteq WaterHeaterMode \cup {NoMode}
    /\ faults \in 0..MaxFaults

\* "any_condition_forces_vacation" (rules.rs), and temp_max_hold_secs: while
\* the service answers, a heater is not left heating for longer than the
\* cooldown, or the hold, and a tick, whoever has switched it on and whatever
\* the poller noted meanwhile.
StopsInTime == \A c \in DOMAIN wrongFor : wrongFor[c] <= Longest(c)

\* Between two ticks the heater holds the target of the mode it is in, unless
\* the mode was set by hand, or the request of the target failed or was lost
\* with the process.
TargetOfMode ==
    phase = "idle" /\ due = NoMode /\ ~excused => unit.target = TargetOf(unit.mode)
=============================================================================
