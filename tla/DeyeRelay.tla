----------------------------- MODULE DeyeRelay ------------------------------
(***************************************************************************)
(* energy-manager, logic/deye_command: how a decision of the DEYE          *)
(* controller reaches the Shelly relays and survives a restart.  What is   *)
(* decided, and when, is DeyeController's; here any decision may come at   *)
(* any time.  Commands and the retained copy of the relay state leave by   *)
(* AppBus, one try_send after the other.                                   *)
(***************************************************************************)
EXTENDS AppBus, FiniteSets, SequencesExt

CONSTANTS
    Channels,       \* shelly_deye_channels
    MaxChanges,     \* bound: decisions that change the relay
    MaxCrashes,     \* bound: ends of the process
    MaxShelly,      \* bound: losses and reboots of the Shelly
    Timely          \* the retained state arrives within the 3 s of the start

ASSUME RelayAssumption ==
    /\ IsFiniteSet(Channels)
    /\ MaxChanges \in Nat /\ MaxCrashes \in Nat /\ MaxShelly \in Nat
    /\ Timely \in BOOLEAN

VARIABLES
    running,        \* whether the task is past its start
    relayOn,        \* DeyeController::relay_on
    sends,          \* messages the current call has still to publish
    persisted,      \* EnergyState::deye_persisted_state
    retained,       \* the retained message on santuario/persist/deye_state
    physical,       \* physical[c]: the relay of channel c
    reachable,      \* whether the Shelly is connected to the broker
    left,           \* what is left of the three bounds above
    \* history
    stateLost       \* the last change of relay_on never went to be retained

taskVars == <<running, relayOn, sends, persisted>>
worldVars == <<retained, physical, reachable>>
vars == <<busVars, taskVars, worldVars, left, stateLost>>

NoState == "none"
StateName(on) == IF on THEN "On" ELSE "Off"
Restored(s) == s # "Off"

Switch(c, on) == [to |-> "shelly", channel |-> c, on |-> on]
Persist(on) == [to |-> "state", on |-> on]
Telemetry == [to |-> "other"]

RelayMessages ==
    {Switch(c, on) : c \in Channels, on \in BOOLEAN}
    \cup {Persist(on) : on \in BOOLEAN} \cup {Telemetry}

ASSUME MessagesAssumption == Messages = RelayMessages

\* send_shelly: one command per channel, in the order of the list.
SendShelly(on) == LET order == SetToSeq(Channels)
                  IN  [k \in 1..Len(order) |-> Switch(order[k], on)]

-----------------------------------------------------------------------------
Init ==
    /\ BusInit
    /\ running = FALSE /\ relayOn = TRUE /\ sends = <<>>
    /\ persisted = NoState /\ retained = NoState
    /\ physical \in [Channels -> BOOLEAN]
    /\ reachable = TRUE
    /\ left = [changes |-> MaxChanges, crashes |-> MaxCrashes, shelly |-> MaxShelly]
    /\ stateLost = FALSE

\* The broker delivers the retained state to the persist watcher.
RetainedArrives ==
    /\ link /\ retained # NoState
    /\ persisted' = retained
    /\ UNCHANGED <<busVars, running, relayOn, sends, worldVars, left, stateLost>>

\* The 3 s are over: On unless "Off" has been delivered.
Start ==
    /\ ~running
    /\ Timely => persisted = retained
    /\ running' = TRUE
    /\ relayOn' = Restored(persisted)
    /\ stateLost' = (Restored(persisted) # Restored(retained))
    /\ UNCHANGED <<busVars, sends, persisted, worldVars, left>>

Idle == running /\ sends = <<>>

\* apply() with a decision that changes the relay: the commands, then the
\* retained state.
Change ==
    /\ Idle /\ left.changes > 0
    /\ left' = [left EXCEPT !.changes = @ - 1]
    /\ relayOn' = ~relayOn
    /\ sends' = Append(SendShelly(relayOn'), Persist(relayOn'))
    /\ stateLost' = FALSE
    /\ UNCHANGED <<busVars, running, persisted, worldVars>>

\* Variant: the legacy single channel only.
ResyncOneChannel ==
    /\ Idle
    /\ link => outQ = <<>>
    /\ sends' = <<Head(SendShelly(relayOn))>>
    /\ UNCHANGED <<busVars, running, relayOn, persisted, worldVars, left, stateLost>>

\* resync.tick(): the commands again, and nothing else.  A queue that has a
\* connection is empty long before the next resync.
Resync ==
    /\ Idle
    /\ link => outQ = <<>>
    /\ sends' = SendShelly(relayOn)
    /\ UNCHANGED <<busVars, running, relayOn, persisted, worldVars, left, stateLost>>

\* One publish() of the call in progress.
TrySend ==
    /\ sends # <<>>
    /\ Publish(Head(sends))
    /\ sends' = Tail(sends)
    /\ stateLost' = (stateLost \/ (Head(sends).to = "state" /\ UNCHANGED outQ))
    /\ UNCHANGED <<running, relayOn, persisted, worldVars, left>>

\* The other modules of the process publish too; it only matters while the
\* queue does not drain.
OthersPublish ==
    /\ ~link
    /\ Accepted(Telemetry)
    /\ UNCHANGED <<taskVars, worldVars, left, stateLost>>

\* What a message does once the broker has it: a Shelly that is away misses
\* its command.
Takes(m) ==
    /\ physical' = IF m.to = "shelly" /\ reachable
                   THEN [physical EXCEPT ![m.channel] = m.on] ELSE physical
    /\ retained' = IF m.to = "state" THEN StateName(m.on) ELSE retained
    /\ UNCHANGED reachable

Deliver ==
    /\ Acknowledged
    /\ Takes(Head(outQ))
    /\ UNCHANGED <<taskVars, left, stateLost>>

DeliverUnacknowledged ==
    /\ Unacknowledged
    /\ Takes(Head(outQ))
    /\ UNCHANGED <<taskVars, left, stateLost>>

LinkGone ==
    /\ LinkLost
    /\ UNCHANGED <<taskVars, worldVars, left, stateLost>>

StateOnItsWay(q) == \E k \in DOMAIN q : q[k].to = "state"

Reconnects ==
    /\ \E forgotten \in 0..Len(outQ) :
          /\ LinkBack(forgotten)
          /\ stateLost' = (stateLost \/ StateOnItsWay(SubSeq(outQ, 1, forgotten)))
    /\ UNCHANGED <<taskVars, worldVars, left>>

\* The Shelly leaves the network, or reboots with some state of its relays.
ShellyAway ==
    /\ left.shelly > 0
    /\ left' = [left EXCEPT !.shelly = @ - 1]
    /\ reachable' = FALSE
    /\ physical' \in [Channels -> BOOLEAN]
    /\ UNCHANGED <<busVars, taskVars, retained, stateLost>>

ShellyBack ==
    /\ ~reachable
    /\ reachable' = TRUE
    /\ UNCHANGED <<busVars, taskVars, retained, physical, left, stateLost>>

\* The process ends (systemd, spawn_critical, power) and starts again.
Crash ==
    /\ left.crashes > 0
    /\ left' = [left EXCEPT !.crashes = @ - 1]
    /\ BusRestart
    /\ running' = FALSE /\ sends' = <<>> /\ persisted' = NoState
    /\ UNCHANGED <<relayOn, worldVars, stateLost>>

Next ==
    \/ RetainedArrives \/ Start \/ Change \/ Resync \/ TrySend
    \/ OthersPublish \/ Deliver \/ DeliverUnacknowledged \/ LinkGone \/ Reconnects
    \/ ShellyAway \/ ShellyBack \/ Crash

Spec == Init /\ [][Next]_vars

\* The task runs; the network owes nothing.
TaskSpec == Spec /\ WF_vars(Start) /\ WF_vars(TrySend) /\ WF_vars(Resync)

\* Outages end, and what is queued is delivered.
NetworkRecovers ==
    /\ WF_vars(Reconnects) /\ WF_vars(Deliver)
    /\ WF_vars(ShellyBack) /\ WF_vars(RetainedArrives)

-----------------------------------------------------------------------------
TypeOK ==
    /\ BusTypeOK
    /\ running \in BOOLEAN /\ relayOn \in BOOLEAN
    /\ sends \in Seq(RelayMessages) /\ Len(sends) <= Cardinality(Channels) + 1
    /\ persisted \in {NoState, "On", "Off"} /\ retained \in {NoState, "On", "Off"}
    /\ physical \in [Channels -> BOOLEAN]
    /\ reachable \in BOOLEAN
    /\ left \in [changes : 0..MaxChanges, crashes : 0..MaxCrashes, shelly : 0..MaxShelly]
    /\ stateLost \in BOOLEAN

\* A wedged MQTT path can never freeze the control loop (bus.rs): with the
\* broker away for ever and the queue full, every call to publish returns
\* and the task is back at its select!.
LoopNeverParked == running /\ sends # <<>> ~> Idle \/ ~running

\* If the network recovers each time it fails, each channel ends up where
\* the controller wants it and stays there: after commands dropped,
\* delivered late or twice, a Shelly that was away or rebooted, and restarts
\* (mod.rs, "so the physical Shelly reconverges after a missed command").
Reconverges ==
    NetworkRecovers => <>[](running /\ \A c \in Channels : physical[c] = relayOn)

\* Unless its publication was lost, the broker retains the state of the
\* relay whenever none is on its way: neither order, repetition nor restarts
\* leave an older one behind.
PersistedWhenQuiet ==
    running /\ ~stateLost /\ ~StateOnItsWay(sends) /\ ~StateOnItsWay(outQ)
        => Restored(retained) = relayOn

\* "so a restart doesn't toggle the relay spuriously": a restart in a quiet
\* moment takes the relay up where it was left.
Quiet == link /\ sends = <<>> /\ outQ = <<>>
RestartDoesNotToggle ==
    [][Crash /\ running /\ Quiet => Restored(retained) = relayOn]_vars
=============================================================================
