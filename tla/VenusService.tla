---------------------------- MODULE VenusService ----------------------------
(***************************************************************************)
(* dbus-mqtt-venus: one D-Bus service and its manager, between the MQTT    *)
(* topic of a source and the Venus OS console.  All the managers (battery, *)
(* sensor, heatpump, meteo, switch, grid, pvinverter, platform) have the   *)
(* same loop; the switch also takes commands from the console, which       *)
(* Controllable stands for.                                                *)
(*                                                                         *)
(* The values of a source are reduced to the state of a relay, 0 or 1, and *)
(* instants to ages in seconds, which stop growing at the longest delay    *)
(* they are compared with.                                                 *)
(***************************************************************************)
EXTENDS Integers, Sequences

CONSTANTS
    Controllable,   \* the service has a command_topic
    Retained,       \* the source publishes with retain
    Watchdog,       \* watchdog_sec
    Republish,      \* republish_sec
    Period,         \* seconds between two publications of a live source
    ChanCap,        \* slots of the mpsc channel, plus what MQTT has in flight
    CmdCap,         \* slots of the command channel
    MaxWrites       \* bound: commands written in the console

VenusAssumption ==
    /\ {Controllable, Retained} \subseteq BOOLEAN
    /\ {Watchdog, Republish, Period, ChanCap, CmdCap} \subseteq Nat \ {0}
    /\ MaxWrites \in Nat
    /\ Period < Watchdog

VARIABLES
    device,         \* the relay itself
    live,           \* the source runs and publishes
    sincePub,       \* seconds since it last published
    link,           \* the subscribing connection of dbus-mqtt-venus
    retained,       \* the message the broker retains, None if there is none
    chan,           \* messages on their way to the manager
    service,        \* "absent", or the /Connected of the service: "off", "on"
    shown,          \* switchable_state, or the values of another service
    lastUpdate,     \* age of last_update
    updating,       \* the payload of an update between its reads and its write
    sinceTick,      \* seconds since republish_tick
    cmds,           \* commands for the forwarder
    writes,         \* commands written
    unattended      \* history: seconds since a message or a command came

sourceVars == <<device, live, sincePub>>
mqttVars == <<link, retained, chan>>
serviceVars == <<service, shown, lastUpdate, updating>>
vars == <<sourceVars, mqttVars, serviceVars, sinceTick, cmds, writes, unattended>>

None == -1
Relay == {0, 1}
\* The longest time after which the watchdog has looked.
Limit == Watchdog + Republish + 1
Aged(age, limit) == IF age = None \/ age = limit THEN age ELSE age + 1

Init ==
    /\ device \in Relay /\ live = TRUE /\ sincePub = 0
    /\ link = FALSE /\ retained = None /\ chan = <<>>
    /\ service = "absent" /\ shown = 0 /\ lastUpdate = 0 /\ updating = None
    /\ sinceTick = 0
    /\ cmds = <<>> /\ writes = 0
    /\ unattended = 0

-----------------------------------------------------------------------------
(* The source and MQTT.                                                    *)

\* A message reaches the process: mqtt_source waits for a slot.
Arrives(v) ==
    /\ Len(chan) < ChanCap
    /\ chan' = Append(chan, v)
    /\ unattended' = 0

\* A live source publishes its state, periodically and when it changes;
\* clean sessions lose what is published while the link is down, but the
\* broker may be there to retain it.
Publish ==
    /\ live
    /\ sincePub' = 0
    /\ IF link
       THEN /\ retained' = IF Retained THEN device ELSE None
            /\ Arrives(device)
       ELSE /\ retained' \in IF Retained THEN {retained, device} ELSE {retained}
            /\ UNCHANGED <<chan, unattended>>
    /\ UNCHANGED <<device, live, link, serviceVars, sinceTick, cmds, writes>>

LinkDown ==
    /\ link
    /\ link' = FALSE
    /\ UNCHANGED <<sourceVars, retained, chan, serviceVars, sinceTick, cmds, writes, unattended>>

\* connect_and_run subscribes again, and the broker sends what it retains.
LinkUp ==
    /\ ~link
    /\ link' = TRUE
    /\ IF retained = None THEN UNCHANGED <<chan, unattended>> ELSE Arrives(retained)
    /\ UNCHANGED <<sourceVars, retained, serviceVars, sinceTick, cmds, writes>>

SourceStops ==
    /\ live
    /\ live' = FALSE
    /\ UNCHANGED <<device, sincePub, mqttVars, serviceVars, sinceTick, cmds, writes, unattended>>

SourceStarts ==
    /\ ~live
    /\ live' = TRUE /\ sincePub' = 0
    /\ UNCHANGED <<device, mqttVars, serviceVars, sinceTick, cmds, writes, unattended>>

-----------------------------------------------------------------------------
(* The manager's loop, one message or one tick at a time.                  *)

Free == updating = None

\* handle_event: the service is created by its first message, if D-Bus
\* allows; then update() makes the new values from the payload.
HandleEvent ==
    /\ Free /\ chan # <<>>
    /\ chan' = Tail(chan)
    /\ \/ /\ service' = IF service = "absent" THEN "off" ELSE service
          /\ updating' = Head(chan)
          /\ lastUpdate' = IF service = "absent" THEN 0 ELSE lastUpdate
       \/ /\ service = "absent"          \* create_service failed
          /\ UNCHANGED <<service, updating, lastUpdate>>
    /\ UNCHANGED <<sourceVars, link, retained, shown, sinceTick, cmds, writes, unattended>>

\* Variant: the state written in the console is kept.
UpdateKeepsState ==
    /\ ~Free
    /\ service' = "on" /\ lastUpdate' = 0
    /\ updating' = None
    /\ UNCHANGED <<sourceVars, mqttVars, shown, sinceTick, cmds, writes, unattended>>

\* ... and overwrites the old ones, whatever was written meanwhile.
Update ==
    /\ ~Free
    /\ shown' = updating /\ service' = "on" /\ lastUpdate' = 0
    /\ updating' = None
    /\ UNCHANGED <<sourceVars, mqttVars, sinceTick, cmds, writes, unattended>>

\* Variant: the republication counts as an update.
RepublishRefreshes ==
    /\ Free /\ sinceTick >= Republish
    /\ sinceTick' = 0
    /\ IF service = "absent" \/ lastUpdate > Watchdog
       THEN /\ service' = IF service = "absent" THEN service ELSE "off"
            /\ UNCHANGED lastUpdate
       ELSE lastUpdate' = 0 /\ UNCHANGED service
    /\ UNCHANGED <<sourceVars, mqttVars, shown, updating, cmds, writes, unattended>>

RepublishAndWatchdog ==
    /\ Free /\ sinceTick >= Republish
    /\ sinceTick' = 0
    /\ service' = IF service # "absent" /\ lastUpdate > Watchdog THEN "off" ELSE service
    /\ UNCHANGED <<sourceVars, mqttVars, shown, lastUpdate, updating, cmds, writes, unattended>>

-----------------------------------------------------------------------------
(* Commands from the console.                                              *)

\* Variant: a channel that grows.
SetValueUnbounded(v) ==
    /\ Controllable /\ service # "absent"
    /\ writes < MaxWrites /\ writes' = writes + 1
    /\ shown' = v /\ lastUpdate' = 0
    /\ cmds' = Append(cmds, v)
    /\ unattended' = 0
    /\ UNCHANGED <<sourceVars, mqttVars, service, updating, sinceTick>>

\* set_value: the state shown changes at once, and the command leaves by a
\* try_send.
SetValue(v) ==
    /\ Controllable /\ service # "absent"
    /\ writes < MaxWrites /\ writes' = writes + 1
    /\ shown' = v /\ lastUpdate' = 0
    /\ cmds' = IF Len(cmds) < CmdCap THEN Append(cmds, v) ELSE cmds
    /\ unattended' = 0
    /\ UNCHANGED <<sourceVars, mqttVars, service, updating, sinceTick>>

\* run_command_forwarder, over a connection of its own, and the relay: one
\* that is away misses its command.
Forward ==
    /\ cmds # <<>>
    /\ cmds' = Tail(cmds)
    /\ device' = IF live THEN Head(cmds) ELSE device
    /\ UNCHANGED <<live, sincePub, mqttVars, serviceVars, sinceTick, writes, unattended>>

-----------------------------------------------------------------------------
\* A second passes.  The source and the manager are not late by more.
Second ==
    /\ live => sincePub < Period
    /\ Free /\ chan = <<>> /\ sinceTick < Republish
    /\ sincePub' = Aged(sincePub, Period)
    /\ lastUpdate' = Aged(lastUpdate, Limit)
    /\ sinceTick' = sinceTick + 1
    /\ unattended' = Aged(unattended, Limit)
    /\ UNCHANGED <<device, live, mqttVars, service, shown, updating, cmds, writes>>

Next ==
    \/ Publish \/ LinkDown \/ LinkUp \/ SourceStops \/ SourceStarts
    \/ HandleEvent \/ Update \/ RepublishAndWatchdog
    \/ \E v \in Relay : SetValue(v)
    \/ Forward
    \/ Second

Spec == Init /\ [][Next]_vars

\* The tasks run and time passes; a service that D-Bus refuses is created
\* at some later message.
FairSpec ==
    /\ Spec
    /\ WF_vars(sincePub = Period /\ Publish) /\ WF_vars(HandleEvent)
    /\ SF_vars(HandleEvent /\ service' # "absent")
    /\ WF_vars(Update) /\ WF_vars(RepublishAndWatchdog) /\ WF_vars(link /\ Forward)
    /\ SF_vars(Second)

-----------------------------------------------------------------------------
TypeOK ==
    /\ device \in Relay /\ live \in BOOLEAN /\ sincePub \in 0..Period
    /\ link \in BOOLEAN /\ retained \in Relay \cup {None}
    /\ chan \in Seq(Relay) /\ Len(chan) <= ChanCap
    /\ service \in {"absent", "off", "on"} /\ shown \in Relay
    /\ lastUpdate \in 0..Limit /\ updating \in Relay \cup {None}
    /\ sinceTick \in 0..Republish
    /\ cmds \in Seq(Relay) /\ Len(cmds) <= CmdCap
    /\ writes \in 0..MaxWrites
    /\ unattended \in 0..Limit

\* A service nobody has heard of for watchdog_sec is seen disconnected at
\* the next republication, whatever came late, was retained or was
\* republished meanwhile.  A command of the console counts as news, as
\* set_value refreshes last_update.
UnattendedDisconnects == unattended = Limit => service # "on"

\* The source publishing and the link being up, the service ends up
\* connected and stays so: no disconnection between two publications.
LiveStaysConnected == <>[](live /\ link) => <>[](service = "on")

\* What the console shows ends up as the state of the relay, through lost
\* commands and optimistic updates overtaken by older messages.
ShownConverges == <>[](live /\ link) => <>[](shown = device)
=============================================================================
