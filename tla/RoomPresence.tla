---------------------------- MODULE RoomPresence ----------------------------
(***************************************************************************)
(* An air conditioner is set to ECO as soon as its room is reported empty, *)
(* switched off when it has been for off_after_secs, and on again when     *)
(* somebody comes back.  The bridge of the sensor (aqara-fp2-mqtt) reports *)
(* changes, and repeats what it reported last with a heartbeat; the        *)
(* control of energy-manager (logic/toshiba_ac) counts the absence from    *)
(* the last report of a presence, decides each second, and publishes a     *)
(* command only when its action changes.                                   *)
(*                                                                         *)
(* The unit of time is the loop of the bridge, 30 s.  One zone: zones      *)
(* share nothing but the channel.  The commands set only the fields they   *)
(* name, and nobody else sets these.                                       *)
(***************************************************************************)
EXTENDS Integers, Sequences

CONSTANTS
    Slots, Capacity, MaxOutages,    \* of AppBus
    Heartbeat,              \* heartbeat_secs of the bridge
    EcoAfter, OffAfter,     \* eco_after_secs <= off_after_secs
    MaxRestarts             \* bound: ends of the process

VARIABLES
    occupied,       \* whether somebody is in the room
    emptyFor,       \* the age of the last presence
    reported,       \* PresenceTracker: what was reported last, and its age
    zone,           \* ZonePresence: present, age of last_seen_present, action
    outQ, link, outages,
    aircon,         \* power and preset of the unit
    restarts,
    lastMissed      \* history: the last command was dropped

presenceVars == <<occupied, emptyFor, reported, zone, outQ, link, outages,
                  aircon, restarts, lastMissed>>

PresenceAction == {"Occupied", "Eco", "Off"}

Bus == INSTANCE AppBus WITH Messages <- PresenceAction

PresenceAssumption ==
    /\ Bus!BusAssumption
    /\ Heartbeat \in Nat \ {0} /\ EcoAfter \in Nat /\ OffAfter \in Nat
    /\ EcoAfter <= OffAfter /\ MaxRestarts \in Nat

Aged(age) == IF age > OffAfter THEN age ELSE age + 1

\* Before the first report of the zone.
Unknown == [known |-> FALSE, present |-> FALSE, absent |-> 0, action |-> "none"]

Airconditioners == [power : BOOLEAN, preset : {"standard", "eco"}]

PresenceInit ==
    /\ occupied \in BOOLEAN /\ emptyFor = IF occupied THEN 0 ELSE OffAfter
    /\ reported = [present |-> occupied, age |-> 0]
    /\ zone = Unknown
    /\ Bus!BusInit
    /\ aircon \in Airconditioners
    /\ restarts = 0 /\ lastMissed = FALSE

-----------------------------------------------------------------------------
\* Variant: an anchor for each absence and each presence, not each report.
AnchorOnChange(z, present) ==
    [z EXCEPT !.known = TRUE, !.present = present,
              !.absent = IF ~z.known \/ (present /\ ~z.present) THEN 0 ELSE @]

\* on_presence: the first report sets the anchor, and later ones only when
\* somebody is there.
OnPresence(z, present) ==
    [z EXCEPT !.known = TRUE, !.present = present,
              !.absent = IF present \/ ~z.known THEN 0 ELSE @]

\* PresenceTracker::update at an age of the last report, for a zone z: a report
\* is retained and heard at once by a control that is connected.  The loop may
\* be some milliseconds ahead of the heartbeat, and miss it once.
Report(present, age, z) ==
    \/ /\ reported.present # present \/ age >= Heartbeat
       /\ reported' = [present |-> present, age |-> 0]
       /\ zone' = IF link THEN OnPresence(z, present) ELSE z
    \/ /\ reported.present = present /\ age <= Heartbeat
       /\ reported' = [reported EXCEPT !.age = age]
       /\ zone' = z

\* An event of the sensor.
ComeOrGo ==
    /\ occupied' = ~occupied
    /\ emptyFor' = 0
    /\ Report(occupied', reported.age, zone)
    /\ UNCHANGED <<outQ, link, outages, aircon, restarts, lastMissed>>

\* 30 s: the loop of the bridge.
Beat ==
    /\ emptyFor' = IF occupied THEN 0 ELSE Aged(emptyFor)
    /\ Report(occupied, reported.age + 1, [zone EXCEPT !.absent = Aged(@)])
    /\ UNCHANGED <<occupied, outQ, link, outages, aircon, restarts, lastMissed>>

\* decide_presence.
Decide(present, absent) ==
    IF present THEN "Occupied"
    ELSE IF absent >= OffAfter THEN "Off"
    ELSE IF absent >= EcoAfter THEN "Eco" ELSE "Occupied"

\* PresenceControl::evaluate, and the publication of a new action.
EvaluatePresence ==
    /\ zone.known
    /\ LET action == Decide(zone.present, zone.absent) IN
         /\ action # zone.action
         /\ zone' = [zone EXCEPT !.action = action]
         /\ Bus!Publish(action)
    /\ lastMissed' = (outQ' = outQ)
    /\ UNCHANGED <<occupied, emptyFor, reported, aircon, restarts>>

-----------------------------------------------------------------------------
\* presence_command_json, as the unit takes it.
Applied(action) ==
    CASE action = "Occupied" -> [power |-> TRUE, preset |-> "standard"]
      [] action = "Eco" -> [aircon EXCEPT !.preset = "eco"]
      [] action = "Off" -> [aircon EXCEPT !.power = FALSE]

UnitTakes ==
    /\ Bus!Acknowledged \/ Bus!Unacknowledged
    /\ aircon' = Applied(Head(outQ))
    /\ UNCHANGED <<occupied, emptyFor, reported, zone, restarts, lastMissed>>

PresenceLinkLost ==
    /\ outQ = <<>> /\ Bus!LinkLost
    /\ UNCHANGED <<occupied, emptyFor, reported, zone, aircon, restarts, lastMissed>>

\* The subscription brings the retained report.
PresenceLinkBack ==
    /\ \E forgotten \in 0..Len(outQ) : Bus!LinkBack(forgotten)
    /\ zone' = OnPresence(zone, reported.present)
    /\ lastMissed' = (lastMissed \/ (outQ # <<>> /\ outQ' = <<>>))
    /\ UNCHANGED <<occupied, emptyFor, reported, aircon, restarts>>

PresenceRestart ==
    /\ restarts < MaxRestarts
    /\ restarts' = restarts + 1
    /\ zone' = Unknown
    /\ Bus!BusRestart
    /\ UNCHANGED <<occupied, emptyFor, reported, aircon, lastMissed>>

PresenceNext ==
    \/ ComeOrGo \/ Beat \/ EvaluatePresence
    \/ UnitTakes \/ PresenceLinkLost \/ PresenceLinkBack \/ PresenceRestart

PresenceSpec == PresenceInit /\ [][PresenceNext]_presenceVars

-----------------------------------------------------------------------------
PresenceTypesOK ==
    /\ emptyFor \in 0..(OffAfter + 1)
    /\ reported \in [present : BOOLEAN, age : 0..Heartbeat]
    /\ zone \in [known : BOOLEAN, present : BOOLEAN, absent : 0..(OffAfter + 1),
                 action : PresenceAction \cup {"none"}]
    /\ Bus!BusTypeOK
    /\ aircon \in Airconditioners

\* Once its last command is delivered, and unless that one was lost, the unit
\* does what was decided for the room, though each command names only some of
\* the fields.
AirconAsDecided ==
    zone.action # "none" /\ outQ = <<>> /\ ~lastMissed =>
        /\ zone.action = "Occupied" => aircon.power /\ aircon.preset = "standard"
        /\ zone.action = "Eco" => aircon.preset = "eco"
        /\ zone.action = "Off" => ~aircon.power

\* "OFF apres 5 min d'absence" (docs/toshiba-suzumi-rs-plan.md): as the
\* absence is counted from the last report, the unit may be switched off a
\* heartbeat too early, but no earlier while the connection holds.
NotOffTooSoon ==
    zone.known /\ Decide(zone.present, zone.absent) = "Off" /\ outages = 0 =>
        ~occupied /\ emptyFor + Heartbeat >= OffAfter
=============================================================================
