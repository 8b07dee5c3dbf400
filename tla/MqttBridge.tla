----------------------------- MODULE MqttBridge -----------------------------
(***************************************************************************)
(* The MQTT bridge of daly-bms-server (bridges/mqtt.rs), in both           *)
(* directions.  At every tick the last snapshot of each polled device is   *)
(* published under its topics, most of them retained; and the server takes *)
(* what energy-manager publishes of what Victron told it.                  *)
(*                                                                         *)
(* A value is known by the number of the snapshot or message it comes      *)
(* from, 0 where there is none.  One device, or the topics of one subject, *)
(* are looked at.                                                          *)
(***************************************************************************)
EXTENDS Integers, SequencesExt

CONSTANTS
    Devices, Subjects,  \* those looked at, of TopicsOf and EmTopics
    EventloopCap,       \* EVENTLOOP_CAP
    MaxReadings, MaxTicks, MaxMessages, MaxRestarts   \* bounds

VARIABLES
    device,     \* the topics of the device
    readings,   \* snapshots of it so far
    latest,     \* the latest one in the state of the server
    tick,       \* what this tick has still to publish
    queue,      \* requests of the client
    retained,   \* of the device, by the broker
    ticks,
    upTo,       \* history: the snapshot of this tick
    disturbed,  \* history: a message was lost, or the server ended, since it began
    topics,     \* the topics of the subject
    known,      \* the values energy-manager knows of it
    published,  \* messages so far
    broker,     \* the retained messages of the subject
    inbox,      \* messages on their way to the server
    shown,      \* what the server shows, by field
    restarts

bridgeVars == <<device, readings, latest, tick, queue, retained, ticks, upTo, disturbed,
                topics, known, published, broker, inbox, shown, restarts>>
publisherVars == <<device, readings, latest, tick, queue, retained, ticks, upTo, disturbed>>
subscriberVars == <<topics, known, published, broker, inbox, shown>>

-----------------------------------------------------------------------------
(* What is published of a device, in order.                                *)

Retained(name) == [name |-> name, retain |-> TRUE]
Live(name) == [name |-> name, retain |-> FALSE]

publish_snapshot == <<Live("scalars"), Retained("status"), Live("cells"),
                      Live("alarms"), Retained("venus")>>
publish_et112 == <<Retained("venus"), Retained("scalars")>>
publish_irradiance == <<Retained("raw")>>
publish_ats == <<Retained("venus"), Retained("scalars")>>
publish_tasmota_scalars == <<Retained("scalars")>>
publish_tasmota_snapshot == <<Retained("venus")>>   \* with an mqtt_index

TopicsOf(d) ==
    CASE d = "bms" -> publish_snapshot [] d = "et112" -> publish_et112
      [] d = "irradiance" -> publish_irradiance [] d = "ats" -> publish_ats
      [] d = "tasmota" -> publish_tasmota_scalars \o publish_tasmota_snapshot
      [] OTHER -> publish_tasmota_scalars

(* What energy-manager publishes: values that every message has, those     *)
(* that it has when they are known; and how the server takes it: which     *)
(* value it must have, and which it keeps when they lack.  The yield of    *)
(* the day is set from two topics: the meteo message sums that of the      *)
(* chargers, the solar one brings the total.                               *)

Topic(always, optional, retain, needs, keeps) ==
    [always |-> always, optional |-> optional, retain |-> retain, needs |-> needs, keeps |-> keeps]

Meteo == Topic({}, {"chargers", "yield"}, TRUE, {}, {"yield"})
Temperature == Topic({}, {"temperature", "humidity"}, TRUE, {"temperature"}, {})
System == Topic({}, {"soc", "current"}, TRUE, {"soc"}, {})
Heatpump == Topic({"state", "position"}, {"temperatures"}, TRUE, {}, {"state", "position", "temperatures"})
Inverter == Topic({"state", "mode"}, {"dc", "ac"}, TRUE, {}, {})
Solar == Topic({"yield", "powers"}, {}, FALSE, {}, {"yield", "powers"})

EmTopics(subject) ==
    CASE subject = "solar" -> [meteo |-> Meteo, solar |-> Solar]
      [] subject = "heat" -> [heat |-> Temperature]
      [] subject = "system" -> [system |-> System]
      [] subject = "heatpump" -> [heatpump |-> Heatpump]
      [] OTHER -> [inverter |-> Inverter]

BridgeAssumption == EventloopCap \in Nat /\ MaxMessages \in Nat

Fields(t) == topics[t].always \cup topics[t].optional
AllFields == UNION {Fields(t) : t \in DOMAIN topics}
NoState == [f \in AllFields |-> 0]

\* A field that the messages of two topics set.
Shared(f) == \E t, u \in DOMAIN topics : t # u /\ f \in Fields(t) \cap Fields(u)

-----------------------------------------------------------------------------
\* A message; as in MQTT, retain says that it is one the broker kept.
Message(t, n, has) == [topic |-> t, n |-> n, has |-> has, retain |-> FALSE]
Nothing == Message("none", 0, {})

BridgeInit ==
    /\ \/ device \in {TopicsOf(d) : d \in Devices} /\ topics = <<>>
       \/ device = <<>> /\ topics \in {EmTopics(s) : s \in Subjects}
    /\ readings = 0 /\ latest = 0 /\ tick = <<>> /\ queue = <<>> /\ ticks = 0
    /\ retained = [t \in {m.name : m \in {m \in ToSet(device) : m.retain}} |-> 0]
    /\ upTo = 0 /\ disturbed = FALSE
    /\ known = {} /\ published = 0
    /\ broker = [t \in {t \in DOMAIN topics : topics[t].retain} |-> Nothing]
    /\ inbox = <<>> /\ shown = NoState /\ restarts = 0

\* A snapshot of the device reaches the state.
Snapshot ==
    /\ device # <<>> /\ readings < MaxReadings
    /\ readings' = readings + 1 /\ latest' = readings + 1
    /\ UNCHANGED <<device, tick, queue, retained, ticks, upTo, disturbed,
                   subscriberVars, restarts>>

\* Variant: a snapshot is published once.
TickOnChange ==
    /\ device # <<>> /\ tick = <<>> /\ ticks < MaxTicks
    /\ ticks' = ticks + 1
    /\ tick' = IF latest = upTo THEN <<>> ELSE device
    /\ upTo' = latest /\ disturbed' = FALSE
    /\ UNCHANGED <<device, readings, latest, queue, retained, subscriberVars, restarts>>

\* The loop of run_mqtt_bridge: the latest snapshot, whether or not it is new.
Tick ==
    /\ device # <<>> /\ tick = <<>> /\ ticks < MaxTicks
    /\ ticks' = ticks + 1
    /\ tick' = IF latest = 0 THEN <<>> ELSE device
    /\ upTo' = latest /\ disturbed' = FALSE
    /\ UNCHANGED <<device, readings, latest, queue, retained, subscriberVars, restarts>>

\* One topic after the other is handed to the client, with room in its queue.
Publish ==
    /\ tick # <<>> /\ Len(queue) < EventloopCap
    /\ queue' = Append(queue, [topic |-> Head(tick), n |-> upTo])
    /\ tick' = Tail(tick)
    /\ UNCHANGED <<device, readings, latest, retained, ticks, upTo, disturbed, subscriberVars, restarts>>

\* The event loop sends the next request; at QoS 0 it may be lost.
Transmit ==
    /\ queue # <<>>
    /\ queue' = Tail(queue)
    /\ LET m == Head(queue)
       IN  \/ /\ retained' = IF m.topic.retain THEN [retained EXCEPT ![m.topic.name] = m.n]
                                                ELSE retained
              /\ UNCHANGED disturbed
           \/ disturbed' = TRUE /\ UNCHANGED retained
    /\ UNCHANGED <<device, readings, latest, tick, ticks, upTo, subscriberVars, restarts>>

-----------------------------------------------------------------------------
\* Victron tells energy-manager of something.
EmLearns ==
    /\ \E f \in UNION {topics[t].optional : t \in DOMAIN topics} \ known :
          known' = known \cup {f}
    /\ UNCHANGED <<publisherVars, topics, published, broker, inbox, shown, restarts>>

\* publish_all, publish_state, publish_to_venus and writer_task: everything
\* that is known.  At QoS 0 the server may miss a message.
EmPublishes(t) ==
    LET m == Message(t, published + 1, topics[t].always \cup (topics[t].optional \cap known))
    IN  /\ published < MaxMessages /\ published' = published + 1
        /\ broker' = IF topics[t].retain THEN [broker EXCEPT ![t] = [m EXCEPT !.retain = TRUE]]
                                      ELSE broker
        /\ inbox' \in {inbox, Append(inbox, m)}
        /\ UNCHANGED <<publisherVars, topics, known, shown, restarts>>

\* Variant: a value that lacks is taken for one that is 0.
TakenAnew(m) ==
    [f \in AllFields |-> IF f \in m.has THEN m.n ELSE IF f \in Fields(m.topic) THEN 0 ELSE shown[f]]

Taken(m) ==
    [f \in AllFields |-> CASE f \in m.has -> m.n
                           [] f \in Fields(m.topic) \ topics[m.topic].keeps -> 0
                           [] OTHER -> shown[f]]

\* The handlers of start_venus_mqtt_subscriber.
Handle ==
    LET m == Head(inbox)
    IN  /\ inbox # <<>>
        /\ inbox' = Tail(inbox)
        /\ shown' = IF topics[m.topic].needs \subseteq m.has
                    THEN Taken(m) ELSE shown
        /\ UNCHANGED <<publisherVars, topics, known, published, broker, restarts>>

\* Each connection subscribes anew, the first one twice, and brings what is
\* retained; what was on its way is lost.
Connects ==
    LET kept == SetToSeq({broker[t] : t \in DOMAIN broker} \ {Nothing})
    IN  /\ topics # <<>>
        /\ inbox' \in {kept, kept \o kept}
        /\ UNCHANGED <<publisherVars, topics, known, published, broker, shown, restarts>>

EmRestarts ==
    /\ topics # <<>> /\ restarts < MaxRestarts /\ restarts' = restarts + 1
    /\ known' = {}
    /\ UNCHANGED <<publisherVars, topics, published, broker, inbox, shown>>

ServerRestarts ==
    /\ restarts < MaxRestarts /\ restarts' = restarts + 1
    /\ latest' = 0 /\ tick' = <<>> /\ queue' = <<>> /\ upTo' = 0 /\ disturbed' = TRUE
    /\ inbox' = <<>> /\ shown' = NoState
    /\ UNCHANGED <<device, readings, retained, ticks, topics, known, published, broker>>

BridgeNext ==
    \/ Snapshot \/ Tick \/ Publish \/ Transmit
    \/ EmLearns \/ Handle \/ Connects \/ EmRestarts \/ ServerRestarts
    \/ \E t \in DOMAIN topics : EmPublishes(t)

BridgeSpec == BridgeInit /\ [][BridgeNext]_bridgeVars

-----------------------------------------------------------------------------
BridgeTypesOK ==
    /\ Len(queue) <= EventloopCap /\ Len(tick) <= Len(device)
    /\ \A t \in DOMAIN retained : retained[t] \in 0..readings
    /\ latest \in 0..readings /\ upTo \in 0..latest /\ disturbed \in BOOLEAN
    /\ published \in 0..MaxMessages
    /\ \A f \in AllFields : shown[f] \in 0..published

\* What field f shows comes from a newer message, or is gone with the message
\* that sets it and lacks it.
NewerOrGone(f) ==
    \/ shown'[f] >= shown[f]
    \/ shown'[f] = 0 /\ \E t \in DOMAIN topics : f \in Fields(t) \ topics[t].keeps

\* What the broker keeps of a device never goes back to an older snapshot,
\* over losses and restarts, and after a tick of which nothing was lost all
\* its topics tell of the latest one of its beginning.  What the server shows
\* never goes back to an older message either, retained messages that come
\* again included, but for a field that two topics set: the yield of the day
\* takes, at a reconnection, the one of the retained meteo message over a
\* newer one of the solar message, and it alone, and only from a retained
\* message.  Of the heat pump no value that is shown is lost when
\* energy-manager starts anew and no longer knows it ("missing fields in this
\* MQTT message keep their last known value").
NothingOlder ==
    [][ /\ \A t \in DOMAIN retained :
              /\ retained'[t] >= retained[t]
              /\ tick' = <<>> /\ queue' = <<>> /\ ~disturbed' /\ upTo' # 0 => retained'[t] = upTo'
        /\ \A f \in AllFields :
              shown' # shown /\ shown' # NoState =>
                 NewerOrGone(f) \/ (Shared(f) /\ Head(inbox).retain) ]_bridgeVars
=============================================================================
