----------------------------- MODULE MqttClient -----------------------------
(***************************************************************************)
(* energy-manager, mqtt/client.rs: the publisher task and the event-loop   *)
(* task around a rumqttc client, between AppBus's channel and the broker.  *)
(*                                                                         *)
(* rumqttc (version 0.25.1 in Cargo.lock) hands requests to the event loop *)
(* over a bounded channel, the second argument of AsyncClient::new; both   *)
(* publish() and subscribe() wait for a free slot of it.  It is emptied by *)
(* eventloop.poll() alone: one request after the other while connected,    *)
(* and all at once, to be sent again, when poll() returns the error of a   *)
(* connection that ended.                                                  *)
(***************************************************************************)
EXTENDS Integers, Sequences, Sifting

CONSTANTS
    Messages,       \* what the process publishes
    OutCap,         \* MQTT_OUT_CAPACITY, slots of the mpsc channel
    ReqCap,         \* slots of rumqttc's request channel
    Topics,         \* how many topics a connection subscribes to
    MaxPublished,   \* bound: calls of publish
    MaxOutages      \* bound: connections lost

ClientAssumption ==
    /\ OutCap \in Nat \ {0} /\ ReqCap \in Nat \ {0} /\ Topics \in Nat
    /\ MaxPublished \in Nat /\ MaxOutages \in Nat

VARIABLES
    mqttOut,        \* AppBus's mpsc channel
    hand,           \* the message the publisher task holds, a sequence
    requests,       \* rumqttc's request channel
    pending,        \* requests kept by rumqttc from lost connections
    loop,           \* what the event-loop task awaits
    toSubscribe,    \* topics it has still to subscribe to
    conn,           \* rumqttc's connection; "dead" until poll() notices
    broker,         \* the broker is up
    published, outages

queues == <<mqttOut, hand, requests, pending>>
vars == <<queues, loop, toSubscribe, conn, broker, published, outages>>

Subscription == "subscribe"

Init ==
    /\ mqttOut = <<>> /\ hand = <<>> /\ requests = <<>> /\ pending = <<>>
    /\ loop = "poll" /\ toSubscribe = 0
    /\ conn = "none" /\ broker = FALSE
    /\ published = 0 /\ outages = 0

\* AppBus::publish, from any task: a try_send.
Publish(m) ==
    /\ published < MaxPublished
    /\ published' = published + 1
    /\ mqttOut' = IF Len(mqttOut) < OutCap THEN Append(mqttOut, m) ELSE mqttOut
    /\ UNCHANGED <<hand, requests, pending, loop, toSubscribe, conn, broker, outages>>

-----------------------------------------------------------------------------
(* The publisher task: recv().await, then publish().await.                 *)

PublisherTakes ==
    /\ hand = <<>> /\ mqttOut # <<>>
    /\ hand' = <<Head(mqttOut)>>
    /\ mqttOut' = Tail(mqttOut)
    /\ UNCHANGED <<requests, pending, loop, toSubscribe, conn, broker, published, outages>>

\* Variant: the publisher takes the next message before the last one has a
\* slot, and the last one is sent after it.
PublisherOvertakes ==
    /\ hand # <<>> /\ Len(requests) < ReqCap
    /\ IF mqttOut # <<>>
       THEN /\ requests' = Append(requests, Head(mqttOut))
            /\ mqttOut' = Tail(mqttOut)
            /\ UNCHANGED hand
       ELSE /\ requests' = requests \o hand
            /\ hand' = <<>>
            /\ UNCHANGED mqttOut
    /\ UNCHANGED <<pending, loop, toSubscribe, conn, broker, published, outages>>

PublisherHands ==
    /\ hand # <<>> /\ Len(requests) < ReqCap
    /\ requests' = requests \o hand
    /\ hand' = <<>>
    /\ UNCHANGED <<mqttOut, pending, loop, toSubscribe, conn, broker, published, outages>>

-----------------------------------------------------------------------------
(* The event-loop task, in eventloop.poll().await.                         *)

\* A request goes to the broker and is acknowledged: first what was kept
\* from earlier connections, then the channel.
PollSends ==
    /\ loop = "poll" /\ conn = "up"
    /\ \/ /\ pending # <<>>
          /\ pending' = Tail(pending)
          /\ UNCHANGED requests
       \/ /\ pending = <<>> /\ requests # <<>>
          /\ requests' = Tail(requests)
          /\ UNCHANGED pending
    /\ UNCHANGED <<mqttOut, hand, loop, toSubscribe, conn, broker, published, outages>>

\* The connection has ended: rumqttc keeps what is unacknowledged and what is
\* in the channel, poll() returns the error, and the task sleeps for
\* reconnect_delay_secs.
PollLoses ==
    /\ loop = "poll" /\ conn # "none" /\ outages < MaxOutages
    /\ conn' = "none"
    /\ outages' = outages + 1
    /\ pending' = pending \o requests
    /\ requests' = <<>>
    /\ loop' = "sleep"
    /\ UNCHANGED <<mqttOut, hand, toSubscribe, broker, published>>

\* No connection and no broker: poll() returns the error of connect.
PollFails ==
    /\ loop = "poll" /\ conn = "none" /\ ~broker
    /\ loop' = "sleep"
    /\ UNCHANGED <<queues, toSubscribe, conn, broker, published, outages>>

\* poll() returns ConnAck; a broker that has no session for this client makes
\* rumqttc forget what it had kept.
PollConnects ==
    /\ loop = "poll" /\ conn = "none" /\ broker
    /\ conn' = "up"
    /\ pending' \in {pending, <<>>}
    /\ loop' = "subscribe" /\ toSubscribe' = Topics
    /\ UNCHANGED <<mqttOut, hand, requests, broker, published, outages>>

\* Variant: subscribing does not wait for a slot.
SubscribesAnyway ==
    /\ loop = "subscribe" /\ toSubscribe > 0
    /\ requests' = Append(requests, Subscription)
    /\ toSubscribe' = toSubscribe - 1
    /\ UNCHANGED <<mqttOut, hand, pending, loop, conn, broker, published, outages>>

\* client.subscribe(t).await, in the arm of ConnAck: the task is not polling
\* while it waits for a slot.
Subscribes ==
    /\ loop = "subscribe" /\ toSubscribe > 0
    /\ Len(requests) < ReqCap
    /\ requests' = Append(requests, Subscription)
    /\ toSubscribe' = toSubscribe - 1
    /\ UNCHANGED <<mqttOut, hand, pending, loop, conn, broker, published, outages>>

\* Variant: an error of poll() ends the loop.
PollsAfterConnAck ==
    /\ loop = "subscribe" /\ toSubscribe = 0
    /\ loop' = "poll"
    /\ UNCHANGED <<queues, toSubscribe, conn, broker, published, outages>>

PollsAgain ==
    /\ \/ loop = "subscribe" /\ toSubscribe = 0
       \/ loop = "sleep"
    /\ loop' = "poll"
    /\ UNCHANGED <<queues, toSubscribe, conn, broker, published, outages>>

EventLoop == PollSends \/ PollLoses \/ PollFails \/ PollConnects \/ Subscribes \/ PollsAgain

\* The broker starts, stops and restarts; a connection it has broken is only
\* noticed by poll().
BrokerUp ==
    /\ ~broker /\ broker' = TRUE
    /\ UNCHANGED <<queues, loop, toSubscribe, conn, published, outages>>

BrokerDown ==
    /\ broker /\ outages < MaxOutages
    /\ broker' = FALSE
    /\ conn' = IF conn = "up" THEN "dead" ELSE conn
    /\ UNCHANGED <<queues, loop, toSubscribe, published, outages>>

Next ==
    \/ \E m \in Messages : Publish(m)
    \/ PublisherTakes \/ PublisherHands
    \/ EventLoop
    \/ BrokerUp \/ BrokerDown

Spec == Init /\ [][Next]_vars

\* Both tasks run, and the broker comes back.
FairSpec ==
    /\ Spec
    /\ WF_vars(PublisherTakes) /\ WF_vars(PublisherHands)
    /\ WF_vars(PollSends) /\ WF_vars(conn = "dead" /\ PollLoses)
    /\ WF_vars(PollFails) /\ WF_vars(PollConnects)
    /\ WF_vars(Subscribes) /\ WF_vars(PollsAgain) /\ WF_vars(BrokerUp)

-----------------------------------------------------------------------------
TypeOK ==
    /\ mqttOut \in Seq(Messages) /\ Len(mqttOut) <= OutCap
    /\ hand \in Seq(Messages) /\ Len(hand) <= 1
    /\ requests \in Seq(Messages \cup {Subscription}) /\ Len(requests) <= ReqCap
    /\ pending \in Seq(Messages \cup {Subscription})
    /\ loop \in {"poll", "subscribe", "sleep"} /\ toSubscribe \in 0..Topics
    /\ conn \in {"none", "up", "dead"} /\ broker \in BOOLEAN
    /\ published \in 0..MaxPublished /\ outages \in 0..MaxOutages

\* What AppBus promises its callers: the messages of the four queues, in
\* this order, are one queue that loses nothing but to a full channel or a
\* forgotten session, and never reorders (bus.rs, AppBus::publish).
Bus == INSTANCE AppBus WITH
           outQ <- Sifted(pending \o requests, Subscription) \o hand \o mqttOut,
           link <- conn # "none",
           Slots <- OutCap,
           Capacity <- OutCap + MaxPublished
KeepsPromise == Bus!BusSpec

\* Once the broker is up for good, the process talks to it again and what
\* it still holds gets out (bus.rs:67-68: telemetry is lost with the broker,
\* but the resync re-asserts the relay state on recovery).
Recovers ==
    <>[]broker => <>[](/\ loop = "poll" /\ conn = "up"
                       /\ mqttOut \o hand \o requests \o pending = <<>>)

\* The same, as long as the event loop always finds a slot for the next topic
\* it subscribes to, after every outage and against the publisher task.
RecoversWithRoom ==
    [](toSubscribe > 0 => Len(requests) < ReqCap) => Recovers
=============================================================================
