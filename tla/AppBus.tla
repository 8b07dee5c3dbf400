------------------------------- MODULE AppBus -------------------------------
(***************************************************************************)
(* energy-manager, bus.rs and mqtt/client.rs: what the modules of the      *)
(* process may expect of publish().  It never waits: a message is dropped  *)
(* when the channel behind it is full.  What was accepted is delivered in  *)
(* order (every message has QoS 1), possibly twice around the loss of a    *)
(* connection, and not at all if the broker has forgotten the session.     *)
(*                                                                         *)
(* MqttClient is shown to keep this promise; modules that extend this one  *)
(* say what a delivered message does.                                      *)
(***************************************************************************)
EXTENDS Integers, Sequences

CONSTANTS
    Messages,       \* what this process publishes
    Slots,          \* MQTT_OUT_CAPACITY
    Capacity,       \* bound: messages accepted and not delivered
    MaxOutages      \* bound: connections lost

ASSUME BusAssumption ==
    /\ Slots \in Nat \ {0} /\ Capacity \in Nat /\ Slots <= Capacity
    /\ MaxOutages \in Nat

VARIABLES
    outQ,           \* messages accepted and not yet acknowledged
    link,           \* whether the client is connected to the broker
    outages         \* connections lost so far

busVars == <<outQ, link, outages>>

BusTypeOK ==
    /\ outQ \in Seq(Messages) /\ Len(outQ) <= Capacity
    /\ link \in BOOLEAN
    /\ outages \in 0..MaxOutages

BusInit == outQ = <<>> /\ link = FALSE /\ outages = 0

Accepted(m) ==
    /\ Len(outQ) < Capacity
    /\ outQ' = Append(outQ, m)
    /\ UNCHANGED <<link, outages>>

\* Only a full channel drops a message; the queues behind it may be longer.
Dropped(m) ==
    /\ Len(outQ) >= Slots
    /\ UNCHANGED busVars

\* Variant: send().await, which waits for a free slot.
PublishWaits(m) == Accepted(m)

\* Variant: an unbounded channel.
PublishUnbounded(m) ==
    /\ Len(outQ) <= Capacity
    /\ outQ' = Append(outQ, m)
    /\ UNCHANGED <<link, outages>>

\* AppBus::publish.
Publish(m) == Accepted(m) \/ Dropped(m)

\* The broker acknowledges the first message.
Acknowledged ==
    /\ link /\ outQ # <<>>
    /\ outQ' = Tail(outQ)
    /\ UNCHANGED <<link, outages>>

LinkLost ==
    /\ link /\ outages < MaxOutages
    /\ link' = FALSE
    /\ outages' = outages + 1
    /\ UNCHANGED outQ

\* Variant: what is sent again goes behind what was queued meanwhile.
UnacknowledgedRequeued ==
    /\ link /\ outQ # <<>> /\ outages < MaxOutages
    /\ link' = FALSE
    /\ outages' = outages + 1
    /\ outQ' = Append(Tail(outQ), Head(outQ))

\* The broker has received the first message, but the connection ends before
\* its acknowledgement: the client sends it again after it reconnects.
Unacknowledged == outQ # <<>> /\ LinkLost

\* The connection is back; if the broker has forgotten the session, what was
\* handed to the old connection is forgotten too.
LinkBack(forgotten) ==
    /\ ~link
    /\ forgotten > 0 => outages > 0
    /\ link' = TRUE
    /\ outQ' = SubSeq(outQ, forgotten + 1, Len(outQ))
    /\ UNCHANGED outages

\* The end of the process takes the queues with it.
BusRestart ==
    /\ outQ' = <<>>
    /\ link' = FALSE
    /\ UNCHANGED outages

BusNext ==
    \/ \E m \in Messages : Publish(m)
    \/ Acknowledged
    \/ LinkLost
    \/ \E forgotten \in 0..Len(outQ) : LinkBack(forgotten)

BusSpec == BusInit /\ [][BusNext]_busVars
=============================================================================
