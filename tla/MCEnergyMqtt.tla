---------------------------- MODULE MCEnergyMqtt ----------------------------
(***************************************************************************)
(* The two halves of the MQTT path of energy-manager, checked in one run:  *)
(* part = "relay" is DeyeRelay over the promise of AppBus, part = "client" *)
(* the tasks of MqttClient that keep it.  The half that is not selected    *)
(* stays in an initial state.                                              *)
(***************************************************************************)
EXTENDS DeyeRelay

CONSTANTS OutCap, ReqCap, Topics, MaxPublished, MaxClientOutages

VARIABLES part, mqttOut, hand, requests, pending, loop, toSubscribe, conn,
          broker, published, clientOutages

MCMessages == RelayMessages
ClientMessages == {"a", "b"}

Client == INSTANCE MqttClient WITH
              Messages <- ClientMessages,
              MaxOutages <- MaxClientOutages,
              outages <- clientOutages

ASSUME ClientBounds == Client!ClientAssumption

clientVars == <<mqttOut, hand, requests, pending, loop, toSubscribe, conn,
                broker, published, clientOutages>>
allVars == <<vars, part, clientVars>>

AllInit == part \in {"relay", "client"} /\ Init /\ Client!Init

AllNext ==
    /\ \/ part = "relay" /\ Next /\ UNCHANGED clientVars
       \/ part = "client" /\ Client!Next /\ UNCHANGED vars
    /\ UNCHANGED part

\* TaskSpec of the one, FairSpec of the other.
AllSpec ==
    /\ AllInit /\ [][AllNext]_allVars
    /\ WF_vars(part = "relay" /\ Start) /\ WF_vars(part = "relay" /\ TrySend)
    /\ WF_vars(part = "relay" /\ Resync)
    /\ WF_clientVars(part = "client" /\ Client!PublisherTakes)
    /\ WF_clientVars(part = "client" /\ Client!PublisherHands)
    /\ WF_clientVars(part = "client" /\ Client!PollSends)
    /\ WF_clientVars(part = "client" /\ conn = "dead" /\ Client!PollLoses)
    /\ WF_clientVars(part = "client" /\ Client!PollFails)
    /\ WF_clientVars(part = "client" /\ Client!PollConnects)
    /\ WF_clientVars(part = "client" /\ Client!Subscribes)
    /\ WF_clientVars(part = "client" /\ Client!PollsAgain)
    /\ WF_clientVars(part = "client" /\ Client!BrokerUp)

\* Both halves keep their types.
MqttTypesOK == TypeOK /\ Client!TypeOK

\* The queues of the client are the one queue AppBus promises.
KeepsPromise == Client!KeepsPromise

\* The client recovers from outages that leave it room to subscribe.
RecoversWithRoom == Client!RecoversWithRoom
=============================================================================
