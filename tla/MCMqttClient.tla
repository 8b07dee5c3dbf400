---------------------------- MODULE MCMqttClient ----------------------------
(* Publications are told apart by two values, in the order they come.      *)
EXTENDS MqttClient

MCMessages == {"a", "b"}
=============================================================================
