---------------------------- MODULE MCDeyeRelay -----------------------------
(* Two DEYE, each on its channel of the Shelly, symmetric but for the order *)
(* in which they are commanded.                                            *)
EXTENDS DeyeRelay

MCMessages == RelayMessages
=============================================================================
