--------------------------- MODULE MCMetricsWriter ---------------------------
(***************************************************************************)
(* Instances of MetricsWriter for TLC: two series whose fingerprints       *)
(* collide, and a third identity that is the first series with its labels  *)
(* in another order.                                                       *)
(***************************************************************************)
EXTENDS MetricsWriter

CONSTANTS ab, ba, other, sAB, sOther, f1, f2

MCSeries == {sAB, sOther}
MCPrints == {f1, f2}

MCColliding == {ab, other}
MCCollidingSeries == [i \in MCColliding |-> IF i = other THEN sOther ELSE sAB]
MCCollidingPrint  == [i \in MCColliding |-> f1]

MCReordered == {ab, ba}
MCReorderedSeries == [i \in MCReordered |-> sAB]
MCReorderedPrint  == [i \in MCReordered |-> IF i = ba THEN f2 ELSE f1]
=============================================================================
