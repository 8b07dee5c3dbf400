------------------------------ MODULE MCTiering ------------------------------
(***************************************************************************)
(* Instances of Tiering for TLC: hours of two units and days of four, so   *)
(* that cutoffs fall inside an hour and hours straddle two passes.  The    *)
(* values go up and down, so that first, last, min and max all differ.     *)
(***************************************************************************)
EXTENDS Tiering

CONSTANTS s1, s2

MCValueOf == [ts \in 0 .. MaxTime |-> ((ts * 5) % 7) - 2]
MCOneSeries == {s1}
MCTwoSeries == {s1, s2}
=============================================================================
