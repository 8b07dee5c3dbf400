------------------------------- MODULE Sifting -------------------------------
(***************************************************************************)
(* A sequence without the elements equal to x, in the same order: the      *)
(* samples of a queue that also holds a sentinel, the publications of a    *)
(* channel that also holds subscriptions.  It is SelectSeq for one test,   *)
(* written as a recursive function because the proofs (SiftingProofs)      *)
(* unfold its recursion, which those of the library keep closed.           *)
(***************************************************************************)
EXTENDS Naturals, Sequences

Sifted(s, x) ==
    LET kept[n \in 0 .. Len(s)] ==
            IF n = 0 THEN <<>>
            ELSE IF s[n] = x THEN kept[n - 1] ELSE Append(kept[n - 1], s[n])
    IN  kept[Len(s)]
=============================================================================
