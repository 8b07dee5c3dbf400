----------------------------- MODULE SampleStore -----------------------------
(***************************************************************************)
(* What a producer of metrics is promised by the metrics store, with no    *)
(* queue, cache, transaction or series identifier in sight.  Samples are   *)
(* numbered in the order in which the store accepted them; the n-th one    *)
(* belongs to the identity sent[n] (a metric with an ordered label list),  *)
(* and identities with the same canonical form are one series.             *)
(*                                                                         *)
(* A sample is in flight until a whole prefix of the samples in flight     *)
(* becomes readable (a batch is committed), is given up (a batch failed)   *)
(* or everything in flight is lost (the process ended).  What is readable  *)
(* stays readable, under the series its producer named.                    *)
(***************************************************************************)
EXTENDS Naturals, Sequences

CONSTANTS Identity,      \* (metric, labels in the producer's order)
          Series,        \* (metric, canonical labels)
          SeriesOf,      \* [Identity -> Series]
          MaxSamples     \* bound on the samples ever accepted

VARIABLES sent,       \* the identities of the accepted samples, in order
          inFlight,   \* numbers of the samples not yet settled, in order
          readable    \* pairs <<series, n>> a reader finds

storeVars == <<sent, inFlight, readable>>

Init == sent = <<>> /\ inFlight = <<>> /\ readable = {}

Accept(i) == /\ Len(sent) < MaxSamples
             /\ sent' = Append(sent, i)
             /\ inFlight' = Append(inFlight, Len(sent) + 1)
             /\ UNCHANGED readable

(* The first k samples in flight leave it, readable or given up.           *)
Settle(k, found) ==
    /\ inFlight' = SubSeq(inFlight, k + 1, Len(inFlight))
    /\ readable' = readable \cup found
    /\ UNCHANGED sent

Persist(k) == Settle(k, {<<SeriesOf[sent[inFlight[j]]], inFlight[j]>> : j \in 1 .. k})

GiveUp(k) == Settle(k, {})

Next == \/ \E i \in Identity : Accept(i)
        \/ \E k \in 1 .. Len(inFlight) : Persist(k) \/ GiveUp(k)

Spec == Init /\ [][Next]_storeVars
=============================================================================
