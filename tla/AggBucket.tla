------------------------------ MODULE AggBucket ------------------------------
(***************************************************************************)
(* AggBucketBuilder and bucket_floor of crates/metrics-store (tiering.rs): *)
(* how raw points and smaller buckets are folded into one bucket.  Values  *)
(* are integers; avg is sum / cnt and is left out.                         *)
(*                                                                         *)
(* The field from is a history: the timestamps of the raw points folded    *)
(* into the bucket, however often.  The code does not keep it.             *)
(***************************************************************************)
EXTENDS Integers, FiniteSets, FiniteSetsExt

CONSTANTS Hour,      \* HOURLY_MS, in units of the model
          Day,       \* DAILY_MS
          ValueOf    \* the value of the sample taken at a given time

ASSUME BucketAssumption == /\ Hour \in Nat \ {0}
                           /\ Day \in Nat \ {0}
                           /\ Day % Hour = 0

Floor(ts, width) == (ts \div width) * width

(* AggBucketBuilder::default                                               *)
NewBuilder == [cnt |-> 0, sum |-> 0, min |-> 0, max |-> 0,
               firstTs |-> 0, first |-> 0, lastTs |-> 0, last |-> 0, from |-> {}]

Smaller(a, b) == IF b < a THEN b ELSE a
Larger(a, b)  == IF b > a THEN b ELSE a

(* Variant: the minimum starts from the default 0 of the builder.          *)
AbsorbMinFromZero(b, agg, ts) ==
    LET starts == b.cnt = 0 \/ ts < b.firstTs
        ends   == b.cnt = 0 \/ ts > b.lastTs
    IN  [cnt |-> b.cnt + agg.cnt, sum |-> b.sum + agg.sum,
         min |-> Smaller(b.min, agg.min), max |-> Larger(b.max, agg.max),
         firstTs |-> IF starts THEN ts ELSE b.firstTs,
         first   |-> IF starts THEN agg.first ELSE b.first,
         lastTs  |-> IF ends THEN ts ELSE b.lastTs,
         last    |-> IF ends THEN agg.last ELSE b.last,
         from |-> b.from \cup agg.from]

(* Both accumulate and merge_bucket absorb statistics placed at ts; a raw  *)
(* value v is the statistics of one point.                                 *)
Absorb(b, agg, ts) ==
    LET isNew == b.cnt = 0
        starts == isNew \/ ts < b.firstTs
        ends   == isNew \/ ts > b.lastTs
    IN  [cnt |-> b.cnt + agg.cnt,
         sum |-> b.sum + agg.sum,
         min |-> IF isNew THEN agg.min ELSE Smaller(b.min, agg.min),
         max |-> IF isNew THEN agg.max ELSE Larger(b.max, agg.max),
         firstTs |-> IF starts THEN ts ELSE b.firstTs,
         first   |-> IF starts THEN agg.first ELSE b.first,
         lastTs  |-> IF ends THEN ts ELSE b.lastTs,
         last    |-> IF ends THEN agg.last ELSE b.last,
         from |-> b.from \cup agg.from]

OnePoint(v, ts) == [cnt |-> 1, sum |-> v, min |-> v, max |-> v,
                    first |-> v, last |-> v, from |-> {ts}]

Accumulate(b, v, ts) == Absorb(b, OnePoint(v, ts), ts)

MergeBucket(b, agg, ts) == Absorb(b, agg, ts)

(* finalize: the builder without its timestamps.                           *)
Finalize(b) == [cnt |-> b.cnt, sum |-> b.sum, min |-> b.min, max |-> b.max,
                first |-> b.first, last |-> b.last, from |-> b.from]

NoBucket == Finalize(NewBuilder)       \* no row under this key

Present(agg) == agg.cnt # 0

(* The builder of a set of raw points, given by their timestamps.          *)
Accumulated(times) ==
    FoldSet(LAMBDA ts, b : Accumulate(b, ValueOf[ts], ts), NewBuilder, times)

(* The builder of a set of rows, given by their bucket timestamps.         *)
Merged(rowOf, starts) ==
    FoldSet(LAMBDA ts, b : MergeBucket(b, rowOf[ts], ts), NewBuilder, starts)

(* Variant: the existing row is overwritten (before R4).                   *)
Overwriting(b, row, start) == b

(* R4: an existing row is merged into the builder, as if it lay at the     *)
(* start of the bucket.                                                    *)
WithExisting(b, row, start) ==
    IF Present(row) THEN MergeBucket(b, row, start) ELSE b
-----------------------------------------------------------------------------
(* What a bucket over a set of points should say, with no folding.         *)
Earliest(times) == CHOOSE ts \in times : \A u \in times : ts <= u
Latest(times)   == CHOOSE ts \in times : \A u \in times : ts >= u

Reference(times) ==
    LET values == {ValueOf[ts] : ts \in times}
    IN  IF times = {} THEN NoBucket
        ELSE [cnt |-> Cardinality(times),
              sum |-> MapThenSumSet(LAMBDA ts : ValueOf[ts], times),
              min |-> Earliest(values), max |-> Latest(values),
              first |-> ValueOf[Earliest(times)], last |-> ValueOf[Latest(times)],
              from |-> times]
=============================================================================
