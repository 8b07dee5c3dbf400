------------------------------- MODULE Tiering -------------------------------
(***************************************************************************)
(* Retention tiers of crates/metrics-store (tiering.rs): the maintenance   *)
(* task folds old raw points into hourly buckets, then old hourly buckets  *)
(* into daily ones, while the writer thread keeps inserting points.        *)
(*                                                                         *)
(* A compaction is four steps, each with transactions of its own: read and *)
(* aggregate in memory, write the buckets, list the keys to purge, purge   *)
(* them by chunks.  Between two of them the writer may commit, the step    *)
(* may fail, or the process may crash.                                     *)
(*                                                                         *)
(* A raw point is <<series, ts>>; its value is ValueOf[ts].  Time is now,  *)
(* in units small enough for several of them to fit in an hour.            *)
(***************************************************************************)
EXTENDS AggBucket

CONSTANTS Sid,           \* series identifiers
          RawRetention,  \* TierPolicy.raw_retention_days, in units
          HourRetention, \* TierPolicy.hourly_retention_days
          HourlyThreshold, DailyThreshold,   \* of tier_for_range
          PurgeChunk,    \* keys removed by one purge transaction
          Faults,        \* {"error", "crash"} or less
          MaxLate,       \* bound: points written with an old timestamp
          MaxTime,       \* bound: the clock
          MaxPoints,     \* bound: points ever written
          MaxPasses      \* bound: maintenance passes

ASSUME TieringAssumption ==
    /\ RawRetention \in Nat
    /\ HourRetention \in Nat /\ HourRetention >= RawRetention + Hour
    /\ HourlyThreshold \in Nat /\ DailyThreshold \in Nat
    /\ PurgeChunk \in Nat \ {0}
    /\ Faults \subseteq {"error", "crash"}
    /\ ValueOf \in [0 .. MaxTime -> Int]
    /\ MaxLate \in Nat /\ MaxTime \in Nat /\ MaxPoints \in Nat /\ MaxPasses \in Nat

Times  == 0 .. MaxTime
Hours  == {Floor(ts, Hour) : ts \in Times}
Days   == {Floor(ts, Day) : ts \in Times}

VARIABLES
    now,       \* the clock
    raw,       \* metrics_raw: set of <<sid, ts>>
    hourly,    \* metrics_hourly: a row per <<sid, hour>>
    daily,     \* metrics_daily: a row per <<sid, day>>
    tier,      \* the compaction under way: "raw" (to hourly) or "hourly" (to daily)
    step,      \* its next step
    cutoff,    \* the two cutoffs of the pass: [raw, hourly]
    keysRead,  \* keys aggregated by the read step
    built,     \* the buckets aggregated in memory
    doomed,    \* keys listed for the purge and not yet removed
    written,   \* history: the points ever written
    late,      \* number of points written late
    cut,       \* history: some pass was cut short by an error or a crash
    overtaken, \* history: points written below max_ts_read after the read step
    passes     \* number of passes started

tables == <<raw, hourly, daily>>
passVars == <<tier, step, cutoff, keysRead, built, doomed>>
histVars == <<written, late, overtaken, cut>>
vars == <<now, tables, passVars, histVars, passes>>

Idle == step = "sleep"

(* Keys of the table a compaction reads.                                   *)
Keys == IF tier = "raw" THEN raw ELSE {k \in Sid \X Hours : Present(hourly[k])}

Init == /\ now = 0
        /\ raw = {}
        /\ hourly = [k \in Sid \X Hours |-> NoBucket]
        /\ daily = [k \in Sid \X Days |-> NoBucket]
        /\ tier = "raw" /\ step = "sleep" /\ cutoff = [raw |-> 0, hourly |-> 0]
        /\ keysRead = {} /\ built = <<>> /\ doomed = {}
        /\ written = {} /\ late = 0 /\ overtaken = {} /\ cut = FALSE /\ passes = 0
-----------------------------------------------------------------------------
Tick == now < MaxTime /\ now' = now + 1
        /\ UNCHANGED <<tables, passVars, histVars, passes>>

Insert(p) == /\ p \notin written
             /\ Cardinality(written) < MaxPoints
             /\ raw' = raw \cup {p}
             /\ written' = written \cup {p}
             /\ UNCHANGED <<now, hourly, daily, passVars, cut, passes>>

(* max_ts_read is one value for all the series (R3).                       *)
MaxRead == Latest({k[2] : k \in keysRead})

(* The read step of the raw compaction is over, its keys not listed yet.   *)
Exposed == tier = "raw" /\ step \in {"write", "list"}

(* A point of a live source carries the current time.                      *)
WriteLive(s) == Insert(<<s, now>>) /\ UNCHANGED <<late, overtaken>>

(* POST /api/v1/import/prometheus and import_vm write any timestamp.       *)
WriteLate(s, ts) ==
    /\ late < MaxLate /\ ts < now
    /\ Insert(<<s, ts>>)
    /\ late' = late + 1
    /\ overtaken' = IF Exposed /\ ts <= MaxRead THEN overtaken \cup {<<s, ts>>}
                                                ELSE overtaken
-----------------------------------------------------------------------------
(* spawn_maintenance: the cutoffs of a pass are computed when it starts.   *)
StartPass ==
    /\ Idle /\ passes < MaxPasses
    /\ passes' = passes + 1
    /\ cutoff' = [raw |-> now - RawRetention, hourly |-> now - HourRetention]
    /\ tier' = "raw" /\ step' = "read"
    /\ UNCHANGED <<now, tables, keysRead, built, doomed, histVars>>

Forget == keysRead' = {} /\ built' = <<>> /\ doomed' = {}

(* The raw compaction is over, in success or not: the hourly one follows,  *)
(* and after it the task sleeps.                                           *)
EndCompaction ==
    /\ IF tier = "raw" THEN tier' = "hourly" /\ step' = "read"
                       ELSE tier' = "raw" /\ step' = "sleep"
    /\ Forget
    /\ UNCHANGED cutoff

Width == IF tier = "raw" THEN Hour ELSE Day

(* The builder of one bucket over the keys read.                           *)
BuilderOf(keys, s, start) ==
    LET starts == {k[2] : k \in {j \in keys : j[1] = s /\ Floor(j[2], Width) = start}}
    IN  IF tier = "raw" THEN Accumulated(starts)
                        ELSE Merged([ts \in Hours |-> hourly[<<s, ts>>]], starts)

Read ==
    /\ step = "read"
    /\ LET old == {k \in Keys : k[2] < cutoff[tier]}
       IN  IF old = {}
             THEN EndCompaction
             ELSE /\ keysRead' = old
                  /\ built' = [b \in {<<k[1], Floor(k[2], Width)>> : k \in old} |->
                                  BuilderOf(old, b[1], b[2])]
                  /\ step' = "write"
                  /\ UNCHANGED <<tier, cutoff, doomed>>
    /\ UNCHANGED <<now, tables, histVars, passes>>

(* The rows of the target table after the bucket transaction (R4).         *)
WithBuilt(rows) ==
    [k \in DOMAIN rows |->
        IF k \in DOMAIN built THEN Finalize(WithExisting(built[k], rows[k], k[2]))
                              ELSE rows[k]]

Write ==
    /\ step = "write"
    /\ IF tier = "raw" THEN hourly' = WithBuilt(hourly) /\ UNCHANGED daily
                       ELSE daily' = WithBuilt(daily) /\ UNCHANGED hourly
    /\ step' = "list"
    /\ UNCHANGED <<now, raw, tier, cutoff, keysRead, built, doomed, histVars, passes>>

(* Variant: the purge goes up to the cutoff (before R3).                   *)
ListToCutoff ==
    /\ step = "list"
    /\ doomed' = {k \in Keys : k[2] < cutoff[tier]}
    /\ step' = "purge"
    /\ UNCHANGED <<now, tables, tier, cutoff, keysRead, built, histVars, passes>>

List ==
    /\ step = "list"
    /\ doomed' = {k \in Keys : k[2] < MaxRead + 1}
    /\ step' = "purge"
    /\ UNCHANGED <<now, tables, tier, cutoff, keysRead, built, histVars, passes>>

(* One purge transaction (P3).  The keys are taken in key order; which     *)
(* ones go first is left open.                                             *)
Purge ==
    /\ step = "purge" /\ doomed # {}
    /\ \E chunk \in SUBSET doomed :
          /\ Cardinality(chunk) = Smaller(PurgeChunk, Cardinality(doomed))
          /\ doomed' = doomed \ chunk
          /\ IF tier = "raw"
               THEN raw' = raw \ chunk /\ UNCHANGED hourly
               ELSE /\ hourly' = [k \in DOMAIN hourly |->
                                     IF k \in chunk THEN NoBucket ELSE hourly[k]]
                    /\ UNCHANGED raw
    /\ UNCHANGED <<now, daily, tier, step, cutoff, keysRead, built, histVars, passes>>

PurgeEnds == /\ step = "purge" /\ doomed = {}
             /\ EndCompaction
             /\ UNCHANGED <<now, tables, histVars, passes>>

(* Any redb call of a step may fail: its transaction is undone, the error  *)
(* is logged and the next compaction goes on.                              *)
StepError == /\ "error" \in Faults
             /\ step # "sleep"
             /\ EndCompaction
             /\ cut' = TRUE
             /\ UNCHANGED <<now, tables, written, late, overtaken, passes>>

(* The process stops between two transactions and starts again.            *)
Crash == /\ "crash" \in Faults
         /\ step # "sleep"
         /\ tier' = "raw" /\ step' = "sleep"
         /\ Forget
         /\ cut' = TRUE
         /\ UNCHANGED <<now, tables, cutoff, written, late, overtaken, passes>>

Next == \/ Tick
        \/ \E s \in Sid : WriteLive(s)
        \/ \E s \in Sid, ts \in Times : WriteLate(s, ts)
        \/ StartPass \/ Read \/ Write \/ List \/ Purge \/ PurgeEnds
        \/ StepError \/ Crash

Spec == Init /\ [][Next]_vars
-----------------------------------------------------------------------------
InHourly(p) == \E h \in Hours : p[2] \in hourly[<<p[1], h>>].from
InDaily(p)  == \E d \in Days : p[2] \in daily[<<p[1], d>>].from

(* No point of a live source ever disappears, through errors and crashes   *)
(* at every step: it is raw, or some bucket of its series accounts for it. *)
(* R3: the only late points that may disappear are those written between   *)
(* the read step and the listing of a pass at or below max_ts_read; a late *)
(* point in ]max_ts_read, cutoff[ waits for the next pass.                 *)
(* Between two passes a point lives in one tier only, unless a pass was cut *)
(* short: summing the tiers counts it once, and no live point outlives the *)
(* cutoff of a complete pass.                                              *)
OnlyOvertakenLost ==
    /\ \A p \in written : p \in raw \/ InHourly(p) \/ InDaily(p) \/ p \in overtaken
    /\ Idle /\ ~cut => \A p \in written :
               /\ ~(p \in raw /\ InHourly(p))
               /\ ~(p \in raw /\ InDaily(p))
               /\ ~(InHourly(p) /\ InDaily(p))
               /\ late = 0 /\ p \in raw => p[2] >= cutoff.raw

(* A bucket holds points of its own hour or day, and says exactly what     *)
(* they say: count, sum, extremes, first and last value, in however many   *)
(* passes it was built, as long as sources are live and no pass is cut     *)
(* short.                                                                  *)
BucketsExact ==
    /\ \A k \in DOMAIN hourly : hourly[k].from \subseteq k[2] .. (k[2] + Hour - 1)
    /\ \A k \in DOMAIN daily : daily[k].from \subseteq k[2] .. (k[2] + Day - 1)
    /\ ~cut /\ late = 0 =>
          /\ \A k \in DOMAIN hourly : hourly[k] = Reference(hourly[k].from)
          /\ \A k \in DOMAIN daily : daily[k] = Reference(daily[k].from)

(* R4, "idempotent": folding again what was already folded adds nothing to *)
(* the count of a bucket.                                                  *)
CountsOnce ==
    /\ \A k \in DOMAIN hourly : hourly[k].cnt = Cardinality(hourly[k].from)
    /\ \A k \in DOMAIN daily : daily[k].cnt = Cardinality(daily[k].from)

-----------------------------------------------------------------------------
(* A range function f(m[range]) of the PromQL evaluator, at time now.      *)
(* Variant: a window as wide as a threshold already reads the next tier.   *)
TierForRangeBelow(range) == IF range < HourlyThreshold THEN "raw"
                            ELSE IF range < DailyThreshold THEN "hourly" ELSE "daily"

TierForRange(range) == IF range <= HourlyThreshold THEN "raw"
                       ELSE IF range <= DailyThreshold THEN "hourly" ELSE "daily"

(* The rows it reads: those of one table, in [now - range, now].           *)
RowsRead(s, range) ==
    LET window == (now - range) .. now
    IN  CASE TierForRange(range) = "raw"    -> {ts \in window : <<s, ts>> \in raw}
          [] TierForRange(range) = "hourly" -> {h \in window \cap Hours : Present(hourly[<<s, h>>])}
          [] TierForRange(range) = "daily"  -> {d \in window \cap Days : Present(daily[<<s, d>>])}

WindowHasData(s, range) == \E ts \in (now - range) .. now : <<s, ts>> \in written

(* A window narrow enough to be read from the raw table, and no longer     *)
(* than the raw retention, answers with every point of a live source it    *)
(* contains: no compaction, complete or cut short, takes them away.        *)
RawWindowsFound ==
    \A s \in Sid, range \in 1 .. Smaller(HourlyThreshold, RawRetention) :
        WindowHasData(s, range) /\ overtaken = {} =>
            RowsRead(s, range) = {ts \in (now - range) .. now : <<s, ts>> \in written}
=============================================================================
