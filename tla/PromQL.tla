------------------------------- MODULE PromQL -------------------------------
(***************************************************************************)
(* Queries on crates/metrics-store: the windows a selector reads           *)
(* (reader.rs), the functions of windows on raw points and on compacted    *)
(* buckets, subqueries, and the evaluation of an expression at an instant  *)
(* or over a range (promql/exec.rs, validate.rs).                          *)
(*                                                                         *)
(* An expression is a record with a field kind.  Time is in seconds.  The  *)
(* store grows by points and is compacted by whole hours, of Hour seconds; *)
(* written is what was ever written.                                       *)
(***************************************************************************)
EXTENDS PromQLVectors

CONSTANTS
    Catalog,          \* the series: a sequence of [sid, metric, labels]
    Hour,             \* width of a bucket
    HourlyThreshold,  \* widest window that is read from the raw points
    Lookback,         \* Evaluator::lookback_ms
    MaxRangePoints,   \* Evaluator::max_range_points
    Panels, Spans,    \* expressions asked together, and their <<start, end>>
    NewPoints,        \* bound: the points that may be written, <<sid, time, value>>
    MaxTime,          \* bound: times of points and of queries
    MaxPoints         \* bound: points written

VARIABLES written,    \* history: a set of <<sid, time, value>>
          raw,        \* TABLE_RAW
          hourly,     \* TABLE_HOURLY: a set of <<sid, time, bucket>>
          asked,      \* what a panel asks: [exprs, start, end]
          answer      \* what eval_range answered to each: [ok, series]

storeVars == <<written, raw, hourly>>
queryVars == <<storeVars, asked, answer>>

-----------------------------------------------------------------------------
(* The reader.  An inverted interval holds nothing.                        *)

ByTime(rows) == SetToSortSeq(rows, LAMBDA a, b : a[1] < b[1])
RowsIn(table, sid, from, to) ==
    ByTime({<<p[2], p[3]>> : p \in {q \in table : q[1] = sid /\ q[2] \in from..to}})
RangeRaw(points, sid, from, to) == RowsIn(points, sid, from, to)
RangeBuckets(sid, from, to) == RowsIn(hourly, sid, from, to)

-----------------------------------------------------------------------------
(* Functions of a window.  An empty sequence is no value.                  *)

Seconds(pts) == [i \in DOMAIN pts |-> pts[i][1]]
Points(pts) == [i \in DOMAIN pts |-> pts[i][2]]
Ends(s) == s[Len(s)]
Pairs(s, F(_, _)) == [i \in 1..Len(s) - 1 |-> F(s[i], s[i + 1])]
Total(s) == FoldLeft(LAMBDA a, b : a + b, 0, s)

\* Variant: a reset does not count as one.
CounterIncreaseNoReset(prev, cur) == cur - prev

CounterIncrease(prev, cur) == IF cur < prev THEN cur ELSE cur - prev

RawIncrease(vs) == Total(Pairs(vs, CounterIncrease))
Changes(vs) == Total(Pairs(vs, LAMBDA a, b : Truth(a # b)))
Resets(vs) == Total(Pairs(vs, LAMBDA a, b : Truth(b < a)))

\* linear_regression: the slope, and the value after the span ahead of the
\* origin.
Regression(pts, origin, ahead) ==
    LET n == Len(pts)
        s == FoldLeft(LAMBDA acc, p : LET x == p[1] - origin
                                      IN  <<acc[1] + x, acc[2] + p[2], acc[3] + x * p[2], acc[4] + x * x>>,
                      <<0, 0, 0, 0>>, pts)
        Line(slope) == [slope |-> slope, ahead |-> Arith("*", slope, ahead) + (s[2] - slope * s[1]) \div n]
    IN  Line(IF pts[1][1] = Ends(pts)[1] THEN 0
             ELSE (n * s[3] - s[1] * s[2]) \div (n * s[4] - s[1] * s[1]))

\* apply_irate_last_two.
Irate(pts) ==
    IF Len(pts) < 2 THEN <<>>
    ELSE LET a == pts[Len(pts) - 1]
             b == Ends(pts)
         IN  <<CounterIncrease(a[2], b[2]) \div (b[1] - a[1])>>

\* apply_range_fn_raw, with the shortcuts for the ends of a window.
RangeFnRaw(fn, pts, range, t, param) ==
    LET vs == Points(pts)
    IN  CASE pts = <<>> -> IF fn \in {"count_over_time", "changes", "resets"} THEN <<0>> ELSE <<>>
          [] fn \in {"rate", "increase", "deriv", "predict_linear"} /\ Len(pts) < 2 -> <<>>
          [] fn = "irate" -> Irate(pts)
          [] fn = "increase" -> <<RawIncrease(vs)>>
          [] fn = "rate" -> <<RawIncrease(vs) \div range>>
          [] fn = "delta" -> <<Ends(vs) - vs[1]>>
          [] fn = "deriv" -> <<Regression(pts, pts[1][1], 0).slope>>
          [] fn = "predict_linear" -> <<Regression(pts, t, param).ahead>>
          [] fn = "changes" -> <<Changes(vs)>>
          [] fn = "resets" -> <<Resets(vs)>>
          [] fn = "last_over_time" -> <<Ends(vs)>>
          [] fn = "count_over_time" -> <<Count(vs)>>
          [] fn = "sum_over_time" -> <<Sum(vs)>>
          [] fn = "min_over_time" -> <<Least(vs)>>
          [] fn = "max_over_time" -> <<Greatest(vs)>>
          [] fn = "avg_over_time" -> <<Mean(vs)>>
          [] fn = "stdvar_over_time" -> <<Variance(vs)>>
          [] fn = "quantile_over_time" -> <<Quantile(param, vs)>>

\* Variant: only the first and the last value of the window are looked at.
BucketsIncreaseEnds(bs) ==
    CounterIncrease(bs[1].first, Ends(bs).last)

\* buckets_counter_increase: within the buckets and between them.
BucketsIncrease(bs) ==
    Total([i \in DOMAIN bs |-> CounterIncrease(bs[i].first, bs[i].last)])
    + Total(Pairs(bs, LAMBDA a, b : CounterIncrease(a.last, b.first)))

\* apply_range_fn_buckets: these take the averages for points.
OfAverages == {"deriv", "predict_linear", "stdvar_over_time", "quantile_over_time"}
RangeFnBuckets(fn, rows, range, t, param) ==
    LET bs == Points(rows)
        cnt == Total([i \in DOMAIN bs |-> bs[i].cnt])
        sum == Total([i \in DOMAIN bs |-> bs[i].sum])
        avgs == [i \in DOMAIN bs |-> bs[i].sum \div bs[i].cnt]
        line == [i \in DOMAIN rows |-> <<rows[i][1], avgs[i]>>]
        steps == FlattenSeq([i \in DOMAIN bs |-> <<bs[i].first, bs[i].last>>])
    IN  CASE rows = <<>> \/ fn \in OfAverages -> RangeFnRaw(fn, line, range, t, param)
          [] fn = "changes" -> <<Changes(steps)>>
          [] fn = "resets" -> <<Resets(steps)>>
          [] fn = "irate" -> Irate([i \in DOMAIN rows |-> <<rows[i][1], bs[i].last>>])
          [] fn = "increase" -> <<BucketsIncrease(bs)>>
          [] fn = "rate" -> <<BucketsIncrease(bs) \div range>>
          [] fn = "delta" -> <<Ends(bs).last - bs[1].first>>
          [] fn = "last_over_time" -> <<Ends(bs).last>>
          [] fn = "count_over_time" -> <<cnt * One>>
          [] fn = "sum_over_time" -> <<sum>>
          [] fn = "avg_over_time" -> <<sum \div cnt>>
          [] fn = "min_over_time" -> <<Least([i \in DOMAIN bs |-> bs[i].min])>>
          [] fn = "max_over_time" -> <<Greatest([i \in DOMAIN bs |-> bs[i].max])>>

-----------------------------------------------------------------------------
(* Selectors: [metric, matchers, at, offset]; a matcher is [name, op,      *)
(* values] where values are the texts it accepts before a negation.        *)

\* resolve_eval_time.
EvalTime(sel, t, span) ==
    (CASE sel.at = "start" -> span.start
       [] sel.at = "end" -> span.end
       [] OTHER -> t) - sel.offset

\* match_series: a negative matcher holds of a label that is absent.
Matches(labels, m) ==
    LET text == LabelOr(labels, m.name, "")
    IN  IF m.op \in {"=", "=~"} THEN text \in m.values
                                ELSE text \notin m.values \/ text = ""

Matched(sel) ==
    Collect(Catalog, LAMBDA s :
        IF s.metric = sel.metric /\ \A m \in sel.matchers : Matches(s.labels, m)
        THEN <<[sid |-> s.sid, labels |-> (Name :> s.metric) @@ s.labels]>> ELSE <<>>)

\* eval_vector_selector: the last point of the lookback of each series.
Select(sel, t, span) ==
    LET at == EvalTime(sel, t, span)
    IN  Vector(Collect(Matched(sel), LAMBDA s :
            LET pts == RangeRaw(raw, s.sid, at - Lookback, at)
            IN  IF pts = <<>> THEN <<>> ELSE <<Sample(s.labels, Ends(pts)[2])>>))

Present(fn, s) == IF fn = <<>> THEN <<>> ELSE <<Sample(s.labels, fn[1])>>

\* eval_range_call, with tier_for_range.
RangeCall(e, t, span, param) ==
    LET at == EvalTime(e.sel, t, span)
        from == at - e.range
        Value(s) == IF e.range <= HourlyThreshold
            THEN RangeFnRaw(e.fn, RangeRaw(raw, s.sid, from, at), e.range, at, param)
            ELSE RangeFnBuckets(e.fn, RangeBuckets(s.sid, from, at), e.range, at, param)
    IN  Vector(Collect(Matched(e.sel), LAMBDA s : Present(Value(s), s)))

\* eval_absent: the equality matchers label the sample that says so.
Absent(e, vals, t, span) ==
    LET at == EvalTime(e.sel, t, span)
        here == IF e.kind = "absent" THEN vals[1].samples # <<>>
                ELSE \E s \in ToSet(Matched(e.sel)) :
                        RangeRaw(raw, s.sid, at - e.range, at) # <<>>
        equals == {m \in e.sel.matchers : m.op = "=" /\ m.name # Name}
        labels == [l \in {m.name : m \in equals} |->
                      CHOOSE v \in (CHOOSE m \in equals : m.name = l).values : TRUE]
    IN  Vector(IF here THEN <<>> ELSE <<Sample(labels, One)>>)

\* The series made of the vectors of several instants, in order: the end of
\* eval_range, and the points of a subquery.
SeriesOf(vectors, times) ==
    LET keys == SetToSeq(UNION {{s.labels : s \in ToSet(vectors[i].samples)} : i \in DOMAIN vectors})
        PointsOf(k) == FlattenSeq([i \in DOMAIN vectors |->
            Collect(vectors[i].samples, LAMBDA s : IF s.labels = k THEN <<<<times[i], s.value>>>> ELSE <<>>)])
    IN  [i \in DOMAIN keys |-> [labels |-> keys[i], points |-> PointsOf(keys[i])]]

\* A scalar is a series without labels.
AsVector(v) == IF v.type = "scalar" THEN Vector(<<Sample(NoLabels, v.value)>>) ELSE v

Instants(from, to, step) == [i \in 1..((to - from) \div step) + 1 |-> from + (i - 1) * step]

\* validate: the functions and aggregators the evaluator has, those with a
\* parameter and those without, and bool only on comparisons.  Left out are
\* stddev, the logarithms, exp, % and ^: they need reals, or tell nothing new.
RangeFns == {"increase", "rate", "irate", "delta", "deriv", "predict_linear", "changes",
             "resets", "avg_over_time", "sum_over_time", "min_over_time", "max_over_time",
             "count_over_time", "last_over_time", "stdvar_over_time", "quantile_over_time"}
InstantFns == {"abs", "clamp_min", "clamp_max", "clamp", "ceil", "floor", "round", "sqrt", "sgn"}
Aggregators == {"sum", "max", "min", "avg", "count", "group", "stdvar"}
ParamAggregators == {"topk", "bottomk", "quantile", "count_values"}

\* The expressions an expression is made of; a subquery has its own at other
\* instants.
Operands(e) ==
    CASE e.kind = "binary" -> <<e.l, e.r>>
      [] e.kind \in {"aggregate", "fn", "neg", "absent", "relabel", "subquery"} -> <<e.e>>
      [] OTHER -> <<>>

Known(e) ==
    CASE e.kind = "binary" -> /\ e.op \in ArithOps \cup CmpOps \cup SetOps
                              /\ e.mod.bool => e.op \in CmpOps
      [] e.kind = "aggregate" -> e.op \in IF e.param = NaN THEN Aggregators ELSE ParamAggregators
      [] e.kind \in {"range", "subquery"} -> e.fn \in RangeFns
      [] e.kind = "fn" -> e.fn \in InstantFns
      [] OTHER -> TRUE

RECURSIVE Valid(_)
Valid(e) == Known(e) /\ \A i \in DOMAIN Operands(e) : Valid(Operands(e)[i])

\* The value of an expression, from those of its operands.
Applied(e, vals, t, span) ==
    CASE e.kind = "number" -> Scalar(e.value)
      [] e.kind = "select" -> Select(e.sel, t, span)
      [] e.kind = "binary" -> Binary(e.op, vals[1], vals[2], e.mod)
      [] e.kind = "aggregate" -> Aggregate(e.op, e.param, e.grouping, vals[1])
      [] e.kind = "range" -> RangeCall(e, t, span, e.param)
      [] e.kind \in {"absent", "absent_over"} -> Absent(e, vals, t, span)
      [] e.kind = "neg" -> Arithmetic("-", Scalar(0), vals[1], e)
      [] e.kind = "relabel" ->
             Vector(Relabel(vals[1].samples, e.dst, "none",
                            LAMBDA labels : LabelOr(labels, e.src, "")))
      [] e.kind = "fn" ->
             IF vals[1].type = "scalar" THEN Scalar(InstantFn(e.fn, vals[1].value, e.args))
             ELSE Vector(MapValues(vals[1].samples, LAMBDA x : InstantFn(e.fn, x, e.args)))

\* eval_subquery_call: the function of the points that the vectors make.
Subquery(e, vectors, times, at) ==
    IF \E i \in DOMAIN vectors : vectors[i].type = "error" THEN Err
    ELSE Vector(Collect(SeriesOf(vectors, times), LAMBDA s :
             Present(RangeFnRaw(e.fn, s.points, e.range, at, e.param), s)))

\* eval_at.
RECURSIVE EvalAt(_, _, _)
EvalAt(e, t, span) ==
    IF e.kind = "subquery"
    THEN LET at == EvalTime(e, t, span)
             times == Instants(at - e.range, at, e.step)
         IN  Subquery(e, [i \in DOMAIN times |-> AsVector(EvalAt(e.e, times[i], span))], times, at)
    ELSE Applied(e, [i \in DOMAIN Operands(e) |-> EvalAt(Operands(e)[i], t, span)], t, span)

Refused == [ok |-> FALSE, series |-> <<>>]

\* eval_range; eval_instant is a range of one instant.
EvalRange(e, start, end, step) ==
    LET times == Instants(start, end, step)
        vectors == [i \in DOMAIN times |-> AsVector(EvalAt(e, times[i], [start |-> start, end |-> end]))]
    IN  IF start > end \/ ~Valid(e) \/ Len(times) > MaxRangePoints
           \/ \E i \in DOMAIN vectors : vectors[i].type = "error"
        THEN Refused
        ELSE [ok |-> TRUE, series |-> SeriesOf(vectors, times)]

-----------------------------------------------------------------------------
NoQuery == [exprs |-> <<>>, start |-> 0, end |-> 0]

Init ==
    /\ written = {} /\ raw = {} /\ hourly = {}
    /\ asked = NoQuery /\ answer = <<>>

\* A point is committed.
Commit(point) ==
    /\ asked = NoQuery
    /\ Cardinality(written) < MaxPoints
    /\ \A p \in written : p[1] = point[1] => p[2] < point[2]
    /\ \A b \in hourly : b[2] + Hour <= point[2]
    /\ written' = written \cup {point}
    /\ raw' = raw \cup {point}
    /\ UNCHANGED <<hourly, asked, answer>>

\* The row of a bucket (see AggBucket).
BucketOf(pts) ==
    LET vs == Points(pts)
    IN  [cnt |-> Len(vs), sum |-> Total(vs), min |-> Least(vs), max |-> Greatest(vs),
         first |-> vs[1], last |-> Ends(vs)]

\* compact_raw_to_hourly, complete: the hours before cutoff.
Compact(cutoff) ==
    LET old == {p \in raw : p[2] < cutoff}
    IN  /\ asked = NoQuery
        /\ old # {} /\ cutoff % Hour = 0
        /\ hourly' = hourly \cup
             {<<k[1], k[2], BucketOf(RangeRaw(raw, k[1], k[2], k[2] + Hour - 1))>> :
                 k \in {<<p[1], (p[2] \div Hour) * Hour>> : p \in old}}
        /\ raw' = raw \ old
        /\ UNCHANGED <<written, asked, answer>>

Ask(exprs, start, end) ==
    /\ asked = NoQuery
    /\ asked' = [exprs |-> exprs, start |-> start, end |-> end]
    /\ answer' = [i \in DOMAIN exprs |-> EvalRange(exprs[i], start, end, 1)]
    /\ UNCHANGED storeVars

Next ==
    \/ \E point \in NewPoints : Commit(point)
    \/ \E cutoff \in 1..MaxTime + 1 : Compact(cutoff)
    \/ \E exprs \in Panels, span \in Spans : Ask(exprs, span[1], span[2])

Spec == Init /\ [][Next]_queryVars

-----------------------------------------------------------------------------
\* Every series of an answer has one point per instant, in order.
SeriesInOrder ==
    \A n \in DOMAIN answer : \A s \in ToSet(answer[n].series) :
        \A i \in 1..Len(s.points) - 1 : s.points[i][1] < s.points[i + 1][1]

\* The samples of the i-th answer.
Samples(i) == UNION {{<<s.labels, p[1], p[2]>> : p \in ToSet(s.points)} : s \in ToSet(answer[i].series)}
Unnamed(samples) == {<<DropName(x[1]), x[2]>> : x \in samples}
Asked == IF asked = NoQuery THEN "none" ELSE asked.exprs[1].kind
Answered == \A i \in DOMAIN answer : answer[i].ok

\* Although __name__ has been dropped and vectors have been joined, no two
\* series of an answer are one: eval_range pushes points under their labels
\* without looking.  (Relabelling and group_left(x) can make two series
\* alike, which Prometheus refuses; they are not asked.)  And what queries on
\* alarms rest on holds: "and" and "unless" split the left side; a
\* comparison and its opposite split what is a number, and a filter keeps
\* what bool answers 1; the groups of by() and without() split what they
\* are made of, so that their sums and counts add up to those of all.
VectorAlgebra ==
    /\ SeriesInOrder
    /\ Asked = "binary" /\ Answered /\ asked.exprs[1].op = "and" =>
          /\ Samples(1) \cap Samples(2) = {}
          /\ Samples(1) \cup Samples(2) = Samples(3)
    /\ Asked = "binary" /\ Answered /\ asked.exprs[1].op \in CmpOps =>
          /\ Unnamed(Samples(1)) \cap Unnamed(Samples(2)) = {}
          /\ Unnamed(Samples(1)) \cup Unnamed(Samples(2)) =
                 Unnamed({x \in Samples(4) : x[3] # NaN})
          /\ Unnamed(Samples(1)) = Unnamed({x \in Samples(3) : x[3] = One})
    /\ Asked = "aggregate" /\ asked.exprs[1].op \in {"sum", "count"} =>
          /\ \A x \in Samples(1) : Name \in DOMAIN x[1] => Name \in asked.exprs[1].grouping.names
          /\ \A all \in Samples(2) :
                MapThenSumSet(LAMBDA x : x[3], {x \in Samples(1) : x[2] = all[2]}) = all[3]

\* Expressions asked together with one, which VectorAlgebra compares it to.
Opposite == [o \in CmpOps |-> CASE o = "==" -> "!=" [] o = "!=" -> "==" [] o = ">" -> "<="
                                [] o = "<=" -> ">" [] o = "<" -> ">=" [] OTHER -> "<"]
Panel(e) ==
    CASE e.kind = "binary" /\ e.op = "and" -> <<e, [e EXCEPT !.op = "unless"], e.l>>
      [] e.kind = "binary" /\ e.op \in CmpOps ->
             <<e, [e EXCEPT !.op = Opposite[e.op]], [e EXCEPT !.mod.bool = TRUE], [e EXCEPT !.op = "-"]>>
      [] e.kind = "aggregate" -> <<e, [e EXCEPT !.grouping.kind = "all"]>>
      [] OTHER -> <<e>>

\* A window wide enough to be read from the buckets answers as the points
\* they were made of would, when it begins and ends with a bucket: counts,
\* sums, means, extremes, ends, and what a counter gained, resets between
\* buckets included, unless it was reset inside one ("un reset interne à un
\* bucket reste invisible", exec.rs).
ExactFns == {"count_over_time", "sum_over_time", "avg_over_time", "min_over_time",
             "max_over_time", "last_over_time", "delta", "increase"}

PointsOf(sid, from, to) == RangeRaw(written, sid, from, to)

ResetInside(sid, from, to) ==
    \E h \in from..to : /\ h % Hour = 0
                        /\ LET vs == Points(PointsOf(sid, h, h + Hour - 1))
                           IN  vs # <<>> /\ RawIncrease(vs) # CounterIncrease(vs[1], Ends(vs))

BucketsAgree ==
    Asked = "range" =>
      LET e == asked.exprs[1]
          to == asked.end
          from == to - e.range
          Expected(s) == LET v == RangeFnRaw(e.fn, PointsOf(s.sid, from, to), e.range, to, e.param)
                         IN  [i \in DOMAIN v |-> <<s.labels, to, v[i]>>]
      IN  /\ e.range > HourlyThreshold /\ e.fn \in ExactFns
          /\ from % Hour = 0 /\ (to + 1) % Hour = 0
          /\ \A p \in raw : p[2] \notin from..to
          /\ \A s \in ToSet(Matched(e.sel)) :
                /\ e.fn = "increase" => ~ResetInside(s.sid, from, to)
                /\ Len(PointsOf(s.sid, from, to)) # 1
          => {x \in Samples(1) : x[2] = to} = ToSet(Collect(Matched(e.sel), Expected))
=============================================================================
