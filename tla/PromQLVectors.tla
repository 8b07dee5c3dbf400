---------------------------- MODULE PromQLVectors ----------------------------
(***************************************************************************)
(* Instant vectors of the PromQL evaluator of crates/metrics-store         *)
(* (promql/exec.rs): matching, aggregation, comparison, set operators and  *)
(* functions of samples.  A vector is a sequence of samples, a sample is   *)
(* its labels, a function of the names present, and its value.             *)
(*                                                                         *)
(* Numbers are exact: fixed point, One for 1.0, a NaN and an Infinity.     *)
(***************************************************************************)
EXTENDS Integers, SequencesExt

CONSTANTS One, NaN, Infinity

OneAssumption == One \in Nat \ {0}

Name == "__name__"

Err == [type |-> "error", value |-> NaN, samples |-> <<>>]
Scalar(v) == [type |-> "scalar", value |-> v, samples |-> <<>>]
Vector(s) == [type |-> "vector", value |-> NaN, samples |-> s]

Sample(labels, v) == [labels |-> labels, value |-> v]
NoLabels == <<>>
Keep(labels, names) == Restrict(labels, DOMAIN labels \cap names)
Drop(labels, names) == Restrict(labels, DOMAIN labels \ names)
DropName(labels) == Drop(labels, {Name})
LabelOr(labels, l, none) == IF l \in DOMAIN labels THEN labels[l] ELSE none

MapValues(samples, F(_)) ==
    [i \in DOMAIN samples |-> Sample(samples[i].labels, F(samples[i].value))]
Collect(samples, F(_)) == FlattenSeq([i \in DOMAIN samples |-> F(samples[i])])
Values(samples) == [i \in DOMAIN samples |-> samples[i].value]

-----------------------------------------------------------------------------
(* Numbers.                                                                *)

Finite(v) == v # NaN /\ v # Infinity
Sum(vs) == IF \E i \in DOMAIN vs : ~Finite(vs[i]) THEN NaN
           ELSE FoldLeft(LAMBDA a, b : a + b, 0, vs)
\* f64::min and f64::max ignore a NaN.
Lower(a, b) == CASE ~Finite(a) -> b [] ~Finite(b) -> a [] OTHER -> IF b < a THEN b ELSE a
Upper(a, b) == CASE ~Finite(a) -> b [] ~Finite(b) -> a [] OTHER -> IF b > a THEN b ELSE a
Least(vs) == FoldLeft(Lower, Infinity, vs)
Greatest(vs) == FoldLeft(Upper, Infinity, vs)
Count(vs) == Len(vs) * One
Mean(vs) == IF Finite(Sum(vs)) THEN Sum(vs) \div Len(vs) ELSE NaN

\* variance_pop, and what Welford's accumulator converges to.
Variance(vs) ==
    LET n == Len(vs)
        squares == FoldLeft(LAMBDA a, b : a + b * b, 0, vs)
    IN  IF Finite(Sum(vs)) THEN (n * squares - Sum(vs) * Sum(vs)) \div (n * n * One) ELSE NaN

\* quantile_value: linear interpolation between two ranks.
Quantile(phi, vs) ==
    LET sorted == SortSeq(vs, LAMBDA a, b : a < b)
        rank == phi * (Len(vs) - 1)
        weight == rank % One
        lower == sorted[(rank \div One) + 1]
        upper == sorted[((rank + One - 1) \div One) + 1]
    IN  CASE phi = NaN -> NaN
          [] phi < 0 \/ phi > One -> Infinity
          [] OTHER -> (lower * (One - weight) + upper * weight) \div One

\* arith_fn.  A division by zero is not a number or infinite.
Arith(op, a, b) ==
    CASE ~Finite(a) \/ ~Finite(b) -> NaN
      [] op = "+" -> a + b
      [] op = "-" -> a - b
      [] op = "*" -> (a * b) \div One
      [] op = "/" /\ b = 0 -> IF a = 0 THEN NaN ELSE Infinity
      [] op = "/" /\ b < 0 -> (-(a * One)) \div (-b)
      [] OTHER -> (a * One) \div b

ArithOps == {"+", "-", "*", "/"}
CmpOps == {"==", "!=", ">", "<", ">=", "<="}
SetOps == {"and", "or", "unless"}

\* Variant: IEEE, where everything differs from a NaN.
HoldsIeee(op, a, b) ==
    CASE op = "!=" -> a # b
      [] ~Finite(a) \/ ~Finite(b) -> FALSE
      [] op = "==" -> a = b
      [] op = ">" -> a > b
      [] op = "<" -> a < b
      [] op = ">=" -> a >= b
      [] OTHER -> a <= b

\* cmp_fn and cmp_truth: nothing is true of a NaN.  An Infinity has no sign
\* here, so nothing is asked that compares one.
Holds(op, a, b) ==
    CASE ~Finite(a) \/ ~Finite(b) -> FALSE
      [] op = "==" -> a = b
      [] op = "!=" -> a # b
      [] op = ">" -> a > b
      [] op = "<" -> a < b
      [] op = ">=" -> a >= b
      [] OTHER -> a <= b

Truth(b) == IF b THEN One ELSE 0

\* apply_instant_fn, apply_instant_scalar, unary_math, clamp_val and round_to.
InstantFn(fn, v, args) ==
    CASE fn = "clamp_min" -> Upper(v, args[1])
      [] fn = "clamp_max" -> Lower(v, args[1])
      [] v = NaN -> NaN
      [] fn = "abs" -> IF v < 0 THEN -v ELSE v
      [] fn = "floor" -> (v \div One) * One
      [] fn = "ceil" -> -(((-v) \div One) * One)
      [] fn = "sgn" -> IF v > 0 THEN One ELSE IF v < 0 THEN -One ELSE 0
      [] fn = "sqrt" -> IF v < 0 THEN NaN ELSE CHOOSE r \in 0..v + One : r * r <= v * One /\ (r + 1) * (r + 1) > v * One
      [] fn = "clamp" -> IF args[1] > args[2] THEN NaN ELSE Lower(Upper(v, args[1]), args[2])
      [] fn = "round" -> LET to == IF args = <<>> \/ args[1] = 0 THEN One ELSE args[1]
                         IN  ((2 * v + to) \div (2 * to)) * to

-----------------------------------------------------------------------------
(* Matching of two vectors.  matching is [kind, names], kind one of "on",  *)
(* "ignoring" (none: ignoring no name); card is "one", "left" or "right",  *)
(* with the labels that group_left or group_right include.                 *)

\* matching_sig.
Sig(labels, matching) ==
    IF matching.kind = "on" THEN Keep(labels, matching.names)
                            ELSE Drop(labels, matching.names \cup {Name})

\* result_metric.
ResultMetric(many, one, mod) ==
    IF mod.card = "one" THEN DropName(Sig(many, mod.matching))
    ELSE Keep(one, mod.include) @@ Drop(many, mod.include \cup {Name})

Distinct(samples, Key(_)) ==
    \A i, j \in DOMAIN samples : Key(samples[i]) = Key(samples[j]) => i = j

\* Variant: a series on the left is matched however many are alike.
VectorBinaryLax(lhs, rhs, mod, Combine(_, _)) ==
    LET Key(s) == Sig(s.labels, mod.matching)
        Joined(s) == Collect(rhs, LAMBDA o :
            IF Key(o) # Key(s) THEN <<>>
            ELSE [i \in DOMAIN Combine(s.value, o.value) |->
                     Sample(ResultMetric(s.labels, o.labels, mod), Combine(s.value, o.value)[i])])
    IN  IF Distinct(rhs, Key) THEN Vector(Collect(lhs, Joined)) ELSE Err

\* vector_binary_op: Combine gives the value of a pair, or none.
VectorBinary(lhs, rhs, mod, Combine(_, _)) ==
    LET right == mod.card = "right"
        ones == IF right THEN lhs ELSE rhs
        Key(s) == Sig(s.labels, mod.matching)
        keys == {Key(ones[i]) : i \in DOMAIN ones}
        matched == SelectSeq(IF right THEN rhs ELSE lhs, LAMBDA s : Key(s) \in keys)
        Joined(s) ==
            LET one == CHOOSE o \in ToSet(ones) : Key(o) = Key(s)
                v == IF right THEN Combine(one.value, s.value) ELSE Combine(s.value, one.value)
            IN  [i \in DOMAIN v |-> Sample(ResultMetric(s.labels, one.labels, mod), v[i])]
    IN  IF Distinct(ones, Key) /\ (mod.card = "one" => Distinct(matched, Key))
        THEN Vector(Collect(matched, Joined)) ELSE Err

\* eval_binary, arithmetic.
Arithmetic(op, l, r, mod) ==
    CASE l.type = "scalar" /\ r.type = "scalar" -> Scalar(Arith(op, l.value, r.value))
      [] l.type = "scalar" -> Vector(MapValues(r.samples, LAMBDA v : Arith(op, l.value, v)))
      [] r.type = "scalar" -> Vector(MapValues(l.samples, LAMBDA v : Arith(op, v, r.value)))
      [] OTHER -> VectorBinary(l.samples, r.samples, mod, LAMBDA a, b : <<Arith(op, a, b)>>)

\* eval_comparison: a filter, or 0 and 1 with bool.
Comparison(op, l, r, mod) ==
    LET Compared(v, holds) == IF mod.bool THEN <<Truth(holds)>> ELSE IF holds THEN <<v>> ELSE <<>>
        OneSide(s, holds) == [i \in DOMAIN Compared(s.value, holds) |->
                                 Sample(DropName(s.labels), Compared(s.value, holds)[i])]
    IN  CASE l.type = "scalar" /\ r.type = "scalar" ->
                 IF mod.bool THEN Scalar(Truth(Holds(op, l.value, r.value))) ELSE Err
          [] l.type = "scalar" ->
                 Vector(Collect(r.samples, LAMBDA s : OneSide(s, Holds(op, l.value, s.value))))
          [] r.type = "scalar" ->
                 Vector(Collect(l.samples, LAMBDA s : OneSide(s, Holds(op, s.value, r.value))))
          [] OTHER -> VectorBinary(l.samples, r.samples, mod,
                                   LAMBDA a, b : Compared(a, Holds(op, a, b)))

\* eval_set_op.
SetOp(op, l, r, mod) ==
    LET Key(s) == Sig(s.labels, mod.matching)
        In(s, side) == \E i \in DOMAIN side : Key(side[i]) = Key(s)
    IN  IF l.type = "scalar" \/ r.type = "scalar" THEN Err
        ELSE Vector(CASE op = "and" -> SelectSeq(l.samples, LAMBDA s : In(s, r.samples))
                      [] op = "unless" -> SelectSeq(l.samples, LAMBDA s : ~In(s, r.samples))
                      [] OTHER -> l.samples \o SelectSeq(r.samples, LAMBDA s : ~In(s, l.samples)))

Binary(op, l, r, mod) ==
    CASE l.type = "error" \/ r.type = "error" -> Err
      [] op \in SetOps -> SetOp(op, l, r, mod)
      [] op \in CmpOps -> Comparison(op, l, r, mod)
      [] OTHER -> Arithmetic(op, l, r, mod)

-----------------------------------------------------------------------------
(* Aggregation: grouping is [kind, names], kind "by", "without" or "all".  *)

\* Variant: without() drops the names and keeps __name__.
GroupKeyKeepsName(labels, grouping) ==
    CASE grouping.kind = "all" -> NoLabels
      [] grouping.kind = "by" -> Keep(labels, grouping.names)
      [] OTHER -> Drop(labels, grouping.names)

GroupKey(labels, grouping) ==
    CASE grouping.kind = "all" -> NoLabels
      [] grouping.kind = "by" -> Keep(labels, grouping.names)
      [] OTHER -> Drop(labels, grouping.names \cup {Name})

TopK(op, k, samples) ==
    LET sorted == SortSeq(samples, LAMBDA a, b : IF op = "topk" THEN a.value > b.value
                                                 ELSE a.value < b.value)
    IN  SubSeq(sorted, 1, IF k < 0 THEN 0 ELSE IF k < Len(sorted) THEN k ELSE Len(sorted))

Reduced(op, param, vs) ==
    CASE op = "sum" -> Sum(vs)
      [] op = "min" -> Least(vs)
      [] op = "max" -> Greatest(vs)
      [] op = "avg" -> Mean(vs)
      [] op = "count" -> Count(vs)
      [] op = "group" -> One
      [] op = "stdvar" -> Variance(vs)
      [] OTHER -> Quantile(param, vs)

\* eval_aggregate; the groups come in the order of their labels, which is
\* left open.  param is the value of the parameter, a label for count_values.
Aggregate(op, param, grouping, v) ==
    LET Key(s) == IF op = "count_values"
                  THEN (param :> s.value) @@ GroupKey(s.labels, grouping)
                  ELSE GroupKey(s.labels, grouping)
        groups == SetToSeq({Key(v.samples[i]) : i \in DOMAIN v.samples})
        Members(g) == SelectSeq(v.samples, LAMBDA s : Key(s) = g)
    IN  CASE v.type # "vector" -> v
          [] op \in {"topk", "bottomk"} ->
                 Vector(FlattenSeq([i \in DOMAIN groups |->
                                       TopK(op, param \div One, Members(groups[i]))]))
          [] OTHER ->
                 Vector([i \in DOMAIN groups |->
                            Sample(groups[i], IF op = "count_values" THEN Count(Members(groups[i]))
                                              ELSE Reduced(op, param, Values(Members(groups[i]))))])

\* label_replace and label_join: Text gives the new value from the labels of
\* a sample, "" to remove the label, and None when the pattern does not match.
Relabel(samples, dst, None, Text(_)) ==
    [i \in DOMAIN samples |->
        LET labels == samples[i].labels
            text == Text(labels)
        IN  CASE text = None -> samples[i]
              [] text = "" -> Sample(Drop(labels, {dst}), samples[i].value)
              [] OTHER -> Sample((dst :> text) @@ labels, samples[i].value)]
=============================================================================
