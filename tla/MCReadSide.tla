----------------------------- MODULE MCReadSide -----------------------------
(***************************************************************************)
(* What is made of the measurements, and what is decided from them, in one *)
(* run: PromQL on the metrics store, as the part "queries", and the parts  *)
(* of ReadSide.  A part that is not selected stays in an initial state.    *)
(***************************************************************************)
EXTENDS PromQL, ReadSide

ASSUME QueryBounds == OneAssumption

-----------------------------------------------------------------------------
Labels2(a, b) == ("a" :> a) @@ ("b" :> b)
MCCatalog == <<[sid |-> 1, metric |-> "m", labels |-> Labels2("x", "x")],
               [sid |-> 2, metric |-> "m", labels |-> Labels2("x", "y")],
               [sid |-> 3, metric |-> "n", labels |-> Labels2("x", "x")]>>

Sel(metric, ms) == [metric |-> metric, matchers |-> ms, at |-> "none", offset |-> 0]
Of(metric) == [kind |-> "select", sel |-> Sel(metric, {})]
Num(n) == [kind |-> "number", value |-> n * One]
Match(k, names) == [kind |-> k, names |-> names]
Mod(m, card, inc, bool) == [matching |-> m, card |-> card, include |-> inc, bool |-> bool]
Plain == Mod(Match("ignoring", {}), "one", {}, FALSE)
OnA == Mod(Match("on", {"a"}), "one", {}, FALSE)
Left == Mod(Match("on", {"a"}), "left", {}, FALSE)
Right == [Left EXCEPT !.card = "right"]
Bin(op, l, r, mod) == [kind |-> "binary", op |-> op, l |-> l, r |-> r, mod |-> mod]
Fn(f, e, args) == [kind |-> "fn", fn |-> f, e |-> e, args |-> args]
Agg(op, e, param, g) == [kind |-> "aggregate", op |-> op, e |-> e, param |-> param, grouping |-> g]
Window(f, metric, range, param) ==
    [kind |-> "range", fn |-> f, sel |-> Sel(metric, {}), range |-> range, param |-> param]
Equal(l, v) == [name |-> l, op |-> "=", values |-> {v}]
Differs(l, v) == [name |-> l, op |-> "!=", values |-> {v}]

MCBinary ==
    {Bin(op, Fn("sqrt", Of("m"), <<>>), Num(1), Plain) : op \in {"!=", ">="}}
    \cup {Bin(op, Of("m"), Of("n"), m) : op \in {"and", "or", "+"}, m \in {Plain, OnA}}
    \cup {Bin(op, Of("m"), Of("n"), Left) : op \in {"<", "-"}}
    \cup {Bin("-", Of("n"), Of("m"), Right)}
    \cup {Bin("or", Bin("<=", Of("m"), Num(1), Plain), Of("n"), Plain)}

MCAggregates ==
    {Agg("sum", Of("m"), NaN, Match(g, {"a"})) : g \in {"by", "without"}}
    \cup {Agg("quantile", Of("m"), p, Match("by", {"a"})) : p \in {One \div 2, NaN}}
    \cup {Agg("count_values", Of("m"), "b", Match("by", {"a"}))}
    \cup {Agg("topk", Of("m"), One, Match("all", {}))}
    \cup {Agg(op, Of("m"), NaN, Match("all", {})) : op \in {"stdvar", "avg"}}

MCWindows ==
    {Window(f, "m", 3, One \div 2) : f \in ExactFns \cup {"changes", "deriv", "quantile_over_time"}}
    \cup {Window(f, "m", 2, One) :
             f \in {"rate", "irate", "predict_linear", "resets", "stdvar_over_time"}}

MCOthers ==
    {[kind |-> "subquery", fn |-> "max_over_time", e |-> Bin("-", Of("m"), Of("n"), Plain),
      range |-> 2, step |-> 1, at |-> "end", offset |-> 1, param |-> NaN],
     [kind |-> "absent", e |-> Of("n"), sel |-> [Sel("n", {Equal("a", "x")}) EXCEPT !.offset = 1]],
     [kind |-> "absent_over", range |-> 1, sel |-> Sel("n", {Differs("b", "x")})],
     [kind |-> "neg", e |-> Fn("clamp", Of("m"), <<One, 2 * One>>)],
     [kind |-> "relabel", e |-> Of("n"), dst |-> "b", src |-> "a"]}

MCPanels == {Panel(e) : e \in MCBinary \cup MCAggregates \cup MCWindows \cup MCOthers}
MCPoints == {<<1, t, v>> : t \in 0..3, v \in {-One, 4 * One}}
            \cup {<<s, s - 1, v>> : s \in {2, 3}, v \in {-One, 4 * One}}
MCSpans == {<<0, 3>>}
MCCurrents == {-1, 1}
MCInterval == [fast |-> 1, energy |-> 2, temp |-> 3]

\* Nothing heard; everything for heating; a low SOC on the grid.
Condition(ac, soc, irradiance) == [ac_ignore |-> ac, soc |-> soc, irradiance |-> irradiance]
MCUnheard == Condition("none", "high", "high")
MCConditions ==
    {MCUnheard, Condition("island", "high", "high"), Condition("grid", "low", "none")}
MCUnit == [mode |-> "VACATION", target |-> "vacation_target", tank |-> "cool"]
MCLimits == [offgrid |-> 4, grid_pv_excess |-> 2, grid_no_excess |-> 4]
MCFactory == [rated |-> <<100>>, balancing |-> <<3>>, cell |-> <<4>>, pack |-> <<5>>,
              current |-> <<0, 500>>, delta |-> <<6>>]
MCSettable == [balancing |-> {<<2>>}, current |-> {<<50, 40000>>, <<30000, 35535>>, <<-5, 1>>}]
MCAircon == [power |-> TRUE, preset |-> "standard"]

-----------------------------------------------------------------------------
\* The parts, and for each an initial state when it is not selected.
AllInit ==
    /\ part \in {"queries", "file", "state", "topics", "venus", "shunt", "yield",
                "heater", "charge", "presence", "commands"}
    /\ Init /\ PartsInit
    /\ part # "state" => source = "bms"
    /\ part # "topics" => device = Bridge!publish_snapshot /\ topics = <<>>
    /\ part # "venus" => kind = "switch" /\ configured
    /\ part # "shunt" => withAh
    /\ part # "heater" => unit = MCUnit /\ conditions = MCUnheard
    /\ part # "presence" => occupied /\ aircon = MCAircon
    /\ part # "commands" => access = "full"

AllNext ==
    \/ part = "queries" /\ Next /\ UNCHANGED partsVars
    \/ PartsNext /\ UNCHANGED queryVars

AllSpec == AllInit /\ [][AllNext]_<<queryVars, partsVars>>
=============================================================================
