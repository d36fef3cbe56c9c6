---- MODULE ProcessRulesMC ----
EXTENDS Integers, Sequences, SequencesExt, FiniteSets

SmallTypes ==
    [b |-> "bit", ok |-> "bit", ok2 |-> "bit", yes |-> "bit", no |-> "bit", x |-> "int", e |-> "entry",
     i |-> "index", i2 |-> "index", n0 |-> "index", n1 |-> "index", n3 |-> "index", n9 |-> "index",
     c |-> "index", c2 |-> "index", d |-> "index", k |-> "index", k2 |-> "index", m |-> "index", w |-> "index",
     f |-> "flow", g |-> "flow", h |-> "flow", t |-> "token"]
SmallRuleLimits == [depth |-> 4, nodes |-> 13, edges |-> 14, trips |-> 3, word |-> 8]

RuleOp(kind, uses, defs, regions, tag) ==
    [kind |-> kind, uses |-> uses, defs |-> defs, regions |-> regions, tag |-> tag, until |-> "readable"]
Line(kind, uses, defs) == RuleOp(kind, uses, defs, <<>>, "none")
Region(args, ops) == [args |-> args, ops |-> ops]
Block(ops) == Region(<<>>, ops)
Closed(ops) == Block(Append(ops, Line("yield", <<>>, <<>>)))
Empty == Block(<<>>)

\* Statements are sequences of operations.
Const(v, n) == <<RuleOp("constant", <<>>, <<v>>, <<>>, n)>>
Wait == <<Line("wait_until", <<"b">>, <<>>)>>
If(cond, then, else) == <<RuleOp("if", <<cond>>, <<>>, <<Closed(then), else>>, "none")>>
For(bounds, body) == <<RuleOp("for", bounds, <<>>, <<Region(<<"i">>, Closed(body).ops)>>, "none")>>
While(before, cond, after) ==
    <<RuleOp("while", <<>>, <<>>, <<Block(Append(before, Line("condition", <<cond>>, <<>>))), Closed(after)>>, "none")>>
Process(kind, ops) ==
    [kind |-> kind, captures |-> <<"b">>, body |-> Region(<<"b">>, Append(ops, Line("yield_sim", <<>>, <<>>)))]

\* What can stand in a loop: a suspension on no path, on one path, on every path, on the path a constant picks.
LoopBodies ==
    {<<>>, Wait, If("b", Wait, Empty), If("b", Wait, Closed(<<>>)), If("b", Wait, Closed(Wait)),
     If("b", If("b", Wait, Closed(Wait)), Closed(Wait)), If("b", If("b", Wait, Empty), Closed(Wait)),
     Const("yes", 1) \o If("yes", Wait, Empty), Const("no", 0) \o If("no", Wait, Empty),
     Const("no", 0) \o If("no", <<>>, Closed(Wait)), While(<<>>, "b", Wait)}
StaticBounds ==
    {Const("n0", lower) \o Const("n3", upper) \o Const("n1", step) :
        lower \in {0, 2, -9}, upper \in {0, 3, 8}, step \in {0, 1, 3, -1}}
Looping ==
    {For(<<"x", "x", "x">>, ops) : ops \in LoopBodies}
    \cup {bounds \o For(<<"n0", "n3", "n1">>, ops) : bounds \in StaticBounds, ops \in {<<>>, If("b", Wait, Empty)}}
    \cup {Const("n0", 0) \o For(<<"n0", "x", "n0">>, ops) : ops \in {<<>>, Wait}}
    \cup {While(before, "b", after) : before \in {<<>>, Wait, If("b", Wait, Empty)}, after \in LoopBodies}
    \cup {Const("no", 0) \o While(<<>>, "no", <<>>), Const("yes", 1) \o While(<<>>, "yes", <<>>),
          Const("yes", 1) \o While(<<>>, "yes", Wait)}
    \cup {For(<<"x", "x", "x">>, While(<<>>, "b", ops)) : ops \in {<<>>, Wait}}
    \cup {For(<<"x", "x", "x">>, While(<<>>, "b", ops) \o Wait) : ops \in {<<>>, Wait}}

\* Flows and tokens around suspensions.
Take == <<RuleOp("try_recv", <<>>, <<"f", "ok">>, <<>>, "q")>>
Token == <<Line("record", <<>>, <<"t">>)>>
Give(v) == <<RuleOp("try_send", <<v>>, <<>>, <<>>, "q")>>
LinearMiddles ==
    {<<>>, Wait, Give("f"), If("b", Wait, Empty), If("b", Give("f"), Closed(Wait)), If("b", Wait \o Give("f"), Empty),
     If("b", If("b", Wait, Empty), Empty), Const("no", 0) \o If("no", Wait, Empty),
     For(<<"x", "x", "x">>, Wait), For(<<"x", "x", "x">>, Give("f") \o Wait), For(<<"x", "x", "x">>, Wait \o Give("f")),
     While(Wait, "b", Give("f")), While(Give("f"), "b", Wait), While(<<>>, "b", Wait \o Give("f")),
     While(Wait, "b", Wait \o Give("f")), If("b", For(<<"x", "x", "x">>, Give("f") \o Wait), Empty)}
    \cup {For(<<"x", "x", "x">>, For(<<"x", "x", "x">>, inner) \o rest) :
            inner \in {Wait, Give("f") \o Wait, Wait \o Give("f")}, rest \in {<<>>, Wait, Give("f")}}
FlowIf(then, else) ==
    <<RuleOp("if", <<"b">>, <<"h">>, <<Block(then \o <<Line("yield", <<"f">>, <<>>)>>),
                                       Block(else \o <<Line("yield", <<"g">>, <<>>)>>)>>, "none")>>
Linear ==
    {Take \o middle \o last : middle \in LinearMiddles, last \in {<<>>, Give("f")}}
    \cup {Token \o middle \o Give("t") : middle \in {<<>>, Wait, If("b", Wait, Empty)}}
    \cup {Take \o FlowIf(then, else \o <<RuleOp("try_recv", <<>>, <<"g", "ok2">>, <<>>, "q")>>) \o last :
            then \in {<<>>, Wait}, else \in {<<>>, Wait}, last \in {Give("h"), Wait \o Give("h")}}

\* Cursors forwarded by branches and loops.
Open(v, s) == <<RuleOp("open", <<>>, <<v>>, <<>>, s)>>
Advance(v, s, to) == <<RuleOp("next", <<v>>, <<to, "e", "ok">>, <<>>, s)>>
Eof(v, s) == <<RuleOp("eof", <<v>>, <<"ok2">>, <<>>, s)>>
Index == Const("k", 1)
Merge(x, y) ==
    <<RuleOp("if", <<"b">>, <<"m">>, <<Block(<<Line("yield", <<x>>, <<>>)>>), Block(<<Line("yield", <<y>>, <<>>)>>)>>, "none")>>
Carry(init, ops, out) ==
    <<RuleOp("for", <<"x", "x", "x", init>>, <<"w">>,
             <<Region(<<"i", "m">>, ops \o Wait \o <<Line("yield", <<out>>, <<>>)>>)>>, "none")>>
CarryWhile(init, out) ==
    <<RuleOp("while", <<init>>, <<"w">>,
             <<Region(<<"m">>, <<Line("condition", <<"b", "m">>, <<>>)>>),
               Region(<<"k2">>, Wait \o <<Line("yield", <<out>>, <<>>)>>)>>, "none")>>
TwoCursors == {Open("c", "s") \o Open("d", "s"), Open("c", "s") \o Open("d", "u"), Open("c", "s") \o Const("d", 0)}
Traces ==
    {opens \o Merge("c", y) \o use : opens \in TwoCursors, y \in {"c", "d"},
        use \in {Advance("m", "s", "c2"), Advance("m", "u", "c2"), Eof("m", "s") \o Eof("c", "s"),
                 Advance("c", "s", "c2") \o Advance("m", "s", "k")}}
    \cup {opens \o Carry("c", ops, out) \o Eof("w", "s") : opens \in TwoCursors,
            ops \in {Advance("m", "s", "c2")}, out \in {"m", "c2", "d", "i"}}
    \cup {opens \o Carry("c", Eof("m", "s"), out) : opens \in TwoCursors, out \in {"m", "d", "c"}}
    \cup {opens \o CarryWhile("c", out) \o Eof("w", "s") : opens \in TwoCursors, out \in {"k2", "d", "c"}}
    \cup {Open("c", "s") \o Advance("c", "s", "c2") \o use :
            use \in {Advance("c2", "s", "k"), <<Line("decode", <<"e">>, <<>>)>>, <<Line("decode", <<"x">>, <<>>)>>,
                     <<Line("arith", <<"c2">>, <<>>)>>, Eof("c2", "u"), For(<<"c", "x", "x">>, Wait)}}
    \cup {Index \o Eof("k", "s"), Open("c", "s") \o For(<<"x", "x", "x">>, Advance("c", "s", "c2") \o Wait)}

\* The rules about single operations.
Await(kind, q, until) == <<[RuleOp(kind, <<>>, <<>>, <<>>, q) EXCEPT !.until = until]>>
Attempt(kind) == <<RuleOp(kind, IF kind = "try_send" THEN <<"x">> ELSE <<>>,
                          IF kind = "try_send" THEN <<"ok">> ELSE <<"e", "ok">>, <<>>, "q")>>
Note(name, ops) == <<RuleOp("instrumentation", <<>>, <<>>, <<Closed(ops)>>, name)>>
Probe == <<Line("probe", <<>>, <<"e">>)>>
Count == <<Line("stat_add", <<"e">>, <<>>)>>
Single ==
    {Attempt(kind) \o If("ok", then, Closed(else)) :
        kind \in {"try_send", "try_recv", "peek", "try_event"}, then \in {<<>>, Await("await_queue", "q", "readable")},
        else \in {Await("await_queue", "q", "readable"), Await("await_queue", "q", "writable"),
                  Await("await_queue", "z", "readable"), Await("await_event", "q", "event"),
                  If("b", Await("await_queue", "q", "readable"), Empty)}}
    \cup {Probe \o Count, Probe \o <<Line("arith", <<"e">>, <<>>)>>, Probe \o Note("a", <<Line("arith", <<"e">>, <<>>)>>),
          Note("a", <<>>) \o Note("a", <<>>), Note("a", <<>>) \o Note("z", <<>>), <<Line("memory.load", <<>>, <<>>)>>,
          <<Line("yield_sim", <<>>, <<>>)>>, If("x", Wait, Empty),
          If("b", If("b", If("b", If("b", <<>>, Empty), Empty), Empty), Empty)}

SmallProcesses ==
    {Process("workload", ops) : ops \in Looping \cup Linear \cup Traces \cup Single}
    \cup {Process("monitor", ops) : ops \in Single \cup {Take, Wait}}
    \cup {Process("other", <<>>), [Process("control", Wait) EXCEPT !.captures = <<"x">>],
          [Process("control", Wait) EXCEPT !.body.ops = Wait]}
====
