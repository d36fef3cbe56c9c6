----------------------------- MODULE PlanAuditMC -----------------------------
(***************************************************************************)
(* Small frozen models: processes that only yield, one with two loops, and *)
(* processes whose actions need helpers of one role at different types,    *)
(* counts and fields, with local branches and a value live across a        *)
(* suspension.                                                             *)
(***************************************************************************)
EXTENDS PlanAudit

Op(name, type, path) == [NoOp EXCEPT !.op = name, !.type = type, !.path = path]
Owned(op) == [op EXCEPT !.decls = {<<"q" , op.type>>}]
Send(t, n) == Owned(Op("send", t, n))
Recv(t, n) == Owned(Op("recv", t, n))
Arbiter(k, n) == [Op("arbitrate", "", n) EXCEPT !.count = k]
Get(f, n) == Owned([Op("get", "record", n) EXCEPT !.value = "i32", !.field = f])
Create(n) == Owned([Op("create", "record", n) EXCEPT
                      !.fields = <<<<"f", "i32">>, <<"g", "i1">>>>])
Check(f, n) == [Op("assert", "", n) EXCEPT !.field = f]
Yield(n) == Op("yield", "", n)

Helper(op) == Action(0, "Original", RoleEmission(HelperRole(op)), op)
Numbered(actions) == [i \in DOMAIN actions |-> [actions[i] EXCEPT !.id = i - 1]]
Work(b) == Len(b.loads) + Cardinality({i \in DOMAIN b.actions :
                                           b.actions[i].emission # "ForwardOnly"})
Filled(b, actions, end) ==
    LET full == [b EXCEPT !.actions = Numbered(actions)]
    IN  [full EXCEPT !.cost = Work(full) + end]

\* The longest way through the blocks from block b (of an acyclic plan).
RECURSIVE Way(_, _)
Way(blocks, b) ==
    LET next == {Way(blocks, x) : x \in Successors(At(blocks, b).edge)}
    IN  At(blocks, b).cost + IF next = {} THEN 0 ELSE Max(next)
Item(key, pcs, blocks, wakes, transitions, slots) ==
    [key |-> key, process |-> key, pcs |-> pcs, blocks |-> blocks,
     wakes |-> wakes, transitions |-> transitions, slots |-> slots,
     captures |-> <<"queue">>, loops |-> FALSE, yield |-> NoOp, bare |-> FALSE,
     loopOps |-> <<>>,
     fairness |-> Max({Way(blocks, Head(pc.blocks)) : pc \in Range(pcs)})]
Pc(key, id, blocks) ==
    [id |-> id, entryPath |-> <<key, id, Head(blocks)>>, blocks |-> blocks]
NoMove == [id |-> 0, source |-> 0, target |-> 0, wake |-> 0, stores |-> <<>>,
           loads |-> <<>>]

\* One block, one wait.
QueueWake(kind, op) ==
    [YieldWake(op) EXCEPT !.kind = kind, !.key = WakeKey(kind),
        !.declaration = "queue", !.target = "queue",
        !.sources = <<[kind |-> "Capture", capture |-> 0, value |-> "",
                       declaration |-> ""]>>]
Straight(key, ops, wake) ==
    Item(key, <<Pc(key, 0, <<0>>)>>,
         <<Filled(Block(key, 0, 0, SuspendEdge(0), 0),
                  [i \in DOMAIN ops |-> Helper(ops[i])], 2)>>,
         <<wake>>, <<NoMove>>, <<>>)
\* A branch whose arms meet, end or wait.
Bit == [Constant("i1") EXCEPT !.kind = "Capture", !.arms = {"Capture"}, !.ref = 0]
Diamond(key, first, second, third) ==
    LET B(id, edge, actions, end) == Filled(Block(key, 0, id, edge, 0), actions, end)
    IN  Item(key, <<Pc(key, 0, <<0, 1, 2, 3>>)>>,
             <<B(0, BranchEdge(<<Bit>>, 1, 2), <<Helper(first)>>, 1),
               B(1, ContinueEdge(3), <<Helper(second), Helper(third)>>, 1),
               B(2, BranchEdge(<<Bit>>, 3, 1), <<Helper(third)>>, 1),
               B(3, SuspendEdge(0), <<>>, 2)>>,
             <<YieldWake(Yield(key * 10 + 9))>>, <<NoMove>>, <<>>)
\* A loop that stays inside the activation, with the work it is said to do.
Looping(key, op, work) ==
    LET B(id, edge, actions, end) == Filled(Block(key, 0, id, edge, 0), actions, end)
    IN  [key |-> key, process |-> key, pcs |-> <<Pc(key, 0, <<0, 1, 2, 3>>)>>,
         blocks |-> <<B(0, ContinueEdge(1), <<>>, 1), B(1, BranchEdge(<<Bit>>, 2, 3), <<>>, 1),
                      B(2, ContinueEdge(1), <<Helper(op)>>, 1), B(3, TerminateEdge, <<>>, 1)>>,
         wakes |-> <<>>, transitions |-> <<>>, slots |-> <<>>, captures |-> <<"queue">>,
         loops |-> TRUE, yield |-> NoOp, bare |-> FALSE, loopOps |-> <<>>,
         fairness |-> work]
\* A value of a scalar type lives across the wait.
Wrapper(kind, way) ==
    [Action(0, kind, way, NoOp) EXCEPT
       !.occurrence = [Occurrence("Wrapper", NoOp) EXCEPT
                         !.direction = way, !.transition = 0, !.slot = 0],
       !.operands = <<Constant("i1")>>, !.results = <<Constant("i1")>>,
       !.resultTypes = <<"i1">>]
Saved(key, type, op) ==
    LET slot == [id |-> 0, type |-> type, storage |-> None, wrap |-> None,
                 unwrap |-> None, members |-> <<Constant(type)>>]
        load == [slot |-> 0, replacements |-> <<Constant(type)>>]
        first == Filled(Block(key, 0, 0, SuspendEdge(0), 0),
                        <<Helper(op), Wrapper("ScalarWrap", "Wrap")>>, 3)
        second == Filled([Block(key, 1, 1, TerminateEdge, 0) EXCEPT !.loads = <<load>>],
                         <<Wrapper("ScalarUnwrap", "Unwrap")>>, 1)
    IN  Item(key, <<Pc(key, 0, <<0>>), Pc(key, 1, <<1>>)>>, <<first, second>>,
             <<YieldWake(Yield(key * 10 + 9))>>,
             <<[NoMove EXCEPT !.target = 1,
                  !.stores = <<[slot |-> 0, source |-> Constant(type)]>>,
                  !.loads = <<load>>]>>,
             <<slot>>)

\* The helpers each family needs, by path.
OpsFrom(n) ==
    {Send("i1", n), Send("i32", n), Recv("i32", n), Owned(Op("peek", "i1", n)),
     Owned(Op("space", "", n)), Owned(Op("schedule", "i64", n)),
     Owned(Op("event", "i64", n)), Owned(Op("read", "i32", n)),
     Owned(Op("write", "i1", n)), Owned(Op("transfer", "i32", n)),
     Owned(Op("transfer", "i1", n)), Arbiter(1, n), Arbiter(2, n), Get("f", n),
     Get("g", n), Create(n), Check("f", n), Check("g", n)}
Frozen(items) == [frozen |-> TRUE, items |-> items]
Pairs ==
    {Frozen(<<Straight(2, <<a, b>>, YieldWake(Yield(29))),
              Straight(1, <<c>>, QueueWake("QueueReadable", Recv("i32", 18)))>>) :
        a \in OpsFrom(21), b \in OpsFrom(22), c \in {Send("i1", 11), Arbiter(1, 11)}}
Branching ==
    {Frozen(<<Diamond(1, Send("i1", 11), b, c)>>) :
        b \in OpsFrom(12), c \in OpsFrom(13)}
Saving ==
    {Frozen(<<Saved(3, t, Send("i32", 31)), Saved(1, u, Recv(t, 11)),
              Straight(2, <<Send(u, 21)>>, QueueWake("QueueWritable", Send(u, 28)))>>) :
        t \in ScalarTypes, u \in ScalarTypes}
YieldItem(key) ==
    [Straight(key, <<>>, YieldWake(Yield(key * 10 + 9))) EXCEPT
       !.yield = Yield(key * 10 + 9), !.bare = TRUE]
LoopOps == <<Op("for", "", 11), Op("for", "", 12)>>
Yielding ==
    {Frozen(<<YieldItem(1)>>), Frozen(<<YieldItem(2), YieldItem(1)>>),
     Frozen(<<YieldItem(1), YieldItem(3), YieldItem(2)>>),
     Frozen(<<[YieldItem(1) EXCEPT !.bare = FALSE, !.loopOps = LoopOps]>>)}
Looped ==
    {Frozen(<<Looping(1, op, work)>>) : op \in OpsFrom(11), work \in {4, MaxFairness}}
    \cup {Frozen(<<Straight(2, <<Send("i32", 21)>>, YieldWake(Yield(29))),
                   Looping(1, Send("i1", 11), 9)>>)}
Odd ==
    {[frozen |-> FALSE, items |-> <<YieldItem(1)>>], Frozen(<<>>),
     Frozen(<<Straight(1, <<[Get("f", 11) EXCEPT !.decls = {}]>>,
                       YieldWake(Yield(19)))>>)}
SmallModels == Pairs \cup Branching \cup Saving \cup Yielding \cup Looped \cup Odd
=============================================================================
