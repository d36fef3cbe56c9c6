---- MODULE ProcessRules ----
(***************************************************************************)
(* What ac.process accepts (ProcessOp::verify and the checks it calls:     *)
(* ProcessLowerability.cpp and the structured suspension and trace cursor  *)
(* analyses of ACIROps.cpp), and what an accepted body then does when it   *)
(* runs.  Check is the verifier; the other actions execute a body one      *)
(* operation at a time, with every condition that is not a constant chosen *)
(* freely, and record what the verifier promised about it: that no loop    *)
(* spins without suspending, that a trace cursor belongs to the source its *)
(* reader names, and that no flow or token is held across a suspension.    *)
(*                                                                         *)
(* A body is a tree: an operation has operands (uses), results (defs) and  *)
(* regions, a region has block arguments and operations, the last of which *)
(* is its terminator.  tag is the attribute a rule looks at: the trace     *)
(* source, the queue, the instrumentation name, or the constant's value.   *)
(***************************************************************************)
EXTENDS Integers, Sequences, SequencesExt, FiniteSets, FiniteSetsExt

CONSTANTS Bodies,      \* the processes offered to the verifier
          Types,       \* the type of each value: bit, int, index, flow, token, entry
          RuleLimits,  \* [depth, nodes, edges, trips, word]: the capability limits
          MaxRounds    \* iterations executed of a loop whose trip count is not static

VARIABLES process,  \* the process under verification
          stage,    \* new, refused, running or done
          stack,    \* the regions being executed, outermost first
          env       \* of every value: the trace source it is a cursor of, and whether it is stale

ruleVars == <<process, stage, stack, env>>

-----------------------------------------------------------------------------
\* The operations of a body.

RECURSIVE Walk(_)
Walk(region) ==
    FlattenSeq([i \in DOMAIN region.ops |->
        <<region.ops[i]>> \o FlattenSeq([r \in DOMAIN region.ops[i].regions |-> Walk(region.ops[i].regions[r])])])

RECURSIVE Depth(_)
Depth(region) ==
    IF region.ops = <<>> THEN 0
    ELSE 1 + Max({0} \cup {Depth(region.ops[i].regions[r]) :
                            <<i, r>> \in {x \in (DOMAIN region.ops) \X {1, 2} :
                                            x[2] \in DOMAIN region.ops[x[1]].regions}})

OpsOf(p) == ToSet(Walk(p.body))
OpsOfKind(p, kinds) == SelectSeq(Walk(p.body), LAMBDA op : op.kind \in kinds)

isSuspension(op) == op.kind \in {"wait_until", "wait_for", "await_event", "await_queue", "yield_sim"}
isLinearAcrossSuspension(v) == Types[v] \in {"flow", "token"}

\* getDefiningOp: block arguments have none.
DefiningOps(p, v) == {op \in OpsOf(p) : v \in ToSet(op.defs)}

\* The constant of a value: none when no arith.constant defines it.
Constants(p, v) == {op.tag : op \in {d \in DefiningOps(p, v) : d.kind = "constant"}}
constantBool(p, v) == IF Types[v] = "bit" THEN Constants(p, v) ELSE {}

-----------------------------------------------------------------------------
\* verifyProcessLowerability: the bounded walk.

Operands(p) == FoldSeq(LAMBDA op, n : n + Len(op.uses), Len(p.captures), Walk(p.body))
WithinCapability(p) ==
    /\ Depth(p.body) <= RuleLimits.depth
    /\ Len(Walk(p.body)) + 1 <= RuleLimits.nodes
    /\ Operands(p) <= RuleLimits.edges

Arith == {"constant", "arith"}
Control == {"call", "return", "if", "for", "while", "condition", "yield"}
Runtime == {"record", "packet", "try_send", "try_recv", "try_transfer", "peek", "space", "schedule", "try_event",
            "state_read", "state_write", "wait_until", "wait_for", "await_event", "await_queue", "yield_sim",
            "open", "next", "decode", "eof", "position", "require", "ensure", "assert", "probe", "stat_add",
            "instrumentation", "arbitrate"}
isAllowedProcessOperation(op) ==
    /\ op.kind \in Arith \cup Control \cup Runtime
    /\ op.kind \in Arith => op.regions = <<>>

sameTypes(left, right) ==
    /\ Len(left) = Len(right)
    /\ \A i \in DOMAIN left : Types[left[i]] = Types[right[i]]

Terminator(region) == Last(region.ops)
EndsWith(region, kind) == region.ops # <<>> /\ Terminator(region).kind = kind
HasElse(op) == op.regions[2].ops # <<>>

IfShape(op) ==
    /\ Len(op.regions) = 2
    /\ EndsWith(op.regions[1], "yield")
    /\ HasElse(op) => EndsWith(op.regions[2], "yield")
    /\ Types[op.uses[1]] = "bit"
    /\ \A r \in {1, 2} : op.regions[r].args = <<>>
    /\ sameTypes(Terminator(op.regions[1]).uses, op.defs)
    /\ IF HasElse(op) THEN sameTypes(Terminator(op.regions[2]).uses, op.defs) ELSE op.defs = <<>>

Inits(op) == IF op.kind = "for" THEN SubSeq(op.uses, 4, Len(op.uses)) ELSE op.uses
IterArgs(op) == Tail(op.regions[1].args)

ForShape(op) ==
    /\ Len(op.regions) = 1
    /\ EndsWith(op.regions[1], "yield")
    /\ Len(op.regions[1].args) = Len(op.defs) + 1
    /\ sameTypes(Inits(op), op.defs)
    /\ sameTypes(IterArgs(op), op.defs)
    /\ sameTypes(Terminator(op.regions[1]).uses, op.defs)

WhileShape(op) ==
    /\ Len(op.regions) = 2
    /\ EndsWith(op.regions[1], "condition")
    /\ EndsWith(op.regions[2], "yield")
    /\ Terminator(op.regions[1]).uses # <<>>
    /\ Types[Terminator(op.regions[1]).uses[1]] = "bit"
    /\ sameTypes(op.uses, op.regions[1].args)
    /\ sameTypes(Tail(Terminator(op.regions[1]).uses), op.defs)
    /\ sameTypes(op.regions[2].args, op.defs)
    /\ sameTypes(Terminator(op.regions[2]).uses, op.regions[1].args)

verifySCFShape(op) ==
    /\ op.kind = "if" => IfShape(op)
    /\ op.kind = "for" => ForShape(op)
    /\ op.kind = "while" => WhileShape(op)

Bounds(p, op) == [i \in 1..3 |-> Constants(p, op.uses[i])]
isIntegerConstant(p, op) == \A i \in 1..3 : Bounds(p, op)[i] # {}
Bound(p, op, i) == CHOOSE n \in Bounds(p, op)[i] : TRUE
CeilDiv(n, d) == (n + d - 1) \div d
Trips(lower, upper, step) == IF upper <= lower THEN 0 ELSE CeilDiv(upper - lower, step)

\* A bound of more than 64 bits has no constantInt; a step of zero or less is refused.
analyzeStaticFor(p, op) ==
    /\ \A i \in 1..3 : Bound(p, op, i) \in -RuleLimits.word..RuleLimits.word
    /\ Bound(p, op, 3) > 0
    /\ Trips(Bound(p, op, 1), Bound(p, op, 2), Bound(p, op, 3)) <= RuleLimits.trips

\* The bottom-up suspension guarantees of a region: an operation of it suspends on every path.
RECURSIVE RegionGuarantee(_, _)
RegionGuarantee(p, region) ==
    \E i \in DOMAIN region.ops :
        LET op == region.ops[i] IN
        \/ isSuspension(op)
        \/ /\ op.kind = "if"
           /\ \A r \in (IF constantBool(p, op.uses[1]) = {} THEN {1, 2}
                        ELSE {2 - b : b \in constantBool(p, op.uses[1])}) :
                 RegionGuarantee(p, op.regions[r])

LoopLowerable(p, op) ==
    IF isIntegerConstant(p, op) THEN analyzeStaticFor(p, op)
    ELSE RegionGuarantee(p, op.regions[1])

verifyProcessLowerability(p) ==
    /\ WithinCapability(p)
    /\ \A op \in OpsOf(p) : isAllowedProcessOperation(op) /\ verifySCFShape(op)
    /\ \A op \in OpsOf(p) : op.kind = "for" => LoopLowerable(p, op)

-----------------------------------------------------------------------------
\* StructuredSuspensionAnalysis.

\* The regions of an operation that execution may enter.
ReachableRegions(p, op) ==
    IF op.kind = "if" /\ constantBool(p, op.uses[1]) # {}
    THEN {2 - b : b \in constantBool(p, op.uses[1])}
    ELSE DOMAIN op.regions

RECURSIVE operationMaySuspend(_, _), operationGuaranteesSuspend(_, _)
regionMaySuspend(p, region) == \E i \in DOMAIN region.ops : operationMaySuspend(p, region.ops[i])
guaranteesSuspend(p, region) == \E i \in DOMAIN region.ops : operationGuaranteesSuspend(p, region.ops[i])

operationMaySuspendItself(p, op) == isSuspension(op)
operationMaySuspend(p, op) ==
    isSuspension(op) \/ \E r \in ReachableRegions(p, op) : regionMaySuspend(p, op.regions[r])

operationGuaranteesEither(p, op) ==
    \/ isSuspension(op)
    \/ op.kind = "if" /\ \E r \in ReachableRegions(p, op) : guaranteesSuspend(p, op.regions[r])
operationGuaranteesSuspend(p, op) ==
    \/ isSuspension(op)
    \/ /\ op.kind = "if"
       /\ \A r \in ReachableRegions(p, op) : guaranteesSuspend(p, op.regions[r])

\* buildEpochs: an epoch ends where an operation may suspend; regions start in the epoch of their operation.
EpochOf(p, region, entry, i) ==
    entry + Cardinality({k \in 1..(i - 1) : operationMaySuspend(p, region.ops[k])})

RECURSIVE Defined(_, _, _)
Defined(p, region, entry) ==
    UNION ({{<<v, entry>> : v \in ToSet(region.args)}}
           \cup {{<<v, EpochOf(p, region, entry, i + 1)>> : v \in ToSet(region.ops[i].defs)} : i \in DOMAIN region.ops}
           \cup {UNION {Defined(p, region.ops[i].regions[r], EpochOf(p, region, entry, i)) :
                           r \in ReachableRegions(p, region.ops[i])} : i \in DOMAIN region.ops})

RECURSIVE Used(_, _, _)
Used(p, region, entry) ==
    UNION {{<<v, EpochOf(p, region, entry, i)>> : v \in ToSet(region.ops[i].uses)}
           \cup UNION {Used(p, region.ops[i].regions[r], EpochOf(p, region, entry, i)) :
                         r \in ReachableRegions(p, region.ops[i])} : i \in DOMAIN region.ops}

verifyLinearLiveness(p) ==
    \A d \in Defined(p, p.body, 0) :
        isLinearAcrossSuspension(d[1]) => \A u \in Used(p, p.body, 0) : u[1] = d[1] => u[2] <= d[2]

-----------------------------------------------------------------------------
\* verifyTraceProvenance: cursors are followed through the values that structured control flow forwards.

Pairs(left, right) == {<<left[i], right[i]>> : i \in DOMAIN left}
IfEdges(op) ==
    UNION {Pairs(Terminator(op.regions[r]).uses, op.defs) : r \in {x \in {1, 2} : op.regions[x].ops # <<>>}}
ForEdgesWithoutBackedge(op) == Pairs(Inits(op), IterArgs(op)) \cup Pairs(IterArgs(op), op.defs)
ForEdges(op) ==
    Pairs(Inits(op), IterArgs(op)) \cup Pairs(IterArgs(op), op.defs)
    \cup Pairs(Terminator(op.regions[1]).uses, IterArgs(op))
WhileEdges(op) ==
    Pairs(op.uses, op.regions[1].args)
    \cup Pairs(Tail(Terminator(op.regions[1]).uses), op.regions[2].args)
    \cup Pairs(op.regions[2].args, op.defs)
    \cup Pairs(Terminator(op.regions[2]).uses, op.regions[1].args)
EdgesOf(op) ==
    CASE op.kind = "if" -> IfEdges(op)
      [] op.kind = "for" -> ForEdges(op)
      [] op.kind = "while" -> WhileEdges(op)
      [] OTHER -> {}
Forwarding(p) ==
    {e \in UNION {EdgesOf(op) : op \in OpsOf(p)} : Types[e[1]] = "index" /\ Types[e[2]] = "index"}

RECURSIVE Reached(_, _)
Reached(edges, values) ==
    LET more == values \cup {e[2] : e \in {x \in edges : x[1] \in values}}
                       \cup {e[1] : e \in {x \in edges : x[2] \in values}}
    IN IF more = values THEN values ELSE Reached(edges, more)
Component(p, v) == Reached(Forwarding(p), {v})

\* A value that is an index but never a cursor.
isConcreteNonCursor(p, v) ==
    /\ \A op \in DefiningOps(p, v) :
          /\ op.kind \notin {"open", "if", "for", "while"}
          /\ op.kind = "next" => v # op.defs[1]
    /\ \A op \in OpsOf(p) :
          /\ op.kind = "for" => v \notin ToSet(IterArgs(op))
          /\ op.kind = "while" => \A r \in DOMAIN op.regions : v \notin ToSet(op.regions[r].args)

\* The sources of a component, through the cursors that trace.next returns.
RECURSIVE Propagated(_, _)
Propagated(p, known) ==
    LET more == known \cup UNION {{<<Component(p, op.defs[1]), k[2]>> :
                                      k \in {x \in known : op.uses[1] \in x[1]}} :
                                  op \in {o \in OpsOf(p) : o.kind = "next"}}
    IN IF more = known THEN known ELSE Propagated(p, more)
CursorStates(p) ==
    Propagated(p, {<<Component(p, op.defs[1]), op.tag>> : op \in {o \in OpsOf(p) : o.kind = "open"}})

OneSource(p, states) ==
    /\ \A x, y \in states : x[1] = y[1] => x[2] = y[2]
    /\ \A x \in states : \A v \in x[1] : ~isConcreteNonCursor(p, v)

verifyConsumer(states, op) == \E x \in states : op.uses[1] \in x[1] /\ x[2] = op.tag
OneAdvances(p) ==
    LET nexts == OpsOfKind(p, {"next"}) IN
    \A i, j \in DOMAIN nexts : Component(p, nexts[i].uses[1]) = Component(p, nexts[j].uses[1]) => i = j

\* What an operation does with a value other than forward it.
PlainUses(op) ==
    CASE op.kind \in {"next", "eof", "position", "yield", "while"} -> {}
      [] op.kind = "condition" -> {op.uses[1]}
      [] op.kind = "for" -> {op.uses[i] : i \in 1..3}
      [] OTHER -> ToSet(op.uses)

ProvenanceHolds(p, states) ==
    /\ OneSource(p, states)
    /\ \A op \in OpsOf(p) : op.kind \in {"next", "eof", "position"} => verifyConsumer(states, op)
    /\ OneAdvances(p)
    /\ \A x \in states : \A op \in OpsOf(p) : PlainUses(op) \cap x[1] = {}
verifyTraceProvenance(p) == \A states \in {CursorStates(p)} : ProvenanceHolds(p, states)

-----------------------------------------------------------------------------
\* The operations' own verifiers.

\* A false branch of op stands for the failures of the attempts whose result is op's condition.
Failures(p, op) ==
    LET tries == {d \in DefiningOps(p, op.uses[1]) : d.kind \in {"try_send", "try_recv", "peek", "try_event"}
                                                      /\ op.uses[1] = Last(d.defs)}
        wait(d) == CASE d.kind = "try_send" -> "writable"
                     [] d.kind = "try_event" -> "event"
                     [] OTHER -> "readable"
    IN {<<wait(d), d.tag>> : d \in tries}

AwaitKind(op) == IF op.kind = "await_event" THEN "event" ELSE op.until

RECURSIVE AwaitsMatched(_, _, _)
AwaitsMatched(p, region, failed) ==
    \A i \in DOMAIN region.ops :
        LET op == region.ops[i] IN
        /\ op.kind \in {"await_event", "await_queue"} => <<AwaitKind(op), op.tag>> \in failed
        /\ \A r \in DOMAIN op.regions :
              AwaitsMatched(p, op.regions[r],
                  failed \cup (IF op.kind = "if" /\ r = 2 THEN Failures(p, op) ELSE {}))

YieldsLast(p) == Len(OpsOfKind(p, {"yield_sim"})) = 1

DecodesNext(p) ==
    \A op \in OpsOf(p) : op.kind = "decode" =>
        \E d \in DefiningOps(p, op.uses[1]) : d.kind = "next" /\ op.uses[1] = d.defs[2]

\* Outside instrumentation a probe's result feeds observations only.
RECURSIVE Functional(_)
Functional(region) ==
    FlattenSeq([i \in DOMAIN region.ops |->
        IF region.ops[i].kind = "instrumentation" THEN <<region.ops[i]>>
        ELSE <<region.ops[i]>> \o FlattenSeq([r \in DOMAIN region.ops[i].regions |-> Functional(region.ops[i].regions[r])])])
ProbesObserved(p) ==
    \A op \in OpsOf(p) : op.kind = "probe" =>
        \A user \in ToSet(Functional(p.body)) :
            ToSet(op.defs) \cap ToSet(user.uses) # {} => user.kind \in {"probe", "stat_add"}

-----------------------------------------------------------------------------
\* ProcessOp::verify.

Effects == {"try_send", "try_recv", "try_transfer", "schedule", "try_event", "state_write", "wait_for", "await_event"}
MonitorsObserve(p) == p.kind = "monitor" => \A op \in OpsOf(p) : op.kind \notin Effects

BackedgeSuspends(p, op) ==
    \/ constantBool(p, Terminator(op.regions[1]).uses[1]) = {0}
    \/ \E r \in {1, 2} : guaranteesSuspend(p, op.regions[r])

NamesDistinct(p) ==
    LET named == OpsOfKind(p, {"instrumentation"}) IN
    \A i, j \in DOMAIN named : named[i].tag = named[j].tag => i = j

Verified(p) ==
    /\ p.kind \in {"control", "workload", "monitor"}
    /\ sameTypes(p.body.args, p.captures)
    /\ EndsWith(p.body, "yield_sim")
    /\ verifyProcessLowerability(p)
    /\ MonitorsObserve(p)
    /\ \A op \in OpsOf(p) : op.kind = "while" => BackedgeSuspends(p, op)
    /\ verifyLinearLiveness(p)
    /\ NamesDistinct(p)
    /\ AwaitsMatched(p, p.body, {}) /\ YieldsLast(p) /\ DecodesNext(p) /\ ProbesObserved(p)
    /\ verifyTraceProvenance(p)

-----------------------------------------------------------------------------
\* The execution of an accepted body.

NoCursor == "none"
NoOwner == [kind |-> "process"]
Unset == [source |-> NoCursor, stale |-> FALSE]
Values == DOMAIN Types

\* A frame: the region, the next operation, the operation it is a region of, the loop's counter and
\* iterations, whether the process suspended since this iteration and since this region began, and the
\* values that were already too old when the operation was entered.
Frame(owner, region, counter, round, old) ==
    [owner |-> owner, region |-> region, at |-> 1, counter |-> counter, round |-> round,
     rested |-> FALSE, crossed |-> FALSE, old |-> old]
Top == Last(stack)
Current == Top.region.ops[Top.at]
Running == stage = "running"
Advanced == [stack EXCEPT ![Len(stack)].at = @ + 1]

\* A value from outside a loop that was fresh when the loop was entered, and used in a region of the
\* loop that has not suspended since it began: what went before is an earlier iteration, or the before
\* region of this one.
DefinedIn(op) ==
    UNION {ToSet(op.regions[r].args) \cup UNION {ToSet(x.defs) : x \in ToSet(Walk(op.regions[r]))} :
              r \in DOMAIN op.regions}
BehindRegion(v) ==
    \E i \in DOMAIN stack :
        /\ stack[i].owner.kind \in {"for", "while"}
        /\ ~stack[i].crossed /\ v \notin stack[i].old
        /\ v \notin DefinedIn(stack[i].owner)
Old == {v \in Values : isLinearAcrossSuspension(v) /\ env[v].stale /\ ~BehindRegion(v)}

Bind(names, values) ==
    [v \in Values |-> IF \E i \in DOMAIN names : names[i] = v
                      THEN env[values[CHOOSE i \in DOMAIN names : names[i] = v]] ELSE env[v]]

RulesInit ==
    /\ process \in Bodies
    /\ stage = "new"
    /\ stack = <<>>
    /\ env = [v \in Values |-> Unset]

Check ==
    /\ stage = "new"
    /\ \/ /\ Verified(process)
          /\ stage' = "running"
          /\ stack' = <<Frame(NoOwner, process.body, 0, 0, {})>>
       \/ /\ ~Verified(process)
          /\ stage' = "refused"
          /\ stack' = stack
    /\ UNCHANGED <<process, env>>

\* An operation without regions that does not suspend: its results are fresh, cursors keep their source.
ResultSource(op, v) ==
    CASE op.kind = "open" -> op.tag
      [] op.kind = "next" /\ v = op.defs[1] -> env[op.uses[1]].source
      [] OTHER -> NoCursor
Simple(op) == op.regions = <<>> /\ ~isSuspension(op) /\ op.kind \notin {"yield", "condition"}
Execute ==
    /\ Running /\ Simple(Current)
    /\ env' = [v \in Values |-> IF v \in ToSet(Current.defs)
                                THEN [source |-> ResultSource(Current, v), stale |-> FALSE] ELSE env[v]]
    /\ stack' = Advanced
    /\ UNCHANGED <<process, stage>>

\* A suspension: every value defined so far is now from before it.  yield_sim ends the body.
Suspend ==
    /\ Running /\ isSuspension(Current)
    /\ env' = [v \in Values |-> [env[v] EXCEPT !.stale = TRUE]]
    /\ IF Current.kind = "yield_sim" THEN stage' = "done" /\ stack' = <<>>
       ELSE stage' = stage /\ stack' = [i \in DOMAIN stack |-> [Advanced[i] EXCEPT !.rested = TRUE, !.crossed = TRUE]]
    /\ UNCHANGED process

Branches(op) ==
    IF constantBool(process, op.uses[1]) = {} THEN {1, 2} ELSE {2 - b : b \in constantBool(process, op.uses[1])}

EnterIf ==
    /\ Running /\ Current.kind = "if"
    /\ \E r \in Branches(Current) :
          stack' = IF Current.regions[r].ops = <<>> THEN Advanced
                   ELSE Append(stack, Frame(Current, Current.regions[r], 0, 0, Old))
    /\ UNCHANGED <<process, stage, env>>

\* The instrumentation region of a process runs once; it has no terminator of its own.
EnterInstrumentation ==
    /\ Running /\ Current.kind = "instrumentation"
    /\ stack' = Append(stack, Frame(Current, Current.regions[1], 0, 0, Old))
    /\ UNCHANGED <<process, stage, env>>

Static(op) == isIntegerConstant(process, op)
\* Whether another iteration of a for follows: counted when its bounds are constants, free otherwise.
ForContinues(op, counter, round) ==
    IF Static(op) THEN {counter < Bound(process, op, 2)}
    ELSE {FALSE} \cup (IF round < MaxRounds THEN {TRUE} ELSE {})

EnterFor ==
    /\ Running /\ Current.kind = "for"
    /\ \E first \in {IF Static(Current) THEN Bound(process, Current, 1) ELSE 0} :
          \E go \in ForContinues(Current, first, 0) :
             IF go THEN /\ stack' = Append(stack, Frame(Current, Current.regions[1], first, 1, Old))
                        /\ env' = Bind(IterArgs(Current), Inits(Current))
             ELSE stack' = Advanced /\ env' = Bind(Current.defs, Inits(Current))
    /\ UNCHANGED <<process, stage>>

EnterWhile ==
    /\ Running /\ Current.kind = "while"
    /\ stack' = Append(stack, Frame(Current, Current.regions[1], 0, 1, Old))
    /\ env' = Bind(Current.regions[1].args, Current.uses)
    /\ UNCHANGED <<process, stage>>

\* Leave the top frame; its owner is done.
Popped == [Front(stack) EXCEPT ![Len(stack) - 1].at = @ + 1]

LeaveIf ==
    /\ Running /\ Current.kind = "yield" /\ Top.owner.kind = "if"
    /\ stack' = Popped
    /\ env' = Bind(Top.owner.defs, Current.uses)
    /\ UNCHANGED <<process, stage>>

LeaveInstrumentation ==
    /\ Running /\ Current.kind = "yield" /\ Top.owner.kind = "instrumentation"
    /\ stack' = Popped
    /\ UNCHANGED <<process, stage, env>>

Again(frame, region, counter) ==
    Append(Front(stack), Frame(frame.owner, region, counter, frame.round + 1, frame.old))

NextIteration ==
    /\ Running /\ Current.kind = "yield" /\ Top.owner.kind = "for"
    /\ \E counter \in {IF Static(Top.owner) THEN Top.counter + Bound(process, Top.owner, 3) ELSE 0} :
          \E go \in ForContinues(Top.owner, counter, Top.round) :
             IF go THEN /\ stack' = Again(Top, Top.region, counter)
                        /\ env' = Bind(IterArgs(Top.owner), Current.uses)
             ELSE stack' = Popped /\ env' = Bind(Top.owner.defs, Current.uses)
    /\ UNCHANGED <<process, stage>>

Condition ==
    /\ Running /\ Current.kind = "condition"
    /\ \E r \in (IF Top.round < MaxRounds THEN Branches(Current) ELSE Branches(Current) \cap {2}) :
          IF r = 1
          THEN /\ stack' = Append(Front(stack), [Top EXCEPT !.region = Top.owner.regions[2], !.at = 1, !.crossed = FALSE])
               /\ env' = Bind(Top.owner.regions[2].args, Tail(Current.uses))
          ELSE stack' = Popped /\ env' = Bind(Top.owner.defs, Tail(Current.uses))
    /\ UNCHANGED <<process, stage>>

Repeat ==
    /\ Running /\ Current.kind = "yield" /\ Top.owner.kind = "while"
    /\ stack' = Again(Top, Top.owner.regions[1], 0)
    /\ env' = Bind(Top.owner.regions[1].args, Current.uses)
    /\ UNCHANGED <<process, stage>>

RulesNext ==
    \/ Check \/ Execute \/ Suspend
    \/ EnterIf \/ LeaveIf \/ EnterInstrumentation \/ LeaveInstrumentation
    \/ EnterFor \/ NextIteration \/ EnterWhile \/ Condition \/ Repeat

RulesSpec == RulesInit /\ [][RulesNext]_ruleVars

-----------------------------------------------------------------------------
\* The last operation of an iteration that another iteration may follow.
AtBackedge(frame) ==
    /\ frame.owner.kind \in {"for", "while"}
    /\ frame.region.ops[frame.at].kind = "yield"

(* Every loop of an accepted process makes progress in simulated time or ends by itself: an
   iteration of an scf.while or of an scf.for with dynamic bounds suspends before the next begins,
   and an scf.for that may not suspend has at most the capability limit's number of iterations.
   This is what the suspension guarantees of ProcessLowerability.cpp and
   StructuredSuspensionAnalysis are computed for. *)
LoopsRest ==
    Running =>
        \A i \in DOMAIN stack : AtBackedge(stack[i]) /\ i = Len(stack) =>
            \/ stack[i].rested
            \/ stack[i].owner.kind = "for" /\ Static(stack[i].owner) /\ stack[i].round <= RuleLimits.trips

(* A trace reader of an accepted process only ever holds a cursor of the source it names, however
   branches and loops forwarded it (verifyTraceProvenance). *)
CursorsFromSource ==
    (Running /\ Current.kind \in {"next", "eof", "position"}) => env[Current.uses[1]].source = Current.tag

(* No flow or resource token is used on the far side of a suspension in an accepted process: "value
   of type ... cannot remain live across suspension" (ACIROps.cpp:2932,
   test/ACIR/process-invalid.mlir:176).  buildEpochs numbers every region of an operation from the
   epoch before it and follows no back edge (ACIROps.cpp:3043-3045), so one case is accepted and is
   the exception here: a value from outside a loop, still fresh when the loop is entered, may be used in a later
   iteration, or in the after region of an scf.while whose before region suspends, as long as no
   suspension of that same pass through that same region comes before the use. *)
LinearNotAcross ==
    Running => \A v \in ToSet(Current.uses) :
                  isLinearAcrossSuspension(v) /\ env[v].stale => BehindRegion(v)
====
