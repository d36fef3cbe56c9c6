----------------------------- MODULE QueuePorts -----------------------------
(***************************************************************************)
(* Who may move data through a queue of a module: the reference and port   *)
(* rules of ACIR, the arbiters that make exceptions to them, and an epoch  *)
(* of the module they are there for.                                       *)
(*                                                                         *)
(*   lib/Dialect/ACIR/ACIROps.cpp           verifyRuntimeReferences,       *)
(*        ArbitrateOp::verify, TryTransferOp::verify, staticPortRange      *)
(*   lib/Conversion/ACIRToACSim/ACIRToACSim.cpp  lowerArbiters             *)
(*   lib/CodeGen/ProcessGenerator.cpp       the round-robin helper         *)
(*   include/gfsim/queue.h                  proposeTransferTo              *)
(*                                                                         *)
(* A module is a record: its queues (payload and protocol of each), its    *)
(* event queues, its state arrays (number of read and of write ports), its *)
(* resources (TRUE when capacity, issue width, initiation interval and     *)
(* latency are all one), its flow endpoints and its processes.  A process  *)
(* has at most one arbiter and a sequence of operations; an operation is   *)
(* enabled by a grant of that arbiter (its number) or by anything else (0).*)
(***************************************************************************)
EXTENDS Integers, Sequences, FiniteSets, SequencesExt

CONSTANTS
    PortModules,   \* the modules that are verified
    MaxTokens      \* most values in a queue at the start of an epoch

NoArbiter == [policy |-> "none", state |-> FALSE, candidates |-> <<>>]

VARIABLES
    module,        \* the module under verification
    verdict,       \* "new", "accepted" or "refused"
    rr,            \* the state value each round-robin arbiter is given next
    denied,        \* consecutive evaluations that refused a standing request
    requests,      \* the requests of this epoch
    tokens,        \* committed values of each queue
    popped, pushed,\* operations that proposed to pop or push, per queue
    todo           \* processes, then links, that have still to run in this epoch

portVars == <<module, verdict, rr, denied, requests, tokens, popped, pushed, todo>>

-----------------------------------------------------------------------------
(* verifyRuntimeReferences, first part: the structural flow endpoints. *)

\* A queue serves at most one endpoint: no second export, no second import,
\* and never one of each.
EndpointRoles(m) ==
    \A i, j \in DOMAIN m.endpoints :
        m.endpoints[i].queue = m.endpoints[j].queue => i = j

EndpointTypes(m) ==
    \A i \in DOMAIN m.endpoints :
        LET e == m.endpoints[i]
        IN  /\ e.queue \in DOMAIN m.queues
            /\ e.payload = m.queues[e.queue].payload
            /\ e.protocol = m.queues[e.queue].protocol

Exported(m) == {m.endpoints[i].queue : i \in {j \in DOMAIN m.endpoints : m.endpoints[j].kind = "export"}}
Imported(m) == {m.endpoints[i].queue : i \in {j \in DOMAIN m.endpoints : m.endpoints[j].kind = "import"}}

-----------------------------------------------------------------------------
(* Second part: every operation finds a target of its kind and type. *)

IsQueue(m, q) == q \in DOMAIN m.queues

\* staticPortRange: the ports a constant, or the induction value of a static
\* loop, can name; <<>> when the port is neither.
InPorts(range, ports) == range # <<>> /\ range[1] >= 0 /\ range[2] < ports

TransferRefs(m, o) ==
    /\ IsQueue(m, o.target) /\ IsQueue(m, o.dest)
    /\ m.queues[o.target].payload = o.payload
    /\ m.queues[o.dest].payload = o.payload
    /\ m.queues[o.target].protocol = m.queues[o.dest].protocol
    /\ o.target \notin Exported(m)
    /\ o.dest \notin Imported(m)
    /\ o.target # o.dest                       \* TryTransferOp::verify

\* try_send, try_recv, peek, space, await_queue and a probe of a queue
QueueRefs(m, o) ==
    /\ IsQueue(m, o.target)
    /\ o.kind \in {"send", "recv", "peek", "probe"} => m.queues[o.target].payload = o.payload
    /\ o.kind = "send" => o.target \notin Imported(m)
    /\ o.kind = "recv" => o.target \notin Exported(m)

EventRefs(m, o) == o.target \in DOMAIN m.events /\ o.payload = m.events[o.target]

StateRefs(m, o) ==
    /\ o.target \in DOMAIN m.arrays
    /\ o.payload = m.arrays[o.target].payload
    /\ InPorts(o.port, IF o.kind = "read" THEN m.arrays[o.target].reads
                                          ELSE m.arrays[o.target].writes)

OpRefs(m, o) ==
    CASE o.kind = "transfer" -> TransferRefs(m, o)
      [] o.kind \in {"schedule", "event"} -> EventRefs(m, o)
      [] o.kind \in {"read", "write"} -> StateRefs(m, o)
      [] o.kind = "wait" -> o.target \in DOMAIN m.resources
      [] OTHER -> QueueRefs(m, o)

\* eventConsumers: one process receives from an event queue.
OneConsumer(m) ==
    \A p, q \in DOMAIN m.processes : \A i \in DOMAIN m.processes[p].ops :
        \A j \in DOMAIN m.processes[q].ops :
            LET a == m.processes[p].ops[i]
                b == m.processes[q].ops[j]
            IN  a.kind = "event" /\ b.kind = "event" /\ a.target = b.target => p = q

References(m) ==
    /\ \A p \in DOMAIN m.processes : \A i \in DOMAIN m.processes[p].ops :
           OpRefs(m, m.processes[p].ops[i])
    /\ OneConsumer(m)

-----------------------------------------------------------------------------
(* ArbitrateOp::verify *)

CandidateOk(m, list) ==
    /\ \A i \in DOMAIN list : list[i] \in DOMAIN m.resources /\ m.resources[list[i]]
    /\ IsInjective(list)                       \* no resource twice

\* Resources every candidate lists.
CommonResources(candidates) ==
    {r \in ToSet(candidates[1]) : \A i \in DOMAIN candidates : r \in ToSet(candidates[i])}

ArbiterOk(m, a) ==
    /\ a.policy \in {"greedy_fixed_priority", "round_robin"}
    /\ a.policy = "greedy_fixed_priority" => ~a.state
    /\ a.policy = "round_robin" => a.state /\ a.candidates # <<>>
    /\ \A i \in DOMAIN a.candidates : CandidateOk(m, a.candidates[i])
    /\ a.policy = "round_robin" => CommonResources(a.candidates) # {}

Arbiters(m) ==
    \A p \in DOMAIN m.processes :
        m.processes[p].arbiter # NoArbiter => ArbiterOk(m, m.processes[p].arbiter)

-----------------------------------------------------------------------------
(* Third part: the queue ports that the operations of one epoch use. *)

\* Mutant of MutuallyExclusive: two grants of one arbiter are enough.
MutuallyExclusiveByArbiter(m, a, b) ==
    a.process = b.process /\ a.op.enable # 0 /\ b.op.enable # 0 /\ a.op.enable # b.op.enable

\* Two transfers exclude each other when distinct grants of one arbiter enable
\* them and the two candidates list a common resource.
MutuallyExclusive(m, a, b) ==
    /\ a.process = b.process /\ a.op.enable # 0 /\ b.op.enable # 0
    /\ a.op.enable # b.op.enable
    /\ LET c == m.processes[a.process].arbiter.candidates
       IN  ToSet(c[a.op.enable]) \cap ToSet(c[b.op.enable]) # {}

\* The operations of the module that pop, or push, a queue.
Uses(m) ==
    UNION {{[process |-> p, index |-> i, op |-> m.processes[p].ops[i]] : i \in DOMAIN m.processes[p].ops} :
              p \in DOMAIN m.processes}

PopsFrom(o, q) == o.kind \in {"recv", "transfer"} /\ o.target = q
PushesTo(o, q) == (o.kind = "send" /\ o.target = q) \/ (o.kind = "transfer" /\ o.dest = q)

\* recordPortUse: sends, or receives, do not conflict among themselves.
Conflict(m, a, b) ==
    /\ a.op.kind = "transfer" \/ b.op.kind = "transfer"
    /\ ~(a.op.kind = "transfer" /\ b.op.kind = "transfer" /\ MutuallyExclusive(m, a, b))

PortsFree(m) ==
    \A q \in DOMAIN m.queues : \A a, b \in Uses(m) :
        /\ a # b
        /\ \/ PopsFrom(a.op, q) /\ PopsFrom(b.op, q)
           \/ PushesTo(a.op, q) /\ PushesTo(b.op, q)
        => ~Conflict(m, a, b)

\* transferByGrant: a grant directly enables at most one transfer.
GrantsUsedOnce(m) ==
    \A a, b \in Uses(m) :
        /\ a # b /\ a.process = b.process
        /\ a.op.kind = "transfer" /\ b.op.kind = "transfer"
        => a.op.enable = 0 \/ a.op.enable # b.op.enable

\* verifyRuntimeReferences after the operations' own verifiers.
Accepts(m) ==
    /\ Arbiters(m) /\ EndpointTypes(m) /\ EndpointRoles(m)
    /\ References(m) /\ GrantsUsedOnce(m) /\ PortsFree(m)

-----------------------------------------------------------------------------
(* Grants *)

\* Mutant of GreedyGrants: a candidate waits for the requests before it, granted or not.
GreedyGrantsOnRequests(candidates, asked) ==
    [i \in DOMAIN candidates |->
        asked[i] /\ \A j \in 1..(i - 1) :
            asked[j] => ToSet(candidates[i]) \cap ToSet(candidates[j]) = {}]

\* lowerArbiters: one pass in textual order; occupied[r] is the disjunction
\* of the grants so far that list resource r.
GreedyGrants(candidates, asked) ==
    LET Step(s, i) ==
            LET grant == asked[i] /\ \A r \in ToSet(candidates[i]) : ~s.occupied[r]
            IN  [grants |-> Append(s.grants, grant),
                 occupied |-> [r \in DOMAIN s.occupied |->
                                  s.occupied[r] \/ (grant /\ r \in ToSet(candidates[i]))]]
        none == [grants |-> <<>>,
                 occupied |-> [r \in UNION {ToSet(candidates[i]) : i \in DOMAIN candidates} |-> FALSE]]
    IN  FoldLeft(Step, none, [i \in DOMAIN candidates |-> i]).grants

\* The candidate k places behind the start, and how far behind it the first
\* requester is: one distance, or none.  Candidates count from 1.
Turn(count, start, k) == ((start + k) % count) + 1
FirstAsked(asked, start) ==
    {k \in 0..(Len(asked) - 1) : /\ asked[Turn(Len(asked), start, k)]
                                 /\ \A l \in 0..(k - 1) : ~asked[Turn(Len(asked), start, l)]}

\* Mutant of RoundRobin: the turn stays with the candidate that was served.
RoundRobinSticky(asked, state) ==
    LET start == state % Len(asked)
        first == FirstAsked(asked, start)
    IN  [grants |-> [i \in 1..Len(asked) |-> \E k \in first : i = Turn(Len(asked), start, k)],
         next |-> IF first = {} THEN start ELSE (start + (CHOOSE k \in first : TRUE)) % Len(asked)]

\* The generated helper: the first requester at or after state % count is
\* served and the turn passes to the one behind it.
RoundRobin(asked, state) ==
    LET start == state % Len(asked)
        first == FirstAsked(asked, start)
    IN  [grants |-> [i \in 1..Len(asked) |-> \E k \in first : i = Turn(Len(asked), start, k)],
         next |-> IF first = {} THEN start ELSE (start + (CHOOSE k \in first : TRUE) + 1) % Len(asked)]

Grants(p, asked) ==
    LET a == module.processes[p].arbiter
    IN  IF a.policy = "round_robin" THEN RoundRobin(asked, rr[p]).grants
                                    ELSE GreedyGrants(a.candidates, asked)

-----------------------------------------------------------------------------
(* An epoch of an accepted module: the processes and links run in id order *)
(* against the committed queues and only propose.                          *)

Capacity == MaxTokens

Movers(m) == Len(m.processes) + Len(m.endpoints)

\* proposePush, proposePop and proposeTransferTo on the proposals so far.
Propose(s, id, o, enabled) ==
    LET canPop == Len(s.pops[o.target]) < tokens[o.target]
        canPush(q) == tokens[q] + Len(s.pushes[q]) < Capacity
    IN  CASE o.kind = "recv" /\ canPop ->
                [s EXCEPT !.pops[o.target] = Append(@, id)]
          [] o.kind = "send" /\ canPush(o.target) ->
                [s EXCEPT !.pushes[o.target] = Append(@, id)]
          [] o.kind = "transfer" /\ enabled /\ canPop /\ canPush(o.dest) ->
                [s EXCEPT !.pops[o.target] = Append(@, id), !.pushes[o.dest] = Append(@, id)]
          [] OTHER -> s

\* One activation of a process, up to its yield.
RunProcess(p) ==
    LET ops == module.processes[p].ops
        grants == Grants(p, requests[p])
        Step(s, i) ==
            Propose(s, <<p, i>>, ops[i], ops[i].enable = 0 \/ grants[ops[i].enable])
    IN  FoldLeft(Step, [pops |-> popped, pushes |-> pushed], [i \in DOMAIN ops |-> i])

\* The link of an endpoint takes from an exported queue, or gives to an
\* imported one; its other side belongs to another module.
RunLink(i) ==
    LET e == module.endpoints[i]
        id == <<0, i>>
    IN  IF e.kind = "export"
        THEN IF tokens[e.queue] = 0 THEN [pops |-> popped, pushes |-> pushed]
             ELSE [pops |-> [popped EXCEPT ![e.queue] = Append(@, id)], pushes |-> pushed]
        ELSE IF tokens[e.queue] + Len(pushed[e.queue]) >= Capacity
             THEN [pops |-> popped, pushes |-> pushed]
             ELSE [pops |-> popped, pushes |-> [pushed EXCEPT ![e.queue] = Append(@, id)]]

NoRequests(m) == [p \in DOMAIN m.processes |-> [i \in DOMAIN m.processes[p].arbiter.candidates |-> FALSE]]
Quiet(m) == [q \in DOMAIN m.queues |-> <<>>]

PortsInit ==
    /\ module \in PortModules
    /\ verdict = "new"
    /\ rr \in [DOMAIN module.processes -> 0..1]
    /\ denied = [p \in DOMAIN module.processes |->
                    [i \in DOMAIN module.processes[p].arbiter.candidates |-> 0]]
    /\ requests = NoRequests(module)
    /\ tokens = [q \in DOMAIN module.queues |-> 0]
    /\ popped = Quiet(module) /\ pushed = Quiet(module)
    /\ todo = 0

VerifyPorts ==
    /\ verdict = "new"
    /\ verdict' = IF Accepts(module) THEN "accepted" ELSE "refused"
    /\ UNCHANGED <<module, rr, denied, requests, tokens, popped, pushed, todo>>

\* An epoch starts with any contents the rest of the system left in the
\* queues and any requests.
BeginEpoch ==
    /\ verdict = "accepted" /\ todo = 0
    /\ tokens' \in [DOMAIN module.queues -> 0..MaxTokens]
    /\ requests' \in {r \in [DOMAIN module.processes -> UNION {[1..n -> BOOLEAN] : n \in 0..module.longest}] :
                         \A p \in DOMAIN module.processes :
                             DOMAIN r[p] = DOMAIN module.processes[p].arbiter.candidates}
    /\ todo' = 1
    /\ UNCHANGED <<module, verdict, rr, denied, popped, pushed>>

Advance == todo' = todo + 1

ProcessStep ==
    /\ todo \in DOMAIN module.processes
    /\ LET s == RunProcess(todo)
           a == module.processes[todo].arbiter
           grants == Grants(todo, requests[todo])
       IN  /\ popped' = s.pops /\ pushed' = s.pushes
           /\ rr' = [rr EXCEPT ![todo] =
                        IF a.policy = "round_robin" THEN RoundRobin(requests[todo], @).next ELSE @]
           /\ denied' = [denied EXCEPT ![todo] =
                            [i \in DOMAIN a.candidates |->
                                IF a.policy = "round_robin" /\ requests[todo][i] /\ ~grants[i]
                                THEN @[i] + 1 ELSE 0]]
    /\ Advance
    /\ UNCHANGED <<module, verdict, requests, tokens>>

LinkStep ==
    /\ todo \in (Len(module.processes) + 1)..Movers(module)
    /\ LET s == RunLink(todo - Len(module.processes))
       IN  popped' = s.pops /\ pushed' = s.pushes
    /\ Advance
    /\ UNCHANGED <<module, verdict, rr, denied, requests, tokens>>

\* Xfer applies the proposals; what the queues hold next also depends on the
\* rest of the system, which BeginEpoch chooses.
EndEpoch ==
    /\ todo > Movers(module)
    /\ requests' = NoRequests(module)
    /\ tokens' = [q \in DOMAIN module.queues |-> 0]
    /\ popped' = Quiet(module) /\ pushed' = Quiet(module)
    /\ todo' = 0
    /\ UNCHANGED <<module, verdict, rr, denied>>

PortsNext == VerifyPorts \/ BeginEpoch \/ ProcessStep \/ LinkStep \/ EndEpoch

PortsSpec == PortsInit /\ [][PortsNext]_portVars

-----------------------------------------------------------------------------
(* Properties *)

Moves(id) ==
    \/ id[1] = 0          \* a link
    \/ id[1] # 0 /\ module.processes[id[1]].ops[id[2]].kind = "transfer"

\* In an accepted module a transfer, or a flow link, that pops a queue is the
\* only one to pop it in the epoch, and one that pushes a queue the only one
\* to push it: what proposeTransferTo and QueueLink::doWork rely on.
SoleMovers ==
    \A q \in DOMAIN module.queues :
        /\ (\E i \in DOMAIN popped[q] : Moves(popped[q][i])) => Len(popped[q]) = 1
        /\ (\E i \in DOMAIN pushed[q] : Moves(pushed[q][i])) => Len(pushed[q]) = 1

\* Grants g of an arbiter a for the requests asked: no two that share a
\* resource, and a request is refused only in favour of a granted one that it
\* shares a resource with - an earlier one under greedy_fixed_priority.
Right(a, g, asked) ==
    LET Shares(i, j) == ToSet(a.candidates[i]) \cap ToSet(a.candidates[j]) # {}
    IN  \A i \in DOMAIN a.candidates :
            /\ g[i] => asked[i]
            /\ g[i] => \A j \in DOMAIN a.candidates : j # i /\ g[j] => ~Shares(i, j)
            /\ asked[i] /\ ~g[i] =>
                   \E j \in DOMAIN a.candidates :
                       /\ g[j] /\ Shares(i, j)
                       /\ a.policy = "greedy_fixed_priority" => j < i

\* The grants that the lowered Boolean network and the generated helper
\* compute are the ones ac.arbitrate promises.
GrantsRight ==
    verdict = "accepted" =>
        \A p \in DOMAIN module.processes :
            Right(module.processes[p].arbiter, Grants(p, requests[p]), requests[p])

\* A request that stands at a round-robin arbiter is granted at the latest
\* when every other candidate has been served once.
RoundRobinServes ==
    \A p \in DOMAIN module.processes :
        \A i \in DOMAIN denied[p] : denied[p][i] < Len(module.processes[p].arbiter.candidates)

-----------------------------------------------------------------------------
(* What a module to verify consists of. *)

ProcessShapes ==
    [arbiter : [policy : STRING, state : BOOLEAN, candidates : Seq(Seq(STRING))],
     ops : Seq([kind : STRING, target : STRING, dest : STRING, enable : Nat, payload : STRING,
                port : Seq(Int)])]
PortsWellFormed == \A m \in PortModules : m.processes \in Seq(ProcessShapes)

-----------------------------------------------------------------------------
(* Small modules. *)

SmallQueues ==
    [a |-> [payload |-> "T", protocol |-> "x"], b |-> [payload |-> "T", protocol |-> "x"],
     d |-> [payload |-> "T", protocol |-> "x"]]
MixedQueues ==
    [a |-> [payload |-> "T", protocol |-> "x"], b |-> [payload |-> "T", protocol |-> "x"],
     c |-> [payload |-> "T", protocol |-> "y"], d |-> [payload |-> "T", protocol |-> "x"],
     e |-> [payload |-> "U", protocol |-> "x"]]
TheResources == [r |-> TRUE, s |-> TRUE, wide |-> FALSE]
SmallEvents == [t |-> "T"]
SmallArrays == [m |-> [payload |-> "T", reads |-> 1, writes |-> 2]]

SmallOp(kind, target, dest, enable) ==
    [kind |-> kind, target |-> target, dest |-> dest, enable |-> enable, payload |-> "T", port |-> <<0, 0>>]
Transfer(s, d, g) == SmallOp("transfer", s, d, g)
Plain(kind, q) == SmallOp(kind, q, q, 0)

Endpoint(kind, q) == [kind |-> kind, queue |-> q, payload |-> "T", protocol |-> "x"]

SmallArbiter(policy, lists) ==
    [policy |-> policy, state |-> policy = "round_robin", candidates |-> lists]

Lists == {<<>>, <<"r">>, <<"s">>, <<"r", "s">>}
TwoLists == {<<x, y>> : x \in Lists, y \in Lists}
ThreeLists == {<<<<"r">>, <<"r", "s">>, <<"s">>>>, <<<<"r", "s">>, <<"r">>, <<"s">>>>,
               <<<<"r">>, <<"r">>, <<"r">>>>, <<<<"s">>, <<"s", "r">>, <<"s">>>>}
OddLists == {<<<<"r", "r">>, <<"r">>>>, <<<<"wide">>, <<"wide">>>>, <<<<"q">>, <<"r">>>>}

SmallModule(endpoints, processes) ==
    [queues |-> SmallQueues, events |-> SmallEvents, arrays |-> SmallArrays, resources |-> TheResources,
     endpoints |-> endpoints, processes |-> processes, longest |-> 3]
SmallProcess(arbiter, ops) == [arbiter |-> arbiter, ops |-> ops]
Bare(ops) == SmallProcess(NoArbiter, ops)

Policies == {"greedy_fixed_priority", "round_robin"}
TwoTransfers == {<<Transfer("a", "b", 1), Transfer("a", "d", g)>> : g \in {0, 1, 2}}
                \cup {<<Transfer("a", "d", 1), Transfer("b", "d", 2)>>,
                      <<Transfer("b", "d", 1), Plain("send", "d")>>}

\* Grants and transfers that share a queue.
Arbitrated ==
    {SmallModule(<<>>, <<SmallProcess(SmallArbiter(policy, lists), ops)>>) :
        policy \in Policies, lists \in TwoLists \cup OddLists, ops \in TwoTransfers}
ThreeWay ==
    {SmallModule(<<>>, <<SmallProcess(SmallArbiter(policy, lists),
        <<Transfer("a", "d", 1), Transfer("b", "d", 2)>>)>>) :
        policy \in Policies, lists \in ThreeLists}
    \cup {SmallModule(<<>>, <<SmallProcess(SmallArbiter(policy, <<>>), <<>>)>>) : policy \in Policies}

\* Flow endpoints and the operations of a process beside them.
Flows == {<<>>, <<Endpoint("export", "a")>>, <<Endpoint("import", "d")>>,
          <<Endpoint("export", "a"), Endpoint("import", "d")>>,
          <<Endpoint("export", "a"), Endpoint("export", "a")>>,
          <<Endpoint("export", "a"), Endpoint("import", "a")>>,
          <<Endpoint("export", "c")>>, <<Endpoint("export", "e")>>, <<Endpoint("import", "z")>>}
LooseOps == {<<Transfer("a", "d", 0)>>, <<Transfer("a", "b", 0), Plain("recv", "a")>>,
             <<Transfer("d", "a", 0)>>, <<Transfer("b", "c", 0)>>, <<Transfer("b", "b", 0)>>,
             <<Plain("send", "a"), Plain("recv", "d")>>, <<Plain("recv", "a")>>,
             <<Plain("send", "d")>>, <<Plain("peek", "a"), Plain("space", "d")>>,
             <<Plain("send", "b"), Plain("send", "b")>>, <<Plain("wait", "r"), Plain("probe", "e")>>, <<Plain("event", "t")>>,
             <<Plain("read", "m")>>, <<[Plain("read", "m") EXCEPT !.port = <<0, 1>>]>>,
             <<[Plain("write", "m") EXCEPT !.port = <<0, 1>>]>>, <<[Plain("write", "m") EXCEPT !.port = <<>>]>>}
Unarbitrated == {[SmallModule(flows, <<Bare(ops)>>) EXCEPT !.queues = MixedQueues] : flows \in Flows, ops \in LooseOps}
TwoProcesses ==
    {SmallModule(<<>>, <<Bare(x), Bare(y)>>) :
        x \in {<<Plain("recv", "a")>>, <<Transfer("a", "b", 0)>>, <<Plain("event", "t")>>},
        y \in {<<Plain("recv", "a")>>, <<Plain("send", "b")>>, <<Transfer("d", "b", 0)>>,
               <<Plain("event", "t")>>, <<Plain("schedule", "t")>>}}

SmallPortModules == Arbitrated \cup ThreeWay \cup Unarbitrated \cup TwoProcesses
=============================================================================
