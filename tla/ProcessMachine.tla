--------------------------- MODULE ProcessMachine ---------------------------
(***************************************************************************)
(* The lowering and the execution of process plans, next to the source     *)
(* process they came from.  emitProcessBody turns the blocks of a plan     *)
(* into ACSim code, the generated class executes it one PC per Work call.  *)
(* The environment chooses what every queue operation answers; machine and *)
(* source get the same answers.                                            *)
(*                                                                         *)
(* Values are integers: a Boolean is 0 or 1, and a scalar operation        *)
(* computes an arbitrary fixed function of its operands.                   *)
(***************************************************************************)
EXTENDS ProcessPlan

CONSTANT Data                  \* what a queue operation may deliver

VARIABLES process,  \* the source process
          plan,     \* its lowered plan, or NoPlan
          stage,    \* "source", "rejected", "ready", "suspended"
          machine,  \* the emitted state machine
          source    \* the source process's own execution

vars == <<process, plan, stage, machine, source>>

(***************************************************************************)
(* Emission (emitProcessBody).  A block receives as arguments the values   *)
(* it and its successors need and do not define; the entry block of a PC   *)
(* has the captures only.  An action whose operands are not all available  *)
(* is left out.                                                            *)
(***************************************************************************)
RangeOf(sequence) == ToSet(sequence)

LocalDefinitions(block) ==
  {load.value : load \in block.loads}
    \cup UNION {RangeOf(block.actions[i].results) : i \in DOMAIN block.actions}

BlockUses(control, block) ==
  UNION {RangeOf(block.actions[i].operands) : i \in DOMAIN block.actions}
    \cup (IF block.edge.kind = "branch" THEN {block.edge.condition} ELSE {})
    \cup (IF block.edge.kind = "suspend"
          THEN {store.value : store \in RangeOf(control.transitions[block.edge.transition].stores)}
          ELSE {})

RECURSIVE NeededFixpoint(_, _)
NeededFixpoint(control, needed) ==
  LET next == [b \in DOMAIN needed |->
                 needed[b] \cup (UNION {needed[s] : s \in Successors(control, b)}
                                 \ LocalDefinitions(control.blocks[b]))]
  IN  IF next = needed THEN needed ELSE NeededFixpoint(control, next)

NeededValues(control) ==
  NeededFixpoint(control, [b \in DOMAIN control.blocks |->
    BlockUses(control, control.blocks[b]) \ LocalDefinitions(control.blocks[b])])

IsSuspensionAction(action) == action.kind = "original" /\ IsSuspension(action.op)

\* One action: emitted or not, and the values available after it.
EmitAction(state, action) ==
  LET complete == RangeOf(action.operands) \subseteq state.available
      aliases  == {action.results[i] : i \in {j \in DOMAIN action.results :
                                               action.operands[j] \in state.available}}
  IN  CASE IsSuspensionAction(action) -> state
        [] action.kind = "for_initialize" ->
             [operations |-> Append(state.operations, action),
              available  |-> state.available \cup aliases]
        [] action.kind # "for_initialize" /\ complete ->
             [operations |-> Append(state.operations, action),
              available  |-> state.available \cup RangeOf(action.results)]
        [] OTHER -> state

EmitBlock(control, needed, b) ==
  LET block    == control.blocks[b]
      isEntry  == b = EntryBlock(control, block.pc)
      arguments == IF isEntry THEN {} ELSE needed[b]
  IN  FoldLeft(EmitAction,
               [operations |-> <<>>,
                available  |-> arguments \cup {load.value : load \in block.loads}],
               block.actions)

\* What the assertions of emitProcessBody demand of a block.
EmissionSound(control, needed, emitted, b) ==
  LET edge == control.blocks[b].edge
  IN  CASE edge.kind = "branch" ->
             /\ edge.condition \in emitted[b].available
             /\ \A s \in RangeOf(edge.targets) : needed[s] \subseteq emitted[b].available
        [] edge.kind = "continue" -> needed[edge.targets[1]] \subseteq emitted[b].available
        [] edge.kind = "suspend" ->
             {store.value : store \in RangeOf(control.transitions[edge.transition].stores)}
               \subseteq emitted[b].available
        [] OTHER -> TRUE

Lower(control) ==
  LET needed  == NeededValues(control)
      emitted == [b \in DOMAIN control.blocks |-> EmitBlock(control, needed, b)]
  IN  control @@ [code  |-> [b \in DOMAIN emitted |-> emitted[b].operations],
                  sound |-> \A b \in DOMAIN emitted :
                              EmissionSound(control, needed, emitted, b)]

(***************************************************************************)
(* Execution of the emitted machine (ProcessGenerator, ProcessRuntime).    *)
(* The machine is run up to its next queue operation, suspension or end.   *)
(* Values live in C++ locals of one PC; only slots outlive a suspension.   *)
(***************************************************************************)
Compute(op, arguments) ==
  IF op.kind = "const" THEN op.value
  ELSE (op.value + FoldLeft(+, 0, [i \in DOMAIN arguments |-> i * arguments[i]])) % 5

\* A local that was never assigned holds its value-initialised {}.
ValueIn(env, value) == IF value \in DOMAIN env THEN env[value] ELSE 0
ValuesIn(env, values) == [i \in DOMAIN values |-> ValueIn(env, values[i])]

Assign(env, names, values) ==
  [v \in DOMAIN env \cup RangeOf(names) |->
     IF v \in RangeOf(names) THEN values[PositionOf(names, LAMBDA n : n = v)] ELSE env[v]]

Execute(env, action) ==
  LET arguments == ValuesIn(env, action.operands)
      half      == Len(action.results)
  IN  CASE action.kind = "for_condition" ->
             Assign(env, action.results, <<IF arguments[1] < arguments[2] THEN 1 ELSE 0>>)
        [] action.kind = "for_increment" ->
             LET next == <<arguments[1] + arguments[2]>> \o SubSeq(arguments, half + 2, 2 * half)
             IN  Assign(env, action.results \o <<action.operands[1]>>
                               \o SubSeq(action.operands, 3, half + 1),
                        next \o next)
        [] action.kind = "original" ->
             Assign(env, action.results, <<Compute(action.op, arguments)>>)
        [] OTHER -> Assign(env, action.results, arguments)

RECURSIVE RunMachine(_, _, _, _)
RunMachine(code, block, index, env) ==
  LET edge == code.blocks[block].edge
      here == [block |-> block, index |-> index, env |-> env]
  IN  IF index <= Len(code.code[block])
      THEN LET action == code.code[block][index]
           IN  IF Emission(action) = "invoke" THEN here @@ [at |-> "invoke"]
               ELSE RunMachine(code, block, index + 1, Execute(env, action))
      ELSE CASE edge.kind = "branch" ->
                  RunMachine(code, edge.targets[IF ValueIn(env, edge.condition) = 1 THEN 1 ELSE 2],
                             1, env)
             [] edge.kind = "continue"  -> RunMachine(code, edge.targets[1], 1, env)
             [] edge.kind = "suspend"   -> here @@ [at |-> "suspend"]
             [] edge.kind = "terminate" -> here @@ [at |-> "end"]

\* executeProcessStep at a PC: the loads, then the entry block.
EnterPc(code, pc, slots) ==
  LET entry == EntryBlock(code, pc)
      loads == SetToSeq(code.blocks[entry].loads)
      env   == Assign(<<>>, [i \in DOMAIN loads |-> loads[i].value],
                      [i \in DOMAIN loads |-> slots[loads[i].slot]])
  IN  RunMachine(code, entry, 1, env) @@ [slots |-> slots]

CurrentAction(m) == plan.code[m.block][m.index]
CurrentTransition(m) == plan.transitions[plan.blocks[m.block].edge.transition]

\* The stores of a transition, committed when the process transfers.
StoreSlots(m) ==
  LET stores == CurrentTransition(m).stores
      Written(slot) == PositionOf(stores, LAMBDA s : s.slot = slot)
  IN  [slot \in DOMAIN m.slots |->
         IF Written(slot) = 0 THEN m.slots[slot]
         ELSE ValueIn(m.env, stores[Written(slot)].value)]

(***************************************************************************)
(* The source process itself: what its operations mean, executed directly  *)
(* on one environment that outlives suspensions.  todo is the list of what *)
(* remains to be done; a yield starts the body again.                      *)
(***************************************************************************)
Item(step, op, ctx, i) == [step |-> step, op |-> op, ctx |-> ctx, i |-> i]
Items(ops, ctx) == [k \in DOMAIN ops |-> Item("op", ops[k], ctx, 0)]
In(names, ctx) == [k \in DOMAIN names |-> <<names[k], ctx>>]

RECURSIVE RunSource(_, _)
RunSource(todo, env) ==
  IF todo = <<>> THEN [at |-> "end", todo |-> todo, env |-> env]
  ELSE
  LET item == Head(todo)
      op   == item.op
      ctx  == item.ctx
      rest == Tail(todo)
      inside == Append(ctx, op.id)
      Copy(to, toCtx, from, fromCtx) ==
        Assign(env, In(to, toCtx), ValuesIn(env, In(from, fromCtx)))
  IN  CASE item.step = "return" -> RunSource(rest, Copy(op.defs, ctx, op.returns, inside))
        [] item.step = "latch"  ->
             RunSource(<<Item("loop", op, ctx, item.i + 1)>> \o rest,
                       Copy(op.args, ctx, op.yields, ctx))
        [] item.step = "loop" ->
             IF item.i < op.trip
             THEN RunSource(Items(op.body, ctx) \o <<Item("latch", op, ctx, item.i)>> \o rest,
                            Assign(env, <<<<op.iv, ctx>>>>,
                                   <<ValueIn(env, <<op.lower, ctx>>)
                                     + item.i * ValueIn(env, <<op.step, ctx>>)>>))
             ELSE RunSource(rest, Copy(op.defs, ctx, op.args, ctx))
        [] item.step = "op" /\ op.kind \in {"const", "scalar"} ->
             RunSource(rest, Assign(env, In(op.defs, ctx),
                                    <<Compute(op, ValuesIn(env, In(op.uses, ctx)))>>))
        [] item.step = "op" /\ op.kind = "if" ->
             RunSource(Items(IF ValueIn(env, <<op.cond, ctx>>) = 1 THEN op.then ELSE op.else, ctx)
                         \o rest, env)
        [] item.step = "op" /\ op.kind = "for" ->
             RunSource(<<Item("loop", op, ctx, 0)>> \o rest, Copy(op.args, ctx, op.init, ctx))
        [] item.step = "op" /\ op.kind = "call" ->
             RunSource(Items(op.body, inside) \o <<Item("return", op, ctx, 0)>> \o rest,
                       Copy(op.params, inside, op.uses, ctx))
        [] item.step = "op" /\ op.kind = "invoke" -> [at |-> "invoke", todo |-> todo, env |-> env]
        [] OTHER -> [at |-> "suspend", todo |-> todo, env |-> env]

StartSource(body) == RunSource(Items(body, <<>>), <<>>) @@ [attempts |-> <<>>]

\* The queue operation an await retries: the one whose outcome is tested by
\* the conditional around it, if it is on the awaited queue.
RetriedBy(op) ==
  LET enclosing == EnclosingIf(process, op)
      ops == NestedOps(process)
  IN  IF op.kind # "await" \/ enclosing = <<>> THEN {}
      ELSE {ops[i].id : i \in {j \in DOMAIN ops :
              /\ ops[j].kind = "invoke" /\ ops[j].queue = op.queue
              /\ enclosing[1].cond \in ToSet(ops[j].defs)}}

\* The source takes the answer of its queue operation, and remembers where
\* the operation was in case an await retries it.
AnswerSource(answer) ==
  LET op == Head(source.todo).op
  IN  RunSource(Tail(source.todo), Assign(source.env, In(op.defs, <<>>), answer))
      @@ [attempts |-> Assign(source.attempts, <<op.id>>, <<source.todo>>)]

ResumeSource ==
  LET op == Head(source.todo).op
      retried == RetriedBy(op)
  IN  IF op.kind = "yield" THEN StartSource(process)
      ELSE RunSource(IF retried = {} THEN Tail(source.todo)
                     ELSE source.attempts[CHOOSE id \in retried : TRUE], source.env)
           @@ [attempts |-> source.attempts]

-----------------------------------------------------------------------------
Idle == [at |-> "idle"]

Init ==
  /\ process \in Processes
  /\ plan = NoPlan
  /\ stage = "source"
  /\ machine = Idle
  /\ source = Idle

\* planProcessState followed by the lowering.
PlanProcess ==
  /\ stage = "source"
  /\ \E planned \in {PlanOf(process)} :
       \/ /\ ~planned.ok
          /\ stage' = "rejected"
          /\ UNCHANGED <<plan, machine, source>>
       \/ /\ planned.ok
          /\ plan' = Lower(planned)
          /\ stage' = "ready"
          /\ machine' = EnterPc(plan', 1, [slot \in DOMAIN plan'.slots |-> 0])
          /\ source' = StartSource(process)
  /\ UNCHANGED process

\* Acceptance, or a payload; a failed read delivers the zero value.
Reads == {<<0, 0>>} \cup ({1} \X Data)
Answers(op) == IF Len(op.defs) = 1 THEN {<<0>>, <<1>>} ELSE Reads

\* The machine's queue operation is answered; the source's gets the same.
AnswerOperation(answer) ==
  /\ stage = "ready" /\ machine.at = "invoke"
  /\ machine' = RunMachine(plan, machine.block, machine.index + 1,
                           Assign(machine.env, CurrentAction(machine).results, answer))
                @@ [slots |-> machine.slots]
  /\ source' = IF source.at = "invoke" /\ Head(source.todo).op = CurrentAction(machine).op
               THEN AnswerSource(answer) ELSE source
  /\ UNCHANGED <<process, plan, stage>>

SuspendProcess ==
  /\ stage = "ready" /\ machine.at = "suspend"
  /\ machine' = [machine EXCEPT !.slots = StoreSlots(machine), !.env = <<>>]
  /\ stage' = "suspended"
  /\ UNCHANGED <<process, plan, source>>

ResumeProcess ==
  /\ stage = "suspended"
  /\ machine' = EnterPc(plan, CurrentTransition(machine).to, machine.slots)
  /\ source' = IF source.at = "suspend" THEN ResumeSource ELSE source
  /\ stage' = "ready"
  /\ UNCHANGED <<process, plan>>

Next ==
  \/ PlanProcess
  \/ \E answer \in {<<0>>, <<1>>} \cup Reads :
       /\ machine.at = "invoke"
       /\ answer \in Answers(CurrentAction(machine).op)
       /\ AnswerOperation(answer)
  \/ SuspendProcess
  \/ ResumeProcess

Spec == Init /\ [][Next]_vars

-----------------------------------------------------------------------------
(***************************************************************************)
(* The processes the planner is known to get wrong, told by their text.    *)
(***************************************************************************)
DefinedAt(ops, name) == PositionOf(ops, LAMBDA op : name \in RangeOf(op.defs))
UsedNames(op) == RangeOf(op.uses \o op.init \o op.yields)
\* Where execution goes on after a suspension: behind it, at the attempt it
\* retries, or at the start.
ResumesAt(ops, i) ==
  LET tried == {p \in DOMAIN ops : ops[p].id \in RetriedBy(ops[i])}
  IN  IF ops[i].kind = "yield" THEN 1
      ELSE IF tried = {} THEN i + 1 ELSE CHOOSE p \in tried : TRUE
\* The suspensions that go on behind a definition and no later than its use.
Crossed(ops, from, to) ==
  {i \in DOMAIN ops : IsSuspension(ops[i]) /\ ResumesAt(ops, i) \in from + 1 .. to}

\* A value is carried over one transition, the one out of the program counter
\* that defines it (ProcessStateLiveness.cpp:94-125); over more only when all
\* of them are retries.
LongLived(ops) ==
  \E j \in DOMAIN ops : \E name \in UsedNames(ops[j]) :
    LET crossed == Crossed(ops, DefinedAt(ops, name), j)
    IN  /\ DefinedAt(ops, name) # 0 /\ Cardinality(crossed) > 1
        /\ \E i \in crossed : ops[i].kind # "await"
\* The condition of a branch is no operand of an action, and is not carried
\* (ProcessStateLiveness.cpp:117-118).
LateTest(ops) ==
  \E j \in DOMAIN ops : ops[j].kind = "if" /\ Crossed(ops, DefinedAt(ops, ops[j].cond), j) # {}
\* The induction value of a loop is synthetic, and is not carried
\* (ProcessStateLiveness.cpp:119-120).
SuspendingLoop(ops) ==
  \E j \in DOMAIN ops : ops[j].kind = "for" /\ \E op \in RangeOf(NestedOps(ops[j].body)) : IsSuspension(op)
\* The values of two calls of one function have one path, and share a slot
\* (ProcessStateLiveness.cpp:123-128).
SharedFunction(ops) ==
  \E i, j, k \in DOMAIN ops :
    /\ ops[i].kind = "call" /\ ops[j].kind = "call" /\ i # j
    /\ ops[i].body = ops[j].body
    /\ RangeOf(ops[i].defs) \cap UsedNames(ops[k]) # {} /\ Crossed(ops, i, k) # {}
\* The result of a call whose function returns another call's result stays a
\* placeholder (ProcessStateExpansion.cpp:343-347).
ReturnedCall(ops) ==
  \E i, k \in DOMAIN ops :
    /\ RangeOf(ops[i].defs) \cap UsedNames(ops[k]) # {}
    /\ \E inner \in RangeOf(ops[i].body) :
         inner.kind = "call" /\ RangeOf(inner.defs) \cap RangeOf(ops[i].returns) # {}

KnownGap ==
  \E ops \in {NestedOps(process)} :
    LongLived(ops) \/ LateTest(ops) \/ SuspendingLoop(ops) \/ SharedFunction(ops) \/ ReturnedCall(ops)

\* Machine and source are at the same operation with the same operands.
SamePlace ==
  /\ machine.at = source.at
  /\ machine.at = "invoke" =>
       /\ Head(source.todo).op.id = CurrentAction(machine).op.id
       /\ ValuesIn(machine.env, CurrentAction(machine).operands)
            = ValuesIn(source.env, In(Head(source.todo).op.uses, <<>>))
  /\ machine.at = "suspend" =>
       plan.wakes[CurrentTransition(machine).wake].op.id = Head(source.todo).op.id

(***************************************************************************)
(* The generated machine does what the process says: run on the same       *)
(* answers, both are always at the same queue operation with the same      *)
(* operand values, or at the same suspension.  An action left out by the   *)
(* lowering, a value lost or mixed up across a suspension, a branch taken  *)
(* the wrong way and an await that resumes at the wrong place all show     *)
(* here (ProcessStateContinuation.cpp, ProcessStateLiveness.cpp,           *)
(* emitProcessBody).  Five shapes are excepted (KnownGap): they are        *)
(* planned and lowered without a diagnostic and run wrong, where           *)
(* acir-process-state-plan-v0.2.md:1321 says "A slot exists exactly when a *)
(* non-capture equivalence class is defined before a suspension and used   *)
(* by the continuation after resumption", and :1320 that "Raw callee-body  *)
(* values are provenance, never identity".  The processes offered contain  *)
(* all five, and outside them the machine never departs from its source.   *)
(***************************************************************************)
MachineFollowsProcess ==
  stage = "ready" => SamePlace \/ KnownGap

(***************************************************************************)
(* A value defined before a suspension and used by the continuation after  *)
(* it has a slot: a program counter that uses a value of another one finds *)
(* it in a slot (planProcessLiveness, as the process-state-plan            *)
(* specification demands of slots).                                        *)
(***************************************************************************)
LiveValuesHaveSlots ==
  stage = "ready" =>
    \A p, q \in DOMAIN plan.pcs :
      \A v \in RangeOf(PcValues(plan, p, "results")) :
        ( /\ p # q
          /\ v.name \in Names(PcValues(plan, q, "operands"))
          /\ v.name \notin Names(PcValues(plan, q, "results")) )
        => \E i \in DOMAIN plan.slots : plan.slots[i].name = v.name
=============================================================================
