------------------------------ MODULE ModelRun ------------------------------
(***************************************************************************)
(* A harness run (lib/gfsim/harness.cpp): a run manifest is loaded and     *)
(* checked against the files it names, a generated model runs, and its     *)
(* statistics, event log and result are published in a result directory.   *)
(*                                                                         *)
(* The model is one process (object 1) that works on a queue (2), a        *)
(* StateArray (3) and statistics (4, a counter; 5, a histogram; 6, a       *)
(* gauge), through the epoch's Work, Arbitrate, validate and Xfer phases   *)
(* (SimSystem::step), with the observations of the ObservationRecorder.    *)
(* A queue and an array register at the barrier when they are used.  A     *)
(* Statistic never does: it commits in the epochs for which the model has  *)
(* scheduled it as work, and keeps its proposals until then.               *)
(***************************************************************************)
EXTENDS Integers, Sequences, SequencesExt, FiniteSets, FiniteSetsExt, TLC

CONSTANTS Values,         \* of queue and array elements
          Amounts,        \* added to a statistic
          Capacity,       \* entries of the queue
          Entries, ReadPorts, WritePorts,   \* of the array
          Bounds,         \* the bucket bounds of the histogram, a sequence
          MaxValue,       \* stands for the largest uint64_t
          FlowIds,
          MaxProposals,   \* operations of the process in an epoch
          MaxTicks,       \* the run's tick limit
          Manifests       \* run manifests to start from

VARIABLES manifest,   \* the run manifest
          phase,      \* "load", "preflight", "work", "ended", "publish", "done"
          time,       \* the tick; every epoch is the first of its tick
          proposals,  \* operations of the process in this epoch
          queue, array, counter, histogram, gauge,
          recorder,
          failure,    \* runtimeFailureCode of the array: "" or a code
          participants,
          result,     \* the result document
          stage,      \* the result directory: a function from file names
          ledger      \* what the process was told it did, all accepted operations

modelVars == <<queue, array, counter, histogram, gauge, recorder, failure, participants, ledger>>
vars == <<manifest, phase, time, proposals, modelVars, result, stage>>

Process == 1
QueueId == 2
ArrayId == 3
CounterId == 4
HistogramId == 5
GaugeId == 6
Objects == <<Process, QueueId, ArrayId, CounterId, HistogramId, GaugeId>>

-----------------------------------------------------------------------------
(***************************************************************************)
(* The run manifest.                                                       *)
(***************************************************************************)
IsFingerprint(hash) == hash # "bad"
IsNormalizedRelativePath(path) == path \notin {"", "/abs", "../up"}

CompletedReasons == {"trace_drained", "declared_model_termination"}
IncompleteReasons ==
  {"max_ticks", "max_domain_cycles", "max_events", "max_deltas_per_tick",
   "max_trace_records", "max_validation_work", "interrupted"}
FailedReasons == {"deadlock", "invariant_violation", "trace_error", "runtime_error"}

\* The reasons an expectation may name.
ExpectedReasons == {"trace_drained", "declared_model_termination", "max_ticks",
                    "max_domain_cycles"}

LoadRunManifest(m) ==
  /\ IsNormalizedRelativePath(m.build) /\ IsFingerprint(m.buildHash)
  /\ IsNormalizedRelativePath(m.trace) /\ IsFingerprint(m.traceHash)
  /\ IsNormalizedRelativePath(m.output)
  /\ m.eventLog \in {"disabled", "jsonl"}
  /\ m.kind \in {"complete", "incomplete", "any"}
  /\ m.reason # "" =>
       /\ m.reason \in ExpectedReasons
       /\ m.kind = "complete" => m.reason \in CompletedReasons
       /\ m.kind = "incomplete" => m.reason \in IncompleteReasons

\* files: the contents (hashes) of the files under the root, by path.
PreflightRunManifest(m) ==
  /\ m.build \in DOMAIN m.files /\ m.files[m.build] = m.buildHash
  /\ m.identity = "model"             \* the build manifest is the model's
  /\ m.limits \subseteq m.domains
  /\ m.trace \in DOMAIN m.files /\ m.files[m.trace] = m.traceHash
  /\ m.stage # ""

ExpectationMatches(m, r) ==
  /\ \/ m.kind = "any"
     \/ m.kind = "complete" /\ r.status = "completed"
     \/ m.kind = "incomplete" /\ r.status = "incomplete"
  /\ m.reason # "" => m.reason = r.reason

StatusReasons(status) ==
  CASE status = "completed"  -> CompletedReasons
    [] status = "incomplete" -> IncompleteReasons
    [] status = "failed"     -> FailedReasons

ValidateResultDocument(r) ==
  /\ r.reason \in StatusReasons(r.status)
  /\ r.validation \in {"passed", "failed", "not_run"}
  /\ (r.validation = "not_run") = (r.report = "")

\* makeRunResult from the classification and the diagnostic code.
MakeRunResult(class, code) ==
  [status |-> class,
   reason |->
     CASE class = "completed" ->
            IF code = "declared_model_termination" THEN code ELSE "trace_drained"
       [] class = "incomplete" ->
            CASE code = "max_ticks_reached"         -> "max_ticks"
              [] code = "max_domain_cycles_reached" -> "max_domain_cycles"
              [] code = "max_events_reached"        -> "max_events"
              [] code = "max_trace_records_reached" -> "max_trace_records"
              [] OTHER                              -> "interrupted"
       [] class = "failed" ->
            IF code \in {"no_progress", "deadlock_window_reached"}
            THEN "deadlock" ELSE "invariant_violation",
   validation |-> "not_run", report |-> "", outputs |-> <<>>, model |-> class, code |-> code]

-----------------------------------------------------------------------------
(***************************************************************************)
(* Observations.                                                           *)
(***************************************************************************)
NoEvents == <<>>
EmptyRecorder ==
  [pending |-> [o \in ToSet(Objects) |-> NoEvents], committed |-> <<>>,
   next |-> [o \in ToSet(Objects) |-> 0], flows |-> {}]

Propose(rec, owner, event) == [rec EXCEPT !.pending[owner] = Append(@, event)]

Instant(name) == [name |-> name, flow |-> 0, value |-> 0]
Occupancy(n) == [name |-> "occupancy", flow |-> 0, value |-> n]
Flow(name, f) == [name |-> name, flow |-> f, value |-> 0]

\* The flows open after a list of proposals; {0} if one of them is illegal.
FlowsAfter(flows, events) ==
  FoldLeft(LAMBDA open, e :
             CASE 0 \in open -> open
               [] e.name = "start" -> IF e.flow \in open THEN {0} ELSE open \cup {e.flow}
               [] e.name = "end"   -> IF e.flow \in open THEN open \ {e.flow} ELSE {0}
               [] OTHER -> open,
           flows, events)

LessEvent(a, b) ==
  \/ a.time < b.time
  \/ a.time = b.time /\ a.owner < b.owner
  \/ a.time = b.time /\ a.owner = b.owner /\ a.index < b.index

\* insert at the lower bound of the sorted log.
InsertEvent(log, event) ==
  LET before == Cardinality({i \in DOMAIN log : LessEvent(log[i], event)})
  IN  InsertAt(log, before + 1, event)

CommitOwner(rec, owner, now) ==
  LET events == rec.pending[owner]
      first  == rec.next[owner]
      stamped == [i \in DOMAIN events |->
                    events[i] @@ [time |-> now, owner |-> owner, index |-> first + i - 1]]
  IN  [pending   |-> [rec.pending EXCEPT ![owner] = NoEvents],
       committed |-> FoldLeft(InsertEvent, rec.committed, stamped),
       next      |-> [rec.next EXCEPT ![owner] = @ + Len(events)],
       flows     |-> FlowsAfter(rec.flows, events)]

CommitIsLegal(rec, owner) == 0 \notin FlowsAfter(rec.flows, rec.pending[owner])

RejectOwner(rec, owner) == [rec EXCEPT !.pending[owner] = NoEvents]

-----------------------------------------------------------------------------
(***************************************************************************)
(* Statistics: proposals that would not fit are refused.                   *)
(***************************************************************************)
NoCounter == [value |-> 0, proposed |-> 0, pending |-> FALSE]

\* Mutant of AddFits: what the epoch already proposed is forgotten.
AddFitsAlone(c, amount) == amount <= MaxValue - c.value

AddFits(c, amount) ==
  /\ amount <= MaxValue - c.proposed
  /\ c.proposed + amount <= MaxValue - c.value
ProposeAdd(c, amount) == [c EXCEPT !.proposed = @ + amount, !.pending = TRUE]
CommitCounter(c) == [value |-> c.value + c.proposed, proposed |-> 0, pending |-> FALSE]

\* proposeSet: one update of a gauge in an epoch.
SetFits(g) == ~g.pending
ProposeSet(g, value) == [g EXCEPT !.proposed = value, !.pending = TRUE]
CommitGauge(g) ==
  IF g.pending THEN [value |-> g.proposed, proposed |-> 0, pending |-> FALSE] ELSE g

Buckets == 1..(Len(Bounds) + 1)
NoObservations == [buckets |-> [b \in Buckets |-> 0], count |-> 0, sum |-> 0,
                   min |-> 0, max |-> 0]     \* min = max = 0: none yet
NoHistogram == [total |-> NoObservations, proposed |-> NoObservations]

\* lower_bound: the first bucket whose bound is not below the value.
BucketOf(value) ==
  Min({b \in Buckets : b > Len(Bounds) \/ Bounds[b] >= value})

Merge(a, b) ==
  [buckets |-> [k \in Buckets |-> a.buckets[k] + b.buckets[k]],
   count |-> a.count + b.count, sum |-> a.sum + b.sum,
   min |-> IF a.count = 0 THEN b.min ELSE IF b.count = 0 THEN a.min ELSE Min({a.min, b.min}),
   max |-> Max({a.max, b.max})]

One(value) == [buckets |-> [b \in Buckets |-> IF b = BucketOf(value) THEN 1 ELSE 0],
               count |-> 1, sum |-> value, min |-> value, max |-> value]

ObserveFits(h, value) ==
  /\ h.proposed.count < MaxValue - h.total.count
  /\ value <= MaxValue - h.proposed.sum
  /\ h.proposed.sum + value <= MaxValue - h.total.sum
ProposeObserve(h, value) == [h EXCEPT !.proposed = Merge(@, One(value))]
CommitHistogram(h) == [total |-> Merge(h.total, h.proposed), proposed |-> NoObservations]

-----------------------------------------------------------------------------
(***************************************************************************)
(* The queue and the StateArray.                                           *)
(***************************************************************************)
NoQueue == [items |-> <<>>, pushes |-> <<>>, pops |-> 0, peak |-> 0,
            accepted |-> 0, completed |-> 0]

QueueHasPendingCommit(q) == q.pushes # <<>> \/ q.pops # 0

\* Pushes first, then pops, then the high watermark.
QueueXfer(q) ==
  LET items == SubSeq(q.items \o q.pushes, q.pops + 1, Len(q.items) + Len(q.pushes))
  IN  [items |-> items, pushes |-> <<>>, pops |-> 0, peak |-> Max({q.peak, Len(items)}),
       accepted |-> q.accepted + Len(q.pushes), completed |-> q.completed + q.pops]

\* Mutant of QueueArbitrate: the occupancy of the committed items.
QueueArbitrateStale(rec, q) ==
  IF ~QueueHasPendingCommit(q) THEN rec
  ELSE LET events == [i \in 1..Len(q.pushes) |-> Instant("accepted")]
                       \o [i \in 1..q.pops |-> Instant("completed")]
                       \o <<Occupancy(Len(q.items))>>
       IN  FoldLeft(LAMBDA r, e : Propose(r, QueueId, e), rec, events)

\* doArbitrate: one event per accepted push and pop, then the occupancy.
QueueArbitrate(rec, q) ==
  IF ~QueueHasPendingCommit(q) THEN rec
  ELSE LET events == [i \in 1..Len(q.pushes) |-> Instant("accepted")]
                       \o [i \in 1..q.pops |-> Instant("completed")]
                       \o <<Occupancy(Len(q.items) + Len(q.pushes) - q.pops)>>
       IN  FoldLeft(LAMBDA r, e : Propose(r, QueueId, e), rec, events)

Free == -1
NoArray == [cells |-> [i \in 0..(Entries - 1) |-> 0],
            reads |-> [p \in 0..(ReadPorts - 1) |-> Free],
            used |-> {}, writes |-> <<>>, committed |-> 0]

\* The writes of an epoch are in distinct cells and on distinct ports.
ArrayXfer(a) ==
  [cells |-> [i \in DOMAIN a.cells |->
                IF \E w \in ToSet(a.writes) : w.index = i
                THEN (CHOOSE w \in ToSet(a.writes) : w.index = i).value ELSE a.cells[i]],
   reads |-> [p \in DOMAIN a.reads |-> Free],
   used |-> {}, writes |-> <<>>, committed |-> a.committed + Len(a.writes)]

ReadFailure(index, port) ==
  CASE index \notin DOMAIN array.cells -> "state_array_index_out_of_bounds"
    [] port \notin DOMAIN array.reads -> "state_array_read_port_out_of_bounds"
    [] array.reads[port] \notin {Free, index} -> "state_array_read_port_reused"
    [] OTHER -> ""

WriteFailure(index, port) ==
  CASE index \notin DOMAIN array.cells -> "state_array_index_out_of_bounds"
    [] port \notin 0..(WritePorts - 1) -> "state_array_write_port_out_of_bounds"
    [] port \in array.used -> "state_array_write_port_reused"
    [] \E w \in ToSet(array.writes) : w.index = index -> "state_array_write_conflict"
    [] OTHER -> ""

-----------------------------------------------------------------------------
Init ==
  /\ manifest \in Manifests
  /\ phase = "load"
  /\ time = 0 /\ proposals = 0
  /\ queue = NoQueue /\ array = NoArray
  /\ counter = NoCounter /\ histogram = NoHistogram /\ gauge = NoCounter
  /\ recorder = EmptyRecorder
  /\ failure = "" /\ participants = {}
  /\ result = MakeRunResult("failed", "")
  /\ stage = manifest.existing
  /\ ledger = [adds |-> 0, observed |-> 0, set |-> 0]

\* loadRunManifest and preflightRunManifest; the trace is read before the
\* model starts, so a later change of the file has no effect.
Preflight ==
  /\ phase = "load"
  /\ phase' = IF LoadRunManifest(manifest) /\ PreflightRunManifest(manifest)
              THEN "work" ELSE "refused"
  /\ UNCHANGED <<manifest, time, proposals, modelVars, result, stage>>

\* One operation of the process in its Work phase; ids joins the barrier.
Work(ids) ==
  /\ phase = "work" /\ time < MaxTicks /\ proposals < MaxProposals
  /\ proposals' = proposals + 1
  /\ participants' = participants \cup ids
  /\ UNCHANGED <<manifest, phase, time, result, stage>>

PushValue(v) ==
  /\ Len(queue.items) + Len(queue.pushes) < Capacity
  /\ Work({QueueId})
  /\ queue' = [queue EXCEPT !.pushes = Append(@, v)]
  /\ UNCHANGED <<array, counter, histogram, gauge, recorder, failure, ledger>>

PopValue ==
  /\ queue.pops < Len(queue.items)
  /\ Work({QueueId})
  /\ queue' = [queue EXCEPT !.pops = @ + 1]
  /\ UNCHANGED <<array, counter, histogram, gauge, recorder, failure, ledger>>

\* Mutant of ReadCell: a read does not register the array at the barrier.
ReadCellUnregistered(index, port) ==
  /\ Work({})
  /\ failure' = IF ReadFailure(index, port) = "" THEN failure ELSE ReadFailure(index, port)
  /\ array' = IF ReadFailure(index, port) = "" THEN [array EXCEPT !.reads[port] = index]
              ELSE array
  /\ UNCHANGED <<queue, counter, histogram, gauge, recorder, ledger>>

\* The read ports an accepted read leaves taken, and the failure it sets.
ReadCell(index, port) ==
  /\ Work({ArrayId})
  /\ failure' = IF ReadFailure(index, port) = "" THEN failure ELSE ReadFailure(index, port)
  /\ array' = IF ReadFailure(index, port) = "" THEN [array EXCEPT !.reads[port] = index]
              ELSE array
  /\ UNCHANGED <<queue, counter, histogram, gauge, recorder, ledger>>

ProposeWrite(index, value, port) ==
  /\ Work({ArrayId})
  /\ failure' = IF WriteFailure(index, port) = "" THEN failure ELSE WriteFailure(index, port)
  /\ array' = IF WriteFailure(index, port) = ""
              THEN [array EXCEPT !.used = @ \cup {port},
                                 !.writes = Append(@, [index |-> index, value |-> value])]
              ELSE array
  /\ UNCHANGED <<queue, counter, histogram, gauge, recorder, ledger>>

\* The updates of a Statistic: none registers it as a participant of the epoch.
AddStatistic(amount) ==
  /\ Work({})
  /\ IF AddFits(counter, amount)
     THEN /\ counter' = ProposeAdd(counter, amount)
          /\ ledger' = [ledger EXCEPT !.adds = @ + amount]
     ELSE UNCHANGED <<counter, ledger>>
  /\ UNCHANGED <<queue, array, histogram, gauge, recorder, failure>>

ObserveStatistic(value) ==
  /\ Work({})
  /\ IF ObserveFits(histogram, value)
     THEN /\ histogram' = ProposeObserve(histogram, value)
          /\ ledger' = [ledger EXCEPT !.observed = @ + value]
     ELSE UNCHANGED <<histogram, ledger>>
  /\ UNCHANGED <<queue, array, counter, gauge, recorder, failure>>

SetStatistic(value) ==
  /\ Work({})
  /\ IF SetFits(gauge)
     THEN /\ gauge' = ProposeSet(gauge, value)
          /\ ledger' = [ledger EXCEPT !.set = value]
     ELSE UNCHANGED <<gauge, ledger>>
  /\ UNCHANGED <<queue, array, counter, histogram, recorder, failure>>

EmitFlow(name, f) ==
  /\ Work({})
  /\ recorder' = Propose(recorder, Process, Flow(name, f))
  /\ UNCHANGED <<queue, array, counter, histogram, gauge, failure, ledger>>

\* The commit of one participant: its observations follow its state.
HasPendingCommit(id) ==
  CASE id = Process     -> TRUE
    [] id = QueueId     -> QueueHasPendingCommit(queue)
    [] id = ArrayId     -> array.writes # <<>>
    [] id = CounterId   -> counter.pending
    [] id = HistogramId -> histogram.proposed.count > 0
    [] id = GaugeId     -> gauge.pending

CommitObservations(rec, ids) ==
  FoldLeft(LAMBDA r, id : IF id \notin ids THEN r
                          ELSE IF HasPendingCommit(id) THEN CommitOwner(r, id, time)
                          ELSE RejectOwner(r, id),
           rec, Objects)

Fail(code) ==
  /\ phase' = "ended"
  /\ result' = MakeRunResult("failed", code)

\* Arbitrate, validate, Xfer and the next tick: the objects scheduled for the epoch, which are the
\* process and the statistics the model chose to schedule, and the registered participants.
CommitEpoch ==
  /\ phase = "work" /\ time < MaxTicks
  /\ \E scheduled \in SUBSET {CounterId, HistogramId, GaugeId} :
     LET ids      == participants \cup {Process} \cup scheduled
         proposed == IF QueueId \in ids THEN QueueArbitrate(recorder, queue) ELSE recorder
     IN  CASE failure # "" ->
                /\ Fail(failure)
                /\ UNCHANGED <<time, proposals, modelVars>>
           [] failure = "" /\ ~CommitIsLegal(proposed, Process) ->
                /\ Fail("invalid_observation_commit")
                /\ UNCHANGED <<time, proposals, modelVars>>
           [] OTHER ->
                /\ recorder' = CommitObservations(proposed, ids)
                /\ queue' = IF QueueId \in ids THEN QueueXfer(queue) ELSE queue
                /\ array' = IF ArrayId \in ids THEN ArrayXfer(array) ELSE array
                /\ counter' = IF CounterId \in ids THEN CommitCounter(counter) ELSE counter
                /\ histogram' = IF HistogramId \in ids THEN CommitHistogram(histogram)
                                ELSE histogram
                /\ gauge' = IF GaugeId \in ids THEN CommitGauge(gauge) ELSE gauge
                /\ participants' = {} /\ proposals' = 0
                /\ time' = time + 1
                /\ UNCHANGED <<failure, ledger, phase, result>>
  /\ UNCHANGED <<manifest, stage>>

\* The run ends: the tick limit, the drained trace, a declared end, or no
\* progress with something still in the queue.
EndRun ==
  /\ phase = "work" /\ proposals = 0
  /\ phase' = "ended"
  /\ \/ time >= MaxTicks /\ result' = MakeRunResult("incomplete", "max_ticks_reached")
     \/ time < MaxTicks /\ queue.items = <<>> /\ result' = MakeRunResult("completed", "")
     \/ time < MaxTicks /\ queue.items = <<>>
        /\ result' = MakeRunResult("completed", "declared_model_termination")
     \/ time < MaxTicks /\ queue.items # <<>> /\ result' = MakeRunResult("failed", "no_progress")
  /\ UNCHANGED <<manifest, time, proposals, modelVars, stage>>

\* publishRunResult: an existing stage is refused, else it is created empty.
CreateStage ==
  /\ phase = "ended"
  /\ phase' = IF stage = <<>> THEN "stats.json" ELSE "refused"
  /\ UNCHANGED <<manifest, time, proposals, modelVars, result, stage>>

Output(r, name) == [r EXCEPT !.outputs = Append(@, name)]

\* A file is empty, or holds a part of its bytes, until the last of them is written.
Truncated == <<>>
Whole(content) == <<content>>

Publishing == {"stats.json", "events.jsonl", "validation-report.json", "run-result.json"}

\* writeExclusive creates the file of the phase; the result document is checked before that.
CreateFile ==
  /\ phase \in Publishing /\ phase \notin DOMAIN stage
  /\ phase = "run-result.json" => ValidateResultDocument(result)
  /\ stage' = [f \in DOMAIN stage \cup {phase} |-> IF f = phase THEN Truncated ELSE stage[f]]
  /\ UNCHANGED <<manifest, phase, time, proposals, modelVars, result>>

\* writeExclusive writes the bytes of the file that it has created, and closes it.
Written(name, content) ==
  /\ name \in DOMAIN stage
  /\ stage' = [stage EXCEPT ![name] = Whole(content)]

WriteStatistics ==
  /\ phase = "stats.json"
  /\ Written("stats.json", "statistics")
  /\ result' = Output(result, "stats.json")
  /\ phase' = IF manifest.eventLog = "jsonl" THEN "events.jsonl" ELSE "validation-report.json"
  /\ UNCHANGED <<manifest, time, proposals, modelVars>>

WriteEvents ==
  /\ phase = "events.jsonl"
  /\ Written("events.jsonl", recorder.committed)
  /\ result' = Output(result, "events.jsonl")
  /\ phase' = "validation-report.json"
  /\ UNCHANGED <<manifest, time, proposals, modelVars>>

\* Mutant of WriteValidation: a failed expectation leaves the status alone.
WriteValidationLenient ==
  /\ phase = "validation-report.json"
  /\ Written("validation-report.json",
             IF ExpectationMatches(manifest, result) THEN "passed" ELSE "failed")
  /\ result' = Output([result EXCEPT !.validation = "passed", !.report = "passed"],
                      "validation-report.json")
  /\ phase' = "run-result.json"
  /\ UNCHANGED <<manifest, time, proposals, modelVars>>

\* The expectation decides the validation report, and a failed one the status.
WriteValidation ==
  /\ phase = "validation-report.json"
  /\ LET passed == ExpectationMatches(manifest, result)
         report == IF passed THEN "passed" ELSE "failed"
         judged == IF passed THEN result
                   ELSE [result EXCEPT !.status = "failed", !.reason = "invariant_violation"]
     IN  /\ Written("validation-report.json", report)
         /\ result' = Output([judged EXCEPT !.validation = report, !.report = report],
                             "validation-report.json")
  /\ phase' = "run-result.json"
  /\ UNCHANGED <<manifest, time, proposals, modelVars>>

WriteResult ==
  /\ phase = "run-result.json"
  /\ Written("run-result.json", result)
  /\ phase' = "published"
  /\ UNCHANGED <<manifest, time, proposals, modelVars, result>>

\* A file cannot be created or written, or the result document is refused: the cleanup removes
\* the stage.
WriteFails ==
  /\ phase \in Publishing
  /\ stage' = <<>>
  /\ phase' = "refused"
  /\ UNCHANGED <<manifest, time, proposals, modelVars, result>>

\* The program is killed, before, in or after a write: no cleanup runs, and a file that was
\* being written stays truncated.
Killed ==
  /\ phase \in Publishing
  /\ phase' = "refused"
  /\ UNCHANGED <<manifest, time, proposals, modelVars, result, stage>>

Next ==
  \/ Preflight
  \/ \E v \in Values : PushValue(v)
  \/ PopValue
  \/ \E i \in 0..Entries, p \in 0..ReadPorts : ReadCell(i, p)
  \/ \E i \in 0..Entries, v \in Values, p \in 0..WritePorts : ProposeWrite(i, v, p)
  \/ \E n \in Amounts : AddStatistic(n)
  \/ \E n \in Amounts : ObserveStatistic(n)
  \/ \E n \in Amounts : SetStatistic(n)
  \/ \E name \in {"start", "end"}, f \in FlowIds : EmitFlow(name, f)
  \/ CommitEpoch
  \/ EndRun
  \/ CreateStage \/ CreateFile \/ WriteStatistics \/ WriteEvents \/ WriteValidation \/ WriteResult
  \/ WriteFails \/ Killed

Spec == Init /\ [][Next]_vars

-----------------------------------------------------------------------------
Logged(name) == Cardinality({i \in DOMAIN recorder.committed : recorder.committed[i].name = name})
LastLogged(name) == Max({0} \cup {i \in DOMAIN recorder.committed : recorder.committed[i].name = name})
FlowLog(f) == SelectSeq(recorder.committed, LAMBDA e : e.flow = f)

QueueBalances == queue.accepted - queue.completed = Len(queue.items)

(***************************************************************************)
(* The event log tells what happened: it has one entry for every accepted  *)
(* and every completed transaction of the queue, its last occupancy is     *)
(* the queue's, it is in canonical order without repeated identities, and  *)
(* the starts and ends of each flow alternate (SimQueue::doArbitrate,      *)
(* ObservationRecorder::commitOwner, canonicalEvents).                     *)
(***************************************************************************)
LogExact ==
  /\ Logged("accepted") = queue.accepted
  /\ Logged("completed") = queue.completed
  /\ QueueBalances
  /\ LastLogged("occupancy") # 0 => recorder.committed[LastLogged("occupancy")].value = Len(queue.items)
  /\ \A i \in 1..(Len(recorder.committed) - 1) :
       LessEvent(recorder.committed[i], recorder.committed[i + 1])
  /\ \A f \in FlowIds : \A i \in DOMAIN FlowLog(f) :
       FlowLog(f)[i].name = (IF i % 2 = 1 THEN "start" ELSE "end")

(***************************************************************************)
(* Statistics are exact up to their limit: what is committed and proposed  *)
(* is the sum of the accepted updates, however many epochs pass before the *)
(* statistic is scheduled to commit, refused ones leave no trace, the      *)
(* buckets add up, and no count passes the largest value                   *)
(* (Statistic::proposeAdd, proposeObserve, doXfer).                        *)
(***************************************************************************)
Observed == Merge(histogram.total, histogram.proposed)
SumsExact ==
  /\ counter.value + counter.proposed = ledger.adds
  /\ (IF gauge.pending THEN gauge.proposed ELSE gauge.value) = ledger.set
  /\ Observed.sum = ledger.observed
  /\ {ledger.adds, Observed.sum, Observed.count} \subseteq 0..MaxValue
  /\ Observed.count > 0 =>
       Observed.min * Observed.count <= Observed.sum /\ Observed.sum <= Observed.max * Observed.count
BucketsAddUp == Observed.count = FoldLeft(+, 0, [b \in Buckets |-> Observed.buckets[b]])
StatisticsExact == SumsExact /\ BucketsAddUp

(***************************************************************************)
(* No port of the array is taken when an epoch begins, also after an epoch *)
(* that only read: otherwise a later, legal access fails the run           *)
(* (StateArray::ensureRegistered, doXfer).                                 *)
(***************************************************************************)
PortsFresh ==
  (phase = "work" /\ proposals = 0) =>
    /\ \A p \in DOMAIN array.reads : array.reads[p] = Free
    /\ array.used = {} /\ array.writes = <<>>

(***************************************************************************)
(* A run-result.json that is whole is honest: all files it lists are in    *)
(* the directory and whole, the log among them is the committed one, it    *)
(* says passed exactly when the model's own outcome is the expected one,   *)
(* and completed only if the model completed - whatever write failed or    *)
(* wherever the program was killed on the way (publishRunResult).  The     *)
(* exception is the code's: writeExclusive (harness.cpp:173-193) writes    *)
(* the result under its own name, so a kill in the middle of that write    *)
(* leaves a run-result.json that is truncated, and nothing is said of it.  *)
(***************************************************************************)
ReportHonest ==
  (/\ "run-result.json" \in DOMAIN stage /\ manifest.existing = <<>>
   /\ stage["run-result.json"] # Truncated) =>
    LET r == stage["run-result.json"][1]
        own == MakeRunResult(r.model, r.code)
    IN  /\ \A f \in ToSet(r.outputs) : f \in DOMAIN stage /\ stage[f] # Truncated
        /\ manifest.eventLog = "jsonl" => stage["events.jsonl"] = Whole(recorder.committed)
        /\ (r.validation = "passed") = ExpectationMatches(manifest, own)
        /\ stage["validation-report.json"] = Whole(r.validation)
        /\ r.status = "completed" => r.model = "completed"
        /\ r.validation = "passed" => r.status = own.status /\ r.reason = own.reason
=============================================================================
