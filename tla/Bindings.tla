------------------------------- MODULE Bindings -------------------------------
(***************************************************************************)
(* Binding resolution: a registry of candidate C++ realizations and frozen *)
(* requests is parsed, every external declaration of a frozen model is     *)
(* matched with exactly one available candidate of the selected profile    *)
(* and target, and the selected records are published as the binding lock. *)
(*                                                                         *)
(* A record is the JSON object of the lock; "text" orders the canonical    *)
(* bytes of two records, and a fingerprint is the content it hashes.       *)
(* "shape" is "exact" when an object has exactly the fields of its schema, *)
(* each of its JSON type; "component" and "provider" carry their           *)
(* fingerprints with them.                                                 *)
(***************************************************************************)
EXTENDS Integers, Sequences, FiniteSets, SequencesExt

CONSTANTS Registries,   \* [candidates, requests]
          Modules,      \* [frozen, sound, externs]
          Selections,   \* [profile, target, fails]: the options of a pass
          Passes        \* the concurrent passes that write one lock path

VARIABLES phase,        \* of each pass
          input,        \* of each pass: [registry, module, selection]
          outcome,      \* of each pass: [error, selections, lock]
          temp,         \* of each pass: what its temporary file holds
          path          \* what the lock path holds
vars == <<phase, input, outcome, temp, path>>

All(s, P(_)) == \A i \in DOMAIN s : P(s[i])
Distinct(s, F(_)) == \A i, j \in DOMAIN s : F(s[i]) = F(s[j]) => i = j
Sorted(s, Less(_, _)) == SortSeq(s, Less)
Same(a, b, fields) == \A f \in fields : a[f] = b[f]

IsName(n) == n \notin {"", "bad"}
Effects == {"pure", "stateful"}
Exact(x) == x.shape = "exact"

(***************************************************************************)
(* BindingRecord::parse and the fingerprint of a record.                   *)
(***************************************************************************)
RecordIdentity(r) ==
    /\ Exact(r)
    /\ r.schema = "acsim-binding-0.2" /\ r.epoch = "0.2"
    /\ r.availability = "available"
    /\ IsName(r.binding) /\ IsName(r.component) /\ IsName(r.provider)
    /\ r.effect \in Effects
\* The C++ entry points that are there, by effect.
EntryPoints(r) ==
    IF r.effect = "pure" THEN r.entries = {"pure"}
    ELSE "pure" \notin r.entries /\ {"work", "xfer"} \subseteq r.entries
RecordOwnership(r) ==
    /\ r.construction = "constructor"
    /\ r.ownership \in IF r.effect = "pure" THEN {<<"none", "inline">>}
                       ELSE {<<"unique", "member_or_array">>,
                             <<"unique", "root_or_process">>}
Ordinals(s) == \A i \in DOMAIN s : s[i].ordinal = i - 1
NameOf(x) == x.name
AccessorOf(x) == x.accessor
RecordParameters(r) ==
    /\ All(r.parameters, LAMBDA p :
             /\ Exact(p) /\ IsName(p.name) /\ p.type # ""
             /\ p.mapping \in {"template_argument", "constexpr_argument",
                               "constructor_constant"})
    /\ Ordinals(r.parameters) /\ Distinct(r.parameters, NameOf)
PortDomain(p) ==
    /\ p.cardinality \in {"exclusive", "shared"}
    /\ p.direction \in {"input", "output"}
Owners == {"owned", "borrowed", "shared"}
RecordPorts(r) ==
    /\ All(r.ports, LAMBDA p : /\ Exact(p) /\ IsName(p.accessor)
                               /\ PortDomain(p) /\ p.ownership \in Owners)
    /\ Distinct(r.ports, AccessorOf)
RecordResources(r) ==
    /\ All(r.resources, LAMBDA p : /\ Exact(p) /\ IsName(p.accessor)
                                   /\ p.mode \in {"initiator", "target"}
                                   /\ p.ownership \in Owners)
    /\ Distinct(r.resources, AccessorOf)
RecordResults(r) ==
    /\ All(r.results, LAMBDA p : Exact(p) /\ IsName(p.name))
    /\ Distinct(r.results, NameOf)
RecordActivations(r) ==
    /\ All(r.activations, LAMBDA p : Exact(p) /\ IsName(p.name))
    /\ r.effect = "pure" => r.activations = <<>>
    /\ Distinct(r.activations, NameOf)
RecordParses(r) ==
    /\ RecordIdentity(r) /\ EntryPoints(r) /\ RecordOwnership(r)
    /\ RecordParameters(r) /\ RecordPorts(r) /\ RecordResources(r)
    /\ RecordResults(r) /\ RecordActivations(r)
Content(r) == [f \in DOMAIN r \ {"print"} |-> r[f]]
ValidFingerprint(r) == r.print = Content(r)

(***************************************************************************)
(* parseBindingRegistry.                                                   *)
(***************************************************************************)
CandidateParses(c) ==
    Exact(c) /\ c.profile # "" /\ c.target # "" /\ RecordParses(c.record)
RequestIdentity(q) ==
    /\ Exact(q) /\ q.key # "" /\ q.type # "" /\ q.binding # ""
    /\ q.effect \in Effects
RequestLists(q) ==
    /\ All(q.parameters, LAMBDA p : Exact(p) /\ p.type # "" /\ p.name # "")
    /\ Ordinals(q.parameters)
    /\ All(q.ports \o q.resources, Exact)
    /\ All(q.results, LAMBDA p : Exact(p) /\ p.type # "" /\ p.name # "")
    /\ All(q.activations, LAMBDA p : Exact(p) /\ p.kind # "" /\ p.name # "")
RegistryParses(reg) ==
    /\ All(reg.candidates, CandidateParses)
    /\ All(reg.requests, LAMBDA q : RequestIdentity(q) /\ RequestLists(q))

(***************************************************************************)
(* BindingRegistry::resolve.                                               *)
(***************************************************************************)
Failure(code, detail) == [error |-> <<code, detail>>, selections |-> <<>>, lock |-> <<>>]
Bound == <<"", <<>>>>
\* The pairwise comparisons: what the record and the request both state.
Pairwise(a, b, fields) ==
    Len(a) = Len(b) /\ \A i \in DOMAIN a : Same(a[i], b[i], fields)
MatchesParametersByType(r, q) ==
    Pairwise(r.parameters, q.parameters, {"type", "name", "ordinal"})
MatchesParameters(r, q) ==
    Pairwise(r.parameters, q.parameters, {"type", "name", "ordinal", "value"})
MatchesResults(r, q) == Pairwise(r.results, q.results, {"name"})
MatchesPorts(r, q) ==
    Pairwise(r.ports, q.ports, {"cardinality", "direction", "ownership", "protocol"})
MatchesResources(r, q) ==
    Pairwise(r.resources, q.resources, {"mode", "ownership", "resource"})
MatchesMetadata(r, q) ==
    /\ Same(r, q, {"schema", "epoch", "binding", "component", "effect", "provider"})
    /\ MatchesParameters(r, q) /\ MatchesPorts(r, q)
    /\ MatchesResources(r, q) /\ MatchesResults(r, q)
    /\ r.activations = q.activations

\* validateRequest: the code of the first complaint, or "".
ValidateRequest(q) ==
    CASE q.epoch # "0.2" -> "EPOCH-MISMATCH"
      [] q.schema # "acsim-binding-0.2" -> "SCHEMA-MISMATCH"
      [] q.effect \notin Effects -> "INLINE-EFFECT"
      [] ~IsName(q.key) \/ ~IsName(q.binding) -> "BINDING-MISSING"
      [] ~(All(q.parameters, LAMBDA p : IsName(p.name))
           /\ Distinct(q.parameters, NameOf)) -> "PARAM-PHASE"
      [] ~(All(q.results \o q.activations, LAMBDA p : IsName(p.name))
           /\ Distinct(q.results, NameOf)
           /\ Distinct(q.activations, NameOf)) -> "TYPE-MISMATCH"
      [] OTHER -> ""

\* BindingRegistry::create: the candidates in the order of their texts.
CandidateLess(a, b) ==
    \/ a.profile = "debug" /\ b.profile # "debug"
    \/ a.profile = b.profile /\ ~a.available /\ b.available
    \/ /\ a.profile = b.profile /\ a.available = b.available
       /\ a.record.text < b.record.text
CreateInOrder(candidates) == candidates
Create(candidates) == Sorted(candidates, CandidateLess)

Selected(c, sel) == c.profile = sel.profile /\ c.target = sel.target
\* The filters of the diagnosis, in turn: the first that leaves nothing is
\* the reason.
Reasons == <<"EPOCH-MISMATCH", "SCHEMA-MISMATCH", "INLINE-EFFECT", "PROFILE",
             "PARAM-PHASE", "TYPE-MISMATCH", "FINGERPRINT">>
Filter(reason, c, q, sel) ==
    CASE reason = "EPOCH-MISMATCH" -> c.record.epoch = q.epoch
      [] reason = "SCHEMA-MISMATCH" -> Same(c.record, q, {"schema", "component"})
      [] reason = "INLINE-EFFECT" -> c.record.effect = q.effect
      [] reason = "PROFILE" -> Selected(c, sel)
      [] reason = "PARAM-PHASE" -> MatchesParameters(c.record, q)
      [] reason = "TYPE-MISMATCH" ->
             /\ MatchesPorts(c.record, q) /\ MatchesResources(c.record, q)
             /\ MatchesResults(c.record, q) /\ c.record.activations = q.activations
      [] reason = "FINGERPRINT" -> c.record.provider = q.provider
MissingReasonWithoutProvider(candidates, q, sel) ==
    LET Left(n) == {c \in Range(candidates) :
                        /\ c.record.binding = q.binding
                        /\ \A i \in 1 .. n : Filter(Reasons[i], c, q, sel)}
        empty == {i \in 1 .. 6 : Left(i) = {}}
    IN  CASE Left(0) = {} -> "no candidate"
          [] empty # {} -> Reasons[Min(empty)]
          [] OTHER -> "unavailable"
MissingReason(candidates, q, sel) ==
    LET Left(n) == {c \in Range(candidates) :
                        /\ c.record.binding = q.binding
                        /\ \A i \in 1 .. n : Filter(Reasons[i], c, q, sel)}
        empty == {i \in DOMAIN Reasons : Left(i) = {}}
    IN  CASE Left(0) = {} -> "no candidate"
          [] empty # {} -> Reasons[Min(empty)]
          [] OTHER -> "unavailable"
\* One request: [error, candidate].
Resolve(candidates, q, sel) ==
    LET invalid == ValidateRequest(q)
        exact == SelectSeq(candidates, LAMBDA c :
                     Selected(c, sel) /\ c.available /\ MatchesMetadata(c.record, q))
    IN  CASE invalid # "" -> [error |-> <<invalid, q.key>>]
          [] invalid = "" /\ Len(exact) = 1 ->
                 [error |-> Bound, key |-> q.key, candidate |-> exact[1]]
          [] invalid = "" /\ Len(exact) > 1 ->
                 [error |-> <<"BINDING-AMBIGUOUS",
                              [i \in DOMAIN exact |-> exact[i].record.text]>>]
          [] OTHER ->
                 [error |-> <<"BINDING-MISSING", MissingReason(candidates, q, sel)>>]

(***************************************************************************)
(* resolveBindings: the requests in the order of their keys, then one lock *)
(* entry for each binding.                                                 *)
(***************************************************************************)
RequestLess(a, b) ==
    a.rank < b.rank \/ (a.rank = b.rank /\ a.binding = "b1" /\ b.binding # "b1")
LockOf(selections) ==
    Sorted(SetToSeq({s.candidate.record : s \in Range(selections)}),
           LAMBDA a, b : a.text < b.text)
ResolveBindings(candidates, requests, sel) ==
    LET ordered == Sorted(requests, RequestLess)
        table == Create(candidates)
        found == [i \in DOMAIN ordered |-> Resolve(table, ordered[i], sel)]
        failed == {i \in DOMAIN found : found[i].error # Bound}
        records == {f.candidate.record : f \in Range(found)}
    IN  CASE \E c \in Range(candidates) : ~ValidFingerprint(c.record) ->
                 Failure("FINGERPRINT", "")
          [] ~Distinct(ordered, LAMBDA q : q.key) ->
                 Failure("BINDING-AMBIGUOUS", "duplicate key")
          [] failed # {} -> Failure(found[Min(failed)].error[1],
                                    found[Min(failed)].error[2])
          [] \E r, t \in records : r.binding = t.binding /\ r # t ->
                 Failure("BINDING-AMBIGUOUS", "distinct records")
          [] OTHER -> [error |-> Bound, selections |-> found, lock |-> LockOf(found)]

(***************************************************************************)
(* resolveModuleBindings: each request is held against the declaration it  *)
(* names, and each declaration must have one.                              *)
(***************************************************************************)
NormalizeRequest(e, q) ==
    CASE q.binding # e.binding -> "BINDING-MISSING"
      [] q.type # e.type \/ [i \in DOMAIN q.results |-> q.results[i].type] # e.results ->
             "TYPE-MISMATCH"
      [] \/ \E p \in Range(q.parameters) :
                p.name \notin DOMAIN e.static \/ e.static[p.name] # <<p.type, p.value>>
         \/ \E n \in DOMAIN e.static : \A p \in Range(q.parameters) : p.name # n ->
             "PARAM-PHASE"
      [] OTHER -> ""
\* The code of the first complaint, or "".
CollectRequests(module, requests) ==
    LET ordered == Sorted(requests, RequestLess)
        Extern(q) == {e \in Range(module.externs) : e.key = q.key}
        Complaint(i) ==
            LET q == ordered[i] IN
            CASE Extern(q) = {} -> "BINDING-MISSING"
              [] Extern(q) # {} /\ \E j \in 1 .. i - 1 : ordered[j].key = q.key ->
                     "BINDING-AMBIGUOUS"
              [] OTHER -> NormalizeRequest(CHOOSE e \in Extern(q) : TRUE, q)
        wrong == {i \in DOMAIN ordered : Complaint(i) # ""}
    IN  CASE wrong # {} -> Complaint(Min(wrong))
          [] \E e \in Range(module.externs) :
                 \A q \in Range(requests) : q.key # e.key -> "BINDING-MISSING"
          [] OTHER -> ""
ResolveModuleBindings(module, reg, sel) ==
    LET complaint == CollectRequests(module, reg.requests) IN
    CASE ~module.frozen -> Failure("BINDING-MISSING", "not frozen")
      [] ~module.sound -> Failure("FINGERPRINT", "integrity")
      [] sel.profile = "" \/ sel.target = "" -> Failure("PROFILE", "")
      [] \E c \in Range(reg.candidates) : ~ValidFingerprint(c.record) ->
             Failure("FINGERPRINT", "")
      [] complaint # "" -> Failure(complaint, "request")
      [] OTHER -> ResolveBindings(reg.candidates, reg.requests, sel)

(***************************************************************************)
(* The passes.  emitBindingLockAtomically writes a temporary file of its   *)
(* own beside the path and renames it.                                     *)
(***************************************************************************)
Nothing == [error |-> Bound, selections |-> <<>>, lock |-> <<>>]
NoFile == [state |-> "none", lock |-> <<>>]
Part(lock) == [state |-> "part", lock |-> lock]
Whole(lock) == [state |-> "whole", lock |-> lock]
Init ==
    /\ phase = [p \in Passes |-> "start"]
    /\ \E reg \in Registries, module \in Modules :
           input \in [Passes -> {[registry |-> reg, module |-> module,
                                  selection |-> sel] : sel \in Selections}]
    /\ outcome = [p \in Passes |-> Nothing]
    /\ temp = [p \in Passes |-> NoFile]
    /\ path = NoFile

ParseRegistry(p) ==
    /\ phase[p] = "start"
    /\ phase' = [phase EXCEPT ![p] = IF RegistryParses(input[p].registry)
                                     THEN "parsed" ELSE "failed"]
    /\ UNCHANGED <<input, outcome, temp, path>>
RunPass(p) ==
    LET in == input[p]
        out == ResolveModuleBindings(in.module, in.registry, in.selection) IN
    /\ phase[p] = "parsed"
    /\ outcome' = [outcome EXCEPT ![p] = out]
    /\ phase' = [phase EXCEPT ![p] = IF out.error = Bound THEN "resolved" ELSE "failed"]
    /\ UNCHANGED <<input, temp, path>>
WriteInPlace(p) ==
    /\ phase[p] = "resolved"
    /\ temp' = [temp EXCEPT ![p] = Part(outcome[p].lock)]
    /\ path' = Part(outcome[p].lock)
    /\ phase' = [phase EXCEPT ![p] = "writing"]
    /\ UNCHANGED <<input, outcome>>
WriteTemporary(p) ==
    /\ phase[p] = "resolved"
    /\ temp' = [temp EXCEPT ![p] = Part(outcome[p].lock)]
    /\ phase' = [phase EXCEPT ![p] = "writing"]
    /\ UNCHANGED <<input, outcome, path>>
FlushTemporary(p) ==
    /\ phase[p] = "writing"
    /\ \/ /\ temp' = [temp EXCEPT ![p] = Whole(outcome[p].lock)]
          /\ phase' = [phase EXCEPT ![p] = "flushed"]
       \/ /\ input[p].selection.fails                  \* has_error: discard
          /\ temp' = [temp EXCEPT ![p] = NoFile]
          /\ phase' = [phase EXCEPT ![p] = "failed"]
    /\ UNCHANGED <<input, outcome, path>>
Publish(p) ==
    /\ phase[p] = "flushed"
    /\ temp' = [temp EXCEPT ![p] = NoFile]
    /\ \/ path' = temp[p] /\ phase' = [phase EXCEPT ![p] = "published"]
       \/ /\ input[p].selection.fails                  \* discard, or keep failed
          /\ phase' = [phase EXCEPT ![p] = "failed"] /\ UNCHANGED path
    /\ UNCHANGED <<input, outcome>>
\* The process is killed; a temporary file stays behind.
Killed(p) ==
    /\ phase[p] \in {"resolved", "writing", "flushed"} /\ input[p].selection.fails
    /\ phase' = [phase EXCEPT ![p] = "killed"]
    /\ UNCHANGED <<input, outcome, temp, path>>

Next == \E p \in Passes : \/ ParseRegistry(p) \/ RunPass(p) \/ WriteTemporary(p)
                          \/ FlushTemporary(p) \/ Publish(p) \/ Killed(p)
BindingsSpec == Init /\ [][Next]_vars

(***************************************************************************)
(* Properties.                                                             *)
(***************************************************************************)
Resolved(p) == phase[p] \in {"resolved", "writing", "flushed", "published", "killed"}

\* Registry.cpp:574-600 and ResolveBindings.cpp:161-195: once a pass has
\* bound a model, each external declaration has exactly one candidate of the
\* registry that is available in the selected profile and target under the
\* declared binding with the declared static arguments and result count, the
\* selection names it, and the lock holds the selected records only.
BoundExactly ==
    \A p \in Passes : Resolved(p) =>
        LET in == input[p]
            Fits(c, e) ==
                /\ Selected(c, in.selection) /\ c.available
                /\ c.record.binding = e.binding
                /\ Len(c.record.results) = Len(e.results)
                /\ {<<x.name, x.type, x.value>> : x \in Range(c.record.parameters)}
                     = {<<n, e.static[n][1], e.static[n][2]>> : n \in DOMAIN e.static}
            chosen == outcome[p].selections IN
        /\ \A e \in Range(in.module.externs) :
               Cardinality({i \in DOMAIN chosen : /\ chosen[i].key = e.key
                                                  /\ Fits(chosen[i].candidate, e)}) = 1
        /\ Len(chosen) = Len(in.module.externs)
        /\ Range(outcome[p].lock) = {s.candidate.record : s \in Range(chosen)}
        /\ Distinct(outcome[p].lock, LAMBDA r : r.binding)

\* Registry.cpp:547-566 sorts what the providers registered: neither the
\* outcome nor its diagnosis depends on the order of the registry.
OrderFree ==
    \A p \in Passes : phase[p] \in {"resolved", "failed"} =>
        LET in == input[p]
            turned == [candidates |-> Reverse(in.registry.candidates),
                       requests |-> Reverse(in.registry.requests)] IN
        outcome[p] # Nothing =>
            outcome[p] = ResolveModuleBindings(in.module, turned, in.selection)

\* Registry.cpp:602-665: the diagnosis of a missing binding is honest.  It
\* says "unavailable" only when a candidate that fits the request in
\* everything else is not available, and another reason only when no
\* candidate fits at all.
DiagnosisHonest ==
    \A p \in Passes : (phase[p] = "failed" /\ outcome[p].error[1] = "BINDING-MISSING"
                         /\ outcome[p].error[2] \in Range(Reasons) \cup {"unavailable"}) =>
        LET in == input[p]
            Fitting(q) == {c \in Range(in.registry.candidates) :
                             Selected(c, in.selection) /\ MatchesMetadata(c.record, q)}
        IN  \E q \in Range(in.registry.requests) :
                IF outcome[p].error[2] = "unavailable"
                THEN Fitting(q) # {} /\ \A c \in Fitting(q) : ~c.available
                ELSE Fitting(q) = {}

\* Registry.cpp:762-790: whatever the passes, their failures and the kills
\* do, the lock path holds nothing or the whole lock of a pass that
\* resolved its model.
LockWhole ==
    path # NoFile => \E p \in Passes : /\ phase[p] = "published"
                                    /\ path = Whole(outcome[p].lock)
=============================================================================
