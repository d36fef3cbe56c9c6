----------------------------- MODULE AddressMaps -----------------------------
(***************************************************************************)
(* The verification of a module's address spaces, address maps and time    *)
(* domains (verifyModuleResourceReferences and what it calls in            *)
(* lib/Dialect/ACIR/ACIRResources.cpp).  An address map is checked by      *)
(* three sweeps over its entries in canonical order: one for selections    *)
(* that are an interval, one that counts the relations the general         *)
(* analysis would have to decide, and one for interleaved selections.      *)
(*                                                                         *)
(* Addresses are those of a Width-bit space; 2^Width stands for the 2^64   *)
(* of the code.                                                            *)
(***************************************************************************)
EXTENDS Integers, Sequences, SequencesExt, FiniteSets, FiniteSetsExt

CONSTANTS Files,          \* the modules to verify
          Width,          \* of the widest integer
          MaxRelations    \* kMaxGeneralSelectorIntersectionQueries

VARIABLES file,      \* the module: its spaces, parents and one map
          stage,     \* what is verified next, or "accepted", "rejected"
          why,       \* the reason of a rejection
          entries,   \* the map entries read so far, in canonical order later
          cursor,    \* the next entry of the current sweep
          active,    \* entries whose interval the sweep is in
          relations  \* mixed relations counted by the preflight

vars == <<file, stage, why, entries, cursor, active, relations>>

None == -1
MaxWord == 2^Width - 1
AddressLimit(width) == 2^width

-----------------------------------------------------------------------------
(***************************************************************************)
(* Address spaces and their parents.                                       *)
(***************************************************************************)
RECURSIVE Gcd(_, _)
Gcd(a, b) == IF b = 0 THEN a ELSE Gcd(b, a % b)

AlignmentOf(space) == IF space.denominator = 1 THEN 1 ELSE space.alignment

AddressSpaceIsValid(space) ==
  /\ space.width \in 1..Width
  /\ (space.parent = "") = (space.numerator = None)
  /\ space.parent # "" =>
       /\ space.numerator # 0 /\ space.denominator # 0
       /\ Gcd(space.numerator, space.denominator) = 1
       /\ space.denominator # 1 =>
            /\ space.alignment > 0
            /\ (space.alignment * space.numerator) % space.denominator = 0

VerifyAddressTranslation(spaces, name) ==
  LET child == spaces[name]
  IN  child.parent # "" =>
        /\ child.parent \in DOMAIN spaces
        /\ LET childMaximum == AddressLimit(child.width) - 1
               legalMaximum == childMaximum - (childMaximum % AlignmentOf(child))
               translated   == legalMaximum * child.numerator
           IN  /\ translated % child.denominator = 0
               /\ (translated \div child.denominator) + child.offset
                    < AddressLimit(spaces[child.parent].width)

\* verifyParentCycles: follow the parents from every unvisited node.
RECURSIVE WalkParents(_, _, _)
WalkParents(parents, node, path) ==
  CASE node \in path -> "cycle"
    [] node \notin DOMAIN parents -> "end"
    [] OTHER -> WalkParents(parents, parents[node], path \cup {node})

VerifyParentCycles(parents) ==
  \A node \in DOMAIN parents : WalkParents(parents, node, {}) = "end"

SpaceParents(spaces) == [name \in DOMAIN spaces |-> spaces[name].parent]

-----------------------------------------------------------------------------
(***************************************************************************)
(* Map entries.  banks = 0 stands for an entry without interleave.         *)
(***************************************************************************)
Interleaved(e) == e.banks # 0
Stripe(e) == e.granularity * e.banks
EndOf(e) == e.base + e.size
Geometry(e) == <<e.granularity, e.banks>>

\* Mutant of SelectedPrefix: a partial block does not count.
SelectedPrefixWhole(e, end) == (end \div Stripe(e)) * e.granularity

\* The number of addresses below end that the lane selects.
SelectedPrefix(e, end) ==
  LET residue   == e.granularity * e.bank
      remainder == end % Stripe(e)
      partial   == IF remainder > residue THEN Min({remainder - residue, e.granularity}) ELSE 0
  IN  (end \div Stripe(e)) * e.granularity + partial

LaneIntersectsInterval(e, begin, end) == SelectedPrefix(e, end) # SelectedPrefix(e, begin)

TargetSpan(e) ==
  IF Interleaved(e) THEN SelectedPrefix(e, EndOf(e)) - SelectedPrefix(e, e.base) ELSE e.size

NoInterval == [begin |-> 0, end |-> 0]
Interval(begin, end) == [begin |-> begin, end |-> end]

\* Mutant of MaterializeSingleSelection: a last partial block is forgotten.
MaterializeWholeBlocks(e) ==
  LET cycle   == Stripe(e)
      aligned == (e.base \div cycle) * cycle + e.granularity * e.bank
      start   == IF aligned + e.granularity <= e.base THEN aligned + cycle ELSE aligned
      begin   == Max({e.base, start})
      end     == Min({EndOf(e), start + e.granularity})
  IN  CASE e.banks \in {0, 1} -> [general |-> FALSE, interval |-> Interval(e.base, EndOf(e))]
        [] e.banks > 1 /\ begin >= end -> [general |-> FALSE, interval |-> NoInterval]
        [] e.banks > 1 /\ begin < end /\ start + cycle + e.granularity <= EndOf(e) ->
             [general |-> TRUE, interval |-> NoInterval]
        [] OTHER -> [general |-> FALSE, interval |-> Interval(begin, end)]

\* An interval, nothing, or (general) more than one block.
MaterializeSingleSelection(e) ==
  LET cycle   == Stripe(e)
      aligned == (e.base \div cycle) * cycle + e.granularity * e.bank
      start   == IF aligned + e.granularity <= e.base THEN aligned + cycle ELSE aligned
      begin   == Max({e.base, start})
      end     == Min({EndOf(e), start + e.granularity})
  IN  CASE e.banks \in {0, 1} -> [general |-> FALSE, interval |-> Interval(e.base, EndOf(e))]
        [] e.banks > 1 /\ begin >= end -> [general |-> FALSE, interval |-> NoInterval]
        [] e.banks > 1 /\ begin < end /\ start + cycle < EndOf(e) ->
             [general |-> TRUE, interval |-> NoInterval]
        [] OTHER -> [general |-> FALSE, interval |-> Interval(begin, end)]

\* What is wrong with an entry, "" if nothing is.
EntryError(e, source) ==
  CASE e.size = 0 -> "size"
    [] EndOf(e) > AddressLimit(source.width) -> "interval"
    [] e.target \notin DOMAIN file.spaces \cup file.owners -> "target"
    [] e.permissions = {} \/ ~(e.permissions \subseteq {"read", "write", "execute"}) -> "permissions"
    [] ~(e.classes \subseteq file.classes) -> "class"
    [] Interleaved(e) /\ (e.granularity = 0 \/ e.bank >= e.banks) -> "bank"
    [] Interleaved(e) /\ Stripe(e) > MaxWord -> "geometry"
    [] Interleaved(e) /\ e.offset % e.granularity # 0 -> "offset"
    [] e.target \in DOMAIN file.spaces
         /\ e.offset + TargetSpan(e) > AddressLimit(file.spaces[e.target].width) -> "target range"
    [] OTHER -> ""

\* buildSelectorKeys: how an entry is found, and what it looks for.
RegistrationKeys(e) ==
  {<<"P", p>> : p \in e.permissions}
    \cup IF e.classes = {} THEN {<<"CW", p>> : p \in e.permissions}
         ELSE {<<"C", p, c>> : p \in e.permissions, c \in e.classes}

\* Mutant of QueryKeys: an entry with classes overlooks those without.
QueryKeysExact(e) ==
  IF e.classes = {} THEN {<<"P", p>> : p \in e.permissions}
  ELSE {<<"C", p, c>> : p \in e.permissions, c \in e.classes}

QueryKeys(e) ==
  IF e.classes = {} THEN {<<"P", p>> : p \in e.permissions}
  ELSE {<<"CW", p>> : p \in e.permissions}
         \cup {<<"C", p, c>> : p \in e.permissions, c \in e.classes}

\* The prepared entry.
MapEntry(e) == e @@ [general |-> MaterializeSingleSelection(e).general,
                     selection |-> MaterializeSingleSelection(e).interval]

Concrete(e) == ~e.general /\ e.selection # NoInterval

-----------------------------------------------------------------------------
(***************************************************************************)
(* Canonical order: base, then priority (explicit and high first), size.   *)
(***************************************************************************)
OrderKey(e) == <<e.base, IF e.priority = None THEN 1 ELSE 0, -e.priority, e.size>>

Precedes(left, right) ==
  \E k \in DOMAIN left : left[k] < right[k] /\ \A j \in 1..(k - 1) : left[j] = right[j]

\* A stable sort by the keys.
StableSort(sequence, Key(_)) ==
  LET Before(i, j) == Precedes(Key(sequence[i]), Key(sequence[j]))
                        \/ (i < j /\ Key(sequence[i]) = Key(sequence[j]))
      Rank(i) == Cardinality({j \in DOMAIN sequence : Before(j, i)})
  IN  [k \in DOMAIN sequence |-> sequence[CHOOSE i \in DOMAIN sequence : Rank(i) = k - 1]]

ConcreteEntries ==
  StableSort(SelectSeq(entries, Concrete), LAMBDA e : <<e.selection.begin>> \o OrderKey(e))
GeneralEntries == SelectSeq(entries, LAMBDA e : e.general)

\* visitEligible over the partitions of every key that e looks for.
Candidates(e, indexed) ==
  {c \in indexed : /\ RegistrationKeys(c) \cap QueryKeys(e) # {}
                   /\ e.priority = None \/ c.priority \in {None, e.priority}}

\* The Presburger query: an address in both lanes.
InterleaveSetsIntersect(left, right, begin, end) ==
  \E x \in begin..(end - 1) :
    /\ (x % Stripe(left)) \div left.granularity = left.bank
    /\ (x % Stripe(right)) \div right.granularity = right.bank

SelectionsIntersect(left, right) ==
  LET begin == Max({left.base, right.base})
      end   == Min({EndOf(left), EndOf(right)})
      general  == IF left.general THEN left ELSE right
      concrete == IF left.general THEN right ELSE left
      from  == Max({begin, concrete.selection.begin})
      to    == Min({end, concrete.selection.end})
  IN  /\ begin < end
      /\ IF left.general /\ right.general
         THEN IF Geometry(left) = Geometry(right)
              THEN left.bank = right.bank /\ LaneIntersectsInterval(left, begin, end)
              ELSE InterleaveSetsIntersect(left, right, begin, end)
         ELSE from < to /\ LaneIntersectsInterval(general, from, to)

-----------------------------------------------------------------------------
Init ==
  /\ file \in Files
  /\ stage = "spaces" /\ why = ""
  /\ entries = <<>> /\ cursor = 1
  /\ active = {} /\ relations = 0

Reject(reason) ==
  /\ stage' = "rejected" /\ why' = reason
  /\ UNCHANGED <<file, entries, cursor, active, relations>>

Enter(next) == stage' = next /\ cursor' = 1 /\ active' = {}

\* The verifiers of the spaces, then the translations to their parents.
VerifySpaces ==
  /\ stage = "spaces"
  /\ IF /\ \A name \in DOMAIN file.spaces : AddressSpaceIsValid(file.spaces[name])
        /\ \A name \in DOMAIN file.spaces : VerifyAddressTranslation(file.spaces, name)
        /\ file.source \in DOMAIN file.spaces
        /\ file.fallback \in {"unmapped"} \cup DOMAIN file.spaces \cup file.owners
     THEN Enter("entries") /\ UNCHANGED <<file, why, entries, relations>>
     ELSE Reject("space")

ReadEntry ==
  /\ stage = "entries" /\ cursor <= Len(file.map)
  /\ LET e     == file.map[cursor]
         error == EntryError(e, file.spaces[file.source])
     IN  IF error # "" THEN Reject(error)
         ELSE /\ entries' = Append(entries, MapEntry(e))
              /\ cursor' = cursor + 1
              /\ UNCHANGED <<file, stage, why, active, relations>>

SortEntries ==
  /\ stage = "entries" /\ cursor > Len(file.map)
  /\ entries' = StableSort(entries, OrderKey)
  /\ Enter("concrete")
  /\ UNCHANGED <<file, why, relations>>

\* One entry of the sweep over intervals.
SweepConcrete ==
  /\ stage = "concrete" /\ cursor <= Len(ConcreteEntries)
  /\ LET e     == ConcreteEntries[cursor]
         alive == {i \in active : ConcreteEntries[i].selection.end > e.selection.begin}
         found == Candidates(e, {ConcreteEntries[i] : i \in alive})
     IN  IF \E c \in found : c.selection.end > e.selection.begin THEN Reject("ambiguous")
         ELSE /\ active' = alive \cup {cursor}
              /\ cursor' = cursor + 1
              /\ UNCHANGED <<file, stage, why, entries, relations>>

EndConcrete ==
  /\ stage = "concrete" /\ cursor > Len(ConcreteEntries)
  /\ Enter("preflight") /\ UNCHANGED <<file, why, entries, relations>>

\* Every relation between different geometries is counted before one is decided.
CountRelations ==
  /\ stage = "preflight" /\ cursor <= Len(GeneralEntries)
  /\ LET e     == GeneralEntries[cursor]
         alive == {i \in active : EndOf(GeneralEntries[i]) > e.base}
         mixed == {i \in alive : /\ GeneralEntries[i] \in Candidates(e, {GeneralEntries[i]})
                                 /\ Geometry(GeneralEntries[i]) # Geometry(e)}
     IN  IF relations + Cardinality(mixed) > MaxRelations THEN Reject("limit")
         ELSE /\ relations' = relations + Cardinality(mixed)
              /\ active' = alive \cup {cursor}
              /\ cursor' = cursor + 1
              /\ UNCHANGED <<file, stage, why, entries>>

EndPreflight ==
  /\ stage = "preflight" /\ cursor > Len(GeneralEntries)
  /\ Enter("general") /\ UNCHANGED <<file, why, entries, relations>>

\* One entry of the last sweep: pairs of intervals are not looked at again.
SweepGeneral ==
  /\ stage = "general" /\ cursor <= Len(entries)
  /\ LET e       == entries[cursor]
         alive   == {i \in active : EndOf(entries[i]) > e.base}
         indexed == {entries[i] : i \in {j \in alive : entries[j].general \/ Concrete(entries[j])}}
         found   == IF e.general
                    THEN {c \in Candidates(e, indexed) :
                            c.general => Geometry(c) # Geometry(e) \/ c.bank = e.bank}
                    ELSE IF Concrete(e) THEN {c \in Candidates(e, indexed) : c.general}
                    ELSE {}
     IN  IF \E c \in found : SelectionsIntersect(e, c) THEN Reject("ambiguous")
         ELSE /\ active' = alive \cup {cursor}
              /\ cursor' = cursor + 1
              /\ UNCHANGED <<file, stage, why, entries, relations>>

\* The declarations that name a time domain or a structural owner.
ReferencesResolve ==
  /\ file.events \subseteq DOMAIN file.domains
  /\ file.arbiters \subseteq file.owners
  /\ \A name \in DOMAIN file.domains :
       file.domains[name] # "" =>
         file.domains[name] \in DOMAIN file.domains /\ file.bridge \in file.owners

EndGeneral ==
  /\ stage = "general" /\ cursor > Len(entries)
  /\ IF /\ ReferencesResolve
        /\ VerifyParentCycles(SpaceParents(file.spaces)) /\ VerifyParentCycles(file.domains)
     THEN Enter("accepted") /\ UNCHANGED <<file, why, entries, relations>>
     ELSE Reject("reference")

Next ==
  \/ VerifySpaces \/ ReadEntry \/ SortEntries
  \/ SweepConcrete \/ EndConcrete
  \/ CountRelations \/ EndPreflight
  \/ SweepGeneral \/ EndGeneral

Spec == Init /\ [][Next]_vars

-----------------------------------------------------------------------------
(***************************************************************************)
(* What an entry selects, and when two entries are ambiguous.              *)
(***************************************************************************)
Selected(e) ==
  {x \in e.base..(EndOf(e) - 1) :
     Interleaved(e) => (x % Stripe(e)) \div e.granularity = e.bank}

SelectorsOverlap(e, f) ==
  /\ e.permissions \cap f.permissions # {}
  /\ e.classes = {} \/ f.classes = {} \/ e.classes \cap f.classes # {}
  /\ e.priority = None \/ f.priority = None \/ e.priority = f.priority

Ambiguous(e, f) == SelectorsOverlap(e, f) /\ Selected(e) \cap Selected(f) # {}

PairsOf(sequence) == {p \in (DOMAIN sequence) \X (DOMAIN sequence) : p[1] < p[2]}
AmbiguousPairs == {p \in PairsOf(file.map) : Ambiguous(file.map[p[1]], file.map[p[2]])}

SeveralBlocks(e) ==
  Interleaved(e) /\ \E x, y, z \in e.base..(EndOf(e) - 1) :
    x < y /\ y < z /\ {x, z} \subseteq Selected(e) /\ y \notin Selected(e)
MixedPairs ==
  {p \in PairsOf(file.map) :
     LET e == file.map[p[1]]  f == file.map[p[2]]
     IN  /\ SelectorsOverlap(e, f)
         /\ SeveralBlocks(e) /\ SeveralBlocks(f) /\ Geometry(e) # Geometry(f)
         /\ e.base < EndOf(f) /\ f.base < EndOf(e)}

(***************************************************************************)
(* Routing is unambiguous: in an accepted map no two entries of the same   *)
(* rank select the same address for the same permission and transaction    *)
(* class, whatever their order, partial stripes and geometries.            *)
(***************************************************************************)
RoutingUnambiguous == stage = "accepted" => AmbiguousPairs = {}

(***************************************************************************)
(* The verifier refuses a map only for what is there: an ambiguity it      *)
(* reports exists, and the capability limit is reported exactly when the   *)
(* unordered entries have more than MaxRelations eligible mixed relations  *)
(* (so the diagnostic does not depend on the order of the entries).        *)
(***************************************************************************)
RejectionsJustified ==
  /\ why = "ambiguous" => AmbiguousPairs # {}
  /\ why = "limit" => Cardinality(MixedPairs) > MaxRelations
  /\ stage = "general" => relations = Cardinality(MixedPairs)

(***************************************************************************)
(* Addresses translate: every legal address of an accepted space has an    *)
(* exact image inside its parent, what an entry selects fits its target,   *)
(* and every chain of parents ends.                                        *)
(***************************************************************************)
AddressesTranslate ==
  stage = "accepted" =>
    /\ \A name \in {n \in DOMAIN file.spaces : file.spaces[n].parent # ""} :
         LET s == file.spaces[name]
         IN  \A a \in 0..(AddressLimit(s.width) - 1) :
               a % AlignmentOf(s) = 0 =>
                 /\ (a * s.numerator) % s.denominator = 0
                 /\ (a * s.numerator) \div s.denominator + s.offset
                      < AddressLimit(file.spaces[s.parent].width)
    /\ \A i \in DOMAIN file.map :
         LET e == file.map[i]
         IN  e.target \in DOMAIN file.spaces =>
               e.offset + Cardinality(Selected(e)) <= AddressLimit(file.spaces[e.target].width)
    /\ \A parents \in {SpaceParents(file.spaces), file.domains} :
         ~ \E cycle \in SUBSET DOMAIN parents :
             cycle # {} /\ \A n \in cycle : parents[n] \in cycle

-----------------------------------------------------------------------------
(***************************************************************************)
(* Small modules: pairs and triples of map entries over eight addresses,   *)
(* and address spaces with every small translation.                        *)
(***************************************************************************)

\* <<base, size>> of the entries in pairs, and <<granularity, banks, bank>>.
Ranges == {<<0, 3>>, <<0, 7>>, <<1, 4>>, <<2, 2>>, <<2, 6>>, <<3, 5>>, <<5, 3>>}
Lanes == {<<0, 0, 0>>, <<1, 2, 0>>, <<1, 2, 1>>, <<2, 2, 1>>, <<1, 3, 0>>, <<1, 3, 2>>, <<2, 3, 1>>, <<1, 1, 0>>}

Root == [width |-> 3, parent |-> "", numerator |-> None, denominator |-> 1,
         offset |-> 0, alignment |-> 0]

Entry(range, lane, priority, permissions, classes) ==
  [base |-> range[1], size |-> range[2], target |-> "dram", offset |-> 0,
   permissions |-> permissions, classes |-> classes, priority |-> priority,
   granularity |-> lane[1], banks |-> lane[2], bank |-> lane[3]]

Good == [spaces |-> [n \in {"bus"} |-> Root], owners |-> {"dram"}, classes |-> {"c", "d"},
         source |-> "bus", map |-> <<>>, domains |-> [n \in {"core"} |-> ""],
         fallback |-> "unmapped", events |-> {"core"}, arbiters |-> {"dram"}, bridge |-> "dram"]

File(map) == [Good EXCEPT !.map = map]

\* Every combination of ranges and lanes.
Shapes == {File(<<Entry(r, l, None, {"read"}, {}), Entry(s, m, None, {"read"}, {})>>) :
             r, s \in Ranges, l, m \in Lanes}

\* Every combination of priorities and selectors.
Ranks == {None, 0, 1}
Selectors == {<<{"read"}, {}>>, <<{"read"}, {"c"}>>, <<{"read", "write"}, {"d"}>>, <<{"write"}, {"c", "d"}>>}
Selections ==
  {File(<<Entry(<<0, 7>>, l, p, s[1], s[2]), Entry(<<1, 7>>, m, q, t[1], t[2])>>) :
     p, q \in Ranks, s, t \in Selectors, l, m \in {<<0, 0, 0>>, <<1, 2, 0>>, <<1, 3, 0>>}}

\* Three entries of different geometries.
Few == {Entry(<<0, 7>>, <<1, 2, 0>>, None, {"read"}, {}), Entry(<<1, 6>>, <<2, 2, 1>>, 1, {"read"}, {}),
        Entry(<<0, 7>>, <<1, 3, 1>>, 1, {"read"}, {"c"}), Entry(<<2, 6>>, <<1, 3, 2>>, None, {"read"}, {"d"}),
        Entry(<<1, 2>>, <<0, 0, 0>>, None, {"read"}, {"c"}), Entry(<<3, 4>>, <<2, 3, 2>>, 0, {"read"}, {})}
Triples == {File(<<e, f, g>>) : e, f, g \in Few}

\* Broken entries.
Plain == Entry(<<0, 4>>, <<1, 2, 0>>, None, {"read"}, {})
Faulty == {File(<<e>>) : e \in {[Plain EXCEPT !.size = 0], [Plain EXCEPT !.base = 6],
                                [Plain EXCEPT !.target = "none"], [Plain EXCEPT !.permissions = {}],
                                [Plain EXCEPT !.classes = {"x"}], [Plain EXCEPT !.bank = 2],
                                [Plain EXCEPT !.banks = 8], [Plain EXCEPT !.granularity = 2, !.offset = 1]}}

\* A space below the bus, with an entry into it.
Translated ==
  {[Good EXCEPT !.spaces = [n \in {"bus", "low"} |->
       IF n = "bus" THEN [Root EXCEPT !.width = w]
       ELSE [width |-> 2, parent |-> "bus", numerator |-> num, denominator |-> den,
             offset |-> off, alignment |-> al]],
     !.map = <<[Entry(<<0, size>>, lane, None, {"read"}, {}) EXCEPT !.target = "low", !.offset = at]>>] :
   w \in {2, 3}, num \in 0..3, den \in 1..3, off \in 0..2, al \in 0..3, size \in {3, 7},
   lane \in {<<0, 0, 0>>, <<1, 2, 0>>}, at \in {0, 1}}

\* Parents: a file whose chains of time domains or spaces may be cyclic.
Parented ==
  {[Good EXCEPT !.events = {"a"}, !.bridge = br, !.domains = [n \in {"a", "b", "c"} |-> CASE n = "a" -> x [] n = "b" -> y [] n = "c" -> z]] :
     x, y, z \in {"", "a", "b", "c"}, br \in {"dram", "none"}}
    \cup {[Good EXCEPT !.spaces = [n \in {"bus", "low"} |->
            [Root EXCEPT !.parent = IF n = "bus" THEN "low" ELSE up, !.numerator = 1]]] :
            up \in {"bus", "low"}}

Unresolved == {[Good EXCEPT !.fallback = "none"], [Good EXCEPT !.source = "none"],
               [Good EXCEPT !.events = {"none"}], [Good EXCEPT !.arbiters = {"none"}]}

SmallFiles == Unresolved \cup Shapes \cup Selections \cup Triples \cup Faulty \cup Translated \cup Parented
=============================================================================
