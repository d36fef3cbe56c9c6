--------------------------- MODULE DevicesProofs ---------------------------
(***************************************************************************)
(* Theorems about the device models.                                       *)
(***************************************************************************)
EXTENDS Devices, FiniteSetTheorems, SequenceTheorems, WellFoundedInduction, TLAPS

-----------------------------------------------------------------------------
(* Sorting.  A finite set X in which B[e] is the set of the elements that  *)
(* precede e is numbered from 1 to its size by the number of predecessors. *)

\* B gives the predecessors of each element in a strict linear order of X.
LinearOrder(X, B) ==
    /\ IsFiniteSet(X) /\ B \in [X -> SUBSET X]
    /\ \A x \in X : x \notin B[x]
    /\ \A x, y \in X : x = y \/ x \in B[y] \/ y \in B[x]
    /\ \A x, y \in X : x \in B[y] => B[x] \subseteq B[y]

\* The n-th element of s is the one that n - 1 others precede.
Numbered(X, B, s) ==
    /\ s = [n \in 1..Cardinality(X) |-> s[n]]
    /\ \A n \in 1..Cardinality(X) : s[n] \in X /\ Cardinality(B[s[n]]) = n - 1

(* An element has more predecessors than each of its predecessors. *)
LEMMA PredecessorsGrow ==
    ASSUME NEW X, NEW B, LinearOrder(X, B)
    PROVE  /\ Cardinality(X) \in Nat
           /\ \A e \in X : Cardinality(B[e]) \in Nat /\ Cardinality(B[e]) < Cardinality(X)
           /\ \A x, y \in X : x \in B[y] => Cardinality(B[x]) < Cardinality(B[y])
           /\ \A x, y \in X : Cardinality(B[x]) = Cardinality(B[y]) => x = y
<1>1. Cardinality(X) \in Nat
  BY FS_CardinalityType DEF LinearOrder
<1>2. ASSUME NEW e \in X
      PROVE  /\ IsFiniteSet(B[e]) /\ Cardinality(B[e]) \in Nat /\ Cardinality(B[e]) < Cardinality(X)
  <2>1. B[e] \in SUBSET X /\ B[e] # X
    BY DEF LinearOrder
  <2>2. IsFiniteSet(B[e]) /\ Cardinality(B[e]) <= Cardinality(X) /\ Cardinality(B[e]) # Cardinality(X)
    BY <2>1, FS_Subset DEF LinearOrder
  <2>3. Cardinality(B[e]) \in Nat
    BY <2>2, FS_CardinalityType
  <2> QED
    BY <1>1, <2>2, <2>3
<1>3. ASSUME NEW x \in X, NEW y \in X, x \in B[y] PROVE Cardinality(B[x]) < Cardinality(B[y])
  <2>1. B[x] \in SUBSET B[y] /\ B[x] # B[y]
    BY <1>3 DEF LinearOrder
  <2>2. Cardinality(B[x]) <= Cardinality(B[y]) /\ Cardinality(B[x]) # Cardinality(B[y])
    BY <1>2, <2>1, FS_Subset
  <2>3. Cardinality(B[x]) \in Nat /\ Cardinality(B[y]) \in Nat
    BY <1>2
  <2> QED
    BY <2>2, <2>3
<1>4. ASSUME NEW x \in X, NEW y \in X, Cardinality(B[x]) = Cardinality(B[y]) PROVE x = y
  <2>1. ~(Cardinality(B[x]) < Cardinality(B[y])) /\ ~(Cardinality(B[y]) < Cardinality(B[x]))
    BY <1>2, <1>4
  <2> QED
    BY <1>3, <2>1 DEF LinearOrder
<1> QED
  BY <1>1, <1>2, <1>3, <1>4

(* Each number is the number of one element. *)
LEMMA NumbersTaken ==
    ASSUME NEW X, NEW B, LinearOrder(X, B), NEW n \in 1..Cardinality(X)
    PROVE  \E e \in X : Cardinality(B[e]) = n - 1
<1> DEFINE c == Cardinality(X)  f == [e \in X |-> Cardinality(B[e]) + 1]
<1>1. c \in Nat /\ IsFiniteSet(1..c) /\ Cardinality(1..c) = c
  BY FS_CardinalityType, FS_Interval DEF LinearOrder
<1>2. \A e \in X : f[e] = Cardinality(B[e]) + 1 /\ Cardinality(B[e]) \in Nat /\ Cardinality(B[e]) < c
  BY PredecessorsGrow
<1>3. \A x, y \in X : Cardinality(B[x]) = Cardinality(B[y]) => x = y
  BY PredecessorsGrow
<1>4. DOMAIN f = X
  OBVIOUS
<1>5. f = [e \in X |-> f[e]]
  OBVIOUS
<1> HIDE DEF f, c
<1>6. \A e \in X : f[e] \in 1..c
  BY <1>1, <1>2
<1>7. \A x, y \in X : f[x] = f[y] => x = y
  BY <1>2, <1>3
<1>8. f \in [X -> 1..c]
  BY <1>5, <1>6
<1>9. f \in Injection(X, 1..c)
  BY <1>7, <1>8 DEF Injection, IsInjective
<1>10. f \in Surjection(X, 1..c)
  BY <1>1, <1>9, FS_Injection DEF c
<1>11. PICK e \in X : f[e] = n
  BY <1>10 DEF Surjection, c
<1> QED
  BY <1>2, <1>11

(* A sequence that follows the numbers has every element once, in order. *)
LEMMA NumberedSequence ==
    ASSUME NEW X, NEW B, LinearOrder(X, B), NEW s, Numbered(X, B, s)
    PROVE  /\ s \in Seq(X) /\ Len(s) = Cardinality(X) /\ Cardinality(X) \in Nat
           /\ DOMAIN s = 1..Cardinality(X)
           /\ \A i, j \in DOMAIN s : i < j => s[i] \in B[s[j]]
           /\ \A i, j \in DOMAIN s : s[i] = s[j] => i = j
           /\ {s[i] : i \in DOMAIN s} = X
<1> DEFINE c == Cardinality(X)
<1>1. c \in Nat
  BY PredecessorsGrow
<1>2. s \in [1..c -> X] /\ DOMAIN s = 1..c
  BY DEF Numbered
<1>3. s \in Seq(X) /\ Len(s) = c
  BY <1>1, <1>2
<1>4. \A i \in 1..c : s[i] \in X /\ Cardinality(B[s[i]]) = i - 1
  BY DEF Numbered
<1> HIDE DEF c
<1>5. ASSUME NEW i \in 1..c, NEW j \in 1..c, i < j PROVE s[i] \in B[s[j]]
  <2>1. Cardinality(B[s[i]]) = i - 1 /\ Cardinality(B[s[j]]) = j - 1
    BY <1>4
  <2>2. ~(Cardinality(B[s[j]]) < Cardinality(B[s[i]])) /\ s[i] # s[j]
    BY <1>5, <2>1
  <2> QED
    BY <1>4, <2>2, PredecessorsGrow DEF LinearOrder
<1>6. ASSUME NEW i \in 1..c, NEW j \in 1..c, s[i] = s[j] PROVE i = j
  BY <1>4, <1>6
<1>7. ASSUME NEW e \in X PROVE \E i \in 1..c : s[i] = e
  <2>1. Cardinality(B[e]) \in Nat /\ Cardinality(B[e]) < c
    BY PredecessorsGrow DEF c
  <2>2. PICK i \in 1..c : i = Cardinality(B[e]) + 1
    BY <1>1, <2>1
  <2>3. Cardinality(B[s[i]]) = Cardinality(B[e])
    BY <1>4, <2>1, <2>2
  <2> QED
    BY <1>4, <2>3, PredecessorsGrow
<1>8. {s[i] : i \in DOMAIN s} = X
  BY <1>2, <1>4, <1>7
<1> QED
  BY <1>1, <1>2, <1>3, <1>5, <1>6, <1>8 DEF c

-----------------------------------------------------------------------------
(* The trace feed *)

FeedEntries == [id : Nat, priority : Nat, time : Nat, owner : Nat]

\* What the proofs need of the types: the cursor and the offers of the
\* source, the entries of the Scheduler, who holds what.
FeedTypes ==
    /\ input \in Documents
    /\ tick \in Nat
    /\ stream \in [bytes : Nat, over : BOOLEAN, finished : BOOLEAN]
    /\ source \in [next : Nat \ {0}, offer : BOOLEAN, offering : BOOLEAN, accepting : BOOLEAN,
                   issued : SUBSET Nat, completed : SUBSET Nat, waking : BOOLEAN]
    /\ ready \in [proposals : SUBSET FeedEntries, committed : Seq(FeedEntries), pops : Nat]
    /\ IsFiniteSet(ready.proposals)
    /\ held \in [DOMAIN held -> Consumers] /\ DOMAIN held \subseteq Nat
    /\ running \subseteq Nat

\* Only a document that the parser accepted is served.
FeedServed ==
    /\ F!Loaded => F!Parse(input) = "ok" /\ stream.finished
    /\ source.next <= Len(F!Records) + 1
    /\ source.offer \/ source.offering => F!Loaded /\ ~F!EndOfTrace
    /\ source.accepting => source.offer
    /\ ~(source.offer /\ source.offering)

\* The records that were issued have smaller sequence ids than the next one.
FeedAscending ==
    \A i \in 1..(source.next - 1) :
        ~F!EndOfTrace => F!Records[i].seq < F!Record.seq

\* No two entries of the Scheduler have the same id, and a proposal is of a
\* transaction that its owner still holds.
FeedDistinct ==
    /\ ready.pops <= Len(ready.committed)
    /\ \A i, j \in DOMAIN ready.committed :
          ready.committed[i].id = ready.committed[j].id => i = j
    /\ \A x, y \in ready.proposals : x.id = y.id => x = y
    /\ \A x \in ready.proposals : x.id \in DOMAIN held

\* OffersInOrder, whether the document is loaded or not.
FeedOrder ==
    /\ source.issued = {F!Records[i].seq : i \in 1..(source.next - 1)}
    /\ source.completed \subseteq source.issued
    /\ source.offer \/ source.offering =>
          F!ToSet(F!Record.deps) \subseteq source.completed /\ F!Record.issue <= tick

FeedInv ==
    FeedTypes /\ FeedServed /\ FeedAscending /\ FeedDistinct /\ FeedOrder /\ F!NoTransactionLost

-----------------------------------------------------------------------------
(* The Scheduler's order *)

\* A finite set of entries with different ids.
OneEach(es) == es \in SUBSET FeedEntries /\ IsFiniteSet(es) /\ \A x, y \in es : x.id = y.id => x = y

(* The feed's instance of the library is the library. *)
LEMMA SameCardinality == \A X : F!Cardinality(X) = Cardinality(X)
  BY DEF Cardinality, F!Cardinality

(* The same for the range of a sequence. *)
LEMMA SameToSet == \A s : F!ToSet(s) = ToSet(s)
  BY DEF ToSet, F!ToSet

(* stableLess is a strict order that compares any two entries with         *)
(* different ids.                                                          *)
LEMMA StableLessOrder ==
    ASSUME NEW x \in FeedEntries, NEW y \in FeedEntries, NEW z \in FeedEntries
    PROVE  /\ ~F!StableLess(x, x)
           /\ x.id # y.id => F!StableLess(x, y) \/ F!StableLess(y, x)
           /\ F!StableLess(x, y) /\ F!StableLess(y, z) => F!StableLess(x, z)
  BY DEF F!StableLess, FeedEntries

(* Sorting keeps the entries: the sorted sequence has each entry of the    *)
(* set once.                                                               *)
LEMMA SortedOnce ==
    ASSUME NEW es, OneEach(es)
    PROVE  LET s == F!Sorted(es)
           IN  /\ s \in Seq(FeedEntries) /\ Len(s) = Cardinality(es) /\ Cardinality(es) \in Nat
               /\ DOMAIN s = 1..Cardinality(es)
               /\ \A i \in DOMAIN s : s[i] \in es
               /\ \A i, j \in DOMAIN s : s[i].id = s[j].id => i = j
               /\ \A e \in es : \E i \in DOMAIN s : s[i] = e
<1> DEFINE B == [e \in es |-> {x \in es : F!StableLess(x, e)}]  n == Cardinality(es)
           s == F!Sorted(es)
<1>1. LinearOrder(es, B)
  BY StableLessOrder DEF OneEach, LinearOrder
<1>2. \A e \in es : F!Rank(es, e) = 1 + Cardinality(B[e])
  BY SameCardinality DEF F!Rank
<1>3. s = [i \in 1..n |-> CHOOSE e \in es : F!Rank(es, e) = i]
  BY SameCardinality DEF F!Sorted
<1> HIDE DEF B, s
<1>4. \A i \in 1..n : s[i] \in es /\ Cardinality(B[s[i]]) = i - 1
  <2> SUFFICES ASSUME NEW i \in 1..n PROVE s[i] \in es /\ Cardinality(B[s[i]]) = i - 1
    OBVIOUS
  <2>1. PICK e \in es : Cardinality(B[e]) = i - 1
    BY <1>1, NumbersTaken
  <2>2. F!Rank(es, e) = i
    BY <1>2, <2>1
  <2>3. s[i] \in es /\ F!Rank(es, s[i]) = i
    BY <1>3, <2>2
  <2>4. Cardinality(B[s[i]]) \in Nat /\ F!Rank(es, s[i]) = 1 + Cardinality(B[s[i]])
    BY <1>1, <1>2, <2>3, PredecessorsGrow
  <2> QED
    BY <2>3, <2>4
<1>5. s = [i \in 1..n |-> s[i]]
  BY <1>3
<1>6. /\ s \in Seq(es) /\ Len(s) = Cardinality(es) /\ Cardinality(es) \in Nat
      /\ DOMAIN s = 1..Cardinality(es)
      /\ \A i, j \in DOMAIN s : i < j => s[i] \in B[s[j]]
      /\ \A i, j \in DOMAIN s : s[i] = s[j] => i = j
      /\ {s[i] : i \in DOMAIN s} = es
  <2>1. Numbered(es, B, s)
    BY <1>4, <1>5 DEF Numbered
  <2> HIDE DEF n
  <2> QED
    BY <1>1, <2>1, NumberedSequence
<1> HIDE DEF n
<1>7. s \in Seq(FeedEntries)
  BY <1>6 DEF OneEach
<1>8. \A i, j \in DOMAIN s : s[i].id = s[j].id => i = j
  BY <1>6 DEF OneEach
<1> QED
  BY <1>6, <1>7, <1>8 DEF s, n

(* A sequence that names no id twice has as many entries as positions.     *)
LEMMA RangeFinite ==
    ASSUME NEW s \in Seq(FeedEntries), NEW a \in Nat, NEW b \in Nat, b <= Len(s), a <= b,
           \A i, j \in DOMAIN s : s[i].id = s[j].id => i = j
    PROVE  OneEach({s[i] : i \in (a + 1)..b}) /\ Cardinality({s[i] : i \in (a + 1)..b}) = b - a
<1> DEFINE D == (a + 1)..b  es == {s[i] : i \in D}  f == [i \in D |-> s[i]]
<1>1. IsFiniteSet(D) /\ Cardinality(D) = b - a
  <2>1. a + 1 \in Int /\ b \in Int /\ (a + 1 > b => b - a = 0) /\ b - (a + 1) + 1 = b - a
    OBVIOUS
  <2> QED
    BY <2>1, FS_Interval
<1>2. \A i \in D : i \in DOMAIN s
  OBVIOUS
<1>3. f \in Surjection(D, es) /\ f \in Injection(D, es)
  BY <1>2 DEF Surjection, Injection, IsInjective
<1>4. IsFiniteSet(es) /\ Cardinality(es) = b - a
  BY <1>1, <1>3, FS_Surjection
<1>5. es \subseteq FeedEntries /\ \A x, y \in es : x.id = y.id => x = y
  BY <1>2
<1> QED
  BY <1>4, <1>5 DEF OneEach

-----------------------------------------------------------------------------
(* What the parser admits *)

(* A nonempty set of numbers has a least one, and Min is it. *)
LEMMA LeastNumber ==
    ASSUME NEW T, T \subseteq Nat, T # {}
    PROVE  \E x \in T : \A y \in T : x <= y
<1>1. PICK x \in T : \A y \in T : ~(<<y, x>> \in OpToRel(<, Nat))
  BY NatLessThanWellFounded, WFMin
<1>2. \A y \in T : ~(y < x)
  BY <1>1 DEF OpToRel
<1>3. \A y \in T : x <= y
  BY <1>2
<1> QED
  BY <1>3

(* Min of a nonempty set of numbers is one of them. *)
LEMMA MinBelongs ==
    ASSUME NEW T, T \subseteq Nat, T # {}
    PROVE  F!Min(T) \in T
  BY LeastNumber DEF F!Min

(* A list of checks that all name a diagnostic gives "ok" only when none   *)
(* of them fails.                                                          *)
LEMMA NoFailure ==
    ASSUME NEW checks, DOMAIN checks \subseteq Nat, F!FirstFailure(checks) = "ok",
           \A i \in DOMAIN checks : checks[i][1] => checks[i][2] # "ok"
    PROVE  \A i \in DOMAIN checks : ~checks[i][1]
<1> DEFINE failing == {i \in DOMAIN checks : checks[i][1]}
<1> SUFFICES ASSUME failing # {} PROVE FALSE
  OBVIOUS
<1>1. F!Min(failing) \in failing
  BY MinBelongs
<1>2. checks[F!Min(failing)][2] = "ok"
  BY DEF F!FirstFailure
<1> HIDE DEF failing
<1>3. checks[F!Min(failing)][2] # "ok"
  BY <1>1 DEF failing
<1> QED
  BY <1>2, <1>3

(* A record that passes parseRecord has a larger sequence id than the one  *)
(* before it.                                                              *)
LEMMA RecordAscends ==
    ASSUME NEW d, NEW k, F!RecordCode(d, k) = "ok"
    PROVE  ~(k > 1 /\ d.records[k].seq <= d.records[k - 1].seq)
<1> DEFINE r == d.records[k]
           operands == {F!OperandCode(d, k, r.operands[i]) : i \in DOMAIN r.operands} \ {"ok"}
           c1 == k > 1 /\ r.seq <= d.records[k - 1].seq
           c2 == ~r.opcode
           c3 == Len(r.operands) > MaxOperands
           c4 == operands # {}
           m4 == IF operands = {} THEN "ok" ELSE CHOOSE c \in operands : TRUE
           c5 == Len(r.deps) > MaxDependencies
           c6 == ~F!DependenciesEarlier(d, k)
           c7 == F!Spent(d, k) > MaxDecoded
           checks == << <<c1, "ACTRACE-IDENTITY">>, <<c2, "ACTRACE-SCHEMA">>,
                        <<c3, "ACTRACE-LIMIT">>, <<c4, m4>>, <<c5, "ACTRACE-LIMIT">>,
                        <<c6, "ACTRACE-DEPENDENCY">>, <<c7, "ACTRACE-LIMIT">> >>
<1>1. F!FirstFailure(checks) = "ok"
  BY DEF F!RecordCode
<1>2. c4 => m4 # "ok"
  OBVIOUS
<1> HIDE DEF c1, c2, c3, c4, c5, c6, c7, m4
<1>3. DOMAIN checks = 1..7
  OBVIOUS
<1>4. \A i \in DOMAIN checks : checks[i][1] => checks[i][2] # "ok"
  BY <1>2
<1>5. checks[1][1] = c1
  OBVIOUS
<1> HIDE DEF checks
<1>6. \A i \in DOMAIN checks : ~checks[i][1]
  BY <1>1, <1>3, <1>4, NoFailure
<1>7. ~checks[1][1]
  BY <1>3, <1>6
<1>8. ~c1
  BY <1>5, <1>7
<1> QED
  BY <1>8 DEF c1

(* Every record of a document that the parser accepts passes parseRecord. *)
LEMMA RecordsPass ==
    ASSUME NEW d, DOMAIN d.records \subseteq Nat, F!Parse(d) = "ok", NEW k \in DOMAIN d.records
    PROVE  F!RecordCode(d, k) = "ok"
<1> DEFINE c1 == d.json
           c2 == d.schema
           c3 == Len(d.records) > MaxRecords
           m4 == F!RecordsCode(d)
           c4 == m4 # "ok"
           c5 == d.count \notin {-1, Len(d.records)}
           c6 == d.hash
           checks == << <<c1, "ACTRACE-JSON">>, <<c2, "ACTRACE-SCHEMA">>, <<c3, "ACTRACE-LIMIT">>,
                        <<c4, m4>>, <<c5, "ACTRACE-METADATA">>, <<c6, "ACTRACE-METADATA">> >>
           all4 == [i \in DOMAIN d.records |-> <<F!RecordCode(d, i) # "ok", F!RecordCode(d, i)>>]
<1>1. F!FirstFailure(checks) = "ok"
  BY DEF F!Parse
<1>0. c4 => m4 # "ok"
  OBVIOUS
<1> HIDE DEF c1, c2, c3, c4, m4, c5, c6
<1>2. DOMAIN checks = 1..6
  OBVIOUS
<1>3. \A i \in DOMAIN checks : checks[i][1] => checks[i][2] # "ok"
  BY <1>0
<1>4. checks[4][1] = c4
  OBVIOUS
<1> HIDE DEF checks
<1>5. \A i \in DOMAIN checks : ~checks[i][1]
  BY <1>1, <1>2, <1>3, NoFailure
<1>6. m4 = "ok"
  <2>1. ~checks[4][1]
    BY <1>2, <1>5
  <2> QED
    BY <1>4, <2>1 DEF c4
<1>7. F!FirstFailure(all4) = "ok"
  BY <1>6 DEF m4, F!RecordsCode
<1>8. DOMAIN all4 = DOMAIN d.records
  OBVIOUS
<1>9. \A i \in DOMAIN all4 : all4[i][1] => all4[i][2] # "ok"
  OBVIOUS
<1>10. all4[k][1] = (F!RecordCode(d, k) # "ok")
  OBVIOUS
<1> HIDE DEF all4
<1>11. \A i \in DOMAIN all4 : ~all4[i][1]
  BY <1>7, <1>8, <1>9, NoFailure
<1> QED
  BY <1>8, <1>10, <1>11

-----------------------------------------------------------------------------
(* The steps of the feed *)

(* The records of the document that is streamed. *)
LEMMA RecordTypes ==
    ASSUME input \in Documents
    PROVE  /\ F!Records \in Seq(TraceRecords) /\ Len(F!Records) \in Nat
           /\ DOMAIN F!Records = 1..Len(F!Records)
           /\ \A k \in 1..Len(F!Records) : F!Records[k].seq \in Nat /\ F!Records[k].issue \in Int
<1>1. F!Records \in Seq(TraceRecords)
  BY FeedAssumption DEF F!Records
<1>2. \A r \in TraceRecords : r.seq \in Nat /\ r.issue \in Int
  BY DEF TraceRecords
<1> HIDE DEF TraceRecords
<1> QED
  BY <1>1, <1>2

(* The initial state satisfies the invariant. *)
LEMMA FeedInit == F!Init => FeedInv
<1> SUFFICES ASSUME F!Init PROVE FeedInv
  OBVIOUS
<1>1. /\ input \in Documents /\ tick = 0 /\ running = {} /\ held = <<>>
      /\ source.next = 1 /\ ~source.offer /\ ~source.offering /\ ~source.accepting
      /\ source.issued = {} /\ source.completed = {}
      /\ ready.proposals = {} /\ ready.committed = <<>> /\ ready.pops = 0
  BY DEF F!Init
<1>2. Len(F!Records) \in Nat
  BY <1>1, RecordTypes
<1>3. FeedTypes
  <2>1. IsFiniteSet(ready.proposals)
    BY <1>1, FS_EmptySet
  <2>2. stream \in [bytes : Nat, over : BOOLEAN, finished : BOOLEAN]
    BY DEF F!Init
  <2>3. source \in [next : Nat \ {0}, offer : BOOLEAN, offering : BOOLEAN, accepting : BOOLEAN,
                    issued : SUBSET Nat, completed : SUBSET Nat, waking : BOOLEAN]
    <3>1. source = [next |-> 1, offer |-> FALSE, offering |-> FALSE, accepting |-> FALSE,
                    issued |-> {}, completed |-> {}, waking |-> FALSE]
      BY DEF F!Init
    <3> QED
      BY <3>1
  <2>4. ready \in [proposals : SUBSET FeedEntries, committed : Seq(FeedEntries), pops : Nat]
    <3>1. ready = [proposals |-> {}, committed |-> <<>>, pops |-> 0]
      BY DEF F!Init
    <3>2. <<>> \in Seq(FeedEntries)
      OBVIOUS
    <3> QED
      BY <3>1, <3>2
  <2>5. DOMAIN held = {} /\ held \in [DOMAIN held -> Consumers]
    BY <1>1
  <2> QED
    BY <1>1, <2>1, <2>2, <2>3, <2>4, <2>5 DEF FeedTypes
<1>4. FeedServed
  <2>1. ~F!Loaded
    BY DEF F!Init, F!Loaded
  <2> QED
    BY <1>1, <1>2, <2>1 DEF FeedServed
<1>5. DOMAIN held = {} /\ DOMAIN ready.committed = {} /\ Len(ready.committed) = 0 /\ 1..0 = {}
  BY <1>1
<1>6. FeedAscending /\ FeedDistinct /\ FeedOrder
  BY <1>1, <1>5 DEF FeedAscending, FeedDistinct, FeedOrder
<1>7. F!NoTransactionLost
  <2>1. F!Accepted = {} /\ F!Waiting = {} /\ F!Popped = {}
    BY <1>1, <1>5 DEF F!Accepted, F!Waiting, F!Popped
  <2>2. Len(ready.committed) <= Capacity
    BY <1>5, FeedAssumption
  <2> QED
    BY <1>1, <1>5, <2>1, <2>2 DEF F!NoTransactionLost
<1> QED
  BY <1>3, <1>4, <1>6, <1>7 DEF FeedInv

(* The stream does not touch the source, and nothing is served before the  *)
(* parser has accepted the document.                                       *)
LEMMA StreamStep ==
    ASSUME FeedInv, F!Append1 \/ F!Finish
    PROVE  FeedInv'
<1> USE DEF FeedInv, F!clockVars, F!feedVars
<1>1. UNCHANGED <<input, tick, source, ready, held, running>>
  BY DEF F!Append1, F!Finish
<1>2. /\ stream' \in [bytes : Nat, over : BOOLEAN, finished : BOOLEAN]
      /\ stream.finished => stream'.finished
  <2>1. stream.bytes + 1 \in Nat
    BY DEF FeedTypes
  <2>2. \/ stream' = [stream EXCEPT !.over = TRUE]
        \/ stream' = [stream EXCEPT !.bytes = stream.bytes + 1]
        \/ stream' = [stream EXCEPT !.finished = TRUE]
    BY DEF F!Append1, F!Finish
  <2> QED
    BY <2>1, <2>2 DEF FeedTypes
<1>3. FeedTypes'
  BY <1>1, <1>2 DEF FeedTypes
<1>4. F!Loaded => F!Loaded'
  <2>1. CASE F!Append1
    BY <2>1 DEF F!Append1, F!Loaded
  <2>2. CASE F!Finish
    BY <2>2 DEF F!Finish, F!Loaded, FeedServed
  <2> QED
    BY <2>1, <2>2
<1>5. F!Loaded' => F!Parse(input) = "ok" /\ stream'.finished
  <2>1. CASE F!Append1
    BY <2>1, <1>2 DEF F!Append1, F!Loaded, FeedServed
  <2>2. CASE F!Finish
    BY <2>2 DEF F!Finish, F!Loaded, FeedTypes
  <2> QED
    BY <2>1, <2>2
<1>6. FeedServed'
  BY <1>1, <1>4, <1>5 DEF FeedServed, F!EndOfTrace, F!Records, F!Parse, F!RecordsCode
<1>7. FeedAscending' /\ FeedDistinct' /\ FeedOrder'
  BY <1>1 DEF FeedAscending, FeedDistinct, FeedOrder, F!EndOfTrace, F!Records, F!Record
<1>8. F!NoTransactionLost'
  BY <1>1 DEF F!NoTransactionLost, F!Accepted, F!Waiting, F!Popped, F!Record, F!Records
<1> QED
  BY <1>3, <1>6, <1>7, <1>8

(* The source offers a record once its time has come and what it depends   *)
(* on has completed.                                                       *)
LEMMA SourceStep ==
    ASSUME FeedInv, F!SourceWork
    PROVE  FeedInv'
<1> USE DEF FeedInv, F!streamVars
<1>1. /\ UNCHANGED <<input, stream, diagnosis, tick, ready, held, running>>
      /\ F!Loaded
  BY DEF F!SourceWork
<1>2. /\ source' \in [next : Nat \ {0}, offer : BOOLEAN, offering : BOOLEAN, accepting : BOOLEAN,
                      issued : SUBSET Nat, completed : SUBSET Nat, waking : BOOLEAN]
      /\ source'.next = source.next /\ source'.offer = source.offer
      /\ source'.accepting = source.accepting
      /\ source'.issued = source.issued /\ source'.completed = source.completed
  BY DEF F!SourceWork, FeedTypes, F!DependenciesDone
<1>3. source'.offering => \/ source.offering
                          \/ ~F!EndOfTrace /\ ~F!Early /\ F!DependenciesDone /\ ~source.offer
  BY DEF F!SourceWork, FeedTypes, F!Idle
<1>4. FeedTypes'
  BY <1>1, <1>2 DEF FeedTypes
<1>5. FeedServed'
  BY <1>1, <1>2, <1>3 DEF FeedServed, F!EndOfTrace, F!Records, F!Loaded
<1>6. FeedAscending' /\ FeedDistinct'
  BY <1>1, <1>2 DEF FeedAscending, FeedDistinct, F!EndOfTrace, F!Records, F!Record
<1>7. FeedOrder'
  <2>1. ~F!EndOfTrace /\ ~F!Early => F!Record.issue <= tick
    BY RecordTypes DEF F!EndOfTrace, F!Early, F!Record, FeedTypes
  <2>2. F!Record' = F!Record
    BY <1>1, <1>2 DEF F!Record, F!Records
  <2>3. source'.issued = {F!Records'[i].seq : i \in 1..(source'.next - 1)}
    BY <1>1, <1>2 DEF FeedOrder, F!Records
  <2>4. F!ToSet(F!Record.deps)' = F!ToSet(F!Record.deps)
    BY <2>2
  <2>5. source'.offer \/ source'.offering =>
          F!ToSet(F!Record.deps) \subseteq source.completed /\ F!Record.issue <= tick
    BY <1>2, <1>3, <2>1 DEF FeedOrder, F!DependenciesDone
  <2> QED
    BY <1>1, <1>2, <2>2, <2>3, <2>4, <2>5 DEF FeedOrder
<1>8. F!NoTransactionLost'
  BY <1>1, <1>2 DEF F!NoTransactionLost, F!Accepted, F!Waiting, F!Popped, F!Record, F!Records
<1> QED
  BY <1>4, <1>5, <1>6, <1>7, <1>8

(* proposeAccept takes a record that has not left the source before. *)
LEMMA AcceptStep ==
    ASSUME FeedInv, NEW c \in Consumers, F!Accept(c)
    PROVE  FeedInv'
<1> USE DEF FeedInv, F!Consuming, F!streamVars
<1>1. /\ UNCHANGED <<input, stream, diagnosis, tick, ready, running>>
      /\ F!Loaded /\ source.offer /\ ~source.accepting
      /\ held' = [id \in DOMAIN held \cup {F!Record.seq} |-> IF id = F!Record.seq THEN c ELSE held[id]]
  BY DEF F!Accept
<1>2. /\ source' \in [next : Nat \ {0}, offer : BOOLEAN, offering : BOOLEAN, accepting : BOOLEAN,
                      issued : SUBSET Nat, completed : SUBSET Nat, waking : BOOLEAN]
      /\ source'.next = source.next /\ source'.offer = source.offer
      /\ source'.offering = source.offering /\ source'.accepting
      /\ source'.issued = source.issued /\ source'.completed = source.completed
  BY DEF F!Accept, FeedTypes
<1>3. ~F!EndOfTrace /\ F!Record.seq \in Nat
  BY <1>1, RecordTypes DEF FeedServed, FeedTypes, F!EndOfTrace, F!Record
<1>4. DOMAIN held' = DOMAIN held \cup {F!Record.seq}
  BY <1>1
<1>5. FeedTypes'
  <2>1. held' \in [DOMAIN held' -> Consumers] /\ DOMAIN held' \subseteq Nat
    BY <1>1, <1>3, <1>4 DEF FeedTypes
  <2> QED
    BY <1>1, <1>2, <2>1 DEF FeedTypes
<1>6. FeedServed'
  BY <1>1, <1>2 DEF FeedServed, F!EndOfTrace, F!Records, F!Loaded
<1>7. FeedAscending' /\ FeedDistinct'
  BY <1>1, <1>2, <1>4 DEF FeedAscending, FeedDistinct, F!EndOfTrace, F!Records, F!Record
<1>8. FeedOrder'
  BY <1>1, <1>2 DEF FeedOrder, F!Records, F!Record
<1>9. F!Record.seq \notin source.issued
  <2>1. \A i \in 1..(source.next - 1) : F!Records[i].seq < F!Record.seq
    BY <1>3 DEF FeedAscending
  <2>2. \A i \in 1..(source.next - 1) : F!Records[i].seq \in Nat
    BY RecordTypes DEF FeedTypes, FeedServed
  <2>3. \A i \in 1..(source.next - 1) : F!Records[i].seq # F!Record.seq
    BY <1>3, <2>1, <2>2
  <2> QED
    BY <2>3 DEF FeedOrder
<1>10. F!NoTransactionLost'
  <2>1. F!Accepted = source.issued /\ F!Accepted' = source.issued \cup {F!Record.seq}
    BY <1>1, <1>2 DEF F!Accepted, F!Record, F!Records
  <2>2. F!Waiting' = F!Waiting /\ F!Popped' = F!Popped
    BY <1>1 DEF F!Waiting, F!Popped
  <2> QED
    BY <1>1, <1>2, <1>4, <1>9, <2>1, <2>2 DEF F!NoTransactionLost
<1> QED
  BY <1>5, <1>6, <1>7, <1>8, <1>10

(* proposeSchedule proposes a transaction once, and its owner keeps it. *)
LEMMA ScheduleStep ==
    ASSUME FeedInv, NEW id \in DOMAIN held, NEW p \in {0, 1}, F!Schedule(held[id], id, p)
    PROVE  FeedInv'
<1> USE DEF FeedInv, F!Consuming, F!streamVars
<1> DEFINE new == [id |-> id, priority |-> p, time |-> 0, owner |-> held[id]]
<1>1. /\ UNCHANGED <<input, stream, diagnosis, tick, source, held, running>>
      /\ \A e \in ready.proposals : e.id # id
      /\ ready' = [ready EXCEPT !.proposals = @ \cup {new}]
  BY DEF F!Schedule
<1>2. new \in FeedEntries /\ new.id = id
  BY FeedAssumption DEF FeedTypes, FeedEntries
<1> HIDE DEF new
<1>3. /\ ready' \in [proposals : SUBSET FeedEntries, committed : Seq(FeedEntries), pops : Nat]
      /\ ready'.proposals = ready.proposals \cup {new}
      /\ ready'.committed = ready.committed /\ ready'.pops = ready.pops
  BY <1>1, <1>2 DEF FeedTypes
<1>4. FeedTypes'
  <2>1. IsFiniteSet(ready'.proposals)
    <3>1. IsFiniteSet(ready.proposals)
      BY DEF FeedTypes
    <3> QED
      <4>1. IsFiniteSet(ready.proposals \cup {new})
        BY <3>1, FS_AddElement
      <4> QED
        BY <1>3, <4>1
  <2> QED
    BY <1>1, <1>3, <2>1 DEF FeedTypes
<1>5. FeedServed'
  BY <1>1 DEF FeedServed, F!EndOfTrace, F!Records, F!Loaded
<1>6. FeedAscending' /\ FeedOrder'
  BY <1>1 DEF FeedAscending, FeedOrder, F!EndOfTrace, F!Records, F!Record
<1>7. FeedDistinct'
  BY <1>1, <1>2, <1>3 DEF FeedDistinct
<1>8. F!NoTransactionLost'
  BY <1>1, <1>3 DEF F!NoTransactionLost, F!Accepted, F!Waiting, F!Popped, F!Record, F!Records
<1> QED
  BY <1>4, <1>5, <1>6, <1>7, <1>8

(* proposePop takes the first entry that was not taken in this tick. *)
LEMMA PopStep ==
    ASSUME FeedInv, F!Pop
    PROVE  FeedInv'
<1> USE DEF FeedInv, F!Consuming, F!streamVars
<1> DEFINE k == ready.pops + 1  n == Len(ready.committed)  x == ready.committed[k].id
<1>1. /\ UNCHANGED <<input, stream, diagnosis, tick, source, held>>
      /\ ready.pops < n /\ running' = running \cup {x}
      /\ ready' = [ready EXCEPT !.pops = k]
  BY DEF F!Pop
<1>2. ready.pops \in Nat /\ n \in Nat /\ k \in 1..n /\ DOMAIN ready.committed = 1..n
      /\ ready.committed[k] \in FeedEntries
  BY <1>1 DEF FeedTypes
<1>3. /\ ready' \in [proposals : SUBSET FeedEntries, committed : Seq(FeedEntries), pops : Nat]
      /\ ready'.proposals = ready.proposals
      /\ ready'.committed = ready.committed /\ ready'.pops = k
  BY <1>1, <1>2 DEF FeedTypes
<1>4. x \in Nat
  BY <1>2 DEF FeedEntries
<1>5. FeedTypes'
  BY <1>1, <1>3, <1>4 DEF FeedTypes
<1>6. FeedServed'
  BY <1>1 DEF FeedServed, F!EndOfTrace, F!Records, F!Loaded
<1>7. FeedAscending' /\ FeedOrder'
  BY <1>1 DEF FeedAscending, FeedOrder, F!EndOfTrace, F!Records, F!Record
<1>8. FeedDistinct'
  BY <1>1, <1>2, <1>3 DEF FeedDistinct
<1>9. F!NoTransactionLost'
  <2>1. F!Accepted' = F!Accepted
    BY <1>1 DEF F!Accepted, F!Record, F!Records
  <2>2. /\ F!Waiting = {ready.committed[i].id : i \in k..n}
        /\ F!Waiting' = {ready.committed[i].id : i \in (k + 1)..n}
        /\ F!Popped = {ready.committed[i].id : i \in 1..ready.pops}
        /\ F!Popped' = {ready.committed[i].id : i \in 1..k}
    BY <1>3 DEF F!Waiting, F!Popped
  <2>3. k..n = {k} \cup (k + 1)..n /\ 1..k = 1..ready.pops \cup {k} /\ k \notin (k + 1)..n
        /\ (k + 1)..n \subseteq 1..n
    BY <1>2
  <2> HIDE DEF k, n
  <2>4. F!Waiting = F!Waiting' \cup {x} /\ F!Popped' = F!Popped \cup {x}
    BY <2>2, <2>3
  <2>5. x \notin F!Waiting'
    BY <1>2, <2>2, <2>3 DEF FeedDistinct
  <2>6. Len(ready'.committed) <= Capacity
    BY <1>3 DEF F!NoTransactionLost
  <2> HIDE DEF x
  <2> QED
    BY <1>1, <2>1, <2>4, <2>5, <2>6 DEF F!NoTransactionLost
<1> QED
  BY <1>5, <1>6, <1>7, <1>8, <1>9

(* markDependencyComplete completes a transaction that is running. *)
LEMMA CompleteStep ==
    ASSUME FeedInv, NEW id \in running, F!Complete(id)
    PROVE  FeedInv'
<1> USE DEF FeedInv, F!Consuming, F!streamVars
<1>1. /\ UNCHANGED <<input, stream, diagnosis, tick, ready, held>>
      /\ id \in running /\ id \in source.issued /\ running' = running \ {id}
      /\ source' = [source EXCEPT !.completed = @ \cup {id}]
  BY DEF F!Complete
<1>2. /\ source' \in [next : Nat \ {0}, offer : BOOLEAN, offering : BOOLEAN, accepting : BOOLEAN,
                      issued : SUBSET Nat, completed : SUBSET Nat, waking : BOOLEAN]
      /\ source'.next = source.next /\ source'.offer = source.offer
      /\ source'.offering = source.offering /\ source'.accepting = source.accepting
      /\ source'.issued = source.issued /\ source'.completed = source.completed \cup {id}
  BY <1>1 DEF FeedTypes
<1>3. FeedTypes'
  BY <1>1, <1>2 DEF FeedTypes
<1>4. FeedServed'
  BY <1>1, <1>2 DEF FeedServed, F!EndOfTrace, F!Records, F!Loaded
<1>5. FeedAscending' /\ FeedDistinct'
  BY <1>1, <1>2 DEF FeedAscending, FeedDistinct, F!EndOfTrace, F!Records, F!Record
<1>6. FeedOrder'
  BY <1>1, <1>2 DEF FeedOrder, F!Records, F!Record
<1>7. F!NoTransactionLost'
  <2>1. F!Accepted' = F!Accepted
    BY <1>1, <1>2 DEF F!Accepted, F!Record, F!Records
  <2>2. F!Waiting' = F!Waiting /\ F!Popped' = F!Popped
    BY <1>1 DEF F!Waiting, F!Popped
  <2> QED
    BY <1>1, <1>2, <2>1, <2>2 DEF F!NoTransactionLost
<1> QED
  BY <1>3, <1>4, <1>5, <1>6, <1>7

(* doArbitrate admits proposals that their owners hold, no more than there *)
(* is room for.                                                            *)
LEMMA AdmittedFacts ==
    ASSUME FeedInv
    PROVE  /\ OneEach(F!Admitted) /\ Cardinality(F!Admitted) <= F!Room
           /\ F!Room \in Nat
           /\ \A e \in F!Admitted : e.id \in DOMAIN held
<1> USE DEF FeedInv
<1> DEFINE X == F!Stamped  n == Cardinality(X)  s == F!Sorted(X)  R == F!Room
           m == IF R <= n THEN R ELSE n
           stamp == [e \in ready.proposals |-> [e EXCEPT !.time = tick]]
<1>1. /\ X = {stamp[e] : e \in ready.proposals}
      /\ \A e \in ready.proposals : stamp[e] \in FeedEntries /\ stamp[e].id = e.id
  <2>1. \A e \in FeedEntries : [e EXCEPT !.time = tick] \in FeedEntries
                               /\ [e EXCEPT !.time = tick].id = e.id
    BY DEF FeedEntries, FeedTypes
  <2>2. ready.proposals \subseteq FeedEntries
    BY DEF FeedTypes
  <2>3. \A e \in ready.proposals : stamp[e] = [e EXCEPT !.time = tick]
    OBVIOUS
  <2>4. X = {stamp[e] : e \in ready.proposals}
    BY <2>3 DEF F!Stamped
  <2> HIDE DEF stamp, X
  <2> QED
    BY <2>1, <2>2, <2>3, <2>4
<1>2. IsFiniteSet(X)
  <2>1. stamp \in Surjection(ready.proposals, X)
    BY <1>1 DEF Surjection
  <2>2. IsFiniteSet(ready.proposals)
    BY DEF FeedTypes
  <2> QED
    BY <2>1, <2>2, FS_Surjection
<1> HIDE DEF stamp, X
<1>3. OneEach(X) /\ \A e \in X : e.id \in DOMAIN held
  BY <1>1, <1>2 DEF OneEach, FeedDistinct
<1>4. /\ s \in Seq(FeedEntries) /\ Len(s) = n /\ n \in Nat /\ DOMAIN s = 1..n
      /\ \A i \in DOMAIN s : s[i] \in X
      /\ \A i, j \in DOMAIN s : s[i].id = s[j].id => i = j
  BY <1>3, SortedOnce
<1> HIDE DEF s, n
<1>5. R \in Nat
  <2>1. Len(ready.committed) \in Nat
    BY DEF FeedTypes
  <2> QED
    BY <2>1, FeedAssumption DEF F!Room
<1> HIDE DEF R
<1>6. F!Admitted = {s[i] : i \in (0 + 1)..m}
  <2>1. F!Admitted = {s[i] : i \in {j \in 1..n : j <= R}}
    BY SameCardinality DEF F!Admitted, s, n, X, R
  <2>2. {j \in 1..n : j <= R} = (0 + 1)..m
    BY <1>4, <1>5
  <2> QED
    BY <2>1, <2>2
<1>7. m \in Nat /\ m <= R /\ m <= n /\ m - 0 = m
  BY <1>4, <1>5
<1> HIDE DEF m
<1>8. OneEach(F!Admitted) /\ Cardinality(F!Admitted) = m - 0
  <2>1. m <= Len(s) /\ 0 \in Nat /\ 0 <= m
    BY <1>4, <1>7
  <2>2. OneEach({s[i] : i \in (0 + 1)..m}) /\ Cardinality({s[i] : i \in (0 + 1)..m}) = m - 0
    BY <1>4, <1>7, <2>1, RangeFinite
  <2> QED
    BY <1>6, <2>2
<1>9. \A e \in F!Admitted : e \in X
  BY <1>4, <1>6, <1>7
<1> QED
  BY <1>3, <1>5, <1>7, <1>8, <1>9 DEF R

\* The committed entries that were not popped.
FeedLeft == {ready.committed[i] : i \in (ready.pops + 1)..Len(ready.committed)}

(* doXfer keeps the entries that were not popped and adds the admitted     *)
(* ones; the Scheduler stays within its capacity.                          *)
LEMMA XferFacts ==
    ASSUME FeedInv, NEW r, r = F!SchedulerXfer
    PROVE  /\ r \in [proposals : SUBSET FeedEntries, committed : Seq(FeedEntries), pops : Nat]
           /\ r.proposals = {} /\ r.pops = 0
           /\ Len(r.committed) <= Capacity
           /\ \A i, j \in DOMAIN r.committed : r.committed[i].id = r.committed[j].id => i = j
           /\ {r.committed[i] : i \in DOMAIN r.committed} = FeedLeft \cup F!Admitted
<1> USE DEF FeedInv
<1> DEFINE left == FeedLeft  es == left \cup F!Admitted  s == F!Sorted(es)
<1>1. /\ OneEach(F!Admitted) /\ Cardinality(F!Admitted) <= F!Room /\ F!Room \in Nat
      /\ \A e \in F!Admitted : e.id \in DOMAIN held
  BY AdmittedFacts
<1>2. ready.committed \in Seq(FeedEntries) /\ ready.pops \in Nat /\ Len(ready.committed) \in Nat
      /\ ready.pops <= Len(ready.committed) /\ Len(ready.committed) <= Capacity
  BY DEF FeedTypes, FeedDistinct, F!NoTransactionLost
<1>3. OneEach(left) /\ Cardinality(left) = Len(ready.committed) - ready.pops
  <2>1. \A i, j \in DOMAIN ready.committed :
          ready.committed[i].id = ready.committed[j].id => i = j
    BY DEF FeedDistinct
  <2> QED
    <3>1. Len(ready.committed) <= Len(ready.committed)
      BY <1>2
    <3> QED
      BY <1>2, <2>1, <3>1, RangeFinite DEF FeedLeft
<1>4. \A e \in left : e.id \in F!Waiting
  BY DEF F!Waiting, FeedLeft
<1> HIDE DEF left
<1>5. \A x \in left, y \in F!Admitted : x.id # y.id
  BY <1>1, <1>4 DEF F!NoTransactionLost
<1>6. OneEach(es) /\ Cardinality(es) <= Cardinality(left) + Cardinality(F!Admitted)
  <2>1. es \subseteq FeedEntries /\ \A x, y \in es : x.id = y.id => x = y
    BY <1>1, <1>3, <1>5 DEF OneEach
  <2>2. IsFiniteSet(es) /\ Cardinality(es) = Cardinality(left) + Cardinality(F!Admitted)
                                               - Cardinality(left \cap F!Admitted)
    BY <1>1, <1>3, FS_Union DEF OneEach
  <2>3. Cardinality(left) \in Nat /\ Cardinality(F!Admitted) \in Nat
        /\ Cardinality(left \cap F!Admitted) \in Nat
    BY <1>1, <1>3, FS_CardinalityType, FS_Subset DEF OneEach
  <2> QED
    BY <2>1, <2>2, <2>3 DEF OneEach
<1>7. Cardinality(es) <= Capacity
  <2>1. F!Room = IF Capacity > Len(ready.committed) THEN Capacity - Len(ready.committed) ELSE 0
    BY DEF F!Room
  <2>2. Cardinality(F!Admitted) \in Nat /\ Cardinality(es) \in Nat
    BY <1>1, <1>6, FS_CardinalityType DEF OneEach
  <2> HIDE DEF es
  <2> QED
    BY <1>1, <1>2, <1>3, <1>6, <2>1, <2>2, FeedAssumption
<1> HIDE DEF es
<1>8. r = [proposals |-> {}, pops |-> 0, committed |-> s]
  BY DEF F!SchedulerXfer, es, left, FeedLeft
<1>9. /\ s \in Seq(FeedEntries) /\ Len(s) = Cardinality(es)
      /\ \A i \in DOMAIN s : s[i] \in es
      /\ \A i, j \in DOMAIN s : s[i].id = s[j].id => i = j
      /\ \A e \in es : \E i \in DOMAIN s : s[i] = e
  BY <1>6, SortedOnce
<1> HIDE DEF s
<1>10. {s[i] : i \in DOMAIN s} = es
  BY <1>9
<1>11. r.committed = s /\ r.proposals = {} /\ r.pops = 0
       /\ r \in [proposals : SUBSET FeedEntries, committed : Seq(FeedEntries), pops : Nat]
  BY <1>8, <1>9
<1>12. Len(r.committed) <= Capacity
  BY <1>7, <1>9, <1>11
<1>13. \A i, j \in DOMAIN r.committed : r.committed[i].id = r.committed[j].id => i = j
  BY <1>9, <1>11
<1>14. {r.committed[i] : i \in DOMAIN r.committed} = FeedLeft \cup F!Admitted
  BY <1>10, <1>11 DEF es, left
<1> QED
  BY <1>11, <1>12, <1>13, <1>14

(* doXfer of the source: an accepted record is issued and the cursor moves *)
(* on, a new offer becomes visible.                                        *)
LEMMA CursorFacts ==
    ASSUME FeedInv, NEW s, s = F!SourceXfer(source) \/ s = source
    PROVE  /\ s \in [next : Nat \ {0}, offer : BOOLEAN, offering : BOOLEAN, accepting : BOOLEAN,
                     issued : SUBSET Nat, completed : SUBSET Nat, waking : BOOLEAN]
           /\ s.completed = source.completed
           /\ ~(s.offer /\ s.offering)
           /\ \/ /\ s.next = source.next /\ s.issued = source.issued
                 /\ s.accepting = source.accepting
                 /\ s.offer \/ s.offering => source.offer \/ source.offering
                 /\ s.accepting => s.offer
              \/ /\ source.accepting /\ s.next = source.next + 1 /\ ~s.accepting
                 /\ s.issued = source.issued \cup {F!Record.seq}
                 /\ ~s.offer /\ ~s.offering
<1> USE DEF FeedInv
<1>1. source \in [next : Nat \ {0}, offer : BOOLEAN, offering : BOOLEAN, accepting : BOOLEAN,
                  issued : SUBSET Nat, completed : SUBSET Nat, waking : BOOLEAN]
      /\ (source.accepting => source.offer) /\ ~(source.offer /\ source.offering)
  BY DEF FeedTypes, FeedServed
<1>2. CASE s = source
  BY <1>1, <1>2
<1>3. CASE s = F!SourceXfer(source) /\ ~source.accepting
  BY <1>1, <1>3 DEF F!SourceXfer
<1>4. CASE s = F!SourceXfer(source) /\ source.accepting
  <2>1. F!Record.seq \in Nat
    BY <1>1, <1>4, RecordTypes DEF FeedTypes, FeedServed, F!EndOfTrace, F!Record
  <2>2. s = [source EXCEPT !.next = source.next + 1, !.issued = source.issued \cup {F!Record.seq},
                           !.offer = FALSE, !.offering = FALSE, !.accepting = FALSE]
    BY <1>1, <1>4 DEF F!SourceXfer, F!Record
  <2>3. source.next + 1 \in Nat \ {0}
    BY <1>1
  <2>4. /\ s.next = source.next + 1 /\ ~s.accepting /\ ~s.offer /\ ~s.offering
        /\ s.issued = source.issued \cup {F!Record.seq} /\ s.completed = source.completed
    BY <1>1, <2>2
  <2>5. s \in [next : Nat \ {0}, offer : BOOLEAN, offering : BOOLEAN, accepting : BOOLEAN,
               issued : SUBSET Nat, completed : SUBSET Nat, waking : BOOLEAN]
    <3>1. source.issued \cup {F!Record.seq} \in SUBSET Nat
      BY <1>1, <2>1
    <3> QED
      BY <1>1, <2>2, <2>3, <3>1
  <2> QED
    BY <1>4, <2>4, <2>5
<1> QED
  BY <1>2, <1>3, <1>4

(* The arbitration and the Xfer of a tick move the admitted proposals from *)
(* their owners into the Scheduler and lose nothing.                       *)
LEMMA EndTickStep ==
    ASSUME FeedInv, F!EndTick
    PROVE  FeedInv'
<1> USE DEF FeedInv, F!streamVars
<1>1. /\ UNCHANGED <<input, stream, diagnosis, running>> /\ F!Loaded
      /\ source' = F!SourceXfer(source) \/ source' = source
      /\ ready' = F!SchedulerXfer
      /\ held' = [id \in {x \in DOMAIN held : \A e \in F!Admitted : e.id # x} |-> held[id]]
      /\ tick' = IF tick < LastTick THEN tick + 1 ELSE tick
  BY DEF F!EndTick
<1>2. tick \in Nat /\ tick' \in Nat /\ tick <= tick'
  <2>1. tick \in Nat
    BY DEF FeedTypes
  <2>2. tick' = tick + 1 \/ tick' = tick
    BY <1>1
  <2> QED
    BY <2>1, <2>2
<1>3. /\ ready' \in [proposals : SUBSET FeedEntries, committed : Seq(FeedEntries), pops : Nat]
      /\ ready'.proposals = {} /\ ready'.pops = 0
      /\ Len(ready'.committed) <= Capacity
      /\ \A i, j \in DOMAIN ready'.committed : ready'.committed[i].id = ready'.committed[j].id => i = j
      /\ {ready'.committed[i] : i \in DOMAIN ready'.committed} = FeedLeft \cup F!Admitted
  BY <1>1, XferFacts
<1>4. /\ source' \in [next : Nat \ {0}, offer : BOOLEAN, offering : BOOLEAN, accepting : BOOLEAN,
                      issued : SUBSET Nat, completed : SUBSET Nat, waking : BOOLEAN]
      /\ source'.completed = source.completed
      /\ ~(source'.offer /\ source'.offering)
      /\ \/ /\ source'.next = source.next /\ source'.issued = source.issued
            /\ source'.accepting = source.accepting
            /\ source'.offer \/ source'.offering => source.offer \/ source.offering
            /\ source'.accepting => source'.offer
         \/ /\ source.accepting /\ source'.next = source.next + 1 /\ ~source'.accepting
            /\ source'.issued = source.issued \cup {F!Record.seq}
            /\ ~source'.offer /\ ~source'.offering
  BY <1>1, CursorFacts
<1>5. /\ DOMAIN held' = {x \in DOMAIN held : \A e \in F!Admitted : e.id # x}
      /\ \A x \in DOMAIN held' : held'[x] = held[x]
  BY <1>1
<1>6. FeedTypes'
  <2>1. IsFiniteSet(ready'.proposals)
    BY <1>3, FS_EmptySet
  <2>2. held' \in [DOMAIN held' -> Consumers] /\ DOMAIN held' \subseteq Nat
    BY <1>1, <1>5 DEF FeedTypes
  <2> QED
    BY <1>1, <1>2, <1>3, <1>4, <2>1, <2>2 DEF FeedTypes
<1>7. source.accepting => source.next \in 1..Len(F!Records)
  BY RecordTypes DEF FeedServed, FeedTypes, F!EndOfTrace
<1>8. F!Records' = F!Records /\ Len(F!Records) \in Nat /\ source.next \in Nat
  BY <1>1, RecordTypes DEF F!Records, FeedTypes
<1>9. FeedServed'
  <2>1. source'.next <= Len(F!Records') + 1
    BY <1>4, <1>7, <1>8 DEF FeedServed
  <2>2. source'.offer \/ source'.offering => source'.next = source.next /\ (source.offer \/ source.offering)
    BY <1>4
  <2>3. F!Loaded' /\ F!Parse(input)' = "ok" /\ stream'.finished
    BY <1>1 DEF FeedServed, F!Loaded
  <2> QED
    BY <1>4, <1>8, <2>1, <2>2, <2>3 DEF FeedServed, F!EndOfTrace
<1>10. FeedAscending'
  <2> SUFFICES ASSUME NEW i \in 1..(source'.next - 1), ~F!EndOfTrace'
               PROVE  F!Records[i].seq < F!Records[source'.next].seq
    BY <1>8 DEF FeedAscending, F!Record
  <2>1. CASE source'.next = source.next
    BY <1>8, <2>1 DEF FeedAscending, F!EndOfTrace, F!Record
  <2>2. CASE source.accepting /\ source'.next = source.next + 1
    <3> DEFINE k == source.next
    <3>1. k \in Nat /\ k >= 1 /\ k + 1 \in 1..Len(F!Records) /\ k \in 1..Len(F!Records)
      BY <1>7, <1>8, <2>2 DEF F!EndOfTrace, FeedTypes
    <3>2. F!RecordCode(input, k + 1) = "ok"
      <4>1. DOMAIN F!Records = 1..Len(F!Records)
        BY RecordTypes DEF FeedTypes
      <4>2. F!Parse(input) = "ok"
        BY <1>1 DEF FeedServed
      <4> QED
        BY <1>8, <3>1, <4>1, <4>2, RecordsPass DEF F!Records
    <3>3. ~(k + 1 > 1 /\ F!Records[k + 1].seq <= F!Records[(k + 1) - 1].seq)
      BY <3>2, RecordAscends DEF F!Records
    <3>4. (k + 1) - 1 = k /\ k + 1 > 1 /\ i \in 1..k
      BY <2>2, <3>1
    <3>5. F!Records[k + 1].seq \in Nat /\ F!Records[k].seq \in Nat /\ F!Records[i].seq \in Nat
      BY <3>1, <3>4, RecordTypes DEF FeedTypes
    <3>6. F!Records[k].seq < F!Records[k + 1].seq
      BY <3>3, <3>4, <3>5
    <3>7. i = k \/ F!Records[i].seq < F!Records[k].seq
      <4>1. i = k \/ i \in 1..(k - 1)
        BY <3>1, <3>4
      <4>2. ~F!EndOfTrace
        BY <3>1, <1>8 DEF F!EndOfTrace
      <4> QED
        BY <4>1, <4>2 DEF FeedAscending, F!Record
    <3> HIDE DEF k
    <3> QED
      BY <2>2, <3>5, <3>6, <3>7 DEF k
  <2> QED
    BY <1>4, <2>1, <2>2
<1>11. FeedDistinct'
  <2>1. Len(ready'.committed) \in Nat
    BY <1>3
  <2> QED
    BY <1>3, <2>1 DEF FeedDistinct
<1>12. FeedOrder'
  <2>1. source'.issued = {F!Records[i].seq : i \in 1..(source'.next - 1)}
    <3>1. CASE source'.next = source.next /\ source'.issued = source.issued
      BY <3>1 DEF FeedOrder
    <3>2. CASE source'.next = source.next + 1 /\ source'.issued = source.issued \cup {F!Record.seq}
      <4>1. 1..(source'.next - 1) = 1..(source.next - 1) \cup {source.next}
        BY <1>8, <3>2 DEF FeedTypes
      <4> QED
        BY <3>2, <4>1 DEF FeedOrder, F!Record
    <3> QED
      BY <1>4, <3>1, <3>2
  <2>2. source'.completed \subseteq source'.issued
    BY <1>4 DEF FeedOrder
  <2>3. ASSUME source'.offer \/ source'.offering
        PROVE  F!ToSet(F!Record.deps)' \subseteq source'.completed /\ F!Record'.issue <= tick'
    <3>1. source'.next = source.next /\ (source.offer \/ source.offering)
      BY <1>4, <2>3
    <3>2. F!Record' = F!Record
      BY <1>8, <3>1 DEF F!Record
    <3>3. F!Record.issue \in Int /\ F!Record.issue <= tick
      BY <3>1, RecordTypes DEF FeedOrder, FeedServed, FeedTypes, F!EndOfTrace, F!Record
    <3> QED
      BY <1>2, <1>4, <3>1, <3>2, <3>3 DEF FeedOrder
  <2> QED
    BY <1>8, <2>1, <2>2, <2>3 DEF FeedOrder
<1>13. F!NoTransactionLost'
  <2>1. F!Accepted' = F!Accepted
    <3>1. source'.accepting => F!Record' = F!Record
      BY <1>4, <1>8 DEF F!Record
    <3> QED
      BY <1>4, <3>1 DEF F!Accepted
  <2>2. F!Waiting' = {e.id : e \in FeedLeft \cup F!Admitted}
    <3>1. DOMAIN ready'.committed = 1..Len(ready'.committed)
      BY <1>3
    <3>2. F!Waiting' = {ready'.committed[i].id : i \in 1..Len(ready'.committed)}
      BY <1>3 DEF F!Waiting
    <3> QED
      BY <1>3, <3>1, <3>2
  <2>3. F!Waiting = {e.id : e \in FeedLeft}
    BY DEF F!Waiting, FeedLeft
  <2>4. F!Popped' = {}
    BY <1>3 DEF F!Popped
  <2>5. \A e \in F!Admitted : e.id \in DOMAIN held
    BY AdmittedFacts
  <2>6. /\ DOMAIN held = DOMAIN held' \cup {e.id : e \in F!Admitted}
        /\ DOMAIN held' \cap {e.id : e \in F!Admitted} = {}
    BY <1>5, <2>5
  <2>7. F!Waiting' = F!Waiting \cup {e.id : e \in F!Admitted}
    BY <2>2, <2>3
  <2> QED
    BY <1>1, <1>3, <1>4, <2>1, <2>4, <2>6, <2>7 DEF F!NoTransactionLost
<1> QED
  BY <1>6, <1>9, <1>10, <1>11, <1>12, <1>13

(* Every step of the feed keeps the invariant. *)
LEMMA FeedNext ==
    ASSUME FeedInv, F!Next
    PROVE  FeedInv'
  BY StreamStep, SourceStep, AcceptStep, ScheduleStep, PopStep, CompleteStep, EndTickStep
  DEF F!Next, F!Consume

(* FeedSound: whatever the consumers call and in whatever order, a record  *)
(* that left the trace source is with the consumer that accepted it, in    *)
(* the Scheduler, running or completed, and only in one of these places;   *)
(* the Scheduler stays within its capacity; records are offered in trace   *)
(* order, after their dependencies completed and their issue time came.    *)
THEOREM FeedSoundThm == DevicesSpec => []FeedSound
<1> DEFINE Inv == device = "feed" => FeedInv
<1>1. DevicesInit => Inv
  BY FeedInit DEF DevicesInit
<1>2. Inv /\ [DevicesNext]_all => Inv'
  <2> SUFFICES ASSUME Inv, [DevicesNext]_all, device' = "feed" PROVE FeedInv'
    OBVIOUS
  <2>1. CASE InNpu(Next) \/ InShowcase(S!Next)
    BY <2>1 DEF InNpu, InShowcase
  <2>2. CASE InFeed(F!Next)
    BY <2>2, FeedNext DEF InFeed
  <2>3. CASE UNCHANGED all
    <3>1. UNCHANGED <<device, input, stream, diagnosis, tick, source, ready, held, running>>
      BY <2>3 DEF all, feedOnly
    <3>2. FeedInv
      BY <3>1
    <3>3. FeedTypes' /\ FeedServed' /\ FeedAscending' /\ FeedDistinct' /\ FeedOrder'
      BY <3>1, <3>2 DEF FeedInv, FeedTypes, FeedServed, FeedAscending, FeedDistinct, FeedOrder,
                        F!Loaded, F!EndOfTrace, F!Records, F!Record
    <3>4. F!NoTransactionLost'
      BY <3>1, <3>2 DEF FeedInv, F!NoTransactionLost, F!Accepted, F!Waiting, F!Popped,
                        F!Record, F!Records
    <3> QED
      BY <3>3, <3>4 DEF FeedInv
  <2> QED
    BY <2>1, <2>2, <2>3 DEF DevicesNext
<1>3. Inv => FeedSound
  BY DEF FeedSound, FeedInv, FeedOrder, F!OffersInOrder
<1> QED
  BY <1>1, <1>2, <1>3, PTL DEF DevicesSpec
-----------------------------------------------------------------------------
(* The NPU *)

\* Types: what the run has touched was dispatched from the trace.
NpuTypes ==
    /\ trace = <<>> \/ trace \in Traces
    /\ cursor \in Nat /\ 1 <= cursor /\ cursor <= Len(trace) + 1
    /\ tick \in Nat /\ rounds \in Nat /\ exhausted \in BOOLEAN
    /\ queued \cup outstanding \cup done \cup issued \cup rob \cup executed \subseteq 1..(cursor - 1)
    /\ finished \cup completed \cup controller \subseteq 1..(cursor - 1)
    /\ DOMAIN deps = 1..(cursor - 1)
    /\ DOMAIN active \subseteq executed
    /\ retired \in Seq(1..(cursor - 1))
    /\ \A s \in 1..(cursor - 1) : Op(s) \in DOMAIN Opcodes

\* The producer of a tile is the last dispatched instruction that writes it.
ProducersLast ==
    /\ \A x \in 1..(cursor - 1) : Outputs(x) \subseteq DOMAIN producers
    /\ \A t \in DOMAIN producers :
          /\ producers[t] \in 1..(cursor - 1) /\ t \in Outputs(producers[t])
          /\ \A x \in 1..(cursor - 1) : t \in Outputs(x) => x <= producers[t]

\* An instruction depends on the last writers of its input tiles, and waits
\* for all that it depends on before it is issued.
DependenciesKept ==
    /\ \A s \in 1..(cursor - 1) : \A t \in Inputs(s) :
          Writers(s, t) # {} => Max(Writers(s, t)) \in deps[s]
    /\ \A s \in 1..(cursor - 1) : deps[s] \subseteq 1..(cursor - 1)
    /\ \A s \in executed \cup issued : deps[s] \subseteq done

\* Until the trace is dispatched nothing executes.
NothingStarted ==
    /\ status = "unloaded" => cursor = 1
    /\ status \in {"unloaded", "dispatch"} =>
          /\ issued = {} /\ executed = {} /\ active = <<>> /\ controller = {}
          /\ protocol = RRInit

\* The requests that the protocol has not delivered are the memory
\* instructions that started in the last execution step.
RequestsFresh ==
    status \in {"execute", "track"} =>
        /\ protocol.requests \in Seq([id : Nat, payload : Nat])
        /\ protocol.asked = <<>> /\ protocol.answered = <<>>
        /\ Ids(protocol.requests) = {s \in MemoryOps(DOMAIN active) : ~active[s].delivered}
        /\ \A s \in Ids(protocol.requests) :
              active[s].issue = IF status = "track" THEN tick ELSE tick - 1
        /\ \A s \in DOMAIN active :
              /\ active[s] \in [issue : Int, ready : Int, delivered : BOOLEAN]
              /\ active[s].ready = active[s].issue + Latency(Op(s))

NpuInv ==
    /\ NpuTypes /\ ProducersLast /\ DependenciesKept /\ NothingStarted /\ RequestsFresh
    /\ RetirementInOrder /\ MemoryAccountsAgree

(* A function on the first n numbers is a sequence. *)
LEMMA FunctionIsSequence ==
    ASSUME NEW T, NEW n \in Nat, NEW f \in [1..n -> T]
    PROVE  f \in Seq(T) /\ Len(f) = n /\ DOMAIN f = 1..n
  OBVIOUS

(* A sequence over a set is one over a larger set. *)
LEMMA SequenceGrows ==
    ASSUME NEW X, NEW T, X \subseteq T, NEW q \in Seq(X)
    PROVE  q \in Seq(T)
  OBVIOUS

(* The engines take instructions in trace order, each once. *)
LEMMA InOrderOnce ==
    ASSUME NEW ss \in SUBSET Nat, IsFiniteSet(ss)
    PROVE  /\ InOrder(ss) \in Seq(ss) /\ Cardinality(ss) \in Nat
           /\ DOMAIN InOrder(ss) = 1..Cardinality(ss)
           /\ {InOrder(ss)[i] : i \in 1..Cardinality(ss)} = ss
<1> DEFINE B == [e \in ss |-> {x \in ss : x < e}]
<1>1. LinearOrder(ss, B)
  <2>1. \A x, y, z \in ss : ~(x < x) /\ (x = y \/ x < y \/ y < x) /\ (x < y /\ y < z => x < z)
    OBVIOUS
  <2> QED
    BY <2>1 DEF LinearOrder
<1>2. \A n \in 1..Cardinality(ss) :
         /\ InOrder(ss)[n] \in ss
         /\ Cardinality({x \in ss : x < InOrder(ss)[n]}) = n - 1
  <2> SUFFICES ASSUME NEW n \in 1..Cardinality(ss)
               PROVE  /\ InOrder(ss)[n] \in ss
                      /\ Cardinality({x \in ss : x < InOrder(ss)[n]}) = n - 1
    OBVIOUS
  <2>1. \E e \in ss : Cardinality(B[e]) = n - 1
    BY <1>1, NumbersTaken
  <2>2. \E e \in ss : Cardinality({x \in ss : x < e}) = n - 1
    BY <2>1
  <2> QED
    BY <2>2 DEF InOrder
<1> HIDE DEF B
<1>3. Numbered(ss, B, InOrder(ss))
  <2> DEFINE o == InOrder(ss)  th(n) == CHOOSE s \in ss : Cardinality({x \in ss : x < s}) = n - 1
  <2>3. o = [n \in 1..Cardinality(ss) |-> th(n)]
    BY DEF InOrder
  <2> HIDE DEF o, th
  <2>4. o = [n \in 1..Cardinality(ss) |-> o[n]]
    BY <2>3
  <2>1. InOrder(ss) = [n \in 1..Cardinality(ss) |-> InOrder(ss)[n]]
    BY <2>4 DEF o
  <2>2. \A n \in 1..Cardinality(ss) : InOrder(ss)[n] \in ss /\ Cardinality(B[InOrder(ss)[n]]) = n - 1
    BY <1>2 DEF B
  <2> QED
    BY <2>1, <2>2 DEF Numbered
<1> QED
  BY <1>1, <1>3, NumberedSequence

(* The envelopes of a set of instructions carry their sequence ids. *)
LEMMA EnvelopesOnce ==
    ASSUME NEW ss \in SUBSET Nat, IsFiniteSet(ss)
    PROVE  /\ Envelopes(ss) \in Seq([id : Nat, payload : Nat])
           /\ Ids(Envelopes(ss)) = ss
<1>1. /\ InOrder(ss) \in Seq(ss) /\ Cardinality(ss) \in Nat
      /\ DOMAIN InOrder(ss) = 1..Cardinality(ss)
      /\ {InOrder(ss)[i] : i \in 1..Cardinality(ss)} = ss
  BY InOrderOnce
<1>2. \A i \in 1..Cardinality(ss) : InOrder(ss)[i] \in Nat
  BY <1>1
<1>3. \A i \in 1..Cardinality(ss) :
         Envelope(InOrder(ss)[i]) \in [id : Nat, payload : Nat] /\ Id(Envelope(InOrder(ss)[i])) = InOrder(ss)[i]
  BY <1>2 DEF Envelope, Id
<1>4. Envelopes(ss) \in [1..Cardinality(ss) -> [id : Nat, payload : Nat]]
  BY <1>3 DEF Envelopes
<1>5. Envelopes(ss) \in Seq([id : Nat, payload : Nat])
  BY <1>1, <1>4, FunctionIsSequence
<1>6. Ids(Envelopes(ss)) = {Id(Envelopes(ss)[i]) : i \in 1..Cardinality(ss)}
  BY <1>4 DEF Ids
<1>7. \A i \in 1..Cardinality(ss) : Id(Envelopes(ss)[i]) = InOrder(ss)[i]
  BY <1>3 DEF Envelopes
<1> QED
  BY <1>1, <1>5, <1>6, <1>7

(* Retirement is in the order of the blocks and of the sequence ids. *)
LEMMA RetireOnce ==
    ASSUME NEW ss \in SUBSET Nat, IsFiniteSet(ss), \A s \in ss : Block(s) \in Nat
    PROVE  /\ RetireOrder(ss) \in Seq(ss)
           /\ \A i, j \in DOMAIN RetireOrder(ss) :
                i < j => RetireLess(RetireOrder(ss)[i], RetireOrder(ss)[j])
           /\ {RetireOrder(ss)[i] : i \in DOMAIN RetireOrder(ss)} = ss
<1> DEFINE B == [e \in ss |-> {x \in ss : RetireLess(x, e)}]
<1>1. LinearOrder(ss, B)
  <2>1. \A x \in ss : ~RetireLess(x, x)
    BY DEF RetireLess
  <2>2. \A x, y \in ss : x = y \/ RetireLess(x, y) \/ RetireLess(y, x)
    BY DEF RetireLess
  <2>3. \A x, y, z \in ss : RetireLess(x, y) /\ RetireLess(y, z) => RetireLess(x, z)
    BY DEF RetireLess
  <2> QED
    BY <2>1, <2>2, <2>3 DEF LinearOrder
<1>2. \A n \in 1..Cardinality(ss) :
         /\ RetireOrder(ss)[n] \in ss
         /\ Cardinality({x \in ss : RetireLess(x, RetireOrder(ss)[n])}) = n - 1
  <2> SUFFICES ASSUME NEW n \in 1..Cardinality(ss)
               PROVE  /\ RetireOrder(ss)[n] \in ss
                      /\ Cardinality({x \in ss : RetireLess(x, RetireOrder(ss)[n])}) = n - 1
    OBVIOUS
  <2>1. \E e \in ss : Cardinality(B[e]) = n - 1
    BY <1>1, NumbersTaken
  <2>2. \E e \in ss : Cardinality({x \in ss : RetireLess(x, e)}) = n - 1
    BY <2>1
  <2> QED
    BY <2>2 DEF RetireOrder
<1>3. \A x, y \in ss : x \in B[y] => RetireLess(x, y)
  OBVIOUS
<1> HIDE DEF B
<1>4. Numbered(ss, B, RetireOrder(ss))
  <2> DEFINE o == RetireOrder(ss)  th(n) == CHOOSE s \in ss : Cardinality({x \in ss : RetireLess(x, s)}) = n - 1
  <2>3. o = [n \in 1..Cardinality(ss) |-> th(n)]
    BY DEF RetireOrder
  <2> HIDE DEF o, th
  <2>4. o = [n \in 1..Cardinality(ss) |-> o[n]]
    BY <2>3
  <2>1. RetireOrder(ss) = [n \in 1..Cardinality(ss) |-> RetireOrder(ss)[n]]
    BY <2>4 DEF o
  <2>2. \A n \in 1..Cardinality(ss) : RetireOrder(ss)[n] \in ss /\ Cardinality(B[RetireOrder(ss)[n]]) = n - 1
    BY <1>2 DEF B
  <2> QED
    BY <2>1, <2>2 DEF Numbered
<1>5. /\ RetireOrder(ss) \in Seq(ss)
      /\ \A i, j \in DOMAIN RetireOrder(ss) : i < j => RetireOrder(ss)[i] \in B[RetireOrder(ss)[j]]
      /\ {RetireOrder(ss)[i] : i \in DOMAIN RetireOrder(ss)} = ss
  BY <1>1, <1>4, NumberedSequence
<1>6. \A i \in DOMAIN RetireOrder(ss) : RetireOrder(ss)[i] \in ss
  BY <1>5
<1> QED
  BY <1>3, <1>5, <1>6

(* The greatest element. *)
LEMMA MaxIs ==
    ASSUME NEW X \in SUBSET Nat, NEW m \in X, \A x \in X : x <= m
    PROVE  Max(X) = m
<1>1. \A x \in X : m >= x
  OBVIOUS
<1>2. Max(X) \in X /\ \A x \in X : Max(X) >= x
  BY <1>1 DEF Max
<1>3. m \in Nat /\ Max(X) \in Nat /\ Max(X) >= m /\ m >= Max(X)
  BY <1>1, <1>2
<1> HIDE DEF Max
<1> QED
  BY <1>3

(* The smallest element of a set of numbers belongs to it. *)
LEMMA LeastBelongs ==
    ASSUME NEW X \in SUBSET Nat, X # {}
    PROVE  Min(X) \in X
<1>1. PICK x \in X : \A y \in X : ~(<<y, x>> \in OpToRel(<, Nat))
  BY NatLessThanWellFounded, WFMin
<1>2. \A y \in X : ~(y < x)
  BY <1>1 DEF OpToRel
<1>3. \A y \in X : x <= y
  BY <1>2
<1> QED
  BY <1>3 DEF Min

(* No instruction takes no time, and a transfer takes three ticks or more. *)
LEMMA LatencyFacts ==
    ASSUME NEW op \in DOMAIN Opcodes
    PROVE  Latency(op) \in Nat /\ Latency(op) >= 1 /\ (Opcodes[op] = "tma" => Latency(op) >= 3)
  BY DEF Latency, Opcodes, Store

-----------------------------------------------------------------------------
(* Steps of the NPU's driver *)

(* What is decoded of an instruction stays as long as the trace does. *)
LEMMA Decoded ==
    ASSUME trace' = trace
    PROVE  /\ \A s : Block(s)' = Block(s) /\ Op(s)' = Op(s) /\ Engine(s)' = Engine(s)
           /\ \A s : Inputs(s)' = Inputs(s) /\ Outputs(s)' = Outputs(s)
           /\ \A s, t : Writers(s, t)' = Writers(s, t)
           /\ \A ss : MemoryOps(ss)' = MemoryOps(ss)
<1>1. \A s : Block(s)' = Block(s) /\ Op(s)' = Op(s) /\ Engine(s)' = Engine(s)
  BY DEF Block, Op, Engine
<1>2. \A s : Inputs(s)' = Inputs(s) /\ Outputs(s)' = Outputs(s)
  BY DEF Inputs, Outputs, Block
<1>3. \A s, t : Writers(s, t)' = Writers(s, t)
  BY <1>1, <1>2 DEF Writers
<1>4. \A ss : MemoryOps(ss)' = MemoryOps(ss)
  BY <1>1 DEF MemoryOps
<1> QED
  BY <1>1, <1>2, <1>3, <1>4

(* A run starts in the invariant. *)
LEMMA NpuInit == ASSUME Init, tick \in Nat PROVE NpuInv
<1>1. cursor = 1 /\ trace = <<>> /\ 1..(cursor - 1) = {} /\ retired = <<>> /\ rob = {}
  BY DEF Init
<1>2. NpuTypes
  <2>1. Len(trace) = 0 /\ cursor <= Len(trace) + 1 /\ DOMAIN deps = 1..(cursor - 1)
    BY <1>1 DEF Init
  <2>2. DOMAIN active = {} /\ retired \in Seq(1..(cursor - 1))
    BY <1>1 DEF Init
  <2>3. rounds \in Nat /\ exhausted \in BOOLEAN /\ cursor \in Nat /\ 1 <= cursor
    <3>1. rounds = 0 /\ exhausted = FALSE
      BY DEF Init
    <3>2. exhausted \in BOOLEAN
      BY <3>1
    <3>3. rounds \in Nat /\ cursor \in Nat /\ 1 <= cursor
      BY <1>1, <3>1
    <3> QED
      BY <3>2, <3>3
  <2>4. /\ queued \cup outstanding \cup done \cup issued \cup rob \cup executed = {}
        /\ finished \cup completed \cup controller = {}
    BY DEF Init
  <2> QED
    BY <1>1, <2>1, <2>2, <2>3, <2>4 DEF NpuTypes
<1>3. ProducersLast /\ DependenciesKept /\ NothingStarted
  BY <1>1 DEF Init, ProducersLast, DependenciesKept, NothingStarted
<1>4. RequestsFresh /\ MemoryAccountsAgree
  BY DEF Init, RequestsFresh, MemoryAccountsAgree
<1>5. RetirementInOrder
  BY <1>1 DEF RetirementInOrder, Range
<1> QED
  BY <1>2, <1>3, <1>4, <1>5 DEF NpuInv

(* A trace is loaded before anything was dispatched. *)
LEMMA LoadStep ==
    ASSUME NpuInv, NEW t \in Traces, LoadDocument(t)
    PROVE  NpuInv'
<1> DEFINE same == /\ cursor' = cursor /\ tick' = tick /\ rounds' = rounds
                   /\ UNCHANGED trackerVars /\ UNCHANGED robVars /\ UNCHANGED memoryVars
<1>1. same /\ status = "unloaded" /\ status' = "dispatch" /\ trace' = t /\ cursor = 1
  BY DEF LoadDocument, NpuInv, NothingStarted
<1>2. 1..(cursor - 1) = {} /\ 1..(cursor' - 1) = {}
  BY <1>1
<1>3. t \in Seq(UNION {Range(u) : u \in Traces})
  BY NpuAssumption
<1>4. NpuTypes'
  <2>1. Len(t) \in Nat
    BY <1>3
  <2>2. cursor' <= Len(trace') + 1
    BY <1>1, <2>1
  <2> QED
    BY <1>1, <1>2, <2>2 DEF NpuInv, NpuTypes, trackerVars, robVars, memoryVars
<1>5. DOMAIN producers = {}
  BY <1>2 DEF NpuInv, ProducersLast
<1>6. ProducersLast'
  BY <1>1, <1>2, <1>5 DEF ProducersLast, trackerVars
<1>7. executed' = {} /\ issued' = {} /\ NothingStarted'
  BY <1>1 DEF NpuInv, NothingStarted, trackerVars, robVars, memoryVars
<1>8. DependenciesKept'
  BY <1>2, <1>7 DEF DependenciesKept
<1>9. RequestsFresh' /\ MemoryAccountsAgree'
  BY <1>1 DEF RequestsFresh, MemoryAccountsAgree
<1>10. RetirementInOrder'
  <2>1. retired' = <<>> /\ rob' = {}
    BY <1>1, <1>2 DEF NpuInv, NpuTypes, robVars
  <2> QED
    BY <1>2, <2>1 DEF RetirementInOrder, Range
<1> QED
  BY <1>4, <1>6, <1>7, <1>8, <1>9, <1>10 DEF NpuInv

(* A step that only moves the driver to a state in which nothing is        *)
(* promised about the memory path.                                         *)
LEMMA StatusStep ==
    ASSUME NpuInv, status' \notin {"unloaded", "dispatch", "execute", "track"},
           UNCHANGED <<trace, cursor, tick, rounds, trackerVars, robVars, memoryVars>>
    PROVE  NpuInv'
<1>1. NpuTypes'
  BY DEF NpuInv, NpuTypes, trackerVars, robVars, memoryVars, Op
<1>2. ProducersLast'
  BY DEF NpuInv, ProducersLast, trackerVars, Outputs, Block
<1>3. DependenciesKept'
  BY Decoded DEF NpuInv, DependenciesKept, trackerVars, robVars
<1>4. NothingStarted' /\ RequestsFresh' /\ MemoryAccountsAgree'
  BY DEF NothingStarted, RequestsFresh, MemoryAccountsAgree
<1>5. RetirementInOrder'
  BY DEF NpuInv, RetirementInOrder, robVars, Block
<1> QED
  BY <1>1, <1>2, <1>3, <1>4, <1>5 DEF NpuInv

(* The same when nothing changes at all. *)
LEMMA NpuStutter ==
    ASSUME NpuInv, UNCHANGED vars
    PROVE  NpuInv'
<1>1. NpuTypes'
  BY DEF NpuInv, NpuTypes, vars, trackerVars, robVars, memoryVars, Op
<1>2. ProducersLast'
  BY DEF NpuInv, ProducersLast, vars, trackerVars, Outputs, Block
<1>3. DependenciesKept'
  BY Decoded DEF NpuInv, DependenciesKept, vars, trackerVars, robVars
<1>4. NothingStarted' /\ RequestsFresh' /\ MemoryAccountsAgree'
  BY DEF NpuInv, NothingStarted, RequestsFresh, MemoryAccountsAgree, vars, trackerVars, robVars,
         memoryVars, MemoryOps, Engine, Op
<1>5. RetirementInOrder'
  BY DEF NpuInv, RetirementInOrder, vars, robVars, Block
<1> QED
  BY <1>1, <1>2, <1>3, <1>4, <1>5 DEF NpuInv

(* When the whole trace is dispatched, execution starts with idle memory. *)
LEMMA DispatchDoneStep ==
    ASSUME NpuInv, DispatchDone
    PROVE  NpuInv'
<1>1. /\ status = "dispatch" /\ status' = "execute" /\ tick' = tick /\ tick \in Nat
      /\ UNCHANGED <<trace, cursor, tick, rounds, trackerVars, robVars, memoryVars>>
  BY DEF DispatchDone, NpuInv, NpuTypes
<1>2. NpuTypes'
  BY <1>1 DEF NpuInv, NpuTypes, trackerVars, robVars, memoryVars, Op
<1>3. ProducersLast'
  BY <1>1 DEF NpuInv, ProducersLast, trackerVars, Outputs, Block
<1>4. DependenciesKept'
  BY <1>1, Decoded DEF NpuInv, DependenciesKept, trackerVars, robVars
<1>5. NothingStarted'
  BY <1>1 DEF NothingStarted
<1>6. active' = <<>> /\ controller' = {} /\ protocol' = RRInit /\ DOMAIN active' = {}
  BY <1>1 DEF NpuInv, NothingStarted, trackerVars, robVars, memoryVars
<1>7. RequestsFresh'
  BY <1>6 DEF RequestsFresh, RRInit, Ids, MemoryOps
<1>8. Cardinality({}) = 0 /\ MemoryRequests \in Nat
  BY FS_EmptySet, NpuAssumption
<1>9. MemoryAccountsAgree'
  <2>1. RRValid(RRInit, MemoryRequests)
    BY <1>8 DEF RRValid, RRInit, Ids
  <2> QED
    BY <1>6, <2>1 DEF MemoryAccountsAgree, MemoryOps, RRInit
<1>10. RetirementInOrder'
  BY <1>1 DEF NpuInv, RetirementInOrder, robVars, Block
<1> QED
  BY <1>2, <1>3, <1>4, <1>5, <1>7, <1>9, <1>10 DEF NpuInv

(* A dispatched instruction takes the producers that its input tiles have  *)
(* at that moment, before it becomes the producer of its own outputs.      *)
LEMMA DispatchStep ==
    ASSUME NpuInv, Dispatch
    PROVE  NpuInv'
<1>1. /\ status = "dispatch" /\ status' = "dispatch" /\ trace' = trace /\ cursor' = cursor + 1
      /\ cursor <= Len(trace) /\ tick' = tick + 1 /\ rounds' = rounds
      /\ UNCHANGED <<outstanding, done, issued, executed, active, finished, completed, retired,
                     exhausted, protocol, controller>>
  BY DEF Dispatch, memoryVars
<1>2. /\ queued' = queued \cup {cursor} /\ rob' = rob \cup {cursor}
      /\ Decodable(trace[cursor])
      /\ deps' = [s \in DOMAIN deps \cup {cursor} |->
                    IF s = cursor THEN Dependencies(cursor) ELSE deps[s]]
      /\ producers' = [t \in DOMAIN producers \cup Outputs(cursor) |->
                         IF t \in Outputs(cursor) THEN cursor ELSE producers[t]]
  BY DEF Dispatch, Rejected, ProducersAfter
<1>3. /\ cursor \in Nat /\ 1 <= cursor /\ tick \in Nat /\ rounds \in Nat /\ Len(trace) \in Nat
  <2>1. cursor \in Nat /\ 1 <= cursor /\ tick \in Nat /\ rounds \in Nat
    BY DEF NpuInv, NpuTypes
  <2>2. trace = <<>> \/ trace \in Seq(UNION {Range(u) : u \in Traces})
    BY NpuAssumption DEF NpuInv, NpuTypes
  <2> QED
    BY <2>1, <2>2
<1> DEFINE D == 1..(cursor - 1)
<1>4. 1..(cursor' - 1) = D \cup {cursor} /\ cursor \notin D
  BY <1>1, <1>3
<1>5. NpuTypes'
  <2>1. \A s \in 1..(cursor' - 1) : Op(s)' \in DOMAIN Opcodes
    <3>1. Op(cursor) \in DOMAIN Opcodes
      BY <1>2 DEF Decodable, Op
    <3> QED
      BY <1>1, <1>4, <3>1, Decoded DEF NpuInv, NpuTypes
  <2>2. DOMAIN deps' = 1..(cursor' - 1)
    BY <1>2, <1>4 DEF NpuInv, NpuTypes
  <2>3. retired' \in Seq(1..(cursor' - 1))
    <3>1. D \subseteq 1..(cursor' - 1)
      BY <1>4
    <3> HIDE DEF D
    <3>2. retired \in Seq(D)
      BY DEF D, NpuInv, NpuTypes
    <3>3. retired \in Seq(1..(cursor' - 1))
      BY <3>1, <3>2, SequenceGrows
    <3> QED
      BY <1>1, <3>3
  <2>4. cursor' \in Nat /\ 1 <= cursor' /\ cursor' <= Len(trace') + 1 /\ tick' \in Nat /\ rounds' \in Nat
    BY <1>1, <1>3
  <2>5. /\ (queued \cup outstanding \cup done \cup issued \cup rob \cup executed)' \subseteq 1..(cursor' - 1)
        /\ (finished \cup completed \cup controller)' \subseteq 1..(cursor' - 1)
    BY <1>1, <1>2, <1>4 DEF NpuInv, NpuTypes
  <2>6. (DOMAIN active \subseteq executed)' /\ exhausted' \in BOOLEAN /\ (trace' = <<>> \/ trace' \in Traces)
    BY <1>1 DEF NpuInv, NpuTypes
  <2> QED
    BY <2>1, <2>2, <2>3, <2>4, <2>5, <2>6 DEF NpuTypes
<1>6. \A x \in D : /\ Outputs(x) \subseteq DOMAIN producers
                   /\ \A t \in Outputs(x) : x <= producers[t]
  BY DEF NpuInv, ProducersLast
<1>7. \A t \in DOMAIN producers : producers[t] \in D /\ t \in Outputs(producers[t])
  BY DEF NpuInv, ProducersLast
<1>8. \A x \in D : x \in Nat /\ x <= cursor
  BY <1>3
<1> HIDE DEF D
<1>9. ProducersLast'
  <2> DEFINE P == DOMAIN producers \cup Outputs(cursor)
  <2>1. DOMAIN producers' = P
    BY <1>2
  <2>2. \A t \in P : producers'[t] = IF t \in Outputs(cursor) THEN cursor ELSE producers[t]
    BY <1>2
  <2>3. \A x \in D \cup {cursor} : Outputs(x) \subseteq P
    BY <1>6
  <2>4. \A t \in P : /\ producers'[t] \in D \cup {cursor} /\ t \in Outputs(producers'[t])
                     /\ \A x \in D \cup {cursor} : t \in Outputs(x) => x <= producers'[t]
    <3> SUFFICES ASSUME NEW t \in P
                 PROVE  /\ producers'[t] \in D \cup {cursor} /\ t \in Outputs(producers'[t])
                        /\ \A x \in D \cup {cursor} : t \in Outputs(x) => x <= producers'[t]
      OBVIOUS
    <3>1. CASE t \in Outputs(cursor)
      BY <1>3, <1>8, <2>2, <3>1
    <3>2. CASE t \notin Outputs(cursor)
      BY <1>6, <1>7, <2>2, <3>2
    <3> QED
      BY <3>1, <3>2
  <2> HIDE DEF P
  <2> QED
    BY <1>1, <1>4, <2>1, <2>3, <2>4, Decoded DEF ProducersLast
<1>10. DependenciesKept'
  <2>1. \A t \in Inputs(cursor) :
           Writers(cursor, t) # {} => Max(Writers(cursor, t)) \in Dependencies(cursor)
    <3> SUFFICES ASSUME NEW t \in Inputs(cursor), Writers(cursor, t) # {}
                 PROVE  Max(Writers(cursor, t)) \in Dependencies(cursor)
      OBVIOUS
    <3>1. PICK a : t = <<Block(cursor), a>>
      BY DEF Inputs, Tile
    <3>2. \A x \in Writers(cursor, t) : x \in D /\ t \in Outputs(x)
      BY DEF Writers, D
    <3>3. t \in DOMAIN producers
      BY <1>6, <3>2
    <3> DEFINE p == producers[t]
    <3>4. p \in D /\ t \in Outputs(p)
      BY <1>7, <3>3
    <3>5. PICK b : t = <<Block(p), b>>
      BY <3>4 DEF Outputs, Tile
    <3>6. Block(p) = Block(cursor)
      BY <3>1, <3>5
    <3>7. p \in Writers(cursor, t)
      BY <3>4, <3>6 DEF Writers, D
    <3>8. \A x \in Writers(cursor, t) : x <= p
      BY <1>6, <3>2
    <3>9. Writers(cursor, t) \in SUBSET Nat
      BY <1>8, <3>2
    <3>10. Max(Writers(cursor, t)) = p
      BY <3>7, <3>8, <3>9, MaxIs
    <3>11. p \in Dependencies(cursor)
      BY <3>3 DEF Dependencies
    <3> QED
      BY <3>10, <3>11
  <2>2. Dependencies(cursor) \subseteq D
    BY <1>7 DEF Dependencies
  <2>3. /\ DOMAIN deps = D
        /\ \A s \in D : deps[s] \subseteq D
        /\ \A s \in D : \A t \in Inputs(s) : Writers(s, t) # {} => Max(Writers(s, t)) \in deps[s]
    BY DEF NpuInv, NpuTypes, DependenciesKept, D
  <2>4. \A s \in D \cup {cursor} : deps'[s] = IF s = cursor THEN Dependencies(cursor) ELSE deps[s]
    BY <1>2, <2>3
  <2>5. executed' = {} /\ issued' = {}
    BY <1>1 DEF NpuInv, NothingStarted
  <2>6. \A s \in D \cup {cursor} : \A t \in Inputs(s) :
           Writers(s, t) # {} => Max(Writers(s, t)) \in deps'[s]
    BY <1>4, <2>1, <2>3, <2>4
  <2>7. \A s \in D \cup {cursor} : deps'[s] \subseteq D \cup {cursor}
    BY <1>4, <2>2, <2>3, <2>4
  <2> QED
    BY <1>1, <1>4, <2>5, <2>6, <2>7, Decoded DEF DependenciesKept
<1>11. NothingStarted' /\ RequestsFresh' /\ MemoryAccountsAgree'
  BY <1>1 DEF NpuInv, NothingStarted, RequestsFresh, MemoryAccountsAgree
<1>12. RetirementInOrder'
  <2>1. /\ Range(retired) \cup rob = D
        /\ \A i, j \in DOMAIN retired :
             i < j /\ Block(retired[i]) = Block(retired[j]) => retired[i] < retired[j]
        /\ \A s \in Range(retired), x \in rob : Block(x) = Block(s) => s < x
    BY DEF NpuInv, RetirementInOrder, D
  <2>2. Range(retired') \cup rob' = 1..(cursor' - 1)
    BY <1>1, <1>2, <1>4, <2>1
  <2>3. \A s \in Range(retired) : s < cursor
    BY <1>3, <2>1 DEF D
  <2>4. \A s \in Range(retired'), x \in rob' : Block(x)' = Block(s)' => s < x
    BY <1>1, <1>2, <2>1, <2>3, Decoded
  <2>5. \A i, j \in DOMAIN retired' :
           i < j /\ Block(retired[i])' = Block(retired[j])' => retired'[i] < retired'[j]
    BY <1>1, <2>1 DEF Block
  <2> QED
    BY <2>2, <2>4, <2>5 DEF RetirementInOrder
<1> QED
  BY <1>5, <1>9, <1>10, <1>11, <1>12 DEF NpuInv

(* An engine issues an instruction only when all it depends on is done;    *)
(* the completions broadcast in the same tick only add to what is done.    *)
LEMMA TrackStep ==
    ASSUME NpuInv, Track
    PROVE  NpuInv'
<1>1. /\ status = "track" /\ trace' = trace /\ cursor' = cursor
      /\ tick' = tick + 1 /\ rounds' = rounds + 1
      /\ UNCHANGED <<deps, producers, rob, executed, active, finished, completed, retired,
                     exhausted, protocol, controller>>
      /\ status' \in {"finished", "npu_execution_limit_reached", "execute"}
  BY DEF Track, robVars, memoryVars
<1> DEFINE issues == {Oldest(e) : e \in {x \in Engines : CanAccept(x) /\ Candidates(x) # {}}}
<1>2. /\ issued' = issues /\ queued' = queued \ issues
      /\ outstanding' = (outstanding \cup issues) \ completed /\ done' = done \cup completed
  BY DEF Track
<1>3. /\ cursor \in Nat /\ tick \in Nat /\ rounds \in Nat
      /\ queued \subseteq 1..(cursor - 1)
  BY DEF NpuInv, NpuTypes
<1>4. \A s \in issues : s \in queued /\ deps[s] \subseteq done
  <2> SUFFICES ASSUME NEW e \in Engines, Candidates(e) # {}
               PROVE  Oldest(e) \in queued /\ deps[Oldest(e)] \subseteq done
    OBVIOUS
  <2>1. Candidates(e) \in SUBSET Nat /\ \A s \in Candidates(e) : s \in queued /\ deps[s] \subseteq done
    <3>1. \A s \in Candidates(e) : s \in queued /\ deps[s] \subseteq done
      BY DEF Candidates, Queue, Ready
    <3>2. \A s \in queued : s \in Nat
      BY <1>3
    <3> QED
      BY <3>1, <3>2
  <2>2. Oldest(e) \in Candidates(e)
    BY <2>1, LeastBelongs DEF Oldest
  <2> QED
    BY <2>1, <2>2
<1> HIDE DEF issues
<1>5. NpuTypes'
  <2>1. /\ (queued \cup outstanding \cup done \cup issued \cup rob \cup executed)' \subseteq 1..(cursor' - 1)
        /\ (finished \cup completed \cup controller)' \subseteq 1..(cursor' - 1)
    BY <1>1, <1>2, <1>4 DEF NpuInv, NpuTypes
  <2>2. tick' \in Nat /\ rounds' \in Nat
    BY <1>1, <1>3
  <2>3. \A s \in 1..(cursor' - 1) : Op(s)' \in DOMAIN Opcodes
    BY <1>1, Decoded DEF NpuInv, NpuTypes
  <2> QED
    BY <1>1, <2>1, <2>2, <2>3 DEF NpuInv, NpuTypes
<1>6. ProducersLast'
  BY <1>1, Decoded DEF NpuInv, ProducersLast
<1>7. DependenciesKept'
  <2>1. \A s \in executed' \cup issued' : deps'[s] \subseteq done'
    BY <1>1, <1>2, <1>4 DEF NpuInv, DependenciesKept
  <2> QED
    BY <1>1, <2>1, Decoded DEF NpuInv, DependenciesKept
<1>8. NothingStarted'
  BY <1>1 DEF NothingStarted
<1>9. /\ protocol.requests \in Seq([id : Nat, payload : Nat])
      /\ protocol.asked = <<>> /\ protocol.answered = <<>>
      /\ Ids(protocol.requests) = {s \in MemoryOps(DOMAIN active) : ~active[s].delivered}
      /\ \A s \in Ids(protocol.requests) : active[s].issue = tick
      /\ \A s \in DOMAIN active :
            /\ active[s] \in [issue : Int, ready : Int, delivered : BOOLEAN]
            /\ active[s].ready = active[s].issue + Latency(Op(s))
  BY <1>1 DEF NpuInv, RequestsFresh
<1>10. RequestsFresh'
  <2> SUFFICES ASSUME status' = "execute" PROVE RequestsFresh'
    BY <1>1 DEF RequestsFresh
  <2>1. tick = tick' - 1
    BY <1>1, <1>3
  <2>2. Ids(protocol.requests)' = Ids(protocol.requests)
    BY <1>1 DEF Ids
  <2>3. \A s \in Ids(protocol.requests)' :
           active'[s].issue = IF status' = "track" THEN tick' ELSE tick' - 1
    BY <1>1, <1>9, <2>1, <2>2
  <2>4. \A s \in DOMAIN active' :
            /\ active'[s] \in [issue : Int, ready : Int, delivered : BOOLEAN]
            /\ active'[s].ready = active'[s].issue + Latency(Op(s))'
    BY <1>1, <1>9, Decoded DEF Latency
  <2>5. Ids(protocol.requests)' = {s \in MemoryOps(DOMAIN active)' : ~active'[s].delivered}
    <3>1. MemoryOps(DOMAIN active)' = MemoryOps(DOMAIN active)
      BY <1>1, Decoded DEF MemoryOps
    <3> QED
      BY <1>1, <1>9, <2>2, <3>1
  <2> QED
    BY <1>1, <1>9, <2>3, <2>4, <2>5 DEF RequestsFresh
<1>11. MemoryAccountsAgree'
  <2> SUFFICES ASSUME status' = "execute" PROVE MemoryAccountsAgree'
    BY <1>1 DEF MemoryAccountsAgree
  <2>1. /\ MemoryOps(DOMAIN active) = protocol.active
        /\ protocol.active = controller
        /\ {s \in DOMAIN active : active[s].delivered} = protocol.delivered
        /\ RRValid(protocol, MemoryRequests)
        /\ \A s \in DOMAIN active : active[s].ready >= tick + 1
    BY <1>1 DEF NpuInv, MemoryAccountsAgree
  <2>2. MemoryOps(DOMAIN active)' = MemoryOps(DOMAIN active)
    BY <1>1, Decoded DEF MemoryOps
  <2>3. RRValid(protocol, MemoryRequests)'
    BY <1>1, <2>1 DEF RRValid, Ids
  <2>4. tick' + 0 = tick + 1
    BY <1>1, <1>3
  <2>5. \A s \in DOMAIN active' : active'[s].ready >= tick' + (IF status' = "track" THEN 1 ELSE 0)
    BY <1>1, <2>1, <2>4
  <2> QED
    BY <1>1, <2>1, <2>2, <2>3, <2>5 DEF MemoryAccountsAgree
<1>12. RetirementInOrder'
  BY <1>1, Decoded DEF NpuInv, RetirementInOrder, Block
<1> QED
  BY <1>5, <1>6, <1>7, <1>8, <1>10, <1>11, <1>12 DEF NpuInv

(* Facts about an execution step: what it completes was active, and what   *)
(* enters was not executed before.                                         *)
LEMMA ExecuteFacts ==
    ASSUME NpuInv, Execute
    PROVE  /\ status = "execute" /\ trace' = trace /\ cursor' = cursor /\ tick' = tick
           /\ UNCHANGED <<rounds, queued, deps, producers, outstanding, done>>
           /\ executed' = executed \cup issued /\ issued' = {} /\ completed' = Completing
           /\ exhausted' = TRUE
           /\ controller' = (controller \cup MemoryOps(issued)) \ Completing
           /\ DOMAIN active' = (DOMAIN active \cup issued) \ Completing
           /\ Completing \subseteq DOMAIN active /\ DOMAIN active \subseteq executed
           /\ issued \cap executed = {}
           /\ executed \cup issued \subseteq 1..(cursor - 1)
           /\ status' \in {"npu_execution_runtime_failed", "npu_completion_broadcast_failed", "track"}
           /\ cursor \in Nat /\ tick \in Nat /\ rounds \in Nat
           /\ \A s \in 1..(cursor - 1) : s \in Nat /\ Block(s) \in Nat /\ Op(s) \in DOMAIN Opcodes
<1>1. /\ status = "execute" /\ trace' = trace /\ cursor' = cursor /\ tick' = tick
      /\ UNCHANGED <<rounds, queued, deps, producers, outstanding, done>>
      /\ executed' = executed \cup issued /\ issued' = {} /\ completed' = Completing
      /\ exhausted' = TRUE
      /\ controller' = (controller \cup MemoryOps(issued)) \ Completing
      /\ status' \in {"npu_execution_runtime_failed", "npu_completion_broadcast_failed", "track"}
  BY DEF Execute
<1>2. DOMAIN active' = (DOMAIN active \cup issued) \ Completing
  BY DEF Execute
<1>3. Completing \subseteq DOMAIN active
  BY DEF Completing
<1>4. /\ DOMAIN active \subseteq executed /\ executed \cup issued \subseteq 1..(cursor - 1)
      /\ cursor \in Nat /\ tick \in Nat /\ rounds \in Nat /\ cursor <= Len(trace) + 1
      /\ trace = <<>> \/ trace \in Traces
  BY DEF NpuInv, NpuTypes
<1>5. issued \cap executed = {}
  BY DEF Execute, Admissible, CanExecute
<1>6. \A s \in 1..(cursor - 1) : s \in Nat /\ Block(s) \in Nat /\ Op(s) \in DOMAIN Opcodes
  <2> SUFFICES ASSUME NEW s \in 1..(cursor - 1)
               PROVE  s \in Nat /\ Block(s) \in Nat /\ Op(s) \in DOMAIN Opcodes
    OBVIOUS
  <2>1. Op(s) \in DOMAIN Opcodes
    BY DEF NpuInv, NpuTypes
  <2>2. s \in DOMAIN trace
    <3>1. trace = <<>> \/ trace \in Seq(UNION {Range(u) : u \in Traces})
      BY <1>4, NpuAssumption
    <3>2. DOMAIN trace = 1..Len(trace) /\ Len(trace) \in Nat
      BY <3>1
    <3> QED
      BY <1>4, <3>2
  <2>3. trace \in Traces
    BY <1>4, <2>2
  <2> QED
    BY <1>4, <2>1, <2>2, <2>3, NpuAssumption DEF Block
<1> QED
  BY <1>1, <1>2, <1>3, <1>4, <1>5, <1>6

(* Retirement takes the completed front of every block's reorder buffer,   *)
(* so what stays is younger than all that retired of its block.            *)
LEMMA ExecuteRetires ==
    ASSUME NpuInv, Execute
    PROVE  RetirementInOrder' /\ rob' \subseteq rob /\ retired' \in Seq(1..(cursor - 1))
           /\ finished' \subseteq finished \cup Completing
<1> DEFINE ends == finished \cup Completing
           gone == Retiring(rob, ends)
           new == RetireOrder(gone)
           D == 1..(cursor - 1)
<1>1. rob' = rob \ gone /\ retired' = retired \o new /\ finished' = ends \ gone
  BY DEF Execute
<1>2. /\ gone \subseteq rob
      /\ \A s \in gone : \A x \in rob : Block(x) = Block(s) /\ x <= s => x \in ends
      /\ \A x \in rob \ gone : \E y \in rob : Block(y) = Block(x) /\ y <= x /\ y \notin ends
  BY DEF Retiring
<1>3. /\ rob \subseteq D /\ retired \in Seq(D)
      /\ \A s \in D : s \in Nat /\ Block(s) \in Nat
      /\ cursor \in Nat /\ cursor' = cursor /\ trace' = trace
  BY ExecuteFacts DEF NpuInv, NpuTypes
<1>4. IsFiniteSet(gone)
  <2>1. IsFiniteSet(D)
    BY <1>3, FS_Interval
  <2> QED
    BY <1>2, <1>3, <2>1, FS_Subset
<1>5. /\ Range(retired) \cup rob = D
      /\ \A i, j \in DOMAIN retired :
            i < j /\ Block(retired[i]) = Block(retired[j]) => retired[i] < retired[j]
      /\ \A s \in Range(retired), x \in rob : Block(x) = Block(s) => s < x
  BY DEF NpuInv, RetirementInOrder
<1> HIDE DEF ends, gone, D
<1>6. gone \in SUBSET Nat /\ \A s \in gone : s \in D /\ Block(s) \in Nat
  BY <1>2, <1>3
<1>7. /\ new \in Seq(gone)
      /\ \A i, j \in DOMAIN new : i < j => RetireLess(new[i], new[j])
      /\ {new[i] : i \in DOMAIN new} = gone
  BY <1>4, <1>6, RetireOnce
<1> HIDE DEF new
<1> DEFINE n == Len(retired)  m == Len(new)
<1>8. /\ n \in Nat /\ m \in Nat /\ DOMAIN retired = 1..n /\ DOMAIN new = 1..m
      /\ new \in Seq(D) /\ retired \o new \in Seq(D)
  <2>1. new \in Seq(D)
    BY <1>6, <1>7, SequenceGrows
  <2> QED
    BY <1>3, <1>7, <2>1
<1>9. /\ DOMAIN (retired \o new) = 1..(n + m)
      /\ \A i \in 1..n : (retired \o new)[i] = retired[i]
      /\ \A i \in (n + 1)..(n + m) : (retired \o new)[i] = new[i - n]
  BY <1>3, <1>8
<1> DEFINE r == retired \o new
<1> HIDE DEF n, m, r
<1>10. \A i \in 1..n : retired[i] \in D /\ retired[i] \in Range(retired)
  BY <1>3, <1>8 DEF Range
<1>11. \A i \in (n + 1)..(n + m) : i - n \in 1..m
  BY <1>8
<1>12. \A i \in 1..m : new[i] \in gone
  BY <1>7, <1>8
<1>13. \A i, j \in 1..(n + m) : i < j /\ Block(r[i]) = Block(r[j]) => r[i] < r[j]
  <2> SUFFICES ASSUME NEW i \in 1..(n + m), NEW j \in 1..(n + m), i < j, Block(r[i]) = Block(r[j])
               PROVE  r[i] < r[j]
    OBVIOUS
  <2>1. CASE j \in 1..n
    <3>1. i \in 1..n
      BY <1>8, <2>1
    <3>2. r[i] = retired[i] /\ r[j] = retired[j]
      BY <1>9, <2>1, <3>1 DEF r
    <3> QED
      BY <1>5, <1>8, <2>1, <3>1, <3>2
  <2>2. CASE j \in (n + 1)..(n + m) /\ i \in 1..n
    <3>1. r[i] = retired[i] /\ r[j] = new[j - n] /\ new[j - n] \in gone
      BY <1>9, <1>11, <1>12, <2>2 DEF r
    <3>2. retired[i] \in Range(retired) /\ new[j - n] \in rob
      BY <1>2, <1>10, <2>2, <3>1
    <3> QED
      BY <1>5, <3>1, <3>2
  <2>3. CASE i \in (n + 1)..(n + m) /\ j \in (n + 1)..(n + m)
    <3>1. r[i] = new[i - n] /\ r[j] = new[j - n] /\ i - n \in 1..m /\ j - n \in 1..m /\ i - n < j - n
      BY <1>8, <1>9, <1>11, <2>3 DEF r
    <3>2. RetireLess(new[i - n], new[j - n]) /\ new[i - n] \in gone /\ new[j - n] \in gone
      BY <1>7, <1>8, <1>12, <3>1
    <3>3. RetireLess(r[i], r[j]) /\ r[i] \in gone /\ r[j] \in gone
      BY <3>1, <3>2
    <3>4. Block(r[j]) \in Nat
      BY <1>6, <3>3
    <3>5. ~(Block(r[j]) < Block(r[j]))
      BY <3>4
    <3>6. ~(Block(r[i]) < Block(r[j]))
      BY <3>5
    <3> QED
      BY <3>3, <3>6 DEF RetireLess
  <2> QED
    BY <1>8, <2>1, <2>2, <2>3
<1>14. Range(r) = Range(retired) \cup gone
  <2>1. \A i \in 1..(n + m) : r[i] \in Range(retired) \cup gone
    <3> SUFFICES ASSUME NEW i \in 1..(n + m) PROVE r[i] \in Range(retired) \cup gone
      OBVIOUS
    <3>1. i \in 1..n \/ i \in (n + 1)..(n + m)
      BY <1>8
    <3> QED
      BY <1>9, <1>10, <1>11, <1>12, <3>1 DEF r
  <2>2. ASSUME NEW s \in Range(retired) PROVE s \in Range(r)
    <3>1. PICK i \in 1..n : retired[i] = s
      BY <1>8, <2>2 DEF Range
    <3>2. i \in 1..(n + m) /\ r[i] = s
      BY <1>8, <1>9, <3>1 DEF r
    <3> QED
      BY <1>9, <3>2 DEF Range, r
  <2>3. ASSUME NEW s \in gone PROVE s \in Range(r)
    <3>1. PICK i \in 1..m : new[i] = s
      BY <1>7, <1>8
    <3>2. n + i \in (n + 1)..(n + m) /\ n + i \in 1..(n + m) /\ (n + i) - n = i
      BY <1>8
    <3>3. r[n + i] = s
      BY <1>9, <3>1, <3>2 DEF r
    <3> QED
      BY <1>9, <3>2, <3>3 DEF Range, r
  <2>4. Range(r) \subseteq Range(retired) \cup gone
    BY <1>9, <2>1 DEF Range, r
  <2> QED
    BY <2>2, <2>3, <2>4
<1>15. \A s \in Range(r), x \in rob \ gone : Block(x) = Block(s) => s < x
  <2> SUFFICES ASSUME NEW s \in Range(r), NEW x \in rob \ gone, Block(x) = Block(s)
               PROVE  s < x
    OBVIOUS
  <2>1. CASE s \in Range(retired)
    BY <1>5, <2>1
  <2>2. CASE s \in gone
    <3>1. PICK y \in rob : Block(y) = Block(x) /\ y <= x /\ y \notin ends
      BY <1>2
    <3>2. ~(y <= s)
      BY <1>2, <2>2, <3>1
    <3>3. y \in Nat /\ s \in Nat /\ x \in Nat
      BY <1>2, <1>3, <2>2
    <3> QED
      BY <3>1, <3>2, <3>3
  <2> QED
    BY <1>14, <2>1, <2>2
<1>16. RetirementInOrder'
  <2>1. retired' = r /\ DOMAIN retired' = 1..(n + m) /\ rob' = rob \ gone
    BY <1>1, <1>9 DEF r
  <2>2. \A i, j \in DOMAIN retired' :
           i < j /\ Block(retired[i])' = Block(retired[j])' => retired'[i] < retired'[j]
    BY <1>3, <1>13, <2>1 DEF Block
  <2>3. Range(retired') \cup rob' = 1..(cursor' - 1)
    BY <1>2, <1>3, <1>5, <1>14, <2>1 DEF D
  <2>4. \A s \in Range(retired'), x \in rob' : Block(x)' = Block(s)' => s < x
    BY <1>3, <1>15, <2>1, Decoded
  <2> QED
    BY <2>2, <2>3, <2>4 DEF RetirementInOrder
<1>17. retired' \in Seq(1..(cursor - 1))
  BY <1>1, <1>8 DEF D
<1> QED
  BY <1>1, <1>16, <1>17 DEF ends

(* Every request is one tick old when the pipeline works, so all of them   *)
(* are delivered in that step, and the protocol is left with the requests  *)
(* of the instructions that enter.                                         *)
LEMMA ExecuteProtocol ==
    ASSUME NpuInv, Execute, ~MemoryFails(issued)
    PROVE  /\ Delivering = Ids(protocol.requests)
           /\ protocol'.asked = <<>> /\ protocol'.answered = <<>>
           /\ protocol'.requests \in Seq([id : Nat, payload : Nat])
           /\ Ids(protocol'.requests) = MemoryOps(issued)
           /\ protocol'.active = (protocol.active \cup MemoryOps(issued)) \ MemoryOps(Completing)
           /\ protocol'.delivered = (protocol.delivered \cup Ids(protocol.requests)) \ MemoryOps(Completing)
           /\ IsFiniteSet(MemoryOps(issued))
<1> DEFINE q == protocol.requests
           E == [id : Nat, payload : Nat]
           asked == Envelopes(MemoryOps(issued))
           answered == Envelopes(MemoryOps(Completing))
           pops == IF RequestsDue THEN Len(q) ELSE 0
<1>1. /\ q \in Seq(E)
      /\ Ids(q) = {s \in MemoryOps(DOMAIN active) : ~active[s].delivered}
      /\ \A s \in Ids(q) : active[s].issue = tick - 1
      /\ tick \in Nat
  BY ExecuteFacts DEF NpuInv, RequestsFresh
<1>2. /\ MemoryOps(issued) \in SUBSET Nat /\ IsFiniteSet(MemoryOps(issued))
      /\ MemoryOps(Completing) \in SUBSET Nat /\ IsFiniteSet(MemoryOps(Completing))
  <2>1. IsFiniteSet(1..(cursor - 1)) /\ 1..(cursor - 1) \in SUBSET Nat
    <3>1. cursor \in Nat
      BY ExecuteFacts
    <3> QED
      BY <3>1, FS_Interval
  <2>2. MemoryOps(issued) \in SUBSET (1..(cursor - 1)) /\ MemoryOps(Completing) \in SUBSET (1..(cursor - 1))
    BY ExecuteFacts DEF MemoryOps
  <2> HIDE DEF MemoryOps
  <2> QED
    BY <2>1, <2>2, FS_Subset
<1>3. /\ asked \in Seq(E) /\ Ids(asked) = MemoryOps(issued)
      /\ Ids(answered) = MemoryOps(Completing)
  BY <1>2, EnvelopesOnce
<1>4. ASSUME q # <<>> PROVE RequestsDue
  <2>1. Id(Head(q)) \in Ids(q)
    <3>1. Head(q) = q[1] /\ 1 \in DOMAIN q
      BY <1>1, <1>4
    <3> QED
      BY <3>1 DEF Ids
  <2>2. Id(Head(q)) \in DOMAIN active /\ ~active[Id(Head(q))].delivered
    BY <1>1, <2>1 DEF MemoryOps
  <2>3. tick >= active[Id(Head(q))].issue + 1
    BY <1>1, <2>1
  <2> QED
    BY <1>4, <2>2, <2>3 DEF RequestsDue, CanPeek
<1>5. q # <<>> => RequestsDue
  BY <1>4
<1>6. q = <<>> => Ids(q) = {}
  BY DEF Ids
<1>7. Delivering = Ids(q)
  BY <1>5, <1>6 DEF Delivering
<1>8. pops = Len(q) /\ Len(q) \in Nat
  BY <1>1, <1>5
<1> HIDE DEF asked, answered, pops
<1> DEFINE p == ProtocolProposed(issued)
<1>9. protocol' = RRXfer(p)
  BY DEF Execute
<1>10. /\ p.requests = q /\ p.requestPops = pops /\ p.asked = asked /\ p.answered = answered
       /\ p.active = protocol.active /\ p.delivered = protocol.delivered
  BY DEF ProtocolProposed, asked, answered, pops
<1> HIDE DEF p
<1>11. /\ protocol'.asked = <<>> /\ protocol'.answered = <<>>
       /\ protocol'.requests = SubSeq(q, pops + 1, Len(q)) \o asked
       /\ protocol'.active = (protocol.active \cup Ids(asked)) \ Ids(answered)
       /\ protocol'.delivered = (protocol.delivered \cup {Id(q[i]) : i \in 1..pops}) \ Ids(answered)
  BY <1>9, <1>10 DEF RRXfer
<1>12. protocol'.requests = asked
  <2>1. SubSeq(q, Len(q) + 1, Len(q)) = <<>>
    BY <1>1, <1>8
  <2>2. <<>> \o asked = asked
    BY <1>3
  <2> QED
    BY <1>8, <1>11, <2>1, <2>2
<1>13. {Id(q[i]) : i \in 1..pops} = Ids(q)
  BY <1>1, <1>8 DEF Ids
<1> QED
  BY <1>2, <1>3, <1>7, <1>11, <1>12, <1>13

(* What is in flight after an execution step: the instructions that enter, *)
(* due after their latency, and those that are not yet due; a memory       *)
(* instruction is delivered two ticks or more before it is due.            *)
LEMMA ExecuteActive ==
    ASSUME NpuInv, Execute, ~MemoryFails(issued)
    PROVE  /\ \A s \in issued : active'[s].issue = tick /\ ~active'[s].delivered
           /\ \A s \in DOMAIN active \ Completing :
                /\ s \notin issued
                /\ active'[s].issue = active[s].issue /\ active'[s].ready = active[s].ready
                /\ active'[s].delivered = (active[s].delivered \/ s \in Ids(protocol.requests))
           /\ \A s \in DOMAIN active' :
                /\ active'[s] \in [issue : Int, ready : Int, delivered : BOOLEAN]
                /\ active'[s].ready = active'[s].issue + Latency(Op(s))
                /\ active'[s].ready >= tick + 1
<1>1. active' = [s \in (DOMAIN active \cup issued) \ Completing |->
                   IF s \in issued THEN Execution(s)
                   ELSE [active[s] EXCEPT !.delivered = @ \/ s \in Delivering]]
  BY DEF Execute
<1>2. /\ Completing \subseteq DOMAIN active /\ DOMAIN active \subseteq executed
      /\ issued \cap executed = {} /\ tick \in Nat
      /\ executed \cup issued \subseteq 1..(cursor - 1)
      /\ \A s \in 1..(cursor - 1) : Op(s) \in DOMAIN Opcodes
  BY ExecuteFacts
<1>3. Delivering = Ids(protocol.requests)
  BY ExecuteProtocol
<1>4. /\ Ids(protocol.requests) = {s \in MemoryOps(DOMAIN active) : ~active[s].delivered}
      /\ \A s \in Ids(protocol.requests) : active[s].issue = tick - 1
      /\ \A s \in DOMAIN active :
            /\ active[s] \in [issue : Int, ready : Int, delivered : BOOLEAN]
            /\ active[s].ready = active[s].issue + Latency(Op(s))
  BY ExecuteFacts DEF NpuInv, RequestsFresh
<1>5. \A s \in DOMAIN active : active[s].ready >= tick
  <2>1. \A s \in DOMAIN active : active[s].ready >= tick + 0
    BY ExecuteFacts DEF NpuInv, MemoryAccountsAgree
  <2> QED
    BY <1>2, <2>1
<1>6. \A s \in issued : active'[s] = [issue |-> tick, ready |-> tick + Latency(Op(s)), delivered |-> FALSE]
  BY <1>1, <1>2 DEF Execution
<1>7. \A s \in DOMAIN active \ Completing :
         s \notin issued /\ active'[s] = [active[s] EXCEPT !.delivered = @ \/ s \in Delivering]
  BY <1>1, <1>2
<1>8. \A s \in DOMAIN active \ Completing :
         /\ s \notin issued
         /\ active'[s] \in [issue : Int, ready : Int, delivered : BOOLEAN]
         /\ active'[s].issue = active[s].issue /\ active'[s].ready = active[s].ready
         /\ active'[s].delivered = (active[s].delivered \/ s \in Ids(protocol.requests))
  <2> SUFFICES ASSUME NEW s \in DOMAIN active \ Completing
               PROVE  /\ s \notin issued
                      /\ active'[s] \in [issue : Int, ready : Int, delivered : BOOLEAN]
                      /\ active'[s].issue = active[s].issue /\ active'[s].ready = active[s].ready
                      /\ active'[s].delivered = (active[s].delivered \/ s \in Ids(protocol.requests))
    OBVIOUS
  <2>1. active'[s] = [active[s] EXCEPT !.delivered = @ \/ s \in Ids(protocol.requests)]
    BY <1>3, <1>7
  <2>2. active[s] \in [issue : Int, ready : Int, delivered : BOOLEAN]
    BY <1>4
  <2>3. (active[s].delivered \/ s \in Ids(protocol.requests)) \in BOOLEAN
    OBVIOUS
  <2> QED
    BY <1>7, <2>1, <2>2, <2>3
<1>9. \A s \in issued : Latency(Op(s)) \in Nat /\ Latency(Op(s)) >= 1
  BY <1>2, LatencyFacts
<1>10. \A s \in issued :
         /\ active'[s] \in [issue : Int, ready : Int, delivered : BOOLEAN]
         /\ active'[s].ready = active'[s].issue + Latency(Op(s))
         /\ active'[s].ready >= tick + 1
         /\ active'[s].issue = tick /\ ~active'[s].delivered
  <2> SUFFICES ASSUME NEW s \in issued
               PROVE  /\ active'[s].issue = tick /\ ~active'[s].delivered
                      /\ active'[s] \in [issue : Int, ready : Int, delivered : BOOLEAN]
                      /\ active'[s].ready = active'[s].issue + Latency(Op(s))
                      /\ active'[s].ready >= tick + 1
    OBVIOUS
  <2> DEFINE l == Latency(Op(s))
  <2>1. active'[s] = [issue |-> tick, ready |-> tick + l, delivered |-> FALSE] /\ l \in Nat /\ l >= 1
    BY <1>6, <1>9
  <2> HIDE DEF l
  <2>2. tick + l \in Int /\ tick + l >= tick + 1 /\ tick \in Int
    BY <1>2, <2>1
  <2>3. active'[s].ready = active'[s].issue + l /\ active'[s].ready >= tick + 1
    BY <2>1, <2>2
  <2>4. active'[s] \in [issue : Int, ready : Int, delivered : BOOLEAN]
    BY <2>1, <2>2
  <2>5. active'[s].issue = tick /\ ~active'[s].delivered
    BY <2>1
  <2> QED
    BY <2>3, <2>4, <2>5 DEF l
<1>11. \A s \in DOMAIN active \ Completing : active[s].ready >= tick + 1
  <2> SUFFICES ASSUME NEW s \in DOMAIN active \ Completing PROVE active[s].ready >= tick + 1
    OBVIOUS
  <2>1. active[s].ready \in Int /\ active[s].ready >= tick
    BY <1>4, <1>5
  <2>2. CASE active[s].ready # tick
    BY <1>2, <2>1, <2>2
  <2>3. CASE active[s].ready = tick
    <3>1. Engine(s) = "tma" /\ ~active[s].delivered
      BY <2>3 DEF Completing
    <3>2. s \in Ids(protocol.requests)
      BY <1>4, <3>1 DEF MemoryOps
    <3>3. Latency(Op(s)) \in Nat /\ Latency(Op(s)) >= 3
      BY <1>2, <3>1, LatencyFacts DEF Engine
    <3>4. active[s].ready = (tick - 1) + Latency(Op(s))
      BY <1>4, <3>2
    <3> QED
      BY <1>2, <2>3, <3>3, <3>4
  <2> QED
    BY <2>2, <2>3
<1>12. DOMAIN active' \subseteq issued \cup (DOMAIN active \ Completing)
  BY <1>1
<1>13. \A s \in DOMAIN active \ Completing :
         /\ active'[s].ready = active'[s].issue + Latency(Op(s))
         /\ active'[s].ready >= tick + 1
  BY <1>4, <1>8, <1>11
<1> QED
  BY <1>8, <1>10, <1>12, <1>13

(* The three accounts of the memory path move together: an instruction     *)
(* that enters is active, correlated and reserved, and one that completes  *)
(* leaves all three, after the protocol delivered it.                      *)
LEMMA ExecuteMemory ==
    ASSUME NpuInv, Execute, status' = "track"
    PROVE  RequestsFresh' /\ MemoryAccountsAgree'
<1> DEFINE A == DOMAIN active  C == Completing  I == issued  q == protocol.requests
<1>1. ~MemoryFails(issued)
  BY DEF Execute
<1>2. /\ protocol'.asked = <<>> /\ protocol'.answered = <<>>
      /\ protocol'.requests \in Seq([id : Nat, payload : Nat])
      /\ Ids(protocol'.requests) = MemoryOps(I)
      /\ protocol'.active = (protocol.active \cup MemoryOps(I)) \ MemoryOps(C)
      /\ protocol'.delivered = (protocol.delivered \cup Ids(q)) \ MemoryOps(C)
      /\ IsFiniteSet(MemoryOps(I))
  BY <1>1, ExecuteProtocol
<1>3. /\ \A s \in I : active'[s].issue = tick /\ ~active'[s].delivered
      /\ \A s \in A \ C : active'[s].delivered = (active[s].delivered \/ s \in Ids(q))
      /\ \A s \in DOMAIN active' :
           /\ active'[s] \in [issue : Int, ready : Int, delivered : BOOLEAN]
           /\ active'[s].ready = active'[s].issue + Latency(Op(s))
           /\ active'[s].ready >= tick + 1
  BY <1>1, ExecuteActive
<1>4. /\ status = "execute" /\ trace' = trace /\ tick' = tick
      /\ DOMAIN active' = (A \cup I) \ C /\ C \subseteq A /\ I \cap A = {}
      /\ controller' = (controller \cup MemoryOps(I)) \ C
  BY ExecuteFacts
<1>5. /\ MemoryOps(A) = protocol.active /\ protocol.active = controller
      /\ {s \in A : active[s].delivered} = protocol.delivered
      /\ RRValid(protocol, MemoryRequests)
  BY <1>4 DEF NpuInv, MemoryAccountsAgree
<1>6. Ids(q) = {s \in MemoryOps(A) : ~active[s].delivered}
  BY <1>4 DEF NpuInv, RequestsFresh
<1>7. protocol.delivered \subseteq protocol.active /\ IsFiniteSet(protocol.active)
  <2>1. protocol.delivered \subseteq protocol.active
    BY <1>5 DEF RRValid
  <2>2. cursor \in Nat /\ protocol.active \in SUBSET (1..(cursor - 1))
    BY <1>5 DEF NpuInv, NpuTypes
  <2>3. IsFiniteSet(1..(cursor - 1))
    BY <2>2, FS_Interval
  <2> QED
    BY <2>1, <2>2, <2>3, FS_Subset
<1>8. \A ss, s : s \in MemoryOps(ss) <=> s \in ss /\ Engine(s) = "tma"
  BY DEF MemoryOps
<1>9. MemoryOps(DOMAIN active)' = {s \in DOMAIN active' : Engine(s) = "tma"}
  BY <1>4, Decoded DEF MemoryOps
<1>10. MemoryOps(DOMAIN active)' = protocol'.active
  <2>1. \A s : s \in protocol'.active <=> (s \in A \cup I) /\ s \notin C /\ Engine(s) = "tma"
    BY <1>2, <1>5, <1>8
  <2>2. \A s : s \in MemoryOps(DOMAIN active)' <=> (s \in A \cup I) /\ s \notin C /\ Engine(s) = "tma"
    BY <1>4, <1>9
  <2> QED
    BY <2>1, <2>2
<1>11. protocol'.active = controller'
  BY <1>2, <1>4, <1>5, <1>8
<1>12. \A s \in I : ~active'[s].delivered
  BY <1>3
<1>13. {s \in DOMAIN active' : active'[s].delivered} = protocol'.delivered
  <2>1. \A s \in DOMAIN active' : active'[s].delivered <=> s \in protocol'.delivered
    <3> SUFFICES ASSUME NEW s \in DOMAIN active'
                 PROVE  active'[s].delivered <=> s \in protocol'.delivered
      OBVIOUS
    <3>1. CASE s \in I
      <4>1. s \notin A
        BY <1>4, <3>1
      <4>2. s \notin protocol.delivered /\ s \notin Ids(q)
        BY <1>5, <1>6, <1>8, <4>1
      <4> QED
        BY <1>2, <1>12, <3>1, <4>2
    <3>2. CASE s \in A \ C
      <4>1. active[s].delivered <=> s \in protocol.delivered
        BY <1>5, <3>2
      <4>2. s \notin MemoryOps(C)
        BY <1>8, <3>2
      <4> QED
        BY <1>2, <1>3, <3>2, <4>1, <4>2
    <3> QED
      BY <1>4, <3>1, <3>2
  <2>2. protocol'.delivered \subseteq DOMAIN active'
    BY <1>2, <1>4, <1>5, <1>6, <1>7, <1>8
  <2> QED
    BY <2>1, <2>2
<1>14. Ids(protocol'.requests) = {s \in MemoryOps(DOMAIN active)' : ~active'[s].delivered}
  <2>1. \A s \in DOMAIN active' :
           Engine(s) = "tma" /\ ~active'[s].delivered <=> s \in MemoryOps(I)
    <3> SUFFICES ASSUME NEW s \in DOMAIN active'
                 PROVE  Engine(s) = "tma" /\ ~active'[s].delivered <=> s \in MemoryOps(I)
      OBVIOUS
    <3>1. CASE s \in I
      BY <1>8, <1>12, <3>1
    <3>2. CASE s \in A \ C
      <4>1. s \notin MemoryOps(I)
        BY <1>4, <1>8, <3>2
      <4>2. ASSUME Engine(s) = "tma" PROVE active'[s].delivered
        BY <1>3, <1>6, <1>8, <3>2, <4>2
      <4> QED
        BY <4>1, <4>2
    <3> QED
      BY <1>4, <3>1, <3>2
  <2>2. MemoryOps(I) \subseteq DOMAIN active'
    BY <1>4, <1>8
  <2> QED
    BY <1>2, <1>9, <2>1, <2>2
<1>15. \A s \in MemoryOps(I) : active'[s].issue = tick'
  BY <1>3, <1>4, <1>8
<1>16. RequestsFresh'
  <2>1. \A s \in DOMAIN active' :
           /\ active'[s] \in [issue : Int, ready : Int, delivered : BOOLEAN]
           /\ active'[s].ready = active'[s].issue + Latency(Op(s))'
    BY <1>3, <1>4, Decoded DEF Latency
  <2>2. Ids(protocol'.requests) = Ids(protocol.requests)'
    BY DEF Ids
  <2> QED
    BY <1>2, <1>14, <1>15, <2>1, <2>2 DEF RequestsFresh
<1>17. RRValid(protocol', MemoryRequests)
  <2>1. Cardinality(protocol.active \cup MemoryOps(I)) <= MemoryRequests
    <3>1. ~(Cardinality(protocol.active \cup MemoryOps(issued)) > MemoryRequests)
      BY <1>1 DEF MemoryFails
    <3>2. Cardinality(protocol.active \cup MemoryOps(issued)) \in Nat /\ MemoryRequests \in Nat
      BY <1>2, <1>7, FS_Union, FS_CardinalityType, NpuAssumption
    <3> QED
      BY <3>1, <3>2
  <2>2. IsFiniteSet(protocol.active \cup MemoryOps(I)) /\ protocol'.active \in SUBSET (protocol.active \cup MemoryOps(I))
    BY <1>2, <1>7, FS_Union
  <2>3. IsFiniteSet(protocol'.active) /\ Cardinality(protocol'.active) <= Cardinality(protocol.active \cup MemoryOps(I))
    BY <2>2, FS_Subset
  <2>4. /\ Cardinality(protocol'.active) \in Nat /\ Cardinality(protocol.active \cup MemoryOps(I)) \in Nat
        /\ MemoryRequests \in Nat
    BY <2>2, <2>3, FS_CardinalityType, NpuAssumption
  <2>5. Cardinality(protocol'.active) + Len(protocol'.asked) <= MemoryRequests
    <3>1. Len(protocol'.asked) = 0
      BY <1>2
    <3> QED
      BY <2>1, <2>3, <2>4, <3>1
  <2>6. protocol'.delivered \subseteq protocol'.active
    BY <1>2, <1>5, <1>6, <1>7
  <2>7. Ids(protocol'.requests) \subseteq protocol'.active
    BY <1>2, <1>4, <1>8
  <2>8. Ids(protocol'.answered) = {}
    BY <1>2 DEF Ids
  <2> QED
    BY <2>5, <2>6, <2>7, <2>8 DEF RRValid
<1>18. MemoryAccountsAgree'
  <2>1. \A s \in DOMAIN active' : active'[s].ready >= tick' + (IF status' = "track" THEN 1 ELSE 0)
    BY <1>3, <1>4
  <2>2. RRValid(protocol, MemoryRequests)'
    BY <1>17 DEF RRValid, Ids
  <2> QED
    BY <1>10, <1>11, <1>13, <2>1, <2>2 DEF MemoryAccountsAgree
<1> QED
  BY <1>16, <1>18

(* One iteration of the pipeline keeps the invariant. *)
LEMMA ExecuteStep ==
    ASSUME NpuInv, Execute
    PROVE  NpuInv'
<1>1. /\ status = "execute" /\ trace' = trace /\ cursor' = cursor /\ tick' = tick
      /\ UNCHANGED <<rounds, queued, deps, producers, outstanding, done>>
      /\ executed' = executed \cup issued /\ issued' = {} /\ completed' = Completing
      /\ exhausted' = TRUE
      /\ controller' = (controller \cup MemoryOps(issued)) \ Completing
      /\ DOMAIN active' = (DOMAIN active \cup issued) \ Completing
      /\ Completing \subseteq DOMAIN active /\ DOMAIN active \subseteq executed
      /\ executed \cup issued \subseteq 1..(cursor - 1)
      /\ status' \in {"npu_execution_runtime_failed", "npu_completion_broadcast_failed", "track"}
  BY ExecuteFacts
<1>2. /\ RetirementInOrder' /\ rob' \subseteq rob /\ retired' \in Seq(1..(cursor - 1))
      /\ finished' \subseteq finished \cup Completing
  BY ExecuteRetires
<1>3. NpuTypes'
  <2>1. Completing \subseteq 1..(cursor - 1) /\ MemoryOps(issued) \subseteq issued
    BY <1>1 DEF MemoryOps
  <2>2. /\ (queued \cup outstanding \cup done \cup issued \cup rob \cup executed)' \subseteq 1..(cursor' - 1)
        /\ (finished \cup completed \cup controller)' \subseteq 1..(cursor' - 1)
    BY <1>1, <1>2, <2>1 DEF NpuInv, NpuTypes
  <2>3. (DOMAIN active \subseteq executed)'
    BY <1>1
  <2>4. \A s \in 1..(cursor' - 1) : Op(s)' \in DOMAIN Opcodes
    BY <1>1, Decoded DEF NpuInv, NpuTypes
  <2>5. exhausted' \in BOOLEAN
    BY <1>1
  <2> QED
    BY <1>1, <1>2, <2>2, <2>3, <2>4, <2>5 DEF NpuInv, NpuTypes
<1>4. ProducersLast'
  BY <1>1, Decoded DEF NpuInv, ProducersLast
<1>5. DependenciesKept'
  <2>1. \A s \in executed' \cup issued' : deps'[s] \subseteq done'
    BY <1>1 DEF NpuInv, DependenciesKept
  <2> QED
    BY <1>1, <2>1, Decoded DEF NpuInv, DependenciesKept
<1>6. NothingStarted'
  BY <1>1 DEF NothingStarted
<1>7. RequestsFresh' /\ MemoryAccountsAgree'
  <2>1. CASE status' = "track"
    BY <2>1, ExecuteMemory
  <2>2. CASE status' # "track"
    BY <1>1, <2>2 DEF RequestsFresh, MemoryAccountsAgree
  <2> QED
    BY <2>1, <2>2
<1> QED
  BY <1>2, <1>3, <1>4, <1>5, <1>6, <1>7 DEF NpuInv

(* A run starts in the invariant, after a reset too. *)
LEMMA NpuInitNext == (Init /\ tick \in Nat => NpuInv)'
<1>1. Init /\ tick \in Nat => NpuInv
  BY NpuInit
<1> QED
  BY <1>1, PTL

(* Every step of the NPU keeps the invariant. *)
LEMMA NpuNext ==
    ASSUME NpuInv, Next
    PROVE  NpuInv'
<1>1. CASE \E t \in Traces : LoadDocument(t)
  BY <1>1, LoadStep
<1>2. CASE WorkUnloaded \/ DispatchFails \/ ExecuteFails \/ Commit
  <2>1. /\ status' \notin {"unloaded", "dispatch", "execute", "track"}
        /\ UNCHANGED <<trace, cursor, tick, rounds, trackerVars, robVars, memoryVars>>
    BY <1>2 DEF WorkUnloaded, DispatchFails, ExecuteFails, Commit
  <2> QED
    BY <2>1, StatusStep
<1>3. CASE Dispatch \/ DispatchDone \/ Execute \/ Track
  BY <1>3, DispatchStep, DispatchDoneStep, ExecuteStep, TrackStep
<1>4. CASE Reset
  <2>1. Init' /\ tick' \in Nat
    BY <1>4 DEF Reset, Init
  <2> QED
    BY <2>1, NpuInitNext
<1> QED
  BY <1>1, <1>2, <1>3, <1>4 DEF Next, Step

(* NpuSound: whatever trace is loaded and in whatever order the engines    *)
(* complete, no instruction starts before the last writer of each of its   *)
(* input tiles has completed, every block retires its instructions once    *)
(* and in trace order, and the executions in flight, the protocol and the  *)
(* memory controller agree, none of them outliving its tick.               *)
THEOREM NpuSoundThm == DevicesSpec => []NpuSound
<1> DEFINE Inv == device = "npu" => NpuInv
<1>1. DevicesInit => Inv
  <2>1. Init => tick \in Nat
    BY DEF Init
  <2> QED
    BY <2>1, NpuInit DEF DevicesInit
<1>2. Inv /\ [DevicesNext]_all => Inv'
  <2> SUFFICES ASSUME Inv, [DevicesNext]_all, device' = "npu" PROVE NpuInv'
    OBVIOUS
  <2>1. CASE InFeed(F!Next) \/ InShowcase(S!Next)
    BY <2>1 DEF InFeed, InShowcase
  <2>2. CASE InNpu(Next)
    BY <2>2, NpuNext DEF InNpu
  <2>3. CASE UNCHANGED all
    <3>1. UNCHANGED vars /\ device' = device
      BY <2>3 DEF all, npuOnly, vars
    <3> QED
      BY <3>1, NpuStutter
  <2> QED
    BY <2>1, <2>2, <2>3 DEF DevicesNext
<1>3. Inv => NpuSound
  <2> SUFFICES ASSUME NpuInv PROVE TypeOK /\ ProducersFirst /\ RetirementInOrder /\ MemoryAccountsAgree
    BY DEF NpuSound
  <2>1. 1..(cursor - 1) \subseteq 1..Len(trace)
    <3>1. trace = <<>> \/ trace \in Seq(UNION {Range(u) : u \in Traces})
      BY NpuAssumption DEF NpuInv, NpuTypes
    <3>2. Len(trace) \in Nat /\ cursor \in Nat /\ cursor <= Len(trace) + 1
      BY <3>1 DEF NpuInv, NpuTypes
    <3> QED
      BY <3>2
  <2>2. TypeOK
    <3>1. retired \in Seq(1..Len(trace))
      BY <2>1, SequenceGrows DEF NpuInv, NpuTypes
    <3>2. \A s \in DOMAIN deps : deps[s] \subseteq 1..Len(trace)
      BY <2>1 DEF NpuInv, NpuTypes, DependenciesKept
    <3>3. /\ queued \cup outstanding \cup done \cup issued \cup rob \cup executed \subseteq 1..Len(trace)
          /\ finished \cup completed \cup controller \subseteq 1..Len(trace)
          /\ DOMAIN active \subseteq 1..Len(trace)
      BY <2>1 DEF NpuInv, NpuTypes
    <3> QED
      BY <3>1, <3>2, <3>3 DEF TypeOK, Sequences_, NpuInv, NpuTypes
  <2>3. ProducersFirst
    <3>1. executed \cup issued \subseteq 1..(cursor - 1)
      BY DEF NpuInv, NpuTypes
    <3> QED
      BY <3>1 DEF ProducersFirst, NpuInv, DependenciesKept
  <2> QED
    BY <2>2, <2>3 DEF NpuInv
<1> QED
  BY <1>1, <1>2, <1>3, PTL DEF DevicesSpec

-----------------------------------------------------------------------------
(* The showcase *)

\* Scenarios that end well are the only ones whose result is published.
ShowBasic ==
    /\ policy \in Policies /\ tick \in Nat
    /\ source \in {"pending", "committed"} => verdict = "Completed"
    /\ verdict = "Completed" => S!Delivered

\* A queue scenario: the producer's position, the queues, the sinks.
LaneInv ==
    /\ actor \in [next : [S!Lanes -> Nat]]
    /\ \A l \in S!Lanes : actor.next[l] <= Len(policy.lanes[l])
    /\ queues \in [S!Lanes -> Seq(Nat)]
    /\ sinks \in [S!Lanes -> [received : Seq(Nat), receiving : Seq(Nat)]]
    /\ \A l \in S!Lanes : sinks[l].received \o sinks[l].receiving \o queues[l]
                            = SubSeq(policy.lanes[l], 1, actor.next[l])

\* A channel scenario: the actor is at most one transfer behind the channel,
\* and an offer is either on the channel or proposed.
Channels == [ready : BOOLEAN, offer : Seq(Nat), offering : Seq(Nat), readying : Seq(BOOLEAN),
             last : Nat, transfers : Nat]
ChannelInv ==
    /\ actor \in [next : Nat, observed : Nat] /\ actor.next <= Len(S!Values)
    /\ sinks \in [S!Lanes -> [received : Seq(Nat), receiving : Seq(Nat)]]
    /\ channel \in Channels
    /\ Len(channel.offer) + Len(channel.offering) <= 1
    /\ Len(channel.readying) <= 1
    /\ channel.transfers \in {actor.observed, actor.observed + 1}
    /\ verdict = "running" => 0 \in agenda
    /\ S!RVValid(channel)
    /\ sinks[1].received \o sinks[1].receiving
         \o (IF channel.transfers > actor.observed THEN <<channel.last>> ELSE <<>>)
         \o channel.offer \o channel.offering
         = SubSeq(S!Values, 1, actor.next)

\* A memory scenario: the protocol is where the phase of the request says.
\* Before the first commit only the actor is scheduled.
Asking == [id |-> S!Current.id, payload |-> S!Current]
Answering == [id |-> S!Current.id, payload |-> S!Current.value]
Server(asked, requests, open, delivered, answered, responses, requestPops, responsePops) ==
    [asked |-> asked, requests |-> requests, active |-> open, delivered |-> delivered,
     answered |-> answered, responses |-> responses,
     requestPops |-> requestPops, responsePops |-> responsePops]
ServerFollows ==
    \/ actor.phase = "submit" /\ server = Server(<<>>, <<>>, {}, {}, <<>>, <<>>, 0, 0)
    \/ /\ S!Busy /\ actor.phase = "consume_request"
       /\ \/ server = Server(<<Asking>>, <<>>, {}, {}, <<>>, <<>>, 0, 0)
          \/ server = Server(<<>>, <<Asking>>, {S!Current.id}, {}, <<>>, <<>>, 0, 0)
          \/ /\ verdict # "running"
             /\ server = Server(<<>>, <<Asking>>, {S!Current.id}, {}, <<>>, <<>>, 1, 0)
    \/ /\ S!Busy /\ actor.phase = "respond"
       /\ server = Server(<<>>, <<>>, {S!Current.id}, {S!Current.id}, <<>>, <<>>, 0, 0)
    \/ /\ S!Busy /\ actor.phase = "consume_response"
       /\ server = Server(<<>>, <<>>, {}, {}, <<>>, <<Answering>>, 0, 0)
MemoryInv ==
    /\ actor \in [next : Nat, phase : {"submit", "consume_request", "respond", "consume_response"}]
    /\ actor.next <= Len(policy.requests)
    /\ ServerFollows
    /\ verdict = "running" =>
          agenda = S!Everything \/ (agenda = {0} /\ actor.phase = "submit")
    /\ memory \in [storage : [0..(policy.capacity - 1) -> Nat], writes : {<<>>}]
    /\ \A i \in 1..S!Written : policy.requests[i].address \in DOMAIN memory.storage
    /\ \A a \in DOMAIN memory.storage : S!LastWrite(a) = memory.storage[a]

\* The process scenario: the process resumes once, and not before its tick.
ProcessInv ==
    /\ process \in [pc : {0, 1}, status : {"runnable", "suspended", "terminated"}, value : Nat, resumes : Nat]
    /\ delta \in Nat /\ alarm \subseteq Nat
    /\ \A a \in alarm : a >= tick /\ (delta > 0 => a > tick)
    /\ process.pc = 0 => process.status = "runnable"
    /\ process.pc = 1 /\ process.status # "terminated" =>
          process.value = policy.initial /\ process.resumes = 0
    /\ process.pc = 0 => process.resumes = 0
    /\ process.pc = 1 /\ process.status = "runnable" => tick >= policy.wakeTick
    /\ process.status = "terminated" =>
          /\ process.value = policy.initial + policy.increment /\ process.resumes = 1
          /\ tick >= policy.wakeTick

ShowInv ==
    /\ ShowBasic
    /\ S!Kind \in {"queue", "lanes"} => LaneInv
    /\ S!Kind \in {"channel", "bridge"} => ChannelInv
    /\ S!Kind = "memory" => MemoryInv
    /\ S!Kind = "process" => ProcessInv

(* What a policy is, as the scenarios read it. *)
LEMMA PolicyFacts ==
    ASSUME policy \in Policies
    PROVE  /\ S!Kind \in {"queue", "lanes", "channel", "bridge", "memory", "process"}
           /\ policy.lanes \in Seq(Seq(Nat)) /\ S!Lanes = 1..Len(policy.lanes) /\ Len(policy.lanes) \in Nat
           /\ 1 \in S!Lanes /\ S!Values \in Seq(Nat) /\ MaxTicks \in Nat
           /\ \A l \in S!Lanes : policy.lanes[l] \in Seq(Nat)
           /\ S!Kind # "lanes" => S!Lanes = {1}
           /\ 1 \in S!Everything /\ 2 \in S!Everything /\ 0 \in S!Everything
<1>1. /\ S!Kind \in {"queue", "lanes", "channel", "bridge", "memory", "process"}
      /\ policy.lanes \in Seq(Seq(Nat)) /\ policy.lanes # <<>> /\ MaxTicks \in Nat
      /\ S!Kind # "lanes" => Len(policy.lanes) = 1
  BY PolicyAssumption DEF S!Kind
<1>2. S!Lanes = 1..Len(policy.lanes) /\ Len(policy.lanes) \in Nat /\ Len(policy.lanes) >= 1
  BY <1>1 DEF S!Lanes
<1>3. \A l \in S!Lanes : policy.lanes[l] \in Seq(Nat)
  BY <1>1, <1>2
<1>4. 1 \in S!Lanes
  BY <1>2
<1>5. Len(policy.lanes) = 1 => S!Lanes = {1}
  BY <1>2
<1>6. 1 \in S!Everything /\ 2 \in S!Everything /\ 0 \in S!Everything
  BY <1>2 DEF S!Everything
<1> QED
  BY <1>1, <1>2, <1>3, <1>4, <1>5, <1>6 DEF S!Values

(* A scenario starts in its invariant. *)
LEMMA ShowStart ==
    ASSUME policy \in Policies,
           tick = S!StartState.tick, delta = S!StartState.delta, alarm = S!StartState.alarm,
           agenda = S!StartState.agenda, verdict = S!StartState.verdict,
           actor = S!StartState.actor, queues = S!StartState.queues, sinks = S!StartState.sinks,
           channel = S!StartState.channel, server = S!StartState.server,
           memory = S!StartState.memory, process = S!StartState.process,
           source = "empty"
    PROVE  ShowInv
<1>1. /\ tick = 0 /\ delta = 0 /\ alarm = {} /\ verdict = "running"
      /\ agenda = IF S!Kind = "process" THEN {0, 1} ELSE {0}
      /\ queues = [l \in S!Lanes |-> <<>>] /\ sinks = [l \in S!Lanes |-> S!SinkInit]
      /\ channel = S!RVInit /\ server = S!RRInit
      /\ process = [pc |-> 0, status |-> "runnable", value |-> 0, resumes |-> 0]
      /\ memory = S!MemoryInit(IF S!Kind = "memory" THEN policy.capacity ELSE 0)
  BY DEF S!StartState
<1>2. /\ S!Kind \in {"queue", "lanes"} => actor = [next |-> [l \in S!Lanes |-> 0]]
      /\ S!Kind \in {"channel", "bridge"} => actor = [next |-> 0, observed |-> 0]
      /\ S!Kind = "memory" => actor = [next |-> 0, phase |-> "submit"]
  BY DEF S!StartState
<1>3. ShowBasic
  BY <1>1 DEF ShowBasic
<1>4. /\ \A l \in S!Lanes : policy.lanes[l] \in Seq(Nat) /\ Len(policy.lanes[l]) \in Nat
      /\ 1 \in S!Lanes /\ S!Values = policy.lanes[1]
  BY PolicyFacts DEF S!Values
<1>5. \A l \in S!Lanes : SubSeq(policy.lanes[l], 1, 0) = <<>>
  BY <1>4
<1>6. ASSUME S!Kind \in {"queue", "lanes"} PROVE LaneInv
  <2>1. actor = [next |-> [l \in S!Lanes |-> 0]]
    BY <1>2, <1>6
  <2>2. actor \in [next : [S!Lanes -> Nat]] /\ \A l \in S!Lanes : actor.next[l] = 0
    BY <2>1
  <2>3. \A l \in S!Lanes : queues[l] = <<>> /\ sinks[l] = [received |-> <<>>, receiving |-> <<>>]
    BY <1>1 DEF S!SinkInit
  <2>4. <<>> \o <<>> \o <<>> = <<>>
    OBVIOUS
  <2>5. queues \in [S!Lanes -> Seq(Nat)] /\ sinks \in [S!Lanes -> [received : Seq(Nat), receiving : Seq(Nat)]]
    BY <1>1 DEF S!SinkInit
  <2>6. \A l \in S!Lanes : actor.next[l] <= Len(policy.lanes[l])
    BY <1>4, <2>2
  <2>7. \A l \in S!Lanes : sinks[l].received \o sinks[l].receiving \o queues[l]
                             = SubSeq(policy.lanes[l], 1, actor.next[l])
    <3> SUFFICES ASSUME NEW l \in S!Lanes
                 PROVE  sinks[l].received \o sinks[l].receiving \o queues[l]
                             = SubSeq(policy.lanes[l], 1, actor.next[l])
      OBVIOUS
    <3>1. sinks[l].received = <<>> /\ sinks[l].receiving = <<>> /\ queues[l] = <<>> /\ actor.next[l] = 0
      BY <2>2, <2>3
    <3> QED
      BY <1>5, <2>4, <3>1
  <2> QED
    BY <2>2, <2>5, <2>6, <2>7 DEF LaneInv
<1>7. ASSUME S!Kind \in {"channel", "bridge"} PROVE ChannelInv
  <2>1. actor = [next |-> 0, observed |-> 0] /\ agenda = {0}
    BY <1>1, <1>2, <1>7
  <2>2. channel = [ready |-> FALSE, offer |-> <<>>, offering |-> <<>>, readying |-> <<>>,
                   last |-> 0, transfers |-> 0]
    BY <1>1 DEF S!RVInit, S!Nothing
  <2>3. /\ channel.ready = FALSE /\ channel.offer = <<>> /\ channel.offering = <<>>
        /\ channel.readying = <<>> /\ channel.transfers = 0 /\ actor.next = 0 /\ actor.observed = 0
    BY <2>1, <2>2
  <2>4. channel \in Channels
    BY <2>2 DEF Channels
  <2>5. sinks \in [S!Lanes -> [received : Seq(Nat), receiving : Seq(Nat)]]
    BY <1>1 DEF S!SinkInit
  <2>6. sinks[1].received = <<>> /\ sinks[1].receiving = <<>>
    BY <1>1, <1>4 DEF S!SinkInit
  <2>7. S!RVValid(channel)
    BY <2>3 DEF S!RVValid
  <2>8. actor \in [next : Nat, observed : Nat]
    BY <2>1
  <2>9. /\ actor.next <= Len(S!Values)
        /\ Len(channel.offer) + Len(channel.offering) <= 1 /\ Len(channel.readying) <= 1
        /\ channel.transfers \in {actor.observed, actor.observed + 1}
        /\ ~(channel.transfers > actor.observed)
    BY <1>4, <2>3
  <2>10. sinks[1].received \o sinks[1].receiving
         \o (IF channel.transfers > actor.observed THEN <<channel.last>> ELSE <<>>)
         \o channel.offer \o channel.offering
         = SubSeq(S!Values, 1, actor.next)
    BY <1>4, <1>5, <2>3, <2>6, <2>9
  <2>11. 0 \in agenda
    BY <2>1
  <2> QED
    BY <2>4, <2>5, <2>7, <2>8, <2>9, <2>10, <2>11 DEF ChannelInv
<1>8. ASSUME S!Kind = "memory" PROVE MemoryInv
  <2>1. actor = [next |-> 0, phase |-> "submit"] /\ agenda = {0}
    BY <1>1, <1>2, <1>8
  <2>2. memory = [storage |-> [a \in 0..(policy.capacity - 1) |-> 0], writes |-> <<>>]
    BY <1>1, <1>8 DEF S!MemoryInit
  <2>3. /\ memory \in [storage : [0..(policy.capacity - 1) -> Nat], writes : {<<>>}]
        /\ \A a \in DOMAIN memory.storage : memory.storage[a] = 0
    BY <2>2
  <2>4. S!Written = 0
    BY <2>1 DEF S!Written
  <2>5. 1..S!Written = {}
    BY <2>4
  <2>6. \A a : S!LastWrite(a) = 0
    BY <2>5 DEF S!LastWrite
  <2>7. ServerFollows
    BY <1>1, <2>1 DEF ServerFollows, Server, S!RRInit
  <2>8. policy.requests \in Seq([id : Nat, address : Nat, value : Nat])
    BY <1>8, PolicyAssumption DEF S!Kind
  <2>9. actor.next <= Len(policy.requests)
    BY <2>1, <2>8
  <2>10. actor \in [next : Nat, phase : {"submit", "consume_request", "respond", "consume_response"}]
    BY <2>1
  <2> QED
    BY <2>1, <2>3, <2>5, <2>6, <2>7, <2>9, <2>10 DEF MemoryInv
<1>9. ASSUME S!Kind = "process" PROVE ProcessInv
  BY <1>1 DEF ProcessInv
<1> QED
  BY <1>3, <1>6, <1>7, <1>8, <1>9 DEF ShowInv

(* Concatenation is associative. *)
LEMMA StreamAssociative ==
    \A a, b, c \in Seq(Nat) : (a \o b) \o c = a \o (b \o c) /\ a \o b \in Seq(Nat)
  BY ConcatAssociative

(* Sequence algebra: what a queue and a sink do to the stream between a    *)
(* producer and what has been received.                                    *)
StreamMoved(a, b, q) ==
    /\ Append(b, Head(q)) \in Seq(Nat) /\ Tail(q) \in Seq(Nat)
    /\ (a \o Append(b, Head(q))) \o Tail(q) = (a \o b) \o q
LEMMA StreamMoves ==
    \A a, b, q \in Seq(Nat) : q # <<>> => StreamMoved(a, b, q)
<1> SUFFICES ASSUME NEW a \in Seq(Nat), NEW b \in Seq(Nat), NEW q \in Seq(Nat), q # <<>>
             PROVE  StreamMoved(a, b, q)
  OBVIOUS
<1>1. Head(q) \in Nat /\ Tail(q) \in Seq(Nat) /\ <<Head(q)>> \in Seq(Nat)
  OBVIOUS
<1>2. Append(b, Head(q)) = b \o <<Head(q)>> /\ Append(b, Head(q)) \in Seq(Nat)
  BY <1>1, AppendIsConcat
<1>3. <<Head(q)>> \o Tail(q) = q
  OBVIOUS
<1> DEFINE h == <<Head(q)>>  r == Tail(q)  ab == a \o b
<1>4. ab \in Seq(Nat) /\ a \o (b \o h) = (a \o b) \o h
  BY <1>1, StreamAssociative
<1> HIDE DEF h, r, ab
<1>5. (ab \o h) \o r = ab \o (h \o r)
  BY <1>1, <1>4, StreamAssociative DEF h, r
<1> QED
  BY <1>1, <1>2, <1>3, <1>4, <1>5 DEF h, r, ab, StreamMoved

(* The next value extends the prefix that was handed over. *)
LEMMA PrefixExtends ==
    ASSUME NEW v \in Seq(Nat), NEW n \in Nat, n < Len(v)
    PROVE  SubSeq(v, 1, n) \o <<v[n + 1]>> = SubSeq(v, 1, n + 1) /\ v[n + 1] \in Nat
<1>1. n + 1 \in 1..Len(v) /\ 1 \in 1..Len(v) /\ n + 1 \in 1..Len(v) /\ (n + 1) - 1 = n /\ v[n + 1] \in Nat
  OBVIOUS
<1>2. SubSeq(v, 1, n + 1) = SubSeq(v, 1, (n + 1) - 1) \o <<v[n + 1]>>
  BY <1>1, SubSeqRecursiveSecond
<1> QED
  BY <1>1, <1>2

(* One epoch of a queue scenario. *)
LEMMA LaneStep ==
    ASSUME ShowInv, S!LaneEpoch
    PROVE  ShowInv'
<1> USE DEF S!Nothing
<1>1. /\ policy' = policy /\ source' = source /\ S!Kind \in {"queue", "lanes"} /\ S!Kind' = S!Kind
      /\ S!Lanes' = S!Lanes /\ source = "loaded" /\ policy \in Policies /\ tick \in Nat
  BY DEF S!LaneEpoch, S!Running, ShowInv, ShowBasic, S!Kind, S!Lanes
<1>2. LaneInv
  BY <1>1 DEF ShowInv
<1>3. /\ actor' = [next |-> [l \in S!Lanes |-> actor.next[l] + IF S!LanePushes(l) THEN 1 ELSE 0]]
      /\ queues' = [l \in S!Lanes |-> S!QueueAfter(l)]
      /\ sinks' = [l \in S!Lanes |-> S!SinkAfter(l)]
  BY DEF S!LaneEpoch
<1>4. \A l \in S!Lanes : policy.lanes[l] \in Seq(Nat) /\ Len(policy.lanes[l]) \in Nat
  BY <1>1, PolicyFacts
<1>5. /\ \A l \in S!Lanes : /\ actor.next[l] \in Nat /\ actor.next[l] <= Len(policy.lanes[l])
                            /\ queues[l] \in Seq(Nat)
                            /\ sinks[l] \in [received : Seq(Nat), receiving : Seq(Nat)]
                            /\ sinks[l].received \in Seq(Nat) /\ sinks[l].receiving \in Seq(Nat)
                            /\ sinks[l].received \o sinks[l].receiving \o queues[l]
                                 = SubSeq(policy.lanes[l], 1, actor.next[l])
  BY <1>2 DEF LaneInv
<1>6. ASSUME NEW l \in S!Lanes
      PROVE  /\ actor'.next[l] \in Nat /\ actor'.next[l] <= Len(policy.lanes[l])
             /\ queues'[l] \in Seq(Nat)
             /\ sinks'[l] \in [received : Seq(Nat), receiving : Seq(Nat)]
             /\ sinks'[l].received \o sinks'[l].receiving \o queues'[l]
                  = SubSeq(policy.lanes[l], 1, actor'.next[l])
  <2> DEFINE v == policy.lanes[l]  n == actor.next[l]  q == queues[l]
             a == sinks[l].received  b == sinks[l].receiving
             k == IF S!LanePops(l) THEN S!Receive(sinks[l], Head(q)) ELSE sinks[l]
             rest == IF S!LanePops(l) THEN Tail(q) ELSE q
             push == IF S!LanePushes(l) THEN <<v[n + 1]>> ELSE <<>>
  <2>1. /\ v \in Seq(Nat) /\ n \in Nat /\ q \in Seq(Nat) /\ a \in Seq(Nat) /\ b \in Seq(Nat)
        /\ (a \o b) \o q = SubSeq(v, 1, n) /\ n <= Len(v) /\ Len(v) \in Nat
        /\ sinks[l] \in [received : Seq(Nat), receiving : Seq(Nat)]
    BY <1>4, <1>5
  <2>2. /\ actor'.next[l] = n + IF S!LanePushes(l) THEN 1 ELSE 0
        /\ queues'[l] = rest \o push
        /\ sinks'[l] = IF 2 * l \in agenda THEN S!SinkXfer(k) ELSE k
    BY <1>3 DEF S!QueueAfter, S!SinkAfter
  <2>3. /\ k.received = a /\ k.receiving \in Seq(Nat) /\ rest \in Seq(Nat)
        /\ k \in [received : Seq(Nat), receiving : Seq(Nat)]
        /\ (a \o k.receiving) \o rest = SubSeq(v, 1, n)
    <3>1. CASE S!LanePops(l)
      <4>1. q # <<>>
        BY <3>1 DEF S!LanePops
      <4>2. k = [sinks[l] EXCEPT !.receiving = Append(b, Head(q))] /\ rest = Tail(q)
        BY <3>1 DEF S!Receive
      <4>3. /\ Append(b, Head(q)) \in Seq(Nat) /\ Tail(q) \in Seq(Nat)
            /\ (a \o Append(b, Head(q))) \o Tail(q) = (a \o b) \o q
        <5> HIDE DEF a, b, q
        <5>1. a \in Seq(Nat) /\ b \in Seq(Nat) /\ q \in Seq(Nat) /\ q # <<>>
          BY <2>1, <4>1
        <5>2. StreamMoved(a, b, q)
          BY <5>1, StreamMoves
        <5> QED
          BY <5>2 DEF StreamMoved
      <4>4. k.received = a /\ k.receiving = Append(b, Head(q)) /\ k \in [received : Seq(Nat), receiving : Seq(Nat)]
        BY <2>1, <4>2, <4>3
      <4> QED
        BY <2>1, <4>2, <4>3, <4>4
    <3>2. CASE ~S!LanePops(l)
      BY <2>1, <3>2
    <3> QED
      BY <3>1, <3>2
  <2>4. /\ push \in Seq(Nat) /\ actor'.next[l] \in Nat /\ actor'.next[l] <= Len(v)
        /\ SubSeq(v, 1, n) \o push = SubSeq(v, 1, actor'.next[l])
    <3>1. CASE S!LanePushes(l)
      <4>1. n < Len(v)
        BY <3>1 DEF S!LanePushes
      <4>2. actor'.next[l] = n + 1 /\ push = <<v[n + 1]>>
        BY <2>2, <3>1
      <4>3. SubSeq(v, 1, n) \o <<v[n + 1]>> = SubSeq(v, 1, n + 1) /\ v[n + 1] \in Nat
        BY <2>1, <4>1, PrefixExtends
      <4>4. n + 1 \in Nat /\ n + 1 <= Len(v)
        BY <2>1, <4>1
      <4> HIDE DEF v, n, push
      <4>5. push \in Seq(Nat)
        BY <4>2, <4>3
      <4> QED
        BY <4>2, <4>3, <4>4, <4>5
    <3>2. CASE ~S!LanePushes(l)
      <4>1. actor'.next[l] = n /\ push = <<>>
        BY <2>1, <2>2, <3>2
      <4>2. SubSeq(v, 1, n) \o <<>> = SubSeq(v, 1, n)
        BY <2>1
      <4>3. push \in Seq(Nat)
        BY <4>1
      <4> HIDE DEF v, n, push
      <4> QED
        BY <2>1, <4>1, <4>2, <4>3
    <3> QED
      BY <3>1, <3>2
  <2> HIDE DEF v, n, q, a, b, k, rest, push
  <2>5. ((a \o k.receiving) \o rest) \o push = (a \o k.receiving) \o (rest \o push)
    <3> DEFINE ak == a \o k.receiving
    <3>1. ak \in Seq(Nat)
      BY <2>1, <2>3
    <3> HIDE DEF ak
    <3>2. (ak \o rest) \o push = ak \o (rest \o push)
      BY <2>3, <2>4, <3>1, StreamAssociative
    <3> QED
      BY <3>2 DEF ak
  <2>6. /\ sinks'[l] \in [received : Seq(Nat), receiving : Seq(Nat)]
        /\ sinks'[l].received \o sinks'[l].receiving = a \o k.receiving
    <3>1. CASE 2 * l \in agenda
      <4>1. sinks'[l] = [received |-> a \o k.receiving, receiving |-> <<>>]
        BY <2>2, <2>3, <3>1 DEF S!SinkXfer
      <4>2. a \o k.receiving \in Seq(Nat) /\ (a \o k.receiving) \o <<>> = a \o k.receiving
        BY <2>1, <2>3, ConcatEmptySeq
      <4> QED
        BY <4>1, <4>2
    <3>2. CASE 2 * l \notin agenda
      BY <2>2, <2>3, <3>2
    <3> QED
      BY <3>1, <3>2
  <2>7. queues'[l] \in Seq(Nat)
    BY <2>2, <2>3, <2>4
  <2>8. sinks'[l].received \o sinks'[l].receiving \o queues'[l] = SubSeq(v, 1, actor'.next[l])
    BY <2>2, <2>3, <2>4, <2>5, <2>6
  <2> QED
    BY <2>4, <2>6, <2>7, <2>8 DEF v
<1>7. LaneInv'
  <2>1. actor' \in [next : [S!Lanes -> Nat]]
    BY <1>3, <1>6
  <2>2. queues' \in [S!Lanes -> Seq(Nat)] /\ sinks' \in [S!Lanes -> [received : Seq(Nat), receiving : Seq(Nat)]]
    BY <1>3, <1>6
  <2> QED
    BY <1>1, <1>6, <2>1, <2>2 DEF LaneInv
<1>8. /\ tick' \in Nat
      /\ verdict' = "Completed" =>
           /\ {l \in S!Lanes : S!LanePushes(l) \/ S!LanePops(l)} = {}
           /\ \A l \in S!Lanes : /\ actor.next[l] = Len(policy.lanes[l])
                                 /\ queues[l] = <<>> /\ sinks[l].receiving = <<>>
  <2>1. S!Close({l \in S!Lanes : S!LanePushes(l) \/ S!LanePops(l)},
             \A l \in S!Lanes : /\ actor.next[l] = Len(policy.lanes[l])
                              /\ queues[l] = <<>> /\ sinks[l].receiving = <<>>,
             "")
    BY DEF S!LaneEpoch
  <2>2. tick' \in Nat
    BY <1>1, <2>1 DEF S!Close
  <2> QED
    BY <2>1, <2>2 DEF S!Close
<1>9. verdict' = "Completed" => \A l \in S!Lanes : sinks'[l].received = policy.lanes[l]
  <2> SUFFICES ASSUME verdict' = "Completed", NEW l \in S!Lanes
               PROVE  sinks'[l].received = policy.lanes[l]
    OBVIOUS
  <2>1. /\ ~S!LanePops(l) /\ actor.next[l] = Len(policy.lanes[l])
        /\ queues[l] = <<>> /\ sinks[l].receiving = <<>>
    BY <1>8
  <2>2. sinks[l].received \o <<>> \o <<>> = SubSeq(policy.lanes[l], 1, Len(policy.lanes[l]))
    BY <1>5, <2>1
  <2>3. /\ sinks[l].received \o <<>> = sinks[l].received
        /\ SubSeq(policy.lanes[l], 1, Len(policy.lanes[l])) = policy.lanes[l]
    BY <1>4, <1>5, ConcatEmptySeq, SubSeqFull
  <2>4. sinks[l].received = policy.lanes[l]
    BY <2>2, <2>3
  <2>5. sinks'[l] = IF 2 * l \in agenda THEN S!SinkXfer(sinks[l]) ELSE sinks[l]
    BY <1>3, <2>1 DEF S!SinkAfter
  <2>6. S!SinkXfer(sinks[l]).received = sinks[l].received
    BY <2>1, <2>3 DEF S!SinkXfer
  <2> QED
    BY <2>4, <2>5, <2>6
<1>10. ShowBasic'
  <2>1. verdict' = "Completed" => S!Delivered'
    BY <1>1, <1>9 DEF S!Delivered
  <2> QED
    BY <1>1, <1>8, <2>1 DEF ShowBasic
<1> QED
  BY <1>1, <1>7, <1>10 DEF ShowInv

(* The empty sequence is neutral. *)
LEMMA StreamEmpty ==
    \A a \in Seq(Nat) : a \o <<>> = a /\ <<>> \o a = a
  BY ConcatEmptySeq

(* A sequence of length at most one. *)
LEMMA AtMostOne ==
    ASSUME NEW w \in Seq(Nat), Len(w) <= 1, w # <<>>
    PROVE  w = <<w[1]>> /\ w[1] \in Nat /\ Len(w) = 1
<1>1. Len(w) # 0 /\ Len(w) \in Nat
  BY EmptySeq
<1>2. Len(w) = 1
  <2> DEFINE x == Len(w)
  <2>1. x \in Nat /\ x # 0 /\ x <= 1
    BY <1>1
  <2> HIDE DEF x
  <2>2. x = 1
    BY <2>1
  <2> QED
    BY <2>2 DEF x
<1>3. w[1] \in Nat
  BY <1>2
<1> QED
  BY <1>2, <1>3

(* doXfer of a channel: what was on offer is transferred or stays on       *)
(* offer.                                                                  *)
LEMMA ChannelXfer ==
    ASSUME NEW p \in Channels, Len(p.offer) + Len(p.offering) <= 1
    PROVE  /\ S!RVXfer(p) \in Channels /\ S!RVValid(S!RVXfer(p))
           /\ S!RVXfer(p).offering = <<>> /\ S!RVXfer(p).readying = <<>>
           /\ p.offer \o p.offering \in Seq(Nat) /\ Len(p.offer \o p.offering) <= 1
           /\ \/ /\ S!RVXfer(p).transfers = p.transfers + 1 /\ S!RVXfer(p).offer = <<>>
                 /\ <<S!RVXfer(p).last>> = p.offer \o p.offering
              \/ /\ S!RVXfer(p).transfers = p.transfers
                 /\ S!RVXfer(p).offer = p.offer \o p.offering
<1> DEFINE able == IF p.readying = <<>> THEN p.ready ELSE p.readying[1]
           w == IF p.offering = <<>> THEN p.offer ELSE p.offering
           moves == able /\ w # <<>>
           r == S!RVXfer(p)
<1>1. /\ p.offer \in Seq(Nat) /\ p.offering \in Seq(Nat) /\ p.ready \in BOOLEAN /\ p.last \in Nat
      /\ p.transfers \in Nat /\ p.readying \in Seq(BOOLEAN)
  BY DEF Channels
<1>2. able \in BOOLEAN
  BY <1>1, EmptySeq
<1>3. w = p.offer \o p.offering /\ w \in Seq(Nat) /\ Len(w) <= 1
  <2>1. CASE p.offering = <<>>
    BY <1>1, <2>1, StreamEmpty
  <2>2. CASE p.offering # <<>>
    <3>1. Len(p.offering) # 0 /\ Len(p.offering) \in Nat /\ Len(p.offer) \in Nat
      BY <1>1, <2>2, EmptySeq
    <3>2. Len(p.offer) = 0 /\ Len(p.offering) <= 1
      <4> DEFINE x == Len(p.offer)  y == Len(p.offering)
      <4>1. x \in Nat /\ y \in Nat /\ y # 0 /\ x + y <= 1
        BY <3>1
      <4> HIDE DEF x, y
      <4>2. x = 0 /\ y <= 1
        BY <4>1
      <4> QED
        BY <4>2 DEF x, y
    <3>3. p.offer = <<>>
      BY <1>1, <3>2, EmptySeq
    <3> QED
      BY <1>1, <2>2, <3>2, <3>3, StreamEmpty
  <2> QED
    BY <2>1, <2>2
<1>4. r = [ready |-> able, offer |-> IF moves THEN <<>> ELSE w,
           offering |-> <<>>, readying |-> <<>>,
           last |-> IF moves THEN w[1] ELSE p.last,
           transfers |-> IF moves THEN p.transfers + 1 ELSE p.transfers]
  BY DEF S!RVXfer, S!Nothing
<1> HIDE DEF able, w, r
<1>5. w # <<>> => w = <<w[1]>> /\ w[1] \in Nat
  BY <1>3, AtMostOne
<1>6. r \in Channels
  BY <1>1, <1>2, <1>3, <1>4, <1>5 DEF Channels
<1>7. S!RVValid(r)
  BY <1>4 DEF S!RVValid, S!Nothing
<1>8. \/ r.transfers = p.transfers + 1 /\ r.offer = <<>> /\ <<r.last>> = w
      \/ r.transfers = p.transfers /\ r.offer = w
  BY <1>4, <1>5
<1>9. r.offering = <<>> /\ r.readying = <<>>
  BY <1>4
<1> QED
  BY <1>3, <1>6, <1>7, <1>8, <1>9 DEF r

(* One epoch of a channel scenario. *)
LEMMA ChannelStep ==
    ASSUME ShowInv, S!ChannelEpoch
    PROVE  ShowInv'
<1>1. /\ policy' = policy /\ source' = source /\ S!Kind \in {"channel", "bridge"} /\ S!Kind' = S!Kind
      /\ S!Lanes' = S!Lanes /\ source = "loaded" /\ policy \in Policies /\ tick \in Nat
      /\ S!Values' = S!Values /\ verdict = "running"
  BY DEF S!ChannelEpoch, S!Running, ShowInv, ShowBasic, S!Kind, S!Lanes, S!Values
<1>2. ChannelInv
  BY <1>1 DEF ShowInv
<1> DEFINE v == S!Values  c == channel  p == S!ChannelProposed
           k == S!ChannelSink  t == channel.transfers
<1>3. /\ actor' = [next |-> actor.next + IF S!Offers THEN 1 ELSE 0,
                   observed |-> IF S!Sees THEN channel.transfers ELSE actor.observed]
      /\ channel' = IF 1 \in agenda THEN S!RVXfer(p) ELSE p
      /\ sinks' = [sinks EXCEPT ![1] = IF 2 \in agenda THEN S!SinkXfer(k) ELSE k]
      /\ S!Close({o \in agenda : \/ o = 0 /\ (S!Offers \/ S!Sees)
                                 \/ o = 1 /\ S!RVPending(p)
                                 \/ o = 2 /\ k.receiving # <<>>},
               S!ChannelQuiet, "")
  BY DEF S!ChannelEpoch
<1>4. /\ v \in Seq(Nat) /\ Len(v) \in Nat /\ S!Lanes = {1} /\ v = policy.lanes[1]
      /\ 0 \in S!Everything
  BY <1>1, PolicyFacts DEF S!Values
<1>5. /\ actor.next \in Nat /\ actor.observed \in Nat /\ actor.next <= Len(v)
      /\ sinks[1] \in [received : Seq(Nat), receiving : Seq(Nat)]
      /\ sinks \in [S!Lanes -> [received : Seq(Nat), receiving : Seq(Nat)]]
      /\ sinks[1].received \in Seq(Nat) /\ sinks[1].receiving \in Seq(Nat)
      /\ c \in Channels /\ c.offer \in Seq(Nat) /\ c.offering \in Seq(Nat)
      /\ c.last \in Nat /\ t \in Nat /\ c.readying \in Seq(BOOLEAN) /\ c.ready \in BOOLEAN
      /\ Len(c.offer) + Len(c.offering) <= 1 /\ Len(c.readying) <= 1
      /\ t = actor.observed \/ t = actor.observed + 1
      /\ 0 \in agenda
      /\ S!RVValid(c)
  BY <1>1, <1>2, <1>4 DEF ChannelInv, Channels
<1> DEFINE x == IF channel.transfers > actor.observed THEN <<channel.last>> ELSE <<>>
<1>6. sinks[1].received \o sinks[1].receiving \o x \o c.offer \o c.offering = SubSeq(v, 1, actor.next)
  BY <1>2 DEF ChannelInv
<1> DEFINE a == sinks[1].received  b == sinks[1].receiving  o == c.offer  g == c.offering
<1> HIDE DEF v, c, t, a, b, o, g, p, k
(* The producer. *)
<1>7. /\ p \in Channels /\ p.offer = o /\ p.last = c.last /\ p.transfers = t /\ p.ready = c.ready
      /\ Len(p.readying) <= 1 /\ Len(p.offer) + Len(p.offering) <= 1
      /\ IF S!Offers THEN o = <<>> /\ g = <<>> /\ p.offering = <<v[actor.next + 1]>>
                     ELSE p.offering = g
      /\ S!Offers => actor.next < Len(v) /\ v[actor.next + 1] \in Nat
  <2> DEFINE f == IF S!Offers THEN [c EXCEPT !.offering = <<v[actor.next + 1]>>] ELSE c
  <2>1. p = IF S!Unfinished THEN [f EXCEPT !.readying = <<S!Ready>>] ELSE f
    BY DEF p, c, v, S!ChannelProposed, S!ProposeReady, S!ProposeOffer, S!Just
  <2>2. S!Offers => actor.next < Len(v) /\ o = <<>> /\ g = <<>>
    BY DEF S!Offers, S!CanOffer, S!Nothing, o, g, c, v
  <2>3. S!Offers => v[actor.next + 1] \in Nat
    <3>1. SUFFICES ASSUME actor.next < Len(v) PROVE v[actor.next + 1] \in Nat
      BY <2>2
    <3>2. v \in Seq(Nat) /\ actor.next \in Nat
      BY <1>4, <1>5
    <3> QED
      BY <3>1, <3>2, PrefixExtends
  <2>4. S!Offers => <<v[actor.next + 1]>> \in Seq(Nat) /\ Len(<<v[actor.next + 1]>>) = 1 /\ Len(o) = 0
    BY <2>2, <2>3
  <2>5. c \in Channels /\ Len(c.readying) <= 1 /\ c.offer = o /\ c.offering = g /\ Len(o) + Len(g) <= 1
        /\ c.transfers = t
    BY <1>5 DEF o, g, t, c
  <2>6. /\ f \in Channels /\ f.offer = o /\ f.last = c.last /\ f.transfers = t /\ f.ready = c.ready
        /\ Len(f.readying) <= 1 /\ Len(f.offer) + Len(f.offering) <= 1
        /\ IF S!Offers THEN f.offering = <<v[actor.next + 1]>> ELSE f.offering = g
    <3>1. CASE S!Offers
      <4>1. f = [c EXCEPT !.offering = <<v[actor.next + 1]>>]
        BY <3>1
      <4> HIDE DEF f
      <4>2. /\ f \in Channels /\ f.offer = o /\ f.last = c.last /\ f.transfers = t /\ f.ready = c.ready
            /\ f.readying = c.readying /\ f.offering = <<v[actor.next + 1]>>
        BY <2>4, <2>5, <3>1, <4>1 DEF Channels
      <4>3. Len(f.offer) = 0 /\ Len(f.offering) = 1
        BY <2>4, <3>1, <4>2
      <4> QED
        BY <2>5, <3>1, <4>2, <4>3
    <3>2. CASE ~S!Offers
      BY <2>5, <3>2
    <3> QED
      BY <3>1, <3>2
  <2> HIDE DEF f
  <2>7. S!Ready \in BOOLEAN
    <3>1. CASE S!Kind = "bridge"
      <4>1. S!Ready = (tick % policy.targetPeriod = 0)
        BY <3>1 DEF S!Ready
      <4> QED
        BY <4>1
    <3>2. CASE S!Kind # "bridge"
      <4>1. S!Ready = (tick \in policy.readyTicks)
        BY <3>2 DEF S!Ready
      <4> QED
        BY <4>1
    <3> QED
      BY <3>1, <3>2
  <2>8. <<S!Ready>> \in Seq(BOOLEAN) /\ Len(<<S!Ready>>) = 1
    BY <2>7
  <2>9. CASE S!Unfinished
    <3>1. p = [f EXCEPT !.readying = <<S!Ready>>]
      BY <2>1, <2>9
    <3>2. /\ p \in Channels /\ p.offer = f.offer /\ p.last = f.last /\ p.transfers = f.transfers
          /\ p.ready = f.ready /\ p.offering = f.offering /\ p.readying = <<S!Ready>>
      BY <2>6, <2>8, <3>1 DEF Channels
    <3>3. Len(p.readying) <= 1
      BY <2>8, <3>2
    <3> QED
      BY <2>2, <2>3, <2>6, <3>2, <3>3
  <2>10. CASE ~S!Unfinished
    BY <2>1, <2>2, <2>3, <2>6, <2>10
  <2> QED
    BY <2>9, <2>10
<1>8. /\ actor'.next \in Nat /\ actor'.next <= Len(v) /\ actor'.observed = t
      /\ actor' \in [next : Nat, observed : Nat]
      /\ p.offering \in Seq(Nat) /\ o \in Seq(Nat) /\ g \in Seq(Nat)
  <2>1. actor'.next = actor.next + IF S!Offers THEN 1 ELSE 0
    BY <1>3
  <2>2. actor'.next \in Nat /\ actor'.next <= Len(v)
    <3> DEFINE i == actor.next  j == actor'.next  m == Len(v)
    <3>1. i \in Nat /\ m \in Nat /\ i <= m /\ (S!Offers => i < m) /\ j = i + IF S!Offers THEN 1 ELSE 0
      BY <1>4, <1>5, <1>7, <2>1
    <3> HIDE DEF i, j, m
    <3>2. j \in Nat /\ j <= m
      BY <3>1
    <3> QED
      BY <3>2 DEF j, m
  <2>3. S!Sees <=> t > actor.observed
    BY DEF S!Sees, t
  <2>4. actor'.observed = t
    <3>1. actor'.observed = IF S!Sees THEN t ELSE actor.observed
      BY <1>3 DEF t
    <3> QED
      BY <1>5, <2>3, <3>1
  <2> QED
    BY <1>3, <1>5, <1>7, <2>1, <2>2, <2>4 DEF Channels, o, g
(* What the sink takes in and what it commits. *)
<1>9. /\ a \in Seq(Nat) /\ b \in Seq(Nat) /\ x \in Seq(Nat)
      /\ k \in [received : Seq(Nat), receiving : Seq(Nat)]
      /\ k.received \o k.receiving = (a \o b) \o x /\ (a \o b) \o x \in Seq(Nat)
  <2>1. a \in Seq(Nat) /\ b \in Seq(Nat) /\ sinks[1] \in [received : Seq(Nat), receiving : Seq(Nat)]
    BY <1>5 DEF a, b
  <2>2. c.last \in Nat /\ a \o b \in Seq(Nat)
    BY <1>5, <2>1, StreamAssociative
  <2>3. CASE S!Sees
    <3>1. x = <<c.last>>
      BY <2>3 DEF S!Sees, c
    <3>2. k = [received |-> a, receiving |-> Append(b, c.last)]
      BY <2>1, <2>3 DEF k, c, a, b, S!ChannelSink, S!Receive
    <3>3. Append(b, c.last) = b \o <<c.last>> /\ <<c.last>> \in Seq(Nat) /\ Append(b, c.last) \in Seq(Nat)
      BY <2>1, <2>2, AppendIsConcat
    <3> HIDE DEF x
    <3>4. a \o (b \o x) = (a \o b) \o x /\ (a \o b) \o x \in Seq(Nat)
      BY <2>1, <2>2, <3>1, <3>3, StreamAssociative
    <3> QED
      BY <2>1, <3>1, <3>2, <3>3, <3>4
  <2>4. CASE ~S!Sees
    <3>1. x = <<>> /\ k = sinks[1]
      BY <2>4 DEF S!Sees, k, S!ChannelSink
    <3>2. (a \o b) \o <<>> = a \o b /\ <<>> \in Seq(Nat)
      BY <2>2, StreamEmpty
    <3> HIDE DEF x
    <3> QED
      BY <2>1, <2>2, <3>1, <3>2 DEF a, b
  <2> QED
    BY <2>3, <2>4
<1>10. /\ sinks' \in [S!Lanes -> [received : Seq(Nat), receiving : Seq(Nat)]]
       /\ sinks'[1].received \o sinks'[1].receiving = (a \o b) \o x
  <2>1. sinks'[1] = IF 2 \in agenda THEN S!SinkXfer(k) ELSE k
    BY <1>3, <1>4, <1>5
  <2>2. /\ sinks'[1] \in [received : Seq(Nat), receiving : Seq(Nat)]
        /\ sinks'[1].received \o sinks'[1].receiving = k.received \o k.receiving
    <3>1. CASE 2 \in agenda
      <4>1. sinks'[1] = [received |-> k.received \o k.receiving, receiving |-> <<>>]
        BY <2>1, <3>1 DEF S!SinkXfer
      <4>2. (k.received \o k.receiving) \o <<>> = k.received \o k.receiving /\ k.received \o k.receiving \in Seq(Nat)
        <5> HIDE DEF x
        <5> QED
        BY <1>9, StreamEmpty
      <4> DEFINE m == k.received \o k.receiving
      <4>3. sinks'[1] = [received |-> m, receiving |-> <<>>] /\ m \in Seq(Nat) /\ m \o <<>> = m
        BY <4>1, <4>2
      <4> HIDE DEF m
      <4>4. sinks'[1] \in [received : Seq(Nat), receiving : Seq(Nat)] /\ sinks'[1].received \o sinks'[1].receiving = m
        BY <4>3
      <4> QED
        BY <4>4 DEF m
    <3>2. CASE 2 \notin agenda
      BY <1>9, <2>1, <3>2
    <3> QED
      BY <3>1, <3>2
  <2> QED
    BY <1>3, <1>4, <1>5, <1>9, <2>2
(* The channel. *)
<1> DEFINE y == IF channel'.transfers > actor'.observed THEN <<channel'.last>> ELSE <<>>
<1>11. /\ channel' \in Channels /\ S!RVValid(channel')
       /\ Len(channel'.offer) + Len(channel'.offering) <= 1 /\ Len(channel'.readying) <= 1
       /\ channel'.transfers \in {actor'.observed, actor'.observed + 1}
       /\ \A s \in Seq(Nat) : ((s \o y) \o channel'.offer) \o channel'.offering = (s \o o) \o p.offering
  <2>1. CASE 1 \notin agenda
    <3>1. channel' = p
      BY <1>3, <2>1
    <3>2. /\ channel' \in Channels /\ channel'.offer = o /\ channel'.offering = p.offering
          /\ Len(channel'.offer) + Len(channel'.offering) <= 1 /\ Len(channel'.readying) <= 1
          /\ channel'.transfers = actor'.observed
      BY <1>7, <1>8, <3>1
    <3>3. S!RVValid(channel')
      <4>1. channel'.ready = c.ready /\ channel'.offer = c.offer
        BY <1>7, <3>1 DEF o
      <4> QED
        BY <1>5, <4>1 DEF S!RVValid
    <3>4. y = <<>>
      BY <1>5, <1>8, <3>2
    <3>5. \A s \in Seq(Nat) : s \o y = s
      BY <3>4, StreamEmpty
    <3> QED
      BY <3>2, <3>3, <3>5
  <2>2. CASE 1 \in agenda
    <3> DEFINE w == p.offer \o p.offering
    <3>1. channel' = S!RVXfer(p)
      BY <1>3, <2>2
    <3>2. /\ channel' \in Channels /\ S!RVValid(channel')
          /\ channel'.offering = <<>> /\ channel'.readying = <<>>
          /\ w \in Seq(Nat) /\ Len(w) <= 1
          /\ \/ channel'.transfers = t + 1 /\ channel'.offer = <<>> /\ <<channel'.last>> = w
             \/ channel'.transfers = t /\ channel'.offer = w
      BY <1>7, <3>1, ChannelXfer
    <3>3. Len(channel'.offering) = 0 /\ Len(channel'.readying) = 0
      BY <3>2
    <3> HIDE DEF w
    <3>4. \/ channel'.transfers = actor'.observed + 1 /\ channel'.offer = <<>> /\ y = w
          \/ channel'.transfers = actor'.observed /\ channel'.offer = w /\ y = <<>>
      BY <1>5, <1>8, <3>2
    <3>5. Len(channel'.offer) <= 1
      <4>1. Len(<<>>) = 0
        OBVIOUS
      <4> QED
        BY <3>2, <3>4, <4>1
    <3>6. Len(channel'.offer) + Len(channel'.offering) <= 1
      <4> DEFINE n == Len(channel'.offer)
      <4>1. n \in Nat /\ n <= 1
        BY <3>2, <3>5 DEF Channels
      <4> HIDE DEF n
      <4>2. n + 0 <= 1
        BY <4>1
      <4> QED
        BY <3>3, <4>2 DEF n
    <3> HIDE DEF y
    <3>7. ASSUME NEW s \in Seq(Nat)
          PROVE  ((s \o y) \o channel'.offer) \o channel'.offering = (s \o o) \o p.offering
      <4>1. (s \o o) \o p.offering = s \o w
        BY <1>7, <1>8, StreamAssociative DEF w
      <4>2. s \o w \in Seq(Nat)
        BY <3>2, StreamAssociative
      <4>3. s \o <<>> = s /\ (s \o w) \o <<>> = s \o w
        BY <4>2, StreamEmpty
      <4>4. (s \o y) \o channel'.offer = s \o w
        BY <3>4, <4>3
      <4> QED
        BY <3>2, <4>1, <4>3, <4>4
    <3>8. Len(channel'.readying) <= 1
      BY <3>3
    <3>9. channel'.transfers \in {actor'.observed, actor'.observed + 1}
      BY <3>4
    <3> QED
      BY <3>2, <3>6, <3>7, <3>8, <3>9
  <2> QED
    BY <2>1, <2>2
<1> HIDE DEF x
<1>12. ((sinks'[1].received \o sinks'[1].receiving \o y) \o channel'.offer) \o channel'.offering
          = SubSeq(v, 1, actor'.next)
  <2> HIDE DEF y
  <2> DEFINE m == (a \o b) \o x
  <2>1. m \in Seq(Nat) /\ sinks'[1].received \o sinks'[1].receiving = m
    BY <1>9, <1>10
  <2>2. (m \o o) \o g = SubSeq(v, 1, actor.next)
    BY <1>6 DEF a, b, o, g
  <2> HIDE DEF m
  <2>3. ((m \o y) \o channel'.offer) \o channel'.offering = (m \o o) \o p.offering
    BY <1>11, <2>1
  <2>4. (m \o o) \o p.offering = SubSeq(v, 1, actor'.next)
    <3>1. CASE S!Offers
      <4>1. o = <<>> /\ g = <<>> /\ p.offering = <<v[actor.next + 1]>> /\ actor.next < Len(v)
        BY <1>7, <3>1
      <4>2. m \o <<>> = m
        BY <2>1, StreamEmpty
      <4>3. m = SubSeq(v, 1, actor.next) /\ m \o o = m
        BY <2>2, <4>1, <4>2
      <4>4. actor'.next = actor.next + 1
        BY <1>3, <3>1
      <4>5. SubSeq(v, 1, actor.next) \o <<v[actor.next + 1]>> = SubSeq(v, 1, actor.next + 1)
        BY <1>4, <1>5, <4>1, PrefixExtends
      <4> QED
        BY <4>1, <4>3, <4>4, <4>5
    <3>2. CASE ~S!Offers
      <4>1. actor'.next = actor.next + 0
        BY <1>3, <3>2
      <4>2. actor'.next = actor.next
        BY <1>5, <4>1
      <4>3. p.offering = g
        BY <1>7, <3>2
      <4> QED
        BY <2>2, <4>2, <4>3
    <3> QED
      BY <3>1, <3>2
  <2> QED
    BY <2>1, <2>3, <2>4
(* The end of the run. *)
<1>13. /\ tick' \in Nat
       /\ verdict' = "running" => 0 \in agenda'
       /\ verdict' = "Completed" => ~S!Offers /\ ~S!Sees /\ S!ChannelQuiet
  <2> DEFINE went == {j \in agenda : \/ j = 0 /\ (S!Offers \/ S!Sees)
                                     \/ j = 1 /\ S!RVPending(p)
                                     \/ j = 2 /\ k.receiving # <<>>}
  <2>1. S!Close(went, S!ChannelQuiet, "")
    BY <1>3
  <2>2. went = {} => ~S!Offers /\ ~S!Sees
    BY <1>5
  <2> HIDE DEF went
  <2>3. /\ tick' = tick + 1
        /\ verdict' = IF went # {} THEN IF tick + 1 >= MaxTicks THEN "max_ticks_reached" ELSE "running"
                      ELSE IF S!ChannelQuiet THEN "Completed" ELSE "no_progress"
        /\ agenda' = IF went = {} THEN {} ELSE S!Everything
    BY <2>1 DEF S!Close
  <2>4. tick' \in Nat
    BY <1>1, <2>3
  <2> QED
    BY <1>4, <2>2, <2>3, <2>4
<1>14. verdict' = "Completed" => sinks'[1].received = v
  <2> SUFFICES ASSUME verdict' = "Completed" PROVE sinks'[1].received = v
    OBVIOUS
  <2>1. /\ ~S!Offers /\ ~S!Sees /\ actor.next = Len(v) /\ o = <<>> /\ g = <<>> /\ b = <<>>
    BY <1>13 DEF S!ChannelQuiet, S!RVQuiescent, S!RVPending, S!Nothing, v, o, g, b, c
  <2>2. x = <<>> /\ k = sinks[1]
    BY <2>1 DEF x, k, S!Sees, S!ChannelSink
  <2>3. (((a \o b) \o x) \o o) \o g = SubSeq(v, 1, Len(v))
    BY <1>6, <2>1 DEF a, b, o, g
  <2>4. a \o <<>> = a /\ SubSeq(v, 1, Len(v)) = v
    BY <1>4, <1>9, StreamEmpty, SubSeqFull
  <2>5. a = v
    BY <2>1, <2>2, <2>3, <2>4
  <2>6. sinks'[1] = IF 2 \in agenda THEN S!SinkXfer(sinks[1]) ELSE sinks[1]
    BY <1>3, <1>4, <1>5, <2>2
  <2>7. S!SinkXfer(sinks[1]).received = a \o b
    BY DEF S!SinkXfer, a, b
  <2> QED
    BY <2>1, <2>4, <2>5, <2>6, <2>7 DEF a
<1>15. ShowBasic'
  <2>1. verdict' = "Completed" => S!Delivered'
    BY <1>1, <1>4, <1>14 DEF S!Delivered
  <2> QED
    BY <1>1, <1>13, <2>1 DEF ShowBasic
<1>16. ChannelInv'
  BY <1>1, <1>8, <1>10, <1>11, <1>12, <1>13 DEF ChannelInv, v
<1> QED
  BY <1>1, <1>15, <1>16 DEF ShowInv

(* Sequences of at most one envelope. *)
LEMMA EnvelopeFacts ==
    /\ S!Ids(<<>>) = {} /\ Len(<<>>) = 0 /\ SubSeq(<<>>, 0 + 1, Len(<<>>)) = <<>> /\ <<>> \o <<>> = <<>>
    /\ \A e : /\ S!Ids(<<e>>) = {e.id} /\ Len(<<e>>) = 1 /\ <<e>>[1] = e /\ <<e>> # <<>>
              /\ SubSeq(<<e>>, 1 + 1, Len(<<e>>)) = <<>>
              /\ <<>> \o <<e>> = <<e>> /\ Append(<<>>, e) = <<e>>
              /\ {S!Id(<<e>>[i]) : i \in 1..1} = {e.id}
    /\ \A s : {S!Id(s[i]) : i \in 1..0} = {}
<1>1. S!Ids(<<>>) = {}
  BY DEF S!Ids
<1>2. ASSUME NEW e
      PROVE  /\ S!Ids(<<e>>) = {e.id} /\ Len(<<e>>) = 1 /\ <<e>>[1] = e /\ <<e>> # <<>>
             /\ SubSeq(<<e>>, 1 + 1, Len(<<e>>)) = <<>>
             /\ <<>> \o <<e>> = <<e>> /\ Append(<<>>, e) = <<e>>
             /\ {S!Id(<<e>>[i]) : i \in 1..1} = {e.id}
  <2>1. S!Ids(<<e>>) = {e.id}
    BY DEF S!Ids, S!Id
  <2>2. Len(<<e>>) = 1 /\ <<e>>[1] = e /\ <<e>> # <<>>
    OBVIOUS
  <2>3. SubSeq(<<e>>, 2, 1) = <<>> /\ 1 + 1 = 2
    BY SubSeqEmpty
  <2>4. <<>> \o <<e>> = <<e>> /\ Append(<<>>, e) = <<e>>
    OBVIOUS
  <2>5. {S!Id(<<e>>[i]) : i \in 1..1} = {e.id}
    BY DEF S!Id
  <2> QED
    BY <2>1, <2>2, <2>3, <2>4, <2>5
<1>3. \A s : {S!Id(s[i]) : i \in 1..0} = {}
  OBVIOUS
<1>4. Len(<<>>) = 0 /\ SubSeq(<<>>, 0 + 1, Len(<<>>)) = <<>> /\ <<>> \o <<>> = <<>>
  OBVIOUS
<1> QED
  BY <1>1, <1>2, <1>3, <1>4

(* The state of the protocol, the calls and doXfer, field by field. *)
LEMMA ServerFields ==
    ASSUME NEW a, NEW b, NEW c, NEW d, NEW f, NEW g, NEW h, NEW i
    PROVE  /\ Server(a, b, c, d, f, g, h, i).asked = a
           /\ Server(a, b, c, d, f, g, h, i).requests = b
           /\ Server(a, b, c, d, f, g, h, i).active = c
           /\ Server(a, b, c, d, f, g, h, i).delivered = d
           /\ Server(a, b, c, d, f, g, h, i).answered = f
           /\ Server(a, b, c, d, f, g, h, i).responses = g
           /\ Server(a, b, c, d, f, g, h, i).requestPops = h
           /\ Server(a, b, c, d, f, g, h, i).responsePops = i
           /\ S!ProposePopRequest(Server(a, b, c, d, f, g, h, i)) = Server(a, b, c, d, f, g, h + 1, i)
           /\ S!ProposePopResponse(Server(a, b, c, d, f, g, h, i)) = Server(a, b, c, d, f, g, h, i + 1)
<1> DEFINE r == Server(a, b, c, d, f, g, h, i)
<1>1. /\ r.asked = a /\ r.requests = b /\ r.active = c /\ r.delivered = d
      /\ r.answered = f /\ r.responses = g /\ r.requestPops = h /\ r.responsePops = i
  BY DEF Server
<1>3. S!ProposePopRequest(r) = Server(a, b, c, d, f, g, h + 1, i)
  BY DEF Server, S!ProposePopRequest
<1>5. S!ProposePopResponse(r) = Server(a, b, c, d, f, g, h, i + 1)
  BY DEF Server, S!ProposePopResponse
<1> QED
  BY <1>1, <1>3, <1>5 DEF r

(* The calls that submit an envelope. *)
LEMMA ServerProposals ==
    ASSUME NEW a, NEW b, NEW c, NEW d, NEW f, NEW g, NEW h, NEW i, NEW e
    PROVE  /\ S!ProposeRequest(Server(a, b, c, d, f, g, h, i), e) = Server(Append(a, e), b, c, d, f, g, h, i)
           /\ S!ProposeResponse(Server(a, b, c, d, f, g, h, i), e) = Server(a, b, c, d, Append(f, e), g, h, i)
<1>1. S!ProposeRequest(Server(a, b, c, d, f, g, h, i), e) = Server(Append(a, e), b, c, d, f, g, h, i)
  BY DEF Server, S!ProposeRequest
<1>2. S!ProposeResponse(Server(a, b, c, d, f, g, h, i), e) = Server(a, b, c, d, Append(f, e), g, h, i)
  BY DEF Server, S!ProposeResponse
<1> QED
  BY <1>1, <1>2

(* doXfer of the protocol in each state the scenario brings it to. *)
LEMMA ServerXfer ==
    ASSUME NEW e
    PROVE  /\ S!RRXfer(Server(<<>>, <<>>, {}, {}, <<>>, <<>>, 0, 0))
                = Server(<<>>, <<>>, {}, {}, <<>>, <<>>, 0, 0)
           /\ S!RRXfer(Server(<<e>>, <<>>, {}, {}, <<>>, <<>>, 0, 0))
                = Server(<<>>, <<e>>, {e.id}, {}, <<>>, <<>>, 0, 0)
           /\ S!RRXfer(Server(<<>>, <<e>>, {e.id}, {}, <<>>, <<>>, 1, 0))
                = Server(<<>>, <<>>, {e.id}, {e.id}, <<>>, <<>>, 0, 0)
           /\ S!RRXfer(Server(<<>>, <<>>, {e.id}, {e.id}, <<e>>, <<>>, 0, 0))
                = Server(<<>>, <<>>, {}, {}, <<>>, <<e>>, 0, 0)
           /\ S!RRXfer(Server(<<>>, <<>>, {}, {}, <<>>, <<e>>, 0, 1))
                = Server(<<>>, <<>>, {}, {}, <<>>, <<>>, 0, 0)
<1>0. \A r : S!RRXfer(r) =
        Server(<<>>,
               SubSeq(r.requests, r.requestPops + 1, Len(r.requests)) \o r.asked,
               (r.active \cup S!Ids(r.asked)) \ S!Ids(r.answered),
               (r.delivered \cup {S!Id(r.requests[i]) : i \in 1..r.requestPops}) \ S!Ids(r.answered),
               <<>>,
               SubSeq(r.responses, r.responsePops + 1, Len(r.responses)) \o r.answered,
               0, 0)
  BY DEF S!RRXfer, Server
<1>1. S!RRXfer(Server(<<>>, <<>>, {}, {}, <<>>, <<>>, 0, 0))
        = Server(<<>>, <<>>, {}, {}, <<>>, <<>>, 0, 0)
  <2> DEFINE r == Server(<<>>, <<>>, {}, {}, <<>>, <<>>, 0, 0)
  <2>1. /\ r.asked = <<>> /\ r.requests = <<>> /\ r.active = {} /\ r.delivered = {}
        /\ r.answered = <<>> /\ r.responses = <<>> /\ r.requestPops = 0 /\ r.responsePops = 0
    BY DEF Server
  <2> HIDE DEF r
  <2>2. SubSeq(r.requests, r.requestPops + 1, Len(r.requests)) \o r.asked = <<>>
    BY <2>1, EnvelopeFacts
  <2>3. SubSeq(r.responses, r.responsePops + 1, Len(r.responses)) \o r.answered = <<>>
    BY <2>1, EnvelopeFacts
  <2>4. (r.active \cup S!Ids(r.asked)) \ S!Ids(r.answered) = {}
    BY <2>1, EnvelopeFacts
  <2>5. (r.delivered \cup {S!Id(r.requests[i]) : i \in 1..r.requestPops}) \ S!Ids(r.answered) = {}
    BY <2>1, EnvelopeFacts
  <2>6. S!RRXfer(r) = Server(<<>>, <<>>, {}, {}, <<>>, <<>>, 0, 0)
    BY <1>0, <2>2, <2>3, <2>4, <2>5
  <2> QED
    BY <2>6 DEF r
<1>2. S!RRXfer(Server(<<e>>, <<>>, {}, {}, <<>>, <<>>, 0, 0))
        = Server(<<>>, <<e>>, {e.id}, {}, <<>>, <<>>, 0, 0)
  <2> DEFINE r == Server(<<e>>, <<>>, {}, {}, <<>>, <<>>, 0, 0)
  <2>1. /\ r.asked = <<e>> /\ r.requests = <<>> /\ r.active = {} /\ r.delivered = {}
        /\ r.answered = <<>> /\ r.responses = <<>> /\ r.requestPops = 0 /\ r.responsePops = 0
    BY DEF Server
  <2> HIDE DEF r
  <2>2. SubSeq(r.requests, r.requestPops + 1, Len(r.requests)) \o r.asked = <<e>>
    BY <2>1, EnvelopeFacts
  <2>3. SubSeq(r.responses, r.responsePops + 1, Len(r.responses)) \o r.answered = <<>>
    BY <2>1, EnvelopeFacts
  <2>4. (r.active \cup S!Ids(r.asked)) \ S!Ids(r.answered) = {e.id}
    BY <2>1, EnvelopeFacts
  <2>5. (r.delivered \cup {S!Id(r.requests[i]) : i \in 1..r.requestPops}) \ S!Ids(r.answered) = {}
    BY <2>1, EnvelopeFacts
  <2>6. S!RRXfer(r) = Server(<<>>, <<e>>, {e.id}, {}, <<>>, <<>>, 0, 0)
    BY <1>0, <2>2, <2>3, <2>4, <2>5
  <2> QED
    BY <2>6 DEF r
<1>3. S!RRXfer(Server(<<>>, <<e>>, {e.id}, {}, <<>>, <<>>, 1, 0))
        = Server(<<>>, <<>>, {e.id}, {e.id}, <<>>, <<>>, 0, 0)
  <2> DEFINE r == Server(<<>>, <<e>>, {e.id}, {}, <<>>, <<>>, 1, 0)
  <2>1. /\ r.asked = <<>> /\ r.requests = <<e>> /\ r.active = {e.id} /\ r.delivered = {}
        /\ r.answered = <<>> /\ r.responses = <<>> /\ r.requestPops = 1 /\ r.responsePops = 0
    BY DEF Server
  <2> HIDE DEF r
  <2>2. SubSeq(r.requests, r.requestPops + 1, Len(r.requests)) \o r.asked = <<>>
    BY <2>1, EnvelopeFacts
  <2>3. SubSeq(r.responses, r.responsePops + 1, Len(r.responses)) \o r.answered = <<>>
    BY <2>1, EnvelopeFacts
  <2>4. (r.active \cup S!Ids(r.asked)) \ S!Ids(r.answered) = {e.id}
    BY <2>1, EnvelopeFacts
  <2>5. (r.delivered \cup {S!Id(r.requests[i]) : i \in 1..r.requestPops}) \ S!Ids(r.answered) = {e.id}
    BY <2>1, EnvelopeFacts
  <2>6. S!RRXfer(r) = Server(<<>>, <<>>, {e.id}, {e.id}, <<>>, <<>>, 0, 0)
    BY <1>0, <2>2, <2>3, <2>4, <2>5
  <2> QED
    BY <2>6 DEF r
<1>4. S!RRXfer(Server(<<>>, <<>>, {e.id}, {e.id}, <<e>>, <<>>, 0, 0))
        = Server(<<>>, <<>>, {}, {}, <<>>, <<e>>, 0, 0)
  <2> DEFINE r == Server(<<>>, <<>>, {e.id}, {e.id}, <<e>>, <<>>, 0, 0)
  <2>1. /\ r.asked = <<>> /\ r.requests = <<>> /\ r.active = {e.id} /\ r.delivered = {e.id}
        /\ r.answered = <<e>> /\ r.responses = <<>> /\ r.requestPops = 0 /\ r.responsePops = 0
    BY DEF Server
  <2> HIDE DEF r
  <2>2. SubSeq(r.requests, r.requestPops + 1, Len(r.requests)) \o r.asked = <<>>
    BY <2>1, EnvelopeFacts
  <2>3. SubSeq(r.responses, r.responsePops + 1, Len(r.responses)) \o r.answered = <<e>>
    BY <2>1, EnvelopeFacts
  <2>4. (r.active \cup S!Ids(r.asked)) \ S!Ids(r.answered) = {}
    BY <2>1, EnvelopeFacts
  <2>5. (r.delivered \cup {S!Id(r.requests[i]) : i \in 1..r.requestPops}) \ S!Ids(r.answered) = {}
    BY <2>1, EnvelopeFacts
  <2>6. S!RRXfer(r) = Server(<<>>, <<>>, {}, {}, <<>>, <<e>>, 0, 0)
    BY <1>0, <2>2, <2>3, <2>4, <2>5
  <2> QED
    BY <2>6 DEF r
<1>5. S!RRXfer(Server(<<>>, <<>>, {}, {}, <<>>, <<e>>, 0, 1))
        = Server(<<>>, <<>>, {}, {}, <<>>, <<>>, 0, 0)
  <2> DEFINE r == Server(<<>>, <<>>, {}, {}, <<>>, <<e>>, 0, 1)
  <2>1. /\ r.asked = <<>> /\ r.requests = <<>> /\ r.active = {} /\ r.delivered = {}
        /\ r.answered = <<>> /\ r.responses = <<e>> /\ r.requestPops = 0 /\ r.responsePops = 1
    BY DEF Server
  <2> HIDE DEF r
  <2>2. SubSeq(r.requests, r.requestPops + 1, Len(r.requests)) \o r.asked = <<>>
    BY <2>1, EnvelopeFacts
  <2>3. SubSeq(r.responses, r.responsePops + 1, Len(r.responses)) \o r.answered = <<>>
    BY <2>1, EnvelopeFacts
  <2>4. (r.active \cup S!Ids(r.asked)) \ S!Ids(r.answered) = {}
    BY <2>1, EnvelopeFacts
  <2>5. (r.delivered \cup {S!Id(r.requests[i]) : i \in 1..r.requestPops}) \ S!Ids(r.answered) = {}
    BY <2>1, EnvelopeFacts
  <2>6. S!RRXfer(r) = Server(<<>>, <<>>, {}, {}, <<>>, <<>>, 0, 0)
    BY <1>0, <2>2, <2>3, <2>4, <2>5
  <2> QED
    BY <2>6 DEF r
<1> QED
  BY <1>1, <1>2, <1>3, <1>4, <1>5

(* The calls of the scenario on the protocol, in the states it makes them  *)
(* in.                                                                     *)
LEMMA ServerCalls ==
    ASSUME NEW e
    PROVE  /\ S!ProposeRequest(Server(<<>>, <<>>, {}, {}, <<>>, <<>>, 0, 0), e)
                = Server(<<e>>, <<>>, {}, {}, <<>>, <<>>, 0, 0)
           /\ S!ProposePopRequest(Server(<<>>, <<e>>, {e.id}, {}, <<>>, <<>>, 0, 0))
                = Server(<<>>, <<e>>, {e.id}, {}, <<>>, <<>>, 1, 0)
           /\ S!ProposeResponse(Server(<<>>, <<>>, {e.id}, {e.id}, <<>>, <<>>, 0, 0), e)
                = Server(<<>>, <<>>, {e.id}, {e.id}, <<e>>, <<>>, 0, 0)
           /\ S!ProposePopResponse(Server(<<>>, <<>>, {}, {}, <<>>, <<e>>, 0, 0))
                = Server(<<>>, <<>>, {}, {}, <<>>, <<e>>, 0, 1)
           /\ ~S!CanPopRequest(Server(<<e>>, <<>>, {}, {}, <<>>, <<>>, 0, 0))
           /\ S!CanPopRequest(Server(<<>>, <<e>>, {e.id}, {}, <<>>, <<>>, 0, 0))
           /\ S!NextRequest(Server(<<>>, <<e>>, {e.id}, {}, <<>>, <<>>, 0, 0)) = e
           /\ S!CanRespond(Server(<<>>, <<>>, {e.id}, {e.id}, <<>>, <<>>, 0, 0), e.id)
           /\ S!CanPopResponse(Server(<<>>, <<>>, {}, {}, <<>>, <<e>>, 0, 0))
<1>1. Append(<<>>, e) = <<e>> /\ 0 + 1 = 1 /\ Len(<<>>) = 0 /\ Len(<<e>>) = 1 /\ <<e>>[1] = e /\ S!Ids(<<>>) = {}
  BY EnvelopeFacts
<1>2. S!ProposeRequest(Server(<<>>, <<>>, {}, {}, <<>>, <<>>, 0, 0), e)
                = Server(<<e>>, <<>>, {}, {}, <<>>, <<>>, 0, 0)
  <2> DEFINE nil == <<>>  w == <<e>>
  <2>1. w = Append(nil, e)
    BY <1>1
  <2> HIDE DEF nil, w
  <2>2. S!ProposeRequest(Server(nil, nil, {}, {}, nil, nil, 0, 0), e) = Server(w, nil, {}, {}, nil, nil, 0, 0)
    BY <2>1, ServerProposals
  <2> QED
    BY <2>2 DEF nil, w
<1>3. S!ProposePopRequest(Server(<<>>, <<e>>, {e.id}, {}, <<>>, <<>>, 0, 0))
                = Server(<<>>, <<e>>, {e.id}, {}, <<>>, <<>>, 1, 0)
  BY <1>1, ServerFields
<1>4. S!ProposeResponse(Server(<<>>, <<>>, {e.id}, {e.id}, <<>>, <<>>, 0, 0), e)
                = Server(<<>>, <<>>, {e.id}, {e.id}, <<e>>, <<>>, 0, 0)
  <2> DEFINE nil == <<>>  w == <<e>>
  <2>1. w = Append(nil, e)
    BY <1>1
  <2> HIDE DEF nil, w
  <2>2. S!ProposeResponse(Server(nil, nil, {e.id}, {e.id}, nil, nil, 0, 0), e)
          = Server(nil, nil, {e.id}, {e.id}, w, nil, 0, 0)
    BY <2>1, ServerProposals
  <2> QED
    BY <2>2 DEF nil, w
<1>5. S!ProposePopResponse(Server(<<>>, <<>>, {}, {}, <<>>, <<e>>, 0, 0))
                = Server(<<>>, <<>>, {}, {}, <<>>, <<e>>, 0, 1)
  BY <1>1, ServerFields
<1>6. ~S!CanPopRequest(Server(<<e>>, <<>>, {}, {}, <<>>, <<>>, 0, 0))
  BY <1>1 DEF S!CanPopRequest, Server
<1>7. /\ S!CanPopRequest(Server(<<>>, <<e>>, {e.id}, {}, <<>>, <<>>, 0, 0))
      /\ S!NextRequest(Server(<<>>, <<e>>, {e.id}, {}, <<>>, <<>>, 0, 0)) = e
  BY <1>1 DEF S!CanPopRequest, S!NextRequest, Server
<1>8. S!CanRespond(Server(<<>>, <<>>, {e.id}, {e.id}, <<>>, <<>>, 0, 0), e.id)
  BY <1>1 DEF S!CanRespond, Server
<1>9. S!CanPopResponse(Server(<<>>, <<>>, {}, {}, <<>>, <<e>>, 0, 0))
  BY <1>1 DEF S!CanPopResponse, Server
<1> QED
  BY <1>2, <1>3, <1>4, <1>5, <1>6, <1>7, <1>8, <1>9

(* doXfer of a memory without writes changes nothing; a proposed write     *)
(* replaces one word.                                                      *)
LEMMA MemoryCommits ==
    ASSUME NEW D, NEW m \in [storage : [D -> Nat], writes : {<<>>}]
    PROVE  /\ S!MemoryXfer(m) = m /\ DOMAIN m.storage = D
           /\ \A a \in D, v \in Nat :
                /\ S!MemoryXfer(S!ProposeWrite(m, a, v)) \in [storage : [D -> Nat], writes : {<<>>}]
                /\ S!MemoryXfer(S!ProposeWrite(m, a, v)).storage[a] = v
                /\ \A x \in D : x # a =>
                      S!MemoryXfer(S!ProposeWrite(m, a, v)).storage[x] = m.storage[x]
<1>1. m.writes = <<>> /\ m.storage \in [D -> Nat] /\ m = [storage |-> m.storage, writes |-> <<>>]
      /\ DOMAIN m.writes = {}
  OBVIOUS
<1>2. S!MemoryXfer(m) = m
  <2>1. [a \in DOMAIN m.storage |-> IF a \in DOMAIN m.writes THEN m.writes[a] ELSE m.storage[a]] = m.storage
    BY <1>1
  <2> QED
    BY <1>1, <2>1 DEF S!MemoryXfer
<1>3. ASSUME NEW a \in D, NEW v \in Nat
      PROVE  /\ S!MemoryXfer(S!ProposeWrite(m, a, v)) \in [storage : [D -> Nat], writes : {<<>>}]
             /\ S!MemoryXfer(S!ProposeWrite(m, a, v)).storage[a] = v
             /\ \A x \in D : x # a =>
                   S!MemoryXfer(S!ProposeWrite(m, a, v)).storage[x] = m.storage[x]
  <2> DEFINE p == S!ProposeWrite(m, a, v)
  <2>1. /\ p.storage = m.storage /\ DOMAIN p.writes = {a} /\ p.writes[a] = v
    BY <1>1 DEF S!ProposeWrite
  <2> HIDE DEF p
  <2>2. S!MemoryXfer(p) = [storage |-> [x \in D |-> IF x = a THEN v ELSE m.storage[x]], writes |-> <<>>]
    BY <1>1, <2>1 DEF S!MemoryXfer
  <2>3. /\ S!MemoryXfer(p) \in [storage : [D -> Nat], writes : {<<>>}]
        /\ S!MemoryXfer(p).storage[a] = v
        /\ \A x \in D : x # a => S!MemoryXfer(p).storage[x] = m.storage[x]
    BY <1>1, <2>2
  <2> QED
    BY <2>3 DEF p
<1> QED
  BY <1>1, <1>2, <1>3

(* The last write of an address among the first w requests. *)
WrittenBy(w, a) == {i \in 1..w : policy.requests[i].address = a}
LastOf(w, a) == IF WrittenBy(w, a) = {} THEN 0 ELSE policy.requests[S!Max(WrittenBy(w, a))].value
LEMMA LastWriteMoves ==
    ASSUME NEW n \in Nat, NEW a
    PROVE  /\ LastOf(n + 1, policy.requests[n + 1].address) = policy.requests[n + 1].value
           /\ a # policy.requests[n + 1].address => LastOf(n + 1, a) = LastOf(n, a)
<1>1. ASSUME a # policy.requests[n + 1].address PROVE LastOf(n + 1, a) = LastOf(n, a)
  <2>1. WrittenBy(n + 1, a) = WrittenBy(n, a)
    BY <1>1 DEF WrittenBy
  <2> QED
    BY <2>1 DEF LastOf
<1>2. LastOf(n + 1, policy.requests[n + 1].address) = policy.requests[n + 1].value
  <2> DEFINE W == WrittenBy(n + 1, policy.requests[n + 1].address)
  <2>1. n + 1 \in W /\ \A x \in W : x \in Int /\ n + 1 >= x
    BY DEF WrittenBy
  <2> HIDE DEF W
  <2>2. S!Max(W) = n + 1
    <3>1. S!Max(W) \in W /\ \A x \in W : S!Max(W) >= x
      BY <2>1 DEF S!Max
    <3> QED
      BY <2>1, <3>1
  <2> QED
    BY <2>1, <2>2 DEF W, LastOf
<1> QED
  BY <1>1, <1>2

(* LastWrite, read before and after a step. *)
LEMMA LastWriteIs ==
    ASSUME NEW a PROVE S!LastWrite(a) = LastOf(S!Written, a)
  BY DEF S!LastWrite, LastOf, WrittenBy

(* One epoch of the memory scenario. *)
LEMMA MemoryStep ==
    ASSUME ShowInv, S!MemoryEpoch
    PROVE  ShowInv'
<1>1. /\ policy' = policy /\ source' = source /\ S!Kind = "memory" /\ S!Kind' = S!Kind
      /\ source = "loaded" /\ policy \in Policies /\ tick \in Nat /\ verdict = "running"
  BY DEF S!MemoryEpoch, S!Running, ShowInv, ShowBasic, S!Kind
<1>2. MemoryInv
  BY <1>1 DEF ShowInv
<1> DEFINE D == 0..(policy.capacity - 1)
           n == actor.next
           memo == [storage : [D -> Nat], writes : {<<>>}]
           Follows(k, f) ==
             \/ f = "submit" /\ server' = Server(<<>>, <<>>, {}, {}, <<>>, <<>>, 0, 0)
             \/ /\ k < Len(policy.requests) /\ f = "consume_request"
                /\ \/ server' = Server(<<Asking>>, <<>>, {}, {}, <<>>, <<>>, 0, 0)
                   \/ server' = Server(<<>>, <<Asking>>, {S!Current.id}, {}, <<>>, <<>>, 0, 0)
                   \/ /\ verdict' # "running"
                      /\ server' = Server(<<>>, <<Asking>>, {S!Current.id}, {}, <<>>, <<>>, 1, 0)
             \/ /\ k < Len(policy.requests) /\ f = "respond"
                /\ server' = Server(<<>>, <<>>, {S!Current.id}, {S!Current.id}, <<>>, <<>>, 0, 0)
             \/ /\ k < Len(policy.requests) /\ f = "consume_response"
                /\ server' = Server(<<>>, <<>>, {}, {}, <<>>, <<Answering>>, 0, 0)
<1>3. /\ policy.requests \in Seq([id : Nat, address : Nat, value : Nat]) /\ Len(policy.requests) \in Nat
      /\ 0 \in S!Everything /\ 1 \in S!Everything /\ 2 \in S!Everything
  <2>1. policy.requests \in Seq([id : Nat, address : Nat, value : Nat])
    BY <1>1, PolicyAssumption DEF S!Kind
  <2> QED
    BY <1>1, <2>1, PolicyFacts
<1>4. /\ actor = [next |-> n, phase |-> actor.phase] /\ n \in Nat /\ n <= Len(policy.requests)
      /\ actor.phase \in {"submit", "consume_request", "respond", "consume_response"}
      /\ ServerFollows
      /\ agenda = S!Everything \/ (agenda = {0} /\ actor.phase = "submit")
      /\ memory \in memo
      /\ \A i \in 1..S!Written : policy.requests[i].address \in D
      /\ \A a \in D : LastOf(S!Written, a) = memory.storage[a]
  <2>1. actor \in [next : Nat, phase : {"submit", "consume_request", "respond", "consume_response"}]
    BY <1>2 DEF MemoryInv
  <2>2. memory \in memo /\ DOMAIN memory.storage = D
    BY <1>2 DEF MemoryInv
  <2>3. \A a \in D : S!LastWrite(a) = memory.storage[a]
    BY <1>2, <2>2 DEF MemoryInv
  <2>4. \A a \in D : LastOf(S!Written, a) = memory.storage[a]
    BY <2>3, LastWriteIs
  <2>5. actor = [next |-> n, phase |-> actor.phase] /\ n \in Nat
        /\ actor.phase \in {"submit", "consume_request", "respond", "consume_response"}
    BY <2>1
  <2> QED
    BY <1>1, <1>2, <2>2, <2>4, <2>5 DEF MemoryInv
<1>5. /\ actor' = IF ~S!Advances THEN actor
                 ELSE [next |-> n + (IF actor.phase = "consume_response" THEN 1 ELSE 0),
                       phase |-> S!NextPhase[actor.phase]]
      /\ server' = IF 1 \in agenda /\ ~S!OutOfRange THEN S!RRXfer(S!ServerProposed) ELSE S!ServerProposed
      /\ memory' = IF 2 \in agenda /\ ~S!OutOfRange THEN S!MemoryXfer(S!MemoryProposed) ELSE S!MemoryProposed
  BY DEF S!MemoryEpoch
<1>6. /\ tick' \in Nat
      /\ verdict' = "running" => agenda' = S!Everything
      /\ verdict' = "Completed" => ~S!Busy
      /\ S!OutOfRange => verdict' # "running" /\ verdict' # "Completed"
  <2> DEFINE went == {j \in agenda : \/ j = 0 /\ S!Advances
                                     \/ j = 1 /\ S!RRPending(S!ServerProposed)
                                     \/ j = 2 /\ S!MemoryProposed.writes # <<>>}
             quiet == ~S!Busy /\ S!RRQuiescent(server) /\ memory.writes = <<>>
             error == IF S!OutOfRange THEN "showcase_memory_address_out_of_range" ELSE ""
  <2>1. S!Close(went, quiet, error)
    BY DEF S!MemoryEpoch
  <2> HIDE DEF went
  <2>2. /\ tick' = tick + 1
        /\ verdict' = IF error # "" THEN error
                      ELSE IF went # {} THEN IF tick + 1 >= MaxTicks THEN "max_ticks_reached" ELSE "running"
                      ELSE IF quiet THEN "Completed" ELSE "no_progress"
        /\ agenda' = IF went = {} THEN {} ELSE S!Everything
    BY <2>1 DEF S!Close
  <2>3. tick' \in Nat
    <3>1. tick' = tick + 1
      BY <2>2
    <3> QED
      BY <1>1, <3>1
  <2>4. S!OutOfRange => verdict' = "showcase_memory_address_out_of_range"
    BY <2>2
  <2>5. ~S!OutOfRange => verdict' = IF went # {} THEN IF tick + 1 >= MaxTicks THEN "max_ticks_reached" ELSE "running"
                      ELSE IF quiet THEN "Completed" ELSE "no_progress"
    BY <2>2
  <2> QED
    BY <2>2, <2>3, <2>4, <2>5
<1>7. ASSUME NEW k \in Nat, NEW f \in {"submit", "consume_request", "respond", "consume_response"},
             actor' = [next |-> k, phase |-> f], k <= Len(policy.requests),
             k = n \/ f = "submit", Follows(k, f), memory' \in memo,
             \A i \in 1..(k + IF f \in {"respond", "consume_response"} THEN 1 ELSE 0) : policy.requests[i].address \in D,
             \A a \in D : LastOf(k + IF f \in {"respond", "consume_response"} THEN 1 ELSE 0, a) = memory'.storage[a],
             ~S!Busy => k = n
      PROVE  ShowInv'
  <2>1. /\ actor'.next = k /\ actor'.phase = f
        /\ S!Written' = k + IF f \in {"respond", "consume_response"} THEN 1 ELSE 0
        /\ S!Busy' <=> k < Len(policy.requests)
        /\ S!Current' = policy.requests[k + 1]
    BY <1>1, <1>7 DEF S!Written, S!Busy, S!Current
  <2>2. k = n => S!Current' = S!Current /\ Asking' = Asking /\ Answering' = Answering
    BY <2>1 DEF S!Current, Asking, Answering
  <2>3. ServerFollows'
    <3>1. CASE f = "submit"
      BY <1>7, <2>1, <3>1 DEF ServerFollows
    <3>2. CASE f # "submit"
      <4>1. k = n
        BY <1>7, <3>2
      <4>2. S!Current' = S!Current /\ Asking' = Asking /\ Answering' = Answering
        BY <2>2, <4>1
      <4> QED
        BY <1>7, <2>1, <3>2, <4>2 DEF ServerFollows
    <3> QED
      BY <3>1, <3>2
  <2>4. DOMAIN memory'.storage = D
    BY <1>7
  <2>5. \A a : S!LastWrite(a)' = LastOf(S!Written', a)
    BY <1>1 DEF S!LastWrite, LastOf, WrittenBy
  <2>6. \A i \in 1..S!Written' : policy.requests[i].address \in DOMAIN memory'.storage
    BY <1>7, <2>1, <2>4
  <2>7. \A a \in DOMAIN memory'.storage : S!LastWrite(a)' = memory'.storage[a]
    BY <1>7, <2>1, <2>4, <2>5
  <2>8. S!Everything' = S!Everything
    BY <1>1 DEF S!Everything
  <2>9. actor' \in [next : Nat, phase : {"submit", "consume_request", "respond", "consume_response"}]
    BY <1>7
  <2>10. MemoryInv'
    BY <1>1, <1>6, <1>7, <2>1, <2>3, <2>6, <2>7, <2>8, <2>9 DEF MemoryInv
  <2>11. verdict' = "Completed" => S!Delivered'
    <3>1. SUFFICES ASSUME verdict' = "Completed" PROVE S!Delivered'
      OBVIOUS
    <3>2. ~S!Busy /\ k = n
      BY <1>6, <1>7, <3>1
    <3>3. ~(n < Len(policy.requests))
      BY <3>2 DEF S!Busy
    <3>4. actor'.next = Len(policy.requests)
      BY <1>3, <1>7, <2>1, <3>2, <3>3
    <3>5. memory'.writes = <<>>
      BY <1>7
    <3> QED
      BY <1>1, <3>4, <3>5 DEF S!Delivered
  <2>12. ShowBasic'
    BY <1>1, <1>6, <2>11 DEF ShowBasic
  <2> QED
    BY <1>1, <2>10, <2>12 DEF ShowInv
<1>8. /\ S!MemoryXfer(memory) = memory
      /\ \A a \in D, v \in Nat :
                /\ S!MemoryXfer(S!ProposeWrite(memory, a, v)) \in memo
                /\ S!MemoryXfer(S!ProposeWrite(memory, a, v)).storage[a] = v
                /\ \A x \in D : x # a =>
                      S!MemoryXfer(S!ProposeWrite(memory, a, v)).storage[x] = memory.storage[x]
      /\ DOMAIN memory.storage = D
  <2> HIDE DEF D
  <2>1. memory \in [storage : [D -> Nat], writes : {<<>>}]
    BY <1>4
  <2> QED
    BY <2>1, MemoryCommits
<1> HIDE DEF D, memo, Follows
<1>9. /\ S!NextPhase["submit"] = "consume_request" /\ S!NextPhase["consume_request"] = "respond"
      /\ S!NextPhase["respond"] = "consume_response" /\ S!NextPhase["consume_response"] = "submit"
  BY DEF S!NextPhase
<1> DEFINE e == Asking  r == Answering
<1>10. /\ e.id = S!Current.id /\ e.payload = S!Current /\ r.id = S!Current.id
  BY DEF Asking, Answering
<1>11. S!Written = n + IF actor.phase \in {"respond", "consume_response"} THEN 1 ELSE 0
  BY DEF S!Written
<1>12. S!Busy <=> n < Len(policy.requests)
  BY DEF S!Busy
<1>13. S!Busy => /\ S!Current.address \in Nat /\ S!Current.value \in Nat
                 /\ S!Current = policy.requests[n + 1] /\ n + 1 <= Len(policy.requests)
  <2>1. SUFFICES ASSUME S!Busy
                 PROVE  /\ S!Current.address \in Nat /\ S!Current.value \in Nat
                        /\ S!Current = policy.requests[n + 1] /\ n + 1 <= Len(policy.requests)
    OBVIOUS
  <2>2. n + 1 \in 1..Len(policy.requests)
    BY <1>3, <1>4, <1>12, <2>1
  <2>3. policy.requests[n + 1] \in [id : Nat, address : Nat, value : Nat]
    <3> DEFINE T == [id : Nat, address : Nat, value : Nat]  q == policy.requests  j == n + 1
    <3>1. q \in Seq(T) /\ j \in 1..Len(q)
      BY <1>3, <2>2
    <3> HIDE DEF T, q, j
    <3>2. q[j] \in T
      BY <3>1
    <3> QED
      BY <3>2 DEF T, q, j
  <2>4. S!Current = policy.requests[n + 1]
    BY DEF S!Current
  <2>5. policy.requests[n + 1].address \in Nat /\ policy.requests[n + 1].value \in Nat
    BY <2>3
  <2> QED
    BY <2>2, <2>4, <2>5
<1> HIDE DEF e, r
(* What the epoch leaves alone. *)
<1>14. ASSUME actor' = actor, memory' = memory, Follows(n, actor.phase) PROVE ShowInv'
  <2>1. actor' = [next |-> n, phase |-> actor.phase]
    BY <1>4, <1>14
  <2> QED
    BY <1>4, <1>7, <1>11, <1>14, <2>1
<1>15. CASE ~S!CallSucceeds
  <2>1. ~S!OutOfRange /\ ~S!Advances /\ S!ServerProposed = server /\ S!MemoryProposed = memory
    <3>1. ~S!OutOfRange
      BY <1>15 DEF S!OutOfRange, S!CallSucceeds
    <3> QED
      BY <1>15, <3>1 DEF S!Advances, S!ServerProposed, S!MemoryProposed
  <2>2. actor' = actor /\ memory' = memory
    BY <1>5, <1>8, <2>1
  <2>3. server' = S!RRXfer(server) \/ server' = server
    BY <1>5, <2>1
  <2>4. Follows(n, actor.phase)
    <3>1. CASE actor.phase = "submit"
      <4>1. server = Server(<<>>, <<>>, {}, {}, <<>>, <<>>, 0, 0)
        BY <1>4, <3>1 DEF ServerFollows
      <4>2. server' = Server(<<>>, <<>>, {}, {}, <<>>, <<>>, 0, 0)
        BY <2>3, <4>1, ServerXfer
      <4> QED
        BY <3>1, <4>2 DEF Follows
    <3>2. CASE actor.phase = "consume_request"
      <4>1. S!Busy
        BY <1>4, <3>2 DEF ServerFollows
      <4>2. ~S!CanPopRequest(server)
        BY <1>15, <3>2, <4>1 DEF S!CallSucceeds
      <4>3. server # Server(<<>>, <<e>>, {e.id}, {}, <<>>, <<>>, 0, 0)
        BY <4>2, ServerCalls
      <4>4. server = Server(<<e>>, <<>>, {}, {}, <<>>, <<>>, 0, 0)
        BY <1>1, <1>4, <1>10, <3>2, <4>3 DEF ServerFollows, e
      <4>5. \/ server' = Server(<<>>, <<e>>, {e.id}, {}, <<>>, <<>>, 0, 0)
            \/ server' = Server(<<e>>, <<>>, {}, {}, <<>>, <<>>, 0, 0)
        BY <2>3, <4>4, ServerXfer
      <4> QED
        BY <1>10, <1>12, <3>2, <4>1, <4>5 DEF Follows, e
    <3>3. CASE actor.phase = "respond"
      <4>1. S!Busy /\ server = Server(<<>>, <<>>, {e.id}, {e.id}, <<>>, <<>>, 0, 0)
        BY <1>4, <1>10, <3>3 DEF ServerFollows
      <4>2. ~S!CanRespond(server, e.id)
        BY <1>10, <1>15, <3>3, <4>1 DEF S!CallSucceeds
      <4> QED
        BY <4>1, <4>2, ServerCalls
    <3>4. CASE actor.phase = "consume_response"
      <4>1. S!Busy /\ server = Server(<<>>, <<>>, {}, {}, <<>>, <<r>>, 0, 0)
        BY <1>4, <3>4 DEF ServerFollows, r
      <4>2. ~S!CanPopResponse(server)
        BY <1>15, <3>4, <4>1 DEF S!CallSucceeds
      <4> QED
        BY <4>1, <4>2, ServerCalls
    <3> QED
      BY <1>4, <3>1, <3>2, <3>3, <3>4
  <2> QED
    BY <1>14, <2>2, <2>4
<1>16. S!CallSucceeds => S!Busy
  BY DEF S!CallSucceeds
(* A request that is being consumed is on the protocol. *)
<1>17. ASSUME S!CallSucceeds, actor.phase = "consume_request"
       PROVE  /\ server = Server(<<>>, <<e>>, {e.id}, {}, <<>>, <<>>, 0, 0)
              /\ S!ServerProposed = Server(<<>>, <<e>>, {e.id}, {}, <<>>, <<>>, 1, 0)
              /\ S!CanPopRequest(server) /\ S!NextRequest(server) = e
              /\ 1 \in agenda /\ 2 \in agenda
  <2>1. S!CanPopRequest(server)
    BY <1>17 DEF S!CallSucceeds
  <2>2. server # Server(<<e>>, <<>>, {}, {}, <<>>, <<>>, 0, 0)
    BY <2>1, ServerCalls
  <2>3. server = Server(<<>>, <<e>>, {e.id}, {}, <<>>, <<>>, 0, 0)
    BY <1>1, <1>4, <1>10, <1>17, <2>2 DEF ServerFollows, e
  <2>4. S!ServerProposed = S!ProposePopRequest(server)
    BY <1>17 DEF S!ServerProposed
  <2>5. S!ServerProposed = Server(<<>>, <<e>>, {e.id}, {}, <<>>, <<>>, 1, 0) /\ S!NextRequest(server) = e
    BY <2>3, <2>4, ServerCalls
  <2>6. agenda = S!Everything
    BY <1>4, <1>17
  <2> QED
    BY <1>3, <2>1, <2>3, <2>5, <2>6
<1>18. CASE S!CallSucceeds /\ S!OutOfRange
  <2>1. actor.phase = "consume_request" /\ S!Busy
    BY <1>18 DEF S!OutOfRange
  <2>2. actor' = actor /\ server' = S!ServerProposed /\ memory' = S!MemoryProposed
    BY <1>5, <1>18 DEF S!Advances
  <2>3. memory' = memory
    BY <1>18, <2>2 DEF S!MemoryProposed
  <2>4. server' = Server(<<>>, <<e>>, {e.id}, {}, <<>>, <<>>, 1, 0)
    BY <1>18, <1>17, <2>1, <2>2
  <2>5. Follows(n, actor.phase)
    BY <1>6, <1>10, <1>12, <1>18, <2>1, <2>4 DEF Follows, e
  <2> QED
    BY <1>14, <2>2, <2>3, <2>5
<1>19. CASE S!CallSucceeds /\ ~S!OutOfRange /\ actor.phase = "submit"
  <2>1. /\ S!MemoryProposed = memory /\ S!Advances
        /\ S!ServerProposed = S!ProposeRequest(server, e)
    BY <1>19 DEF S!MemoryProposed, S!Advances, S!ServerProposed, e, Asking
  <2>2. actor' = [next |-> n, phase |-> "consume_request"]
    <3>1. actor' = [next |-> n + 0, phase |-> "consume_request"]
      BY <1>5, <1>9, <1>19, <2>1
    <3> QED
      BY <1>4, <3>1
  <2>3. memory' = memory
    BY <1>5, <1>8, <2>1
  <2>4. server = Server(<<>>, <<>>, {}, {}, <<>>, <<>>, 0, 0)
    BY <1>4, <1>19 DEF ServerFollows
  <2>5. S!ServerProposed = Server(<<e>>, <<>>, {}, {}, <<>>, <<>>, 0, 0)
    BY <2>1, <2>4, ServerCalls
  <2>6. \/ server' = Server(<<>>, <<e>>, {e.id}, {}, <<>>, <<>>, 0, 0)
        \/ server' = Server(<<e>>, <<>>, {}, {}, <<>>, <<>>, 0, 0)
    BY <1>5, <2>5, ServerXfer
  <2>7. Follows(n, "consume_request")
    BY <1>10, <1>12, <1>19, <1>16, <2>6 DEF Follows, e
  <2>8. S!Written = n + 0
    BY <1>11, <1>19
  <2> QED
    BY <1>4, <1>7, <1>19, <1>16, <2>2, <2>3, <2>7, <2>8
<1>20. CASE S!CallSucceeds /\ ~S!OutOfRange /\ actor.phase = "consume_request"
  <2>1. S!Advances /\ S!MemoryProposed = S!ProposeWrite(memory, S!Current.address, S!Current.value)
    BY <1>10, <1>20, <1>17 DEF S!Advances, S!MemoryProposed
  <2>2. actor' = [next |-> n, phase |-> "respond"]
    <3>1. actor' = [next |-> n + 0, phase |-> "respond"]
      BY <1>5, <1>9, <1>20, <2>1
    <3> QED
      BY <1>4, <3>1
  <2>3. S!Current.address \in D
    BY <1>8, <1>10, <1>20, <1>16, <1>17 DEF S!OutOfRange, S!CanWrite
  <2>4. memory' = S!MemoryXfer(S!ProposeWrite(memory, S!Current.address, S!Current.value))
    BY <1>5, <1>20, <1>17, <2>1
  <2>5. /\ memory' \in memo /\ memory'.storage[S!Current.address] = S!Current.value
        /\ \A x \in D : x # S!Current.address => memory'.storage[x] = memory.storage[x]
    BY <1>8, <1>13, <1>20, <1>16, <2>3, <2>4
  <2>6. server' = Server(<<>>, <<>>, {e.id}, {e.id}, <<>>, <<>>, 0, 0)
    <3>1. server' = S!RRXfer(Server(<<>>, <<e>>, {e.id}, {}, <<>>, <<>>, 1, 0))
      BY <1>5, <1>20, <1>17
    <3> QED
      BY <3>1, ServerXfer
  <2>7. Follows(n, "respond")
    BY <1>10, <1>12, <1>20, <1>16, <2>6 DEF Follows
  <2>8. S!Written = n
    <3>1. S!Written = n + 0
      BY <1>11, <1>20
    <3> QED
      BY <1>4, <3>1
  <2>9. S!Current = policy.requests[n + 1]
    BY <1>13, <1>20, <1>16
  <2>10. \A i \in 1..(n + 1) : policy.requests[i].address \in D
    <3>1. ASSUME NEW i \in 1..(n + 1) PROVE i \in 1..n \/ i = n + 1
      BY <1>4
    <3> QED
      BY <1>4, <2>3, <2>8, <2>9, <3>1
  <2>11. \A a \in D : LastOf(n + 1, a) = memory'.storage[a]
    BY <1>4, <2>5, <2>8, <2>9, LastWriteMoves
  <2>12. n + (IF "respond" \in {"respond", "consume_response"} THEN 1 ELSE 0) = n + 1
    OBVIOUS
  <2> QED
    BY <1>4, <1>7, <1>20, <1>16, <2>2, <2>5, <2>7, <2>10, <2>11, <2>12
<1>21. CASE S!CallSucceeds /\ ~S!OutOfRange /\ actor.phase = "respond"
  <2>1. /\ S!MemoryProposed = memory /\ S!Advances
        /\ S!ServerProposed = S!ProposeResponse(server, r)
    BY <1>21 DEF S!MemoryProposed, S!Advances, S!ServerProposed, r, Answering
  <2>2. actor' = [next |-> n, phase |-> "consume_response"]
    <3>1. actor' = [next |-> n + 0, phase |-> "consume_response"]
      BY <1>5, <1>9, <1>21, <2>1
    <3> QED
      BY <1>4, <3>1
  <2>3. memory' = memory
    BY <1>5, <1>8, <2>1
  <2>4. server = Server(<<>>, <<>>, {r.id}, {r.id}, <<>>, <<>>, 0, 0)
    BY <1>4, <1>10, <1>21 DEF ServerFollows
  <2>5. S!ServerProposed = Server(<<>>, <<>>, {r.id}, {r.id}, <<r>>, <<>>, 0, 0)
    BY <2>1, <2>4, ServerCalls
  <2>6. 1 \in agenda
    BY <1>3, <1>4, <1>21
  <2>7. server' = Server(<<>>, <<>>, {}, {}, <<>>, <<r>>, 0, 0)
    BY <1>5, <1>21, <2>5, <2>6, ServerXfer
  <2>8. Follows(n, "consume_response")
    BY <1>12, <1>21, <1>16, <2>7 DEF Follows, r
  <2>9. S!Written = n + 1
    BY <1>11, <1>21
  <2>10. n + (IF "consume_response" \in {"respond", "consume_response"} THEN 1 ELSE 0) = n + 1
    OBVIOUS
  <2> QED
    BY <1>4, <1>7, <1>21, <1>16, <2>2, <2>3, <2>8, <2>9, <2>10
<1>22. CASE S!CallSucceeds /\ ~S!OutOfRange /\ actor.phase = "consume_response"
  <2>1. /\ S!MemoryProposed = memory /\ S!Advances
        /\ S!ServerProposed = S!ProposePopResponse(server)
    BY <1>22 DEF S!MemoryProposed, S!Advances, S!ServerProposed
  <2>2. actor' = [next |-> n + 1, phase |-> "submit"]
    BY <1>5, <1>9, <1>22, <2>1
  <2>3. memory' = memory
    BY <1>5, <1>8, <2>1
  <2>4. server = Server(<<>>, <<>>, {}, {}, <<>>, <<r>>, 0, 0)
    BY <1>4, <1>22 DEF ServerFollows, r
  <2>5. S!ServerProposed = Server(<<>>, <<>>, {}, {}, <<>>, <<r>>, 0, 1)
    BY <2>1, <2>4, ServerCalls
  <2>6. 1 \in agenda
    BY <1>3, <1>4, <1>22
  <2>7. server' = Server(<<>>, <<>>, {}, {}, <<>>, <<>>, 0, 0)
    BY <1>5, <1>22, <2>5, <2>6, ServerXfer
  <2>8. Follows(n + 1, "submit")
    BY <2>7 DEF Follows
  <2>9. S!Written = n + 1
    BY <1>11, <1>22
  <2>10. (n + 1) + (IF "submit" \in {"respond", "consume_response"} THEN 1 ELSE 0) = n + 1
    BY <1>4
  <2>11. n + 1 \in Nat /\ n + 1 <= Len(policy.requests)
    BY <1>4, <1>13, <1>22, <1>16
  <2> DEFINE k == n + 1
  <2>12. /\ k \in Nat /\ actor' = [next |-> k, phase |-> "submit"] /\ k <= Len(policy.requests)
         /\ Follows(k, "submit") /\ memory' \in memo
    BY <1>4, <2>2, <2>3, <2>8, <2>11
  <2>13. k + (IF "submit" \in {"respond", "consume_response"} THEN 1 ELSE 0) = k /\ S!Written = k
    BY <2>9, <2>10
  <2> HIDE DEF k
  <2>14. /\ \A i \in 1..k : policy.requests[i].address \in D
         /\ \A a \in D : LastOf(k, a) = memory'.storage[a]
    BY <1>4, <2>3, <2>13
  <2> QED
    BY <1>7, <1>16, <1>22, <2>12, <2>13, <2>14
<1> QED
  BY <1>4, <1>15, <1>18, <1>19, <1>20, <1>21, <1>22

(* The next event is the earliest one that is pending. *)
LEMMA NextAlarm ==
    ASSUME NEW A \in SUBSET Nat, A # {}
    PROVE  S!Min(A) \in A /\ \A a \in A : S!Min(A) <= a
<1>1. \E x \in A : \A a \in A : x <= a
  BY LeastNumber
<1> QED
  BY <1>1 DEF S!Min

(* One epoch of the process scenario. *)
LEMMA ProcessStep ==
    ASSUME ShowInv, S!ProcessEpoch
    PROVE  ShowInv'
<1>1. /\ policy' = policy /\ source' = source /\ S!Kind = "process" /\ S!Kind' = S!Kind
      /\ source = "loaded" /\ policy \in Policies /\ tick \in Nat /\ verdict = "running"
  BY DEF S!ProcessEpoch, S!Running, ShowInv, ShowBasic, S!Kind
<1>2. ProcessInv
  BY <1>1 DEF ShowInv
<1>3. policy.initial \in Nat /\ policy.increment \in Nat /\ policy.wakeTick \in Nat
  BY <1>1, PolicyAssumption DEF S!Kind
<1>4. /\ process \in [pc : {0, 1}, status : {"runnable", "suspended", "terminated"}, value : Nat, resumes : Nat]
      /\ delta \in Nat /\ alarm \subseteq Nat
      /\ \A a \in alarm : a >= tick /\ (delta > 0 => a > tick)
  BY <1>2 DEF ProcessInv
<1>5. process' = S!ProcessAfter /\ alarm' = S!AlarmsAfter
  BY DEF S!ProcessEpoch
(* Every event that is left is in the future. *)
<1>6. alarm' \subseteq Nat /\ \A a \in alarm' : a > tick
  <2>1. ASSUME NEW a \in alarm' PROVE a \in Nat /\ a > tick
    <3>1. (a \in alarm /\ a \notin S!Alarms) \/ (a = policy.wakeTick /\ policy.wakeTick > tick)
      BY <1>5, <2>1 DEF S!AlarmsAfter
    <3>2. CASE a \in alarm /\ a \notin S!Alarms
      <4>1. a \in Nat /\ a >= tick /\ (delta > 0 => a > tick)
        BY <1>4, <3>2
      <4>2. delta = 0 => a # tick
        BY <3>2 DEF S!Alarms
      <4> QED
        BY <1>1, <1>4, <4>1, <4>2
    <3>3. CASE a = policy.wakeTick /\ policy.wakeTick > tick
      BY <1>3, <3>3
    <3> QED
      BY <3>1, <3>2, <3>3
  <2> QED
    BY <2>1
(* The clock. *)
<1>7. /\ tick' \in Nat /\ tick' >= tick /\ delta' \in Nat
      /\ \A a \in alarm' : a >= tick' /\ (delta' > 0 => a > tick')
      /\ verdict' = "Completed" => S!ProcessAfter.status = "terminated"
  <2> DEFINE later == S!Activated \cup actor.later
  <2>1. IF S!Continuing # {}
           THEN agenda' = S!Continuing /\ delta' = delta + 1 /\ tick' = tick /\ verdict' = verdict
           ELSE IF later # {}
           THEN /\ agenda' = later /\ delta' = 0 /\ tick' = tick + 1
                /\ verdict' = IF tick + 1 >= MaxTicks THEN "max_ticks_reached" ELSE verdict
           ELSE IF S!AlarmsAfter # {}
           THEN /\ agenda' = {} /\ delta' = 0 /\ tick' = S!Min(S!AlarmsAfter)
                /\ verdict' = IF tick' >= MaxTicks THEN "max_ticks_reached" ELSE verdict
           ELSE /\ verdict' = IF S!ProcessAfter.status = "terminated" THEN "Completed" ELSE "no_progress"
                /\ agenda' = {} /\ tick' = tick /\ delta' = delta
    BY DEF S!ProcessEpoch
  <2> HIDE DEF later
  <2>2. verdict' = "Completed" => S!ProcessAfter.status = "terminated"
    BY <1>1, <2>1
  <2>3. \/ tick' = tick /\ delta' \in {delta, delta + 1}
        \/ tick' = tick + 1 /\ delta' = 0
        \/ tick' = S!Min(alarm') /\ alarm' # {} /\ delta' = 0
    BY <1>5, <2>1
  <2>4. CASE tick' = tick /\ delta' \in {delta, delta + 1}
    BY <1>1, <1>4, <1>6, <2>2, <2>4
  <2>5. CASE tick' = tick + 1 /\ delta' = 0
    BY <1>1, <1>4, <1>6, <2>2, <2>5
  <2>6. CASE tick' = S!Min(alarm') /\ alarm' # {} /\ delta' = 0
    <3>1. tick' \in alarm' /\ \A a \in alarm' : tick' <= a
      BY <1>6, <2>6, NextAlarm
    <3> QED
      BY <1>1, <1>4, <1>6, <2>2, <2>6, <3>1
  <2> QED
    BY <2>3, <2>4, <2>5, <2>6
(* The process. *)
<1> DEFINE ProcessType == [pc : {0, 1}, status : {"runnable", "suspended", "terminated"}, value : Nat, resumes : Nat]
           Fine ==
             /\ process'.pc = 0 => process'.status = "runnable"
             /\ process'.pc = 1 /\ process'.status # "terminated" =>
                   process'.value = policy.initial /\ process'.resumes = 0
             /\ process'.pc = 0 => process'.resumes = 0
             /\ process'.pc = 1 /\ process'.status = "runnable" => tick >= policy.wakeTick
             /\ process'.status = "terminated" =>
                   /\ process'.value = policy.initial + policy.increment /\ process'.resumes = 1
                   /\ tick >= policy.wakeTick
<1>8. process' \in ProcessType /\ Fine
  <2>1. CASE S!ProcessRuns /\ process.pc = 0
    <3>1. process' = [process EXCEPT !.pc = 1, !.status = "suspended", !.value = policy.initial]
      BY <1>5, <2>1 DEF S!ProcessAfter
    <3>2. process.resumes = 0
      BY <1>2, <2>1 DEF ProcessInv
    <3>3. process'.pc = 1 /\ process'.status = "suspended" /\ process'.value = policy.initial /\ process'.resumes = process.resumes
      BY <1>4, <3>1
    <3>4. process' \in ProcessType
      BY <1>3, <1>4, <3>1
    <3> QED
      BY <3>2, <3>3, <3>4
  <2>2. CASE S!ProcessRuns /\ process.pc # 0
    <3>1. process.pc = 1 /\ process.status = "runnable"
      BY <1>4, <2>2 DEF S!ProcessRuns
    <3>2. process.value = policy.initial /\ process.resumes = 0 /\ tick >= policy.wakeTick
      BY <1>2, <3>1 DEF ProcessInv
    <3>3. process' = [process EXCEPT !.status = "terminated", !.value = @ + policy.increment, !.resumes = @ + 1]
      BY <1>5, <2>2 DEF S!ProcessAfter
    <3>4. /\ process'.pc = 1 /\ process'.status = "terminated"
          /\ process'.value = policy.initial + policy.increment /\ process'.resumes = 0 + 1
      BY <1>4, <3>1, <3>2, <3>3
    <3>5. process' \in ProcessType
      <4>1. policy.initial + policy.increment \in Nat /\ 0 + 1 \in Nat
        BY <1>3
      <4>2. process' = [process EXCEPT !.status = "terminated", !.value = policy.initial + policy.increment, !.resumes = 0 + 1]
        BY <1>4, <3>2, <3>3
      <4> QED
        BY <1>4, <4>1, <4>2
    <3>6. 0 + 1 = 1
      OBVIOUS
    <3> QED
      BY <3>2, <3>4, <3>5, <3>6
  <2>3. CASE ~S!ProcessRuns /\ S!DriverWakes
    <3>1. process' = [process EXCEPT !.status = "runnable"] /\ tick = policy.wakeTick /\ process.status = "suspended"
      BY <1>5, <2>3 DEF S!ProcessAfter, S!DriverWakes
    <3>2. process.pc = 1
      BY <1>2, <1>4, <3>1 DEF ProcessInv
    <3>3. process.value = policy.initial /\ process.resumes = 0
      BY <1>2, <3>1, <3>2 DEF ProcessInv
    <3>4. /\ process' \in ProcessType /\ process'.pc = 1 /\ process'.status = "runnable"
          /\ process'.value = policy.initial /\ process'.resumes = 0
      BY <1>4, <3>1, <3>2, <3>3
    <3>5. tick >= policy.wakeTick
      BY <1>1, <3>1
    <3> QED
      BY <3>4, <3>5
  <2>4. CASE ~S!ProcessRuns /\ ~S!DriverWakes
    <3>1. process' = process
      BY <1>5, <2>4 DEF S!ProcessAfter
    <3> QED
      BY <1>2, <3>1 DEF ProcessInv
  <2> QED
    BY <2>1, <2>2, <2>3, <2>4
<1>9. tick >= policy.wakeTick => tick' >= policy.wakeTick
  BY <1>1, <1>3, <1>7
<1>10. ProcessInv'
  BY <1>1, <1>6, <1>7, <1>8, <1>9 DEF ProcessInv
<1>11. verdict' = "Completed" => S!Delivered'
  <2>1. SUFFICES ASSUME verdict' = "Completed" PROVE S!Delivered'
    OBVIOUS
  <2>2. process'.status = "terminated"
    BY <1>5, <1>7, <2>1
  <2>3. process'.resumes = 1 /\ tick' >= policy.wakeTick /\ process'.value = policy.initial + policy.increment
    BY <1>8, <1>9, <2>2
  <2> QED
    BY <1>1, <2>3 DEF S!Delivered
<1>12. ShowBasic'
  BY <1>1, <1>7, <1>11 DEF ShowBasic
<1> QED
  BY <1>1, <1>10, <1>12 DEF ShowInv

(* A step that leaves the run alone keeps the invariant, as long as only a *)
(* completed run is published.                                             *)
LEMMA ShowFrame ==
    ASSUME ShowInv, policy' = policy, UNCHANGED S!runVars,
           source' \in {"pending", "committed"} => verdict = "Completed"
    PROVE  ShowInv'
<1>1. /\ tick' = tick /\ delta' = delta /\ agenda' = agenda /\ alarm' = alarm /\ actor' = actor
      /\ queues' = queues /\ sinks' = sinks /\ channel' = channel /\ server' = server
      /\ memory' = memory /\ process' = process /\ verdict' = verdict
  BY DEF S!runVars, S!clockVars, S!laneVars
<1>2. /\ S!Kind' = S!Kind /\ S!Lanes' = S!Lanes /\ S!Values' = S!Values /\ S!Everything' = S!Everything
      /\ S!Busy' = S!Busy /\ S!Current' = S!Current /\ S!Written' = S!Written
  BY <1>1 DEF S!Kind, S!Lanes, S!Values, S!Everything, S!Busy, S!Current, S!Written
<1>3. ShowBasic'
  <2>1. S!Delivered' = S!Delivered
    BY <1>1, <1>2 DEF S!Delivered
  <2> QED
    BY <1>1, <2>1 DEF ShowInv, ShowBasic
<1>4. LaneInv => LaneInv'
  BY <1>1, <1>2 DEF LaneInv
<1>5. ChannelInv => ChannelInv'
  BY <1>1, <1>2 DEF ChannelInv
<1>6. MemoryInv => MemoryInv'
  <2>1. ServerFollows' = ServerFollows
    BY <1>1, <1>2 DEF ServerFollows, Asking, Answering
  <2>2. \A a : S!LastWrite(a)' = S!LastWrite(a)
    BY <1>1, <1>2 DEF S!LastWrite
  <2> QED
    BY <1>1, <1>2, <2>1, <2>2 DEF MemoryInv
<1>7. ProcessInv => ProcessInv'
  BY <1>1 DEF ProcessInv
<1> QED
  BY <1>2, <1>3, <1>4, <1>5, <1>6, <1>7 DEF ShowInv

(* The scenario starts in its invariant, at first and after reset(). *)
LEMMA ShowInit == S!Init => ShowInv
  BY ShowStart DEF S!Init

(* Every step of the showcase keeps its invariant. *)
LEMMA ShowNext ==
    ASSUME ShowInv, S!Next
    PROVE  ShowInv'
<1>1. CASE S!Epoch
  BY <1>1, LaneStep, ChannelStep, MemoryStep, ProcessStep DEF S!Epoch
<1>2. CASE S!LoadDocument \/ S!WorkWithoutDocument
  BY <1>2, ShowFrame DEF S!LoadDocument, S!WorkWithoutDocument
<1>3. CASE S!EndOfRun
  BY <1>3, ShowFrame DEF S!EndOfRun
<1>4. CASE S!SourceXfer
  <2>1. verdict = "Completed"
    BY <1>4 DEF S!SourceXfer, ShowInv, ShowBasic
  <2> QED
    BY <1>4, <2>1, ShowFrame DEF S!SourceXfer
<1>5. CASE S!Reset
  <2>2. (S!Init => ShowInv)'
    BY ShowInit, PTL
  <2>3. S!StartState' = S!StartState
    BY <1>5 DEF S!Reset, S!StartState, S!Kind, S!Lanes
  <2>4. policy' \in Policies
    BY <1>5 DEF S!Reset, ShowInv, ShowBasic
  <2>5. S!Init'
    BY <1>5, <2>3, <2>4 DEF S!Reset, S!Init
  <2> QED
    BY <2>2, <2>5
<1> QED
  BY <1>1, <1>2, <1>3, <1>4, <1>5 DEF S!Next

(* Cardinality as the protocol components see it. *)
LEMMA CountServer == \A X : S!Cardinality(X) = Cardinality(X)
  BY DEF Cardinality, S!Cardinality

(* What the invariant says of the properties. *)
LEMMA ShowSound ==
    ASSUME ShowInv
    PROVE  S!StreamExact /\ S!MemoryExact /\ S!CompletionHonest
<1>1. S!StreamExact
  BY DEF ShowInv, LaneInv, ChannelInv, S!StreamExact
<1>2. S!CompletionHonest
  BY DEF ShowInv, ShowBasic, S!CompletionHonest
<1>3. ASSUME S!Kind = "memory" PROVE S!RRValid(server, 2)
  <2>1. ServerFollows
    BY <1>3 DEF ShowInv, MemoryInv
  <2> DEFINE id == S!Current.id  c == S!Cardinality({})  d == S!Cardinality({id})
  <2>2. c = 0 /\ d = 1
    BY CountServer, FS_EmptySet, FS_Singleton
  <2>3. S!Ids(<<>>) = {} /\ S!Ids(<<Asking>>) = {id} /\ Len(<<>>) = 0 /\ Len(<<Asking>>) = 1
    BY EnvelopeFacts DEF Asking
  <2>4. /\ server.active \in {{}, {id}} /\ server.delivered \subseteq server.active
        /\ server.requests = <<>> \/ (server.requests = <<Asking>> /\ server.active = {id})
        /\ server.answered = <<>>
        /\ server.asked = <<>> \/ (server.asked = <<Asking>> /\ server.active = {})
    BY <2>1 DEF ServerFollows, Server
  <2>5. S!Ids(server.requests) \subseteq server.active /\ S!Ids(server.answered) \subseteq server.delivered
    BY <2>3, <2>4
  <2>6. S!Cardinality(server.active) \in {0, 1} /\ Len(server.asked) \in {0, 1}
    BY <2>2, <2>3, <2>4
  <2>7. S!Cardinality(server.active) + Len(server.asked) <= 2
    <3> DEFINE x == S!Cardinality(server.active)  y == Len(server.asked)
    <3>1. x \in {0, 1} /\ y \in {0, 1}
      BY <2>6
    <3> HIDE DEF x, y
    <3>2. x + y <= 2
      BY <3>1
    <3> QED
      BY <3>2 DEF x, y
  <2> QED
    BY <2>4, <2>5, <2>7 DEF S!RRValid
<1>4. S!MemoryExact
  <2>1. ASSUME S!Kind = "memory" PROVE DOMAIN memory.writes = {} /\ MemoryInv
    BY <2>1 DEF ShowInv, MemoryInv
  <2> QED
    BY <1>3, <2>1 DEF MemoryInv, S!MemoryExact
<1> QED
  BY <1>1, <1>2, <1>4

(* The scenarios of showcase.cpp, for every policy: what a producer handed *)
(* over is in order and once each between it and what its sink received;   *)
(* the memory holds the last request consumed for each address and none    *)
(* that is out of range, with the protocol's bookkeeping valid; and a run  *)
(* that reports Completed, which is the only kind Phase5TraceSource        *)
(* commits, has done all of its work.                                      *)
THEOREM ShowcaseSoundThm == DevicesSpec => []ShowcaseSound
<1> DEFINE Inv == device = "showcase" => ShowInv
<1>1. DevicesInit => Inv
  BY ShowInit DEF DevicesInit
<1>2. Inv /\ [DevicesNext]_all => Inv'
  <2> SUFFICES ASSUME Inv, [DevicesNext]_all, device' = "showcase" PROVE ShowInv'
    OBVIOUS
  <2>1. CASE InFeed(F!Next) \/ InNpu(Next)
    BY <2>1 DEF InFeed, InNpu
  <2>2. CASE InShowcase(S!Next)
    BY <2>2, ShowNext DEF InShowcase
  <2>3. CASE UNCHANGED all
    <3>1. policy' = policy /\ UNCHANGED S!runVars /\ source' = source /\ device = "showcase"
      BY <2>3 DEF all, showcaseOnly, S!runVars, S!clockVars, S!laneVars
    <3>2. ShowInv
      BY <3>1
    <3> QED
      BY <3>1, <3>2, ShowFrame DEF ShowInv, ShowBasic
  <2> QED
    BY <2>1, <2>2, <2>3 DEF DevicesNext
<1>3. Inv => ShowcaseSound
  BY ShowSound DEF ShowcaseSound
<1> QED
  BY <1>1, <1>2, <1>3, PTL DEF DevicesSpec
=============================================================================
