--------------------------- MODULE ResourceProofs ---------------------------
(***************************************************************************)
(* Proofs about a shared service capacity, for any capacity and any        *)
(* owners, transactions and arbitration keys.                              *)
(***************************************************************************)
EXTENDS Resource, FiniteSetTheorems, TLAPS

-----------------------------------------------------------------------------
(* The inductive invariant. *)

Release == [owner : Owners, amount : 1..Total]

\* One reservation per transaction.
OnePerTxn(rs) == \A r, s \in rs : r.txn = s.txn => r = s

Finite == IsFiniteSet(reservations) /\ IsFiniteSet(accepted) /\ IsFiniteSet(opening)

\* The requests of an epoch are for transactions that hold nothing yet.
RequestsFresh ==
    /\ \A i, j \in DOMAIN proposals : proposals[i].txn = proposals[j].txn => i = j
    /\ phase # "release" =>
         \A i \in DOMAIN proposals : \A r \in reservations : r.txn # proposals[i].txn

\* The loop of doArbitrate: what it has accepted fits, and whoever is still
\* to be served comes after everyone who was.
Decisions ==
    /\ accepted \subseteq Requests
    /\ phase = "work" => accepted = {} /\ rejecting = {}
    /\ phase = "arbitrate" =>
         /\ Capacity(accepted) <= Available
         /\ \A d \in Requests \ Undecided, u \in Undecided : Less(d, u)

ResourceInv ==
    Conservation /\ ArbitrationStable /\ Settlement /\ Finite /\ RequestsFresh /\ Decisions

-----------------------------------------------------------------------------
(* Numbers and the stable order *)

(* The larger of two integers. *)
LEMMA LargerOfTwo ==
    ASSUME NEW a \in Int, NEW b \in Int
    PROVE  Max({a, b}) = IF a >= b THEN a ELSE b
<1>1. \E x \in {a, b} : \A y \in {a, b} : x >= y
  OBVIOUS
<1>2. Max({a, b}) \in {a, b} /\ \A y \in {a, b} : Max({a, b}) >= y
  BY <1>1 DEF Max
<1> QED
  BY <1>2

(* The smaller of two integers. *)
LEMMA SmallerOfTwo ==
    ASSUME NEW a \in Int, NEW b \in Int
    PROVE  Min({a, b}) = IF a <= b THEN a ELSE b
<1>1. \E x \in {a, b} : \A y \in {a, b} : x <= y
  OBVIOUS
<1>2. Min({a, b}) \in {a, b} /\ \A y \in {a, b} : Min({a, b}) <= y
  BY <1>1 DEF Min
<1> QED
  BY <1>2

(* reservationLess orders any two transactions, and is a strict order. *)
LEMMA LessOrder ==
    ASSUME NEW a \in Reservation, NEW b \in Reservation
    PROVE  /\ ~Less(a, a)
           /\ Less(a, b) => ~Less(b, a)
           /\ a.txn # b.txn => Less(a, b) \/ Less(b, a)
           /\ \A c \in Reservation : Less(a, b) /\ Less(b, c) => Less(a, c)
<1>1. ASSUME NEW x \in Reservation
      PROVE  x.rank \in Nat /\ x.owner \in Nat /\ x.txn \in Nat
  BY ResourceAssumption DEF Reservation
<1>2. ~Less(a, a) /\ (Less(a, b) => ~Less(b, a)) /\ (a.txn # b.txn => Less(a, b) \/ Less(b, a))
  BY <1>1 DEF Less
<1>3. ASSUME NEW c \in Reservation, Less(a, b), Less(b, c) PROVE Less(a, c)
  BY <1>1, <1>3 DEF Less
<1> QED
  BY <1>2, <1>3

-----------------------------------------------------------------------------
(* Capacity *)

(* Finitely many reservations have finitely many units. *)
LEMMA CapacityType ==
    ASSUME NEW rs \in SUBSET Reservation, IsFiniteSet(rs)
    PROVE  IsFiniteSet(Units(rs)) /\ Capacity(rs) \in Nat
<1>1. IsFiniteSet(1..Total)
  BY FS_Interval, ResourceAssumption
<1>2. IsFiniteSet(rs \X (1..Total))
  BY <1>1, FS_Product
<1>3. Units(rs) \in SUBSET (rs \X (1..Total))
  BY DEF Units
<1>4. IsFiniteSet(Units(rs))
  BY <1>2, <1>3, FS_Subset
<1> QED
  BY <1>4, FS_CardinalityType DEF Capacity

(* Nothing has no capacity. *)
LEMMA CapacityEmpty == Capacity({}) = 0
<1>1. Units({}) = {}
  BY DEF Units
<1> QED
  BY <1>1, FS_EmptySet DEF Capacity

(* Reservations that are apart add up. *)
LEMMA CapacityUnion ==
    ASSUME NEW rs \in SUBSET Reservation, IsFiniteSet(rs),
           NEW ss \in SUBSET Reservation, IsFiniteSet(ss), rs \cap ss = {}
    PROVE  Capacity(rs \cup ss) = Capacity(rs) + Capacity(ss)
<1>1. IsFiniteSet(Units(rs)) /\ IsFiniteSet(Units(ss))
  BY CapacityType
<1>2. Units(rs \cup ss) = Units(rs) \cup Units(ss) /\ Units(rs) \cap Units(ss) = {}
  BY DEF Units
<1>3. Cardinality(Units(rs) \cup Units(ss))
        = Cardinality(Units(rs)) + Cardinality(Units(ss)) - Cardinality(Units(rs) \cap Units(ss))
  BY <1>1, FS_Union
<1>4. Cardinality(Units(rs)) \in Nat /\ Cardinality(Units(ss)) \in Nat
  BY <1>1, FS_CardinalityType
<1>5. Cardinality(Units(rs) \cap Units(ss)) = 0
  BY <1>2, FS_EmptySet
<1>6. Capacity(rs \cup ss) = Cardinality(Units(rs) \cup Units(ss))
  BY <1>2 DEF Capacity
<1> QED
  BY <1>3, <1>4, <1>5, <1>6 DEF Capacity

(* Fewer reservations have no more capacity. *)
LEMMA CapacityPart ==
    ASSUME NEW ss \in SUBSET Reservation, IsFiniteSet(ss), NEW rs \in SUBSET ss
    PROVE  /\ IsFiniteSet(rs) /\ Capacity(rs) \in Nat /\ Capacity(rs) <= Capacity(ss)
           /\ Capacity(ss) = Capacity(rs) + Capacity(ss \ rs)
<1>1. IsFiniteSet(rs) /\ IsFiniteSet(ss \ rs)
  BY FS_Subset, FS_Difference
<1>2. Capacity(rs) \in Nat /\ Capacity(ss \ rs) \in Nat
  BY <1>1, CapacityType
<1>3. ss = rs \cup (ss \ rs) /\ rs \cap (ss \ rs) = {}
  OBVIOUS
<1>4. Capacity(rs \cup (ss \ rs)) = Capacity(rs) + Capacity(ss \ rs)
  BY <1>1, CapacityUnion
<1>5. Capacity(ss) = Capacity(rs) + Capacity(ss \ rs)
  BY <1>3, <1>4
<1>6. Capacity(rs) <= Capacity(ss)
  BY <1>2, <1>5
<1> QED
  BY <1>1, <1>2, <1>5, <1>6

(* One reservation has the capacity of its amount. *)
LEMMA CapacityOne ==
    ASSUME NEW r \in Reservation
    PROVE  Capacity({r}) = r.amount
<1> DEFINE f == [k \in 1..r.amount |-> <<r, k>>]
<1>1. r.amount \in Nat /\ r.amount <= Total
  BY ResourceAssumption DEF Reservation
<1>2. Units({r}) = {<<r, k>> : k \in 1..r.amount}
  BY <1>1, ResourceAssumption DEF Units
<1>3. f \in Bijection(1..r.amount, Units({r}))
  BY <1>2 DEF Bijection, Injection, Surjection, IsInjective
<1>4. ExistsBijection(1..r.amount, Units({r}))
  BY <1>3 DEF ExistsBijection
<1> QED
  BY <1>1, <1>4, FS_CountingElements DEF Capacity

-----------------------------------------------------------------------------
(* The units of a set of reservations in the stable order *)

Below(rs, r) == {x \in rs : Less(x, r)}
Position(rs) == [u \in Units(rs) |-> Capacity(Below(rs, u[1])) + u[2]]

(* A unit names a reservation and a number within its amount. *)
LEMMA UnitParts ==
    ASSUME NEW rs \in SUBSET Reservation
    PROVE  /\ \A u \in Units(rs) : /\ u = <<u[1], u[2]>> /\ u[1] \in rs
                                   /\ u[2] \in Nat /\ 1 <= u[2] /\ u[2] <= u[1].amount
           /\ \A r \in rs, k \in 1..Total : k <= r.amount => <<r, k>> \in Units(rs)
  BY ResourceAssumption DEF Units

(* What lies below a reservation and the reservation itself come before      *)
(* whatever contains both.                                                   *)
LEMMA BelowAdds ==
    ASSUME NEW rs \in SUBSET Reservation, IsFiniteSet(rs), NEW r \in rs,
           NEW ts \in SUBSET rs, Below(rs, r) \cup {r} \subseteq ts
    PROVE  Capacity(Below(rs, r)) \in Nat /\ Capacity(Below(rs, r)) + r.amount <= Capacity(ts)
<1> DEFINE bs == Below(rs, r)
<1>1. IsFiniteSet(ts) /\ IsFiniteSet(bs) /\ IsFiniteSet({r})
  BY FS_Subset, FS_Singleton DEF Below
<1>2. bs \subseteq Reservation /\ {r} \subseteq Reservation /\ ts \subseteq Reservation
  BY DEF Below
<1>3. bs \cap {r} = {}
  BY LessOrder DEF Below
<1> HIDE DEF bs
<1>4. Capacity(bs \cup {r}) = Capacity(bs) + Capacity({r})
  BY <1>1, <1>2, <1>3, CapacityUnion
<1>5. Capacity({r}) = r.amount
  BY CapacityOne
<1>6. bs \cup {r} \in SUBSET ts
  BY DEF bs
<1>7. Capacity(bs \cup {r}) <= Capacity(ts)
  BY <1>1, <1>2, <1>6, CapacityPart
<1>8. Capacity(bs) \in Nat
  BY <1>1, <1>2, CapacityType
<1>9. Capacity(bs) \in Nat /\ Capacity(bs) + r.amount <= Capacity(ts)
  BY <1>4, <1>5, <1>7, <1>8
<1> QED
  BY <1>9 DEF bs

(* The stable order numbers the units from 1 to the capacity. *)
LEMMA PositionBijection ==
    ASSUME NEW rs \in SUBSET Reservation, IsFiniteSet(rs), OnePerTxn(rs)
    PROVE  Position(rs) \in Bijection(Units(rs), 1..Capacity(rs))
<1> DEFINE S == Units(rs)  T == 1..Capacity(rs)  f == Position(rs)
<1>1. IsFiniteSet(S) /\ Capacity(rs) \in Nat
  BY CapacityType
<1>2. ASSUME NEW r \in rs
      PROVE  Capacity(Below(rs, r)) \in Nat /\ Capacity(Below(rs, r)) + r.amount <= Capacity(rs)
  <2>1. Below(rs, r) \cup {r} \subseteq rs
    BY DEF Below
  <2> QED
    BY <2>1, BelowAdds
<1>3. ASSUME NEW r \in rs, NEW s \in rs, Less(r, s)
      PROVE  Capacity(Below(rs, r)) + r.amount <= Capacity(Below(rs, s))
  <2>1. Below(rs, r) \cup {r} \subseteq Below(rs, s)
    BY <1>3, LessOrder DEF Below
  <2>2. Below(rs, s) \in SUBSET rs
    BY DEF Below
  <2> QED
    BY <2>1, <2>2, BelowAdds
<1>4. ASSUME NEW r \in Reservation PROVE r.amount \in Nat
  BY ResourceAssumption, <1>4 DEF Reservation
<1>5. \A u \in S : f[u] = Capacity(Below(rs, u[1])) + u[2]
  BY DEF Position
<1>6. ASSUME NEW u \in S PROVE f[u] \in T
  <2>1. u[1] \in rs /\ u[2] \in Nat /\ 1 <= u[2] /\ u[2] <= u[1].amount
    BY UnitParts
  <2>2. Capacity(Below(rs, u[1])) \in Nat /\ Capacity(Below(rs, u[1])) + u[1].amount <= Capacity(rs)
    BY <1>2, <2>1
  <2>3. u[1].amount \in Nat
    BY <1>4, <2>1
  <2>4. f[u] = Capacity(Below(rs, u[1])) + u[2]
    BY <1>5
  <2> QED
    BY <1>1, <2>1, <2>2, <2>3, <2>4
<1>7. ASSUME NEW u \in S, NEW v \in S, Less(u[1], v[1]) PROVE f[u] < f[v]
  <2>1. /\ u[1] \in rs /\ u[2] \in Nat /\ 1 <= u[2] /\ u[2] <= u[1].amount
        /\ v[1] \in rs /\ v[2] \in Nat /\ 1 <= v[2]
    BY UnitParts
  <2>2. Capacity(Below(rs, u[1])) + u[1].amount <= Capacity(Below(rs, v[1]))
    BY <1>3, <1>7, <2>1
  <2>3. u[1].amount \in Nat /\ Capacity(Below(rs, u[1])) \in Nat /\ Capacity(Below(rs, v[1])) \in Nat
    BY <1>2, <1>4, <2>1
  <2>4. f[u] = Capacity(Below(rs, u[1])) + u[2] /\ f[v] = Capacity(Below(rs, v[1])) + v[2]
    BY <1>5
  <2> QED
    BY <2>1, <2>2, <2>3, <2>4
<1>8. ASSUME NEW u \in S, NEW v \in S, f[u] = f[v] PROVE u = v
  <2>1. /\ u = <<u[1], u[2]>> /\ v = <<v[1], v[2]>> /\ u[1] \in rs /\ v[1] \in rs
        /\ u[2] \in Nat /\ v[2] \in Nat
    BY UnitParts
  <2>2. f[u] \in Nat /\ f[v] \in Nat
    BY <1>6, <1>1
  <2>3. ~Less(u[1], v[1]) /\ ~Less(v[1], u[1])
    BY <1>7, <1>8, <2>2
  <2>4. u[1] = v[1]
    BY <2>1, <2>3, LessOrder DEF OnePerTxn
  <2>5. Capacity(Below(rs, u[1])) \in Nat
    BY <1>2, <2>1
  <2>6. f[u] = Capacity(Below(rs, u[1])) + u[2] /\ f[v] = Capacity(Below(rs, u[1])) + v[2]
    BY <1>5, <2>4
  <2>7. u[2] = v[2]
    <3>1. Capacity(Below(rs, u[1])) + u[2] = Capacity(Below(rs, u[1])) + v[2]
      BY <1>8, <2>6
    <3> QED
      BY <2>1, <2>5, <3>1
  <2> QED
    BY <2>1, <2>4, <2>7
<1>9. f \in [S -> T]
  BY <1>6 DEF Position
<1>10. f \in Injection(S, T)
  BY <1>8, <1>9 DEF Injection, IsInjective
<1>11. IsFiniteSet(T) /\ Cardinality(T) = Cardinality(S)
  <2>1. IsFiniteSet(T) /\ Cardinality(T) = Capacity(rs)
    BY <1>1, FS_Interval
  <2> QED
    BY <2>1 DEF Capacity
<1>12. f \in Surjection(S, T)
  BY <1>10, <1>11, FS_Injection
<1> QED
  BY <1>10, <1>12 DEF Bijection

-----------------------------------------------------------------------------
(* One release *)

(* What a release takes from one reservation: the units among the first of   *)
(* its owner's, as many as the release asks for.                             *)
LEMMA TakenRange ==
    ASSUME NEW rs \in SUBSET Reservation, IsFiniteSet(rs), NEW rel \in Release, NEW r \in rs
    PROVE  /\ TakenFrom(rs, rel, r) \in Nat /\ TakenFrom(rs, rel, r) <= r.amount
           /\ r.owner # rel.owner => TakenFrom(rs, rel, r) = 0
           /\ r.owner = rel.owner =>
                LET before == Capacity(Below(OwnedBy(rs, rel.owner), r))
                IN  /\ before \in Nat
                    /\ \A k \in 1..r.amount : k <= TakenFrom(rs, rel, r) <=> before + k <= rel.amount
<1>1. rel.amount \in Nat /\ r.amount \in Nat
  BY ResourceAssumption DEF Release, Reservation
<1>2. CASE r.owner # rel.owner
  BY <1>1, <1>2 DEF TakenFrom
<1>3. CASE r.owner = rel.owner
  <2> DEFINE os == OwnedBy(rs, rel.owner)
  <2>1. os \in SUBSET Reservation /\ IsFiniteSet(os) /\ Below(os, r) \in SUBSET os
    BY FS_Subset DEF OwnedBy, Below
  <2>2. PICK before \in Nat : before = Capacity(Below(os, r))
    BY <2>1, CapacityPart
  <2>3. TakenFrom(rs, rel, r) = Min({r.amount, Max({0, rel.amount - before})})
    BY <1>3, <2>2 DEF TakenFrom, Below
  <2>4. Max({0, rel.amount - before}) = IF 0 >= rel.amount - before THEN 0 ELSE rel.amount - before
    BY <1>1, LargerOfTwo
  <2>5. PICK m \in Nat : m = Max({0, rel.amount - before})
                         /\ m = IF 0 >= rel.amount - before THEN 0 ELSE rel.amount - before
    BY <1>1, <2>4
  <2>6. TakenFrom(rs, rel, r) = IF r.amount <= m THEN r.amount ELSE m
    <3>1. TakenFrom(rs, rel, r) = Min({r.amount, m})
      BY <2>3, <2>5
    <3>2. r.amount \in Int /\ m \in Int
      BY <1>1
    <3> QED
      BY <3>1, <3>2, SmallerOfTwo
  <2>7. TakenFrom(rs, rel, r) \in Nat /\ TakenFrom(rs, rel, r) <= r.amount
    BY <1>1, <2>5, <2>6
  <2>8. \A k \in 1..r.amount : k <= TakenFrom(rs, rel, r) <=> before + k <= rel.amount
    BY <1>1, <2>5, <2>6
  <2> QED
    BY <1>3, <2>2, <2>7, <2>8
<1> QED
  BY <1>2, <1>3

\* The reservation that is left of r.
Shrunk(rs, rel, r) == [r EXCEPT !.amount = @ - TakenFrom(rs, rel, r)]

(* What is left of a reservation is the same reservation, with less.  *)
LEMMA ShrunkFacts ==
    ASSUME NEW rs \in SUBSET Reservation, IsFiniteSet(rs), NEW rel \in Release, NEW r \in rs
    PROVE  LET s == Shrunk(rs, rel, r)
           IN  /\ s.txn = r.txn /\ s.owner = r.owner /\ s.rank = r.rank
               /\ s.amount = r.amount - TakenFrom(rs, rel, r)
               /\ s.amount > 0 => s \in Reservation
               /\ r.owner # rel.owner => s = r
<1>1. r.amount \in Nat /\ r.amount <= Total /\ r.amount > 0
  BY ResourceAssumption DEF Reservation
<1>2. PICK t \in Nat : t = TakenFrom(rs, rel, r) /\ t <= r.amount /\ (r.owner # rel.owner => t = 0)
  BY TakenRange
<1>3. Shrunk(rs, rel, r) = [r EXCEPT !.amount = @ - t]
  BY <1>2 DEF Shrunk
<1>4. r = [txn |-> r.txn, owner |-> r.owner, rank |-> r.rank, amount |-> r.amount]
  BY DEF Reservation
<1>5. Shrunk(rs, rel, r) = [txn |-> r.txn, owner |-> r.owner, rank |-> r.rank, amount |-> r.amount - t]
  BY <1>3, <1>4
<1>6. r.txn \in Txns /\ r.owner \in Owners /\ r.rank \in Ranks
  BY DEF Reservation
<1>7. r.amount - t > 0 => r.amount - t \in 1..Total
  BY <1>1, ResourceAssumption
<1>8. r.owner # rel.owner => Shrunk(rs, rel, r) = r
  <2>1. r.amount - 0 = r.amount
    BY <1>1
  <2> QED
    BY <1>2, <1>4, <1>5, <2>1
<1> QED
  BY <1>2, <1>5, <1>6, <1>7, <1>8 DEF Reservation

(* What a release leaves: types, one reservation per transaction, and the    *)
(* reservations of the other owners as they were.                            *)
LEMMA ReleaseShape ==
    ASSUME NEW rs \in SUBSET Reservation, IsFiniteSet(rs), OnePerTxn(rs), NEW rel \in Release
    PROVE  LET left == AfterRelease(rs, rel)
           IN  /\ left = {s \in {Shrunk(rs, rel, r) : r \in rs} : s.amount > 0}
               /\ left \in SUBSET Reservation /\ IsFiniteSet(left) /\ OnePerTxn(left)
               /\ \A o \in Owners \ {rel.owner} : OwnedBy(left, o) = OwnedBy(rs, o)
<1> DEFINE left == AfterRelease(rs, rel)
           image == {Shrunk(rs, rel, r) : r \in rs}
           f == [r \in rs |-> Shrunk(rs, rel, r)]
<1>1. left = {s \in image : s.amount > 0}
  BY DEF AfterRelease, Shrunk
<1>2. \A r \in rs : LET s == Shrunk(rs, rel, r)
                    IN  /\ s.txn = r.txn /\ s.owner = r.owner
                        /\ s.amount > 0 => s \in Reservation
                        /\ r.owner # rel.owner => s = r
  BY ShrunkFacts
<1>3. IsFiniteSet(image)
  <2>1. f \in Surjection(rs, image)
    BY DEF Surjection
  <2> QED
    BY <2>1, FS_Surjection
<1>4. IsFiniteSet(left)
  BY <1>1, <1>3, FS_Subset
<1>5. left \in SUBSET Reservation
  BY <1>1, <1>2
<1>6. OnePerTxn(left)
  BY <1>1, <1>2 DEF OnePerTxn
<1>7. \A r \in rs : r.amount > 0
  BY ResourceAssumption DEF Reservation
<1>8. ASSUME NEW o \in Owners \ {rel.owner} PROVE OwnedBy(left, o) = OwnedBy(rs, o)
  BY <1>1, <1>2, <1>7 DEF OwnedBy
<1> QED
  BY <1>1, <1>4, <1>5, <1>6, <1>8

(* A release takes from its owner what it asks for, or all there is.         *)
LEMMA ReleaseTakes ==
    ASSUME NEW rs \in SUBSET Reservation, IsFiniteSet(rs), OnePerTxn(rs), NEW rel \in Release
    PROVE  Capacity(OwnedBy(AfterRelease(rs, rel), rel.owner))
             = Max({0, Capacity(OwnedBy(rs, rel.owner)) - rel.amount})
<1> DEFINE os == OwnedBy(rs, rel.owner)
           left == OwnedBy(AfterRelease(rs, rel), rel.owner)
           pos == Position(os)
           high == {u \in Units(os) : pos[u] > rel.amount}
           numbers == {n \in 1..Capacity(os) : n > rel.amount}
           Origin(s) == CHOOSE r \in os : r.txn = s.txn
           g == [u \in Units(left) |-> <<Origin(u[1]), TakenFrom(rs, rel, Origin(u[1])) + u[2]>>]
<1>1. os \in SUBSET rs /\ os \in SUBSET Reservation /\ IsFiniteSet(os) /\ OnePerTxn(os)
  BY FS_Subset DEF OwnedBy, OnePerTxn
<1>2. Capacity(os) \in Nat /\ rel.amount \in Nat /\ IsFiniteSet(Units(os))
  BY <1>1, CapacityType, ResourceAssumption DEF Release
<1>3. pos \in Bijection(Units(os), 1..Capacity(os))
  BY <1>1, PositionBijection
(* Exactly the units beyond the amount are left. *)
<1>4. \A r \in os : /\ r \in rs /\ r.owner = rel.owner /\ r.amount \in Nat /\ r.amount <= Total
                    /\ TakenFrom(rs, rel, r) \in Nat /\ TakenFrom(rs, rel, r) <= r.amount
                    /\ Capacity(Below(os, r)) \in Nat
                    /\ \A k \in 1..r.amount :
                         k <= TakenFrom(rs, rel, r) <=> Capacity(Below(os, r)) + k <= rel.amount
  <2>1. \A r \in os : r \in rs /\ r.owner = rel.owner
    BY DEF OwnedBy
  <2>2. \A r \in os : r.amount \in Nat /\ r.amount <= Total
    BY <1>1, ResourceAssumption DEF Reservation
  <2> QED
    BY <2>1, <2>2, TakenRange
<1>5. ASSUME NEW r \in os, NEW k \in 1..r.amount
      PROVE  <<r, k>> \in Units(os)
             /\ (<<r, k>> \in high <=> ~(k <= TakenFrom(rs, rel, r)))
  <2>1. k \in Nat /\ k \in 1..Total /\ k <= r.amount
    BY <1>4, ResourceAssumption
  <2>2. <<r, k>> \in Units(os)
    BY <1>1, <2>1, UnitParts
  <2>3. pos[<<r, k>>] = Capacity(Below(os, r)) + k
    BY <2>2 DEF Position
  <2>4. k <= TakenFrom(rs, rel, r) <=> Capacity(Below(os, r)) + k <= rel.amount
    BY <1>4
  <2>5. Capacity(Below(os, r)) \in Nat
    BY <1>4
  <2>6. pos[<<r, k>>] > rel.amount <=> ~(Capacity(Below(os, r)) + k <= rel.amount)
    BY <1>2, <2>1, <2>3, <2>5
  <2> QED
    BY <2>2, <2>4, <2>6
<1>6. left = {s \in {Shrunk(rs, rel, r) : r \in os} : s.amount > 0}
  <2>1. AfterRelease(rs, rel) = {s \in {Shrunk(rs, rel, r) : r \in rs} : s.amount > 0}
    BY ReleaseShape
  <2>2. \A r \in rs : Shrunk(rs, rel, r).owner = r.owner
    BY ShrunkFacts
  <2> QED
    BY <2>1, <2>2 DEF OwnedBy
<1>7. left \in SUBSET Reservation /\ IsFiniteSet(left) /\ OnePerTxn(left)
  <2>1. /\ AfterRelease(rs, rel) \in SUBSET Reservation /\ IsFiniteSet(AfterRelease(rs, rel))
        /\ OnePerTxn(AfterRelease(rs, rel))
    BY ReleaseShape
  <2> QED
    BY <2>1, FS_Subset DEF OwnedBy, OnePerTxn
<1>8. ASSUME NEW s \in left
      PROVE  /\ Origin(s) \in os /\ s = Shrunk(rs, rel, Origin(s))
             /\ s.amount = Origin(s).amount - TakenFrom(rs, rel, Origin(s))
  <2>1. PICK r \in os : s = Shrunk(rs, rel, r)
    BY <1>6
  <2>2. r.txn = s.txn /\ s.amount = r.amount - TakenFrom(rs, rel, r)
    BY <1>1, <2>1, ShrunkFacts
  <2>3. Origin(s) \in os /\ Origin(s).txn = s.txn
    BY <2>2
  <2>4. Origin(s) = r
    BY <1>1, <2>2, <2>3 DEF OnePerTxn
  <2> HIDE DEF Origin
  <2> QED
    BY <2>1, <2>2, <2>3, <2>4
<1> HIDE DEF Origin
<1>9. ASSUME NEW u \in Units(left)
      PROVE  /\ u[1] \in left /\ u[2] \in Nat /\ u = <<u[1], u[2]>>
             /\ Origin(u[1]) \in os
             /\ TakenFrom(rs, rel, Origin(u[1])) + u[2] \in 1..Origin(u[1]).amount
             /\ g[u] \in high
  <2>1. u[1] \in left /\ u[2] \in Nat /\ 1 <= u[2] /\ u[2] <= u[1].amount /\ u = <<u[1], u[2]>>
    BY <1>7, UnitParts
  <2>2. Origin(u[1]) \in os /\ u[1].amount = Origin(u[1]).amount - TakenFrom(rs, rel, Origin(u[1]))
    BY <1>8, <2>1
  <2>3. PICK t \in Nat, a \in Nat : t = TakenFrom(rs, rel, Origin(u[1])) /\ a = Origin(u[1]).amount
    BY <1>4, <2>2
  <2>4. u[1].amount = a - t
    BY <2>2, <2>3
  <2>5. t + u[2] \in 1..a /\ ~(t + u[2] <= t)
    BY <2>1, <2>4
  <2>6. <<Origin(u[1]), t + u[2]>> \in high
    BY <1>5, <2>2, <2>3, <2>5
  <2> QED
    BY <2>1, <2>2, <2>3, <2>5, <2>6
<1>10. g \in [Units(left) -> high]
  BY <1>9
<1>11. ASSUME NEW u \in Units(left), NEW v \in Units(left), g[u] = g[v] PROVE u = v
  <2>1. Origin(u[1]) = Origin(v[1])
    BY <1>11
  <2>2. u[1] = v[1]
    <3>1. u[1] \in left /\ v[1] \in left
      BY <1>9
    <3>2. u[1] = Shrunk(rs, rel, Origin(u[1])) /\ v[1] = Shrunk(rs, rel, Origin(v[1]))
      BY <1>8, <3>1
    <3> QED
      BY <2>1, <3>2
  <2>3. TakenFrom(rs, rel, Origin(u[1])) + u[2] = TakenFrom(rs, rel, Origin(u[1])) + v[2]
    BY <1>11, <2>1
  <2>4. u[2] \in Nat /\ v[2] \in Nat /\ TakenFrom(rs, rel, Origin(u[1])) \in Nat
    BY <1>4, <1>9
  <2>5. u[2] = v[2]
    BY <2>3, <2>4
  <2> QED
    BY <1>9, <2>2, <2>5
<1>12. ASSUME NEW w \in high PROVE \E u \in Units(left) : g[u] = w
  <2>1. w \in Units(os)
    OBVIOUS
  <2>2. w[1] \in os /\ w[2] \in Nat /\ 1 <= w[2] /\ w[2] <= w[1].amount /\ w = <<w[1], w[2]>>
    BY <1>1, <2>1, UnitParts
  <2>3. PICK t \in Nat, a \in Nat :
            t = TakenFrom(rs, rel, w[1]) /\ a = w[1].amount /\ t <= a /\ a <= Total
    BY <1>4, <2>2
  <2>4. w[2] \in 1..w[1].amount
    BY <2>2, <2>3
  <2>5. ~(w[2] <= t)
    BY <1>5, <2>2, <2>3, <2>4
  <2> DEFINE s == Shrunk(rs, rel, w[1])  k == w[2] - t
  <2>6. s.amount = a - t /\ s.txn = w[1].txn
    BY <1>1, <2>2, <2>3, ShrunkFacts
  <2>7. w[2] <= a
    BY <2>2, <2>3
  <2>8. k \in 1..Total /\ k <= a - t /\ a - t > 0 /\ t + k = w[2]
    BY <2>2, <2>3, <2>5, <2>7, ResourceAssumption
  <2>9. s \in left
    BY <1>6, <2>2, <2>6, <2>8
  <2>10. <<s, k>> \in Units(left)
    BY <1>7, <2>6, <2>8, <2>9, UnitParts
  <2>11. Origin(s) = w[1]
    <3>1. Origin(s) \in os /\ s = Shrunk(rs, rel, Origin(s))
      BY <1>8, <2>9
    <3>2. s.txn = Origin(s).txn
      BY <1>1, <3>1, ShrunkFacts
    <3> QED
      BY <1>1, <2>2, <2>6, <3>1, <3>2 DEF OnePerTxn
  <2>12. g[<<s, k>>] = <<w[1], t + k>>
    BY <2>3, <2>10, <2>11
  <2> QED
    BY <2>2, <2>8, <2>10, <2>12
<1>13. g \in Bijection(Units(left), high)
  BY <1>10, <1>11, <1>12 DEF Bijection, Injection, Surjection, IsInjective
(* Their positions are the numbers beyond the amount. *)
<1>14. [u \in high |-> pos[u]] \in Bijection(high, numbers)
  <2> HIDE DEF pos
  <2>1. \A u \in Units(os) : pos[u] \in 1..Capacity(os)
    BY <1>3 DEF Bijection, Injection
  <2>2. \A u, v \in Units(os) : pos[u] = pos[v] => u = v
    BY <1>3 DEF Bijection, Injection, IsInjective
  <2>3. \A n \in 1..Capacity(os) : \E u \in Units(os) : pos[u] = n
    BY <1>3 DEF Bijection, Surjection
  <2> QED
    BY <2>1, <2>2, <2>3 DEF Bijection, Injection, Surjection, IsInjective
<1>15. Cardinality(numbers) = Max({0, Capacity(os) - rel.amount})
  <2>1. PICK c \in Nat, a \in Nat : c = Capacity(os) /\ a = rel.amount
    BY <1>2
  <2>2. numbers = (a + 1)..c
    BY <2>1
  <2>3. Cardinality((a + 1)..c) = IF a + 1 > c THEN 0 ELSE c - (a + 1) + 1
    BY FS_Interval
  <2>4. Max({0, c - a}) = IF 0 >= c - a THEN 0 ELSE c - a
    BY LargerOfTwo
  <2>5. Cardinality((a + 1)..c) = Max({0, c - a})
    BY <2>3, <2>4
  <2> QED
    BY <2>1, <2>2, <2>5
<1>16. Cardinality(high) = Cardinality(numbers) /\ Cardinality(high) = Cardinality(Units(left))
  <2>1. IsFiniteSet(high)
    BY <1>2, FS_Subset
  <2>2. IsFiniteSet(Units(left))
    BY <1>7, CapacityType
  <2>3. ExistsBijection(high, numbers)
    BY <1>14 DEF ExistsBijection
  <2>4. ExistsBijection(Units(left), high)
    BY <1>13 DEF ExistsBijection
  <2> HIDE DEF high, numbers, left
  <2>5. Cardinality(numbers) = Cardinality(high)
    BY <2>1, <2>3, FS_Bijection
  <2>6. Cardinality(high) = Cardinality(Units(left))
    BY <2>2, <2>4, FS_Bijection
  <2> QED
    BY <2>5, <2>6
<1> QED
  BY <1>15, <1>16 DEF Capacity

(* A release lowers the capacity in use. *)
LEMMA ReleaseLowers ==
    ASSUME NEW rs \in SUBSET Reservation, IsFiniteSet(rs), OnePerTxn(rs), NEW rel \in Release
    PROVE  /\ Capacity(AfterRelease(rs, rel)) \in Nat /\ Capacity(rs) \in Nat
           /\ Capacity(AfterRelease(rs, rel)) <= Capacity(rs)
<1> DEFINE left == AfterRelease(rs, rel)
<1>1. /\ left \in SUBSET Reservation /\ IsFiniteSet(left)
      /\ \A o \in Owners \ {rel.owner} : OwnedBy(left, o) = OwnedBy(rs, o)
  BY ReleaseShape
<1>2. OwnedBy(left, rel.owner) \in SUBSET left /\ OwnedBy(rs, rel.owner) \in SUBSET rs
  BY DEF OwnedBy
<1>3. left \ OwnedBy(left, rel.owner) = rs \ OwnedBy(rs, rel.owner)
  <2>1. ASSUME NEW r, r \in Reservation, r.owner # rel.owner PROVE r \in left <=> r \in rs
    <3>1. r.owner \in Owners \ {rel.owner}
      BY <2>1 DEF Reservation
    <3> QED
      BY <1>1, <3>1 DEF OwnedBy
  <2> QED
    BY <1>1, <2>1 DEF OwnedBy
<1>4. Capacity(left) = Capacity(OwnedBy(left, rel.owner)) + Capacity(left \ OwnedBy(left, rel.owner))
  BY <1>1, <1>2, CapacityPart
<1>5. Capacity(rs) = Capacity(OwnedBy(rs, rel.owner)) + Capacity(rs \ OwnedBy(rs, rel.owner))
  BY <1>2, CapacityPart
<1>6. Capacity(rs \ OwnedBy(rs, rel.owner)) \in Nat
  BY CapacityPart
<1>7. Capacity(OwnedBy(rs, rel.owner)) \in Nat /\ Capacity(OwnedBy(left, rel.owner)) \in Nat
  BY <1>1, <1>2, CapacityPart
<1>8. rel.amount \in Nat
  BY ResourceAssumption DEF Release
<1>9. Capacity(OwnedBy(left, rel.owner)) = Max({0, Capacity(OwnedBy(rs, rel.owner)) - rel.amount})
  BY ReleaseTakes
<1>10. PICK a \in Nat, b \in Nat, c \in Nat, d \in Nat :
          /\ a = Capacity(OwnedBy(left, rel.owner)) /\ b = Capacity(OwnedBy(rs, rel.owner))
          /\ c = Capacity(rs \ OwnedBy(rs, rel.owner)) /\ d = rel.amount
  BY <1>6, <1>7, <1>8
<1>11. a = Max({0, b - d})
  BY <1>9, <1>10
<1>12. Max({0, b - d}) = IF 0 >= b - d THEN 0 ELSE b - d
  BY LargerOfTwo
<1>13. a <= b
  BY <1>11, <1>12
<1>14. Capacity(left) = a + c /\ Capacity(rs) = b + c
  BY <1>3, <1>4, <1>5, <1>10
<1> QED
  BY <1>13, <1>14

-----------------------------------------------------------------------------
(* What the releases ask for *)

(* The next release adds its amount to what its owner asked for, and nothing *)
(* to anyone else's.                                                         *)
LEMMA AskedNext ==
    ASSUME releases \in Seq(Release), NEW o \in Owners,
           NEW n \in Nat, n < Len(releases)
    PROVE  /\ Asked(o, n) \in Nat
           /\ releases[n + 1] \in Release
           /\ releases[n + 1].owner # o => Asked(o, n + 1) = Asked(o, n)
           /\ releases[n + 1].owner = o => Asked(o, n + 1) = Asked(o, n) + releases[n + 1].amount
<1> DEFINE old == AskedUnits(o, n)  all == AskedUnits(o, n + 1)
           a == releases[n + 1].amount
           new == {<<n + 1, k>> : k \in 1..a}
<1>1. n + 1 \in DOMAIN releases /\ releases[n + 1] \in Release
  BY Z3
<1>2. a \in Nat /\ a <= Total /\ a > 0 /\ Total \in Nat
  BY <1>1, ResourceAssumption DEF Release
<1>3. IsFiniteSet(old) /\ Cardinality(old) \in Nat
  <2>1. IsFiniteSet(1..n) /\ IsFiniteSet(1..Total)
    BY FS_Interval, <1>2
  <2>2. IsFiniteSet((1..n) \X (1..Total))
    BY <2>1, FS_Product
  <2>3. old \in SUBSET ((1..n) \X (1..Total))
    BY DEF AskedUnits
  <2>4. IsFiniteSet(old)
    BY <2>2, <2>3, FS_Subset
  <2> QED
    BY <2>4, FS_CardinalityType
<1>4. 1..(n + 1) = (1..n) \cup {n + 1} /\ n + 1 \notin 1..n
  OBVIOUS
<1>5. CASE releases[n + 1].owner # o
  <2>1. all = old
    BY <1>4, <1>5 DEF AskedUnits
  <2> QED
    BY <1>1, <1>3, <1>5, <2>1 DEF Asked
<1>6. CASE releases[n + 1].owner = o
  <2>1. all = old \cup new /\ old \cap new = {}
    BY <1>2, <1>4, <1>6 DEF AskedUnits
  <2>2. IsFiniteSet(new) /\ Cardinality(new) = a
    <3> DEFINE f == [k \in 1..a |-> <<n + 1, k>>]
    <3>1. f \in Bijection(1..a, new)
      BY DEF Bijection, Injection, Surjection, IsInjective
    <3>2. ExistsBijection(1..a, new)
      BY <3>1 DEF ExistsBijection
    <3>3. IsFiniteSet(new)
      BY <1>2, <3>2, FS_NatBijection
    <3> QED
      BY <1>2, <3>2, <3>3, FS_CountingElements
  <2>3. Cardinality(old \cup new) = Cardinality(old) + Cardinality(new) - Cardinality(old \cap new)
    BY <1>3, <2>2, FS_Union
  <2>4. Cardinality(old \cap new) = 0
    BY <2>1, FS_EmptySet
  <2>5. Cardinality(all) = Cardinality(old) + a
    <3>1. PICK x \in Nat, y \in Nat : x = Cardinality(old) /\ y = a
      BY <1>2, <1>3
    <3>2. Cardinality(all) = Cardinality(old \cup new)
      BY <2>1
    <3> HIDE DEF all, old, new, a
    <3>3. Cardinality(all) = x + y - 0
      BY <2>2, <2>3, <2>4, <3>1, <3>2
    <3>4. Cardinality(all) = x + y
      BY <3>3
    <3> QED
      BY <3>1, <3>4
  <2> QED
    BY <1>1, <1>3, <1>6, <2>5 DEF Asked
<1> QED
  BY <1>5, <1>6

-----------------------------------------------------------------------------
(* The calls of the Work phase *)

(* A request, a release or a cancellation changes the proposals only. *)
LEMMA ProposalStep ==
    ASSUME ResourceInv,
           \/ \E r \in Reservation : ProposeReserve(r)
           \/ \E o \in Owners, amount \in 1..Total : ProposeRelease(o, amount)
           \/ \E o \in Owners, t \in Txns : ProposeCancel(o, t)
    PROVE  ResourceInv'
<1> USE DEF proposalVars, decisionVars, ledgerVars, countVars, xferVars
<1>1. /\ phase = "work" /\ phase' = "work"
      /\ UNCHANGED <<decisionVars, ledgerVars, xferVars>>
  BY DEF ProposeReserve, ProposeRelease, ProposeCancel
<1>2. /\ proposals' \in Seq(Reservation)
      /\ \A i, j \in DOMAIN proposals' : proposals'[i].txn = proposals'[j].txn => i = j
      /\ \A i \in DOMAIN proposals' : \A r \in reservations : r.txn # proposals'[i].txn
  <2>0. /\ proposals \in Seq(Reservation)
        /\ \A i, j \in DOMAIN proposals : proposals[i].txn = proposals[j].txn => i = j
        /\ \A i \in DOMAIN proposals : \A r \in reservations : r.txn # proposals[i].txn
    BY <1>1 DEF ResourceInv, Conservation, TypeOK, RequestsFresh
  <2>1. CASE \E r \in Reservation : ProposeReserve(r)
    <3>1. PICK r \in Reservation : ProposeReserve(r)
      BY <2>1
    <3>2. /\ proposals' = Append(proposals, r)
          /\ \A i \in DOMAIN proposals : proposals[i].txn # r.txn
          /\ \A s \in reservations : s.txn # r.txn
      BY <3>1 DEF ProposeReserve, WithTxn
    <3>3. /\ proposals' \in Seq(Reservation)
          /\ DOMAIN proposals' = DOMAIN proposals \cup {Len(proposals) + 1}
          /\ Len(proposals) + 1 \notin DOMAIN proposals
          /\ \A i \in DOMAIN proposals : proposals'[i] = proposals[i]
          /\ proposals'[Len(proposals) + 1] = r
      BY <2>0, <3>2
    <3> QED
      BY <2>0, <3>2, <3>3
  <2>2. CASE proposals' = proposals
    BY <2>0, <2>2
  <2> QED
    BY <2>1, <2>2 DEF ProposeRelease, ProposeCancel
<1>3. releases' \in Seq(Release) /\ applied \in 0..Len(releases')
  <2>0. releases \in Seq(Release) /\ applied \in 0..Len(releases)
    BY DEF ResourceInv, Conservation, TypeOK, Release
  <2>1. CASE releases' = releases
    BY <2>0, <2>1
  <2>2. CASE \E o \in Owners, amount \in 1..Total : ProposeRelease(o, amount)
    <3>1. PICK rel \in Release : releases' = Append(releases, rel)
      BY <2>2 DEF ProposeRelease, Release
    <3>2. releases' \in Seq(Release) /\ Len(releases') = Len(releases) + 1 /\ Len(releases) \in Nat
      BY <2>0, <3>1
    <3> QED
      BY <2>0, <3>2
  <2> QED
    BY <2>1, <2>2 DEF ProposeReserve, ProposeCancel
<1>4. cancels' \subseteq Txns
  <2>0. cancels \subseteq Txns
    BY DEF ResourceInv, Conservation, TypeOK
  <2> QED
    BY <2>0 DEF ProposeReserve, ProposeRelease, ProposeCancel
<1>5. Conservation'
  <2>1. TypeOK'
    BY <1>1, <1>2, <1>3, <1>4 DEF ResourceInv, Conservation, TypeOK, Release
  <2> QED
    BY <1>1, <2>1 DEF ResourceInv, Conservation
<1>6. Finite'
  BY <1>1 DEF ResourceInv, Finite
<1>7. RequestsFresh'
  BY <1>1, <1>2 DEF RequestsFresh
<1>8. Decisions'
  BY <1>1 DEF ResourceInv, Decisions
<1>9. ArbitrationStable' /\ Settlement'
  BY <1>1 DEF ArbitrationStable, Settlement
<1> QED
  BY <1>5, <1>6, <1>7, <1>8, <1>9 DEF ResourceInv

-----------------------------------------------------------------------------
(* doArbitrate *)

(* The loop begins with nothing decided. *)
LEMMA ArbitrateStep ==
    ASSUME ResourceInv, Arbitrate
    PROVE  ResourceInv'
<1> USE DEF proposalVars, decisionVars, ledgerVars, countVars, xferVars
<1>1. /\ phase = "work" /\ phase' = "arbitrate" /\ accepted' = {} /\ rejecting' = {}
      /\ UNCHANGED <<proposalVars, ledgerVars, xferVars>>
  BY DEF Arbitrate
<1>2. Requests' = Requests /\ Undecided' = Requests'
  BY <1>1 DEF Requests, Undecided
<1>3. Conservation'
  BY <1>1 DEF ResourceInv, Conservation, TypeOK
<1>4. Finite'
  BY <1>1, FS_EmptySet DEF ResourceInv, Finite
<1>5. RequestsFresh'
  BY <1>1 DEF ResourceInv, RequestsFresh
<1>6. Capacity(accepted') <= Available'
  <2>1. active \in 0..Total /\ Total \in Nat
    BY ResourceAssumption DEF ResourceInv, Conservation, TypeOK
  <2>2. Capacity(accepted') = 0
    BY <1>1, CapacityEmpty
  <2>3. Available' = Total - active
    BY <1>1 DEF Available
  <2> QED
    BY <2>1, <2>2, <2>3
<1>7. Decisions'
  BY <1>1, <1>2, <1>6 DEF Decisions
<1>8. ArbitrationStable' /\ Settlement'
  BY <1>1, <1>2 DEF ArbitrationStable, Settlement
<1> QED
  BY <1>3, <1>4, <1>5, <1>7, <1>8 DEF ResourceInv

(* Requests are reservations, one per transaction. *)
LEMMA RequestsFacts ==
    ASSUME ResourceInv
    PROVE  Requests \in SUBSET Reservation /\ OnePerTxn(Requests) /\ Undecided \in SUBSET Requests
<1>1. \A i \in DOMAIN proposals : proposals[i] \in Reservation
  <2>1. proposals \in Seq(Reservation)
    BY DEF ResourceInv, Conservation, TypeOK
  <2> QED
    BY <2>1
<1>2. \A i, j \in DOMAIN proposals : proposals[i].txn = proposals[j].txn => i = j
  BY DEF ResourceInv, RequestsFresh
<1> QED
  BY <1>1, <1>2 DEF Requests, OnePerTxn, Undecided

(* One iteration decides the first request that is undecided. *)
LEMMA ServeStep ==
    ASSUME ResourceInv, NEW r \in Requests, Serve(r)
    PROVE  ResourceInv'
<1> DEFINE U == Undecided
<1>1. /\ phase = "arbitrate" /\ phase' = "arbitrate"
      /\ r \in U /\ FirstOf(U, r)
      /\ UNCHANGED <<proposals, releases, cancels, reservations, active, rejected, peak, issued,
                     returned, cancelled, applied, opening>>
  BY DEF Serve, proposalVars, ledgerVars, countVars, xferVars
<1>2. /\ r \in Requests /\ r \notin accepted /\ r.txn \notin rejecting
      /\ Requests \in SUBSET Reservation /\ OnePerTxn(Requests) /\ U \in SUBSET Requests
      /\ r \in Reservation
  BY <1>1, RequestsFacts DEF Undecided
<1>3. /\ accepted \in SUBSET Requests /\ IsFiniteSet(accepted) /\ rejecting \subseteq Txns
      /\ accepted \in SUBSET Reservation
      /\ Capacity(accepted) <= Available
      /\ \A d \in Requests \ U, u \in U : Less(d, u)
  BY <1>1, <1>2 DEF ResourceInv, Decisions, Finite, Conservation, TypeOK
<1>4. /\ \A d \in Requests \ U :
            d \in accepted <=> d.amount <= Available - Capacity({a \in accepted : Less(a, d)})
      /\ rejecting = {d.txn : d \in Requests \ (accepted \cup U)}
  BY <1>1 DEF ResourceInv, ArbitrationStable
<1>5. Requests' = Requests /\ Available' = Available
  BY <1>1 DEF Requests, Available
<1>6. accepted \cap U = {}
  BY DEF Undecided
<1>7. /\ \A d \in Requests \ U : d # r /\ ~Less(r, d)
      /\ \A a \in accepted : Less(a, r)
      /\ ~Less(r, r)
  BY <1>1, <1>2, <1>3, <1>6, LessOrder
<1>8. \A u \in U \ {r} : Less(r, u)
  BY <1>1 DEF FirstOf
<1>9. Available \in Int /\ r.amount \in Nat /\ Capacity(accepted) \in Nat
  BY <1>2, <1>3, CapacityType, ResourceAssumption
     DEF ResourceInv, Conservation, TypeOK, Available, Reservation
<1>10. {a \in accepted : Less(a, r)} = accepted
  BY <1>7
<1>11. CASE /\ r.amount <= Available - Capacity(accepted)
            /\ accepted' = accepted \cup {r} /\ rejecting' = rejecting
  <2>1. Undecided' = U \ {r}
    BY <1>5, <1>11 DEF Undecided
  <2>2. IsFiniteSet(accepted') /\ Capacity(accepted') = Capacity(accepted) + r.amount
    <3>1. IsFiniteSet({r}) /\ {r} \in SUBSET Reservation /\ accepted \cap {r} = {}
      BY <1>2, FS_Singleton
    <3>2. Capacity(accepted \cup {r}) = Capacity(accepted) + Capacity({r})
      BY <1>3, <3>1, CapacityUnion
    <3>3. Capacity({r}) = r.amount
      BY <1>2, CapacityOne
    <3>4. IsFiniteSet(accepted \cup {r})
      BY <1>3, <3>1, FS_Union
    <3> QED
      BY <1>11, <3>2, <3>3, <3>4
  <2>3. Capacity(accepted') <= Available'
    <3>1. PICK c \in Nat, m \in Nat, v \in Int :
              c = Capacity(accepted) /\ m = r.amount /\ v = Available
      BY <1>9
    <3>2. m <= v - c
      BY <1>11, <3>1
    <3>3. c + m <= v
      BY <3>2
    <3> QED
      BY <1>5, <2>2, <3>1, <3>3
  <2>4. Decisions'
    <3>1. accepted' \subseteq Requests'
      BY <1>2, <1>3, <1>5, <1>11
    <3>2. \A d \in Requests' \ Undecided', u \in Undecided' : Less(d, u)
      BY <1>3, <1>5, <1>8, <2>1
    <3> QED
      BY <1>1, <2>3, <3>1, <3>2 DEF Decisions
  <2>5. ArbitrationStable'
    <3>1. rejecting' = {d.txn : d \in Requests' \ (accepted' \cup Undecided')}
      <4>1. Requests' \ (accepted' \cup Undecided') = Requests \ (accepted \cup U)
        BY <1>1, <1>5, <1>11, <2>1
      <4> QED
        BY <1>4, <1>11, <4>1
    <3>2. ASSUME NEW d \in Requests \ U
          PROVE  {a \in accepted' : Less(a, d)} = {a \in accepted : Less(a, d)}
                 /\ (d \in accepted' <=> d \in accepted)
      BY <1>7, <1>11
    <3>3. {a \in accepted' : Less(a, r)} = accepted /\ r \in accepted'
      BY <1>7, <1>10, <1>11
    <3>4. ASSUME NEW d \in Requests' \ Undecided'
          PROVE  d \in accepted' <=>
                   d.amount <= Available' - Capacity({a \in accepted' : Less(a, d)})
      <4>1. CASE d = r
        BY <1>5, <1>11, <3>3, <4>1
      <4>2. CASE d \in Requests \ U
        BY <1>4, <1>5, <3>2, <4>2
      <4> QED
        BY <1>5, <2>1, <4>1, <4>2
    <3> QED
      BY <3>1, <3>4 DEF ArbitrationStable
  <2>6. Conservation'
    BY <1>1, <1>2, <1>11 DEF ResourceInv, Conservation, TypeOK
  <2>7. Finite' /\ RequestsFresh' /\ Settlement'
    BY <1>1, <2>2 DEF ResourceInv, Finite, RequestsFresh, Settlement
  <2> QED
    BY <2>4, <2>5, <2>6, <2>7 DEF ResourceInv
<1>12. CASE /\ ~(r.amount <= Available - Capacity(accepted))
            /\ rejecting' = rejecting \cup {r.txn} /\ accepted' = accepted
  <2>1. Undecided' = U \ {r}
    <3>1. \A x \in Requests : x.txn = r.txn <=> x = r
      BY <1>2 DEF OnePerTxn
    <3> QED
      BY <1>5, <1>12, <3>1 DEF Undecided
  <2>2. Decisions'
    <3>1. \A d \in Requests' \ Undecided', u \in Undecided' : Less(d, u)
      BY <1>3, <1>5, <1>8, <2>1
    <3> QED
      BY <1>1, <1>3, <1>5, <1>12, <3>1 DEF Decisions
  <2>3. ArbitrationStable'
    <3>1. rejecting' = {d.txn : d \in Requests' \ (accepted' \cup Undecided')}
      <4>1. Requests' \ (accepted' \cup Undecided') = (Requests \ (accepted \cup U)) \cup {r}
        BY <1>1, <1>2, <1>5, <1>12, <2>1
      <4> QED
        BY <1>4, <1>12, <4>1
    <3>2. ASSUME NEW d \in Requests' \ Undecided'
          PROVE  d \in accepted' <=>
                   d.amount <= Available' - Capacity({a \in accepted' : Less(a, d)})
      <4>1. CASE d = r
        BY <1>2, <1>5, <1>10, <1>12, <4>1
      <4>2. CASE d \in Requests \ U
        BY <1>4, <1>5, <1>12, <4>2
      <4> QED
        BY <1>5, <2>1, <4>1, <4>2
    <3> QED
      BY <3>1, <3>2 DEF ArbitrationStable
  <2>4. Conservation'
    <3>1. rejecting' \subseteq Txns
      BY <1>2, <1>3, <1>12 DEF Reservation
    <3> QED
      BY <1>1, <1>12, <3>1 DEF ResourceInv, Conservation, TypeOK
  <2>5. Finite' /\ RequestsFresh' /\ Settlement'
    BY <1>1, <1>12 DEF ResourceInv, Finite, RequestsFresh, Settlement
  <2> QED
    BY <2>2, <2>3, <2>4, <2>5 DEF ResourceInv
<1> QED
  BY <1>11, <1>12 DEF Serve

-----------------------------------------------------------------------------
(* doXfer *)

(* The accepted reservations and the cancellations. *)
LEMMA XferStep ==
    ASSUME ResourceInv, Xfer
    PROVE  ResourceInv'
<1> DEFINE dropped == {r \in Held : r.txn \in cancels}
<1>1. /\ phase = "arbitrate" /\ phase' = "release"
      /\ opening' = Held /\ applied' = 0 /\ reservations' = AfterCancel
      /\ active' = active + Capacity(accepted) - Capacity(dropped)
      /\ issued' = issued + Capacity(accepted)
      /\ cancelled' = cancelled + Capacity(dropped)
      /\ UNCHANGED <<proposals, releases, cancels, accepted, rejecting, rejected, peak, returned>>
  BY DEF Xfer, Dropped, proposalVars, decisionVars
<1>2. /\ reservations \in SUBSET Reservation /\ IsFiniteSet(reservations)
      /\ accepted \in SUBSET Reservation /\ IsFiniteSet(accepted)
      /\ accepted \in SUBSET Requests
      /\ OnePerTxn(reservations)
  BY DEF ResourceInv, Finite, Conservation, TypeOK, Decisions, OnePerTxn
<1>3. \A r \in reservations, a \in accepted : r.txn # a.txn
  BY <1>1, <1>2 DEF ResourceInv, RequestsFresh, Requests
<1>4. reservations \cap accepted = {}
  BY <1>3
<1>5. Held \in SUBSET Reservation /\ IsFiniteSet(Held) /\ OnePerTxn(Held)
  <2>1. OnePerTxn(accepted)
    BY <1>2, RequestsFacts DEF OnePerTxn
  <2>2. IsFiniteSet(reservations \cup accepted)
    BY <1>2, FS_Union
  <2> QED
    BY <1>2, <1>3, <2>1, <2>2 DEF Held, OnePerTxn
<1>6. Capacity(Held) = Capacity(reservations) + Capacity(accepted)
  BY <1>2, <1>4, CapacityUnion DEF Held
<1>7. dropped \in SUBSET Held /\ AfterCancel = Held \ dropped /\ AfterCancel \in SUBSET Held
  BY DEF AfterCancel
<1>8. /\ Capacity(dropped) \in Nat
      /\ Capacity(Held) = Capacity(dropped) + Capacity(AfterCancel)
      /\ Capacity(AfterCancel) \in Nat /\ IsFiniteSet(AfterCancel)
  BY <1>5, <1>7, CapacityPart
<1>9. /\ Capacity(reservations) \in Nat /\ Capacity(accepted) \in Nat
      /\ active = Capacity(reservations) /\ Capacity(accepted) <= Available
      /\ active \in 0..Total /\ Total \in Nat
      /\ issued \in Nat /\ returned \in Nat /\ cancelled \in Nat
      /\ issued = active + returned + cancelled
  BY <1>1, <1>2, CapacityType, ResourceAssumption
     DEF ResourceInv, Conservation, TypeOK, Decisions
<1>10. PICK g \in Nat, d \in Nat, k \in Nat :
          g = Capacity(accepted) /\ d = Capacity(dropped) /\ k = Capacity(AfterCancel)
  BY <1>8, <1>9
<1>11. active + g = d + k /\ active + g <= Total
  <2>1. g <= Total - active
    BY <1>9, <1>10 DEF Available
  <2>2. active + g = d + k
    BY <1>6, <1>8, <1>9, <1>10
  <2> QED
    BY <1>9, <2>1, <2>2
<1>12. active' = active + g - d /\ issued' = issued + g /\ cancelled' = cancelled + d
  BY <1>1, <1>10
<1>13. active' = k /\ active' \in 0..Total /\ issued' \in Nat /\ cancelled' \in Nat
       /\ issued' = active' + returned + cancelled'
  BY <1>9, <1>11, <1>12
<1>14. Conservation'
  <2>1. 0 \in 0..Len(releases)
    <3>1. releases \in Seq([owner : Owners, amount : 1..Total])
      BY DEF ResourceInv, Conservation, TypeOK
    <3> QED
      BY <3>1
  <2>2. TypeOK'
    BY <1>1, <1>2, <1>5, <1>7, <1>13, <2>1 DEF ResourceInv, Conservation, TypeOK
  <2>3. active' = Capacity(reservations')
    BY <1>1, <1>10, <1>13
  <2>4. OnePerTxn(reservations')
    BY <1>1, <1>5, <1>7 DEF OnePerTxn
  <2> QED
    BY <1>1, <1>13, <2>2, <2>3, <2>4 DEF Conservation, OnePerTxn
<1>15. Finite'
  BY <1>1, <1>2, <1>5, <1>8 DEF Finite
<1>16. RequestsFresh' /\ Decisions' /\ ArbitrationStable'
  BY <1>1 DEF ResourceInv, RequestsFresh, Decisions, ArbitrationStable, Requests
<1>17. ASSUME NEW o \in Owners
       PROVE  /\ Capacity(OwnedBy(reservations', o))
                   = Max({0, Capacity(Kept(o)') - Asked(o, applied)'})
              /\ OwnedBy(reservations', o) = Kept(o)'
  <2>1. OwnedBy(reservations', o) = Kept(o)'
    BY <1>1 DEF Kept, OwnedBy, AfterCancel
  <2>2. Asked(o, applied)' = 0
    <3>1. AskedUnits(o, applied)' = {}
      BY <1>1 DEF AskedUnits
    <3> QED
      BY <3>1, FS_EmptySet DEF Asked
  <2>3. OwnedBy(reservations', o) \in SUBSET AfterCancel
    BY <1>1 DEF OwnedBy
  <2>4. PICK c \in Nat : c = Capacity(OwnedBy(reservations', o))
    BY <1>5, <1>7, <1>8, <2>3, CapacityPart
  <2>5. Max({0, c - 0}) = c
    BY LargerOfTwo
  <2> QED
    BY <2>1, <2>2, <2>4, <2>5
<1>18. Settlement'
  BY <1>17 DEF Settlement
<1> QED
  BY <1>14, <1>15, <1>16, <1>18 DEF ResourceInv

(* One release settles with its owner and nobody else. *)
LEMMA ApplyReleaseStep ==
    ASSUME ResourceInv, ApplyRelease
    PROVE  ResourceInv'
<1> DEFINE rel == releases[applied + 1]
           left == AfterRelease(reservations, rel)
           released == Capacity(reservations) - Capacity(left)
<1>1. /\ phase = "release" /\ phase' = "release" /\ applied < Len(releases)
      /\ reservations' = left /\ active' = active - released /\ returned' = returned + released
      /\ applied' = applied + 1
      /\ UNCHANGED <<proposals, releases, cancels, accepted, rejecting, rejected, peak, issued,
                     cancelled, opening>>
  BY DEF ApplyRelease, proposalVars, decisionVars
<1>2. /\ reservations \in SUBSET Reservation /\ IsFiniteSet(reservations)
      /\ OnePerTxn(reservations)
      /\ releases \in Seq(Release) /\ applied \in 0..Len(releases)
      /\ active = Capacity(reservations) /\ active \in 0..Total /\ Total \in Nat
      /\ issued \in Nat /\ returned \in Nat /\ cancelled \in Nat
      /\ issued = active + returned + cancelled
  BY ResourceAssumption DEF ResourceInv, Finite, Conservation, TypeOK, OnePerTxn, Release
<1>3. Len(releases) \in Nat /\ applied \in Nat /\ applied + 1 \in 0..Len(releases)
  <2>1. Len(releases) \in Nat
    BY <1>2
  <2> QED
    BY <1>1, <1>2, <2>1
<1>4. ASSUME NEW o \in Owners
      PROVE  /\ Asked(o, applied) \in Nat /\ rel \in Release
             /\ rel.owner # o => Asked(o, applied + 1) = Asked(o, applied)
             /\ rel.owner = o => Asked(o, applied + 1) = Asked(o, applied) + rel.amount
  BY <1>1, <1>2, <1>3, AskedNext
<1>5. rel \in Release
  <2>1. releases \in Seq(Release) /\ applied + 1 \in 1..Len(releases)
    BY <1>1, <1>2, <1>3
  <2> QED
    BY <2>1
<1> HIDE DEF rel
<1>6. /\ left \in SUBSET Reservation /\ IsFiniteSet(left) /\ OnePerTxn(left)
      /\ \A o \in Owners \ {rel.owner} : OwnedBy(left, o) = OwnedBy(reservations, o)
  BY <1>2, <1>5, ReleaseShape
<1>7. /\ Capacity(left) \in Nat /\ Capacity(left) <= Capacity(reservations)
      /\ Capacity(reservations) \in Nat
  BY <1>2, <1>5, ReleaseLowers
<1>8. Capacity(OwnedBy(left, rel.owner)) = Max({0, Capacity(OwnedBy(reservations, rel.owner)) - rel.amount})
  BY <1>2, <1>5, ReleaseTakes
<1> HIDE DEF left
<1>9. /\ active' = Capacity(left) /\ active' \in 0..Total /\ returned' \in Nat
      /\ issued' = active' + returned' + cancelled'
  <2>1. PICK c \in Nat, l \in Nat :
            c = Capacity(reservations) /\ l = Capacity(left) /\ l <= c /\ active = c
    BY <1>2, <1>7
  <2>2. active' = active - (c - l) /\ returned' = returned + (c - l) /\ UNCHANGED <<issued, cancelled>>
    BY <1>1, <2>1
  <2>3. PICK t \in Nat, i \in Nat, b \in Nat, x \in Nat :
            /\ t = Total /\ i = issued /\ b = returned /\ x = cancelled
            /\ c <= t /\ i = c + b + x
    BY <1>2, <2>1
  <2>4. active' = c - (c - l) /\ returned' = b + (c - l) /\ issued' = i /\ cancelled' = x
    BY <2>1, <2>2, <2>3
  <2>5. /\ c - (c - l) = l /\ b + (c - l) \in Nat /\ l \in 0..t
        /\ i = l + (b + (c - l)) + x
    BY <2>1, <2>3
  <2> QED
    BY <2>1, <2>3, <2>4, <2>5
<1>10. Conservation'
  <2>1. TypeOK'
    BY <1>1, <1>3, <1>6, <1>9 DEF ResourceInv, Conservation, TypeOK
  <2> QED
    BY <1>1, <1>6, <1>9, <2>1 DEF Conservation, OnePerTxn
<1>11. Finite' /\ RequestsFresh' /\ Decisions' /\ ArbitrationStable'
  BY <1>1, <1>6 DEF ResourceInv, Finite, RequestsFresh, Decisions, ArbitrationStable, Requests
<1>12. ASSUME NEW o \in Owners
       PROVE  /\ Capacity(OwnedBy(reservations, o)) = Max({0, Capacity(Kept(o)) - Asked(o, applied)})
              /\ Asked(o, applied) = 0 => OwnedBy(reservations, o) = Kept(o)
              /\ Capacity(Kept(o)) \in Nat
  <2>1. opening \in SUBSET Reservation /\ IsFiniteSet(opening) /\ Kept(o) \in SUBSET opening
    BY DEF ResourceInv, Conservation, TypeOK, Finite, Kept, OwnedBy
  <2> QED
    BY <1>1, <2>1, CapacityPart DEF ResourceInv, Settlement
<1>13. ASSUME NEW o \in Owners
       PROVE  Kept(o)' = Kept(o) /\ Asked(o, applied)' = Asked(o, applied + 1)
  BY <1>1 DEF Kept, OwnedBy, Asked, AskedUnits
<1>14. ASSUME NEW o \in Owners
       PROVE  /\ Capacity(OwnedBy(left, o)) = Max({0, Capacity(Kept(o)) - Asked(o, applied + 1)})
              /\ Asked(o, applied + 1) = 0 => OwnedBy(left, o) = Kept(o)
  <2>1. CASE rel.owner # o
    BY <1>4, <1>6, <1>12, <2>1
  <2>2. CASE rel.owner = o
    <3>1. PICK k \in Nat, a \in Nat, m \in Nat :
              k = Capacity(Kept(o)) /\ a = Asked(o, applied) /\ m = rel.amount /\ m > 0
      <4>1. rel.amount \in Nat /\ rel.amount > 0
        BY <1>5, ResourceAssumption DEF Release
      <4>2. Capacity(Kept(o)) \in Nat /\ Asked(o, applied) \in Nat
        BY <1>4, <1>12
      <4> QED
        BY <4>1, <4>2
    <3>2. Asked(o, applied + 1) = a + m
      BY <1>4, <2>2, <3>1
    <3>3. Capacity(OwnedBy(reservations, o)) = Max({0, k - a})
      BY <1>12, <3>1
    <3>4. Max({0, k - a}) = IF 0 >= k - a THEN 0 ELSE k - a
      BY LargerOfTwo
    <3>5. PICK c \in Nat : c = Capacity(OwnedBy(reservations, o))
                           /\ c = IF 0 >= k - a THEN 0 ELSE k - a
      BY <3>3, <3>4
    <3>6. Capacity(OwnedBy(left, o)) = Max({0, c - m})
      BY <1>8, <2>2, <3>1, <3>5
    <3>7. Max({0, c - m}) = IF 0 >= c - m THEN 0 ELSE c - m
      BY LargerOfTwo
    <3>8. Max({0, k - (a + m)}) = IF 0 >= k - (a + m) THEN 0 ELSE k - (a + m)
      BY LargerOfTwo
    <3>9. Max({0, c - m}) = Max({0, k - (a + m)})
      BY <3>5, <3>7, <3>8
    <3>10. a + m # 0
      BY <3>1
    <3> QED
      BY <3>1, <3>2, <3>6, <3>9, <3>10
  <2> QED
    BY <2>1, <2>2
<1>15. Settlement'
  BY <1>1, <1>13, <1>14 DEF Settlement
<1> QED
  BY <1>10, <1>11, <1>15 DEF ResourceInv

(* The epoch ends with the books closed. *)
LEMMA EndXferStep ==
    ASSUME ResourceInv, EndXfer
    PROVE  ResourceInv'
<1>1. /\ phase = "release" /\ phase' = "work" /\ peak' = Max({peak, active})
      /\ rejected' = rejecting /\ proposals' = <<>> /\ releases' = <<>> /\ cancels' = {}
      /\ accepted' = {} /\ rejecting' = {} /\ applied' = 0 /\ opening' = {}
      /\ UNCHANGED <<reservations, active, issued, returned, cancelled>>
  BY DEF EndXfer, countVars
<1>2. peak \in 0..Total /\ active \in 0..Total /\ Total \in Nat
  BY ResourceAssumption DEF ResourceInv, Conservation, TypeOK
<1>3. peak' = IF peak >= active THEN peak ELSE active
  BY <1>1, <1>2, LargerOfTwo
<1>4. peak' \in 0..Total /\ active <= peak'
  BY <1>2, <1>3
<1>5. Conservation'
  <2>1. TypeOK'
    BY <1>1, <1>4 DEF ResourceInv, Conservation, TypeOK
  <2> QED
    BY <1>1, <1>4, <2>1 DEF ResourceInv, Conservation
<1>6. Finite' /\ RequestsFresh' /\ Decisions' /\ ArbitrationStable' /\ Settlement'
  BY <1>1, FS_EmptySet
     DEF ResourceInv, Finite, RequestsFresh, Decisions, ArbitrationStable, Settlement
<1> QED
  BY <1>5, <1>6 DEF ResourceInv

-----------------------------------------------------------------------------
(* Theorems *)

(* A resource that holds nothing, as the constructor and reset() leave it. *)
LEMMA EmptyResource ==
    ASSUME Init
    PROVE  ResourceInv
<1>1. Capacity(reservations) = 0
  BY CapacityEmpty DEF Init
<1>2. Conservation
  BY <1>1, ResourceAssumption DEF Init, Conservation, TypeOK
<1>3. Finite /\ RequestsFresh /\ Decisions /\ ArbitrationStable /\ Settlement
  BY FS_EmptySet
     DEF Init, Finite, RequestsFresh, Decisions, ArbitrationStable, Settlement
<1> QED
  BY <1>2, <1>3 DEF ResourceInv

(* The same in the next state. *)
LEMMA EmptyResourceNext == (Init => ResourceInv)'
<1>1. Init => ResourceInv
  BY EmptyResource
<1> QED
  BY <1>1, PTL

(* A resource keeps its invariant in every run. *)
THEOREM ResourceInvariant == Spec => []ResourceInv
<1>1. Init => ResourceInv
  BY EmptyResource
<1>2. ResourceInv /\ [Next]_vars => ResourceInv'
  <2> SUFFICES ASSUME ResourceInv, [Next]_vars PROVE ResourceInv'
    OBVIOUS
  <2>1. CASE Reset
    <3>1. Init'
      BY <2>1 DEF Reset, Init
    <3> QED
      BY <3>1, EmptyResourceNext
  <2>2. CASE UNCHANGED vars
    <3>1. UNCHANGED <<proposals, releases, cancels, accepted, rejecting, reservations, active,
                      rejected, peak, issued, returned, cancelled, applied, opening, phase>>
      BY <2>2 DEF vars, proposalVars, decisionVars, ledgerVars, countVars, xferVars
    <3>2. Conservation' /\ Finite' /\ RequestsFresh'
      BY <3>1 DEF ResourceInv, Conservation, TypeOK, Finite, RequestsFresh
    <3>3. Requests' = Requests /\ Undecided' = Undecided /\ Available' = Available
      BY <3>1 DEF Requests, Undecided, Available
    <3>4. Decisions' /\ ArbitrationStable'
      BY <3>1, <3>3 DEF ResourceInv, Decisions, ArbitrationStable
    <3>5. \A o \in Owners : Kept(o)' = Kept(o) /\ Asked(o, applied)' = Asked(o, applied)
      BY <3>1 DEF Kept, OwnedBy, Asked, AskedUnits
    <3>6. Settlement'
      BY <3>1, <3>5 DEF ResourceInv, Settlement
    <3> QED
      BY <3>2, <3>4, <3>6 DEF ResourceInv
  <2>3. CASE \E r \in Requests : Serve(r)
    BY <2>3, ServeStep
  <2> QED
    BY <2>1, <2>2, <2>3, ProposalStep, ArbitrateStep, XferStep, ApplyReleaseStep, EndXferStep
       DEF Next
<1> QED
  BY <1>1, <1>2, PTL DEF Spec

(* validate() holds between any two steps, and the lifetime counters account *)
(* for every unit ever reserved, whatever is reserved, released and          *)
(* cancelled together.                                                       *)
THEOREM ConservationTheorem == Spec => []Conservation
<1>1. ResourceInv => Conservation
  BY DEF ResourceInv
<1> QED
  BY <1>1, ResourceInvariant, PTL

(* doArbitrate grants by the stable order and the free capacity alone,       *)
(* whatever the order of the proposals.                                      *)
THEOREM ArbitrationStableTheorem == Spec => []ArbitrationStable
<1>1. ResourceInv => ArbitrationStable
  BY DEF ResourceInv
<1> QED
  BY <1>1, ResourceInvariant, PTL

(* doXfer takes from each owner what it cancelled and released, never from   *)
(* another owner and never more than there is.                               *)
THEOREM SettlementTheorem == Spec => []Settlement
<1>1. ResourceInv => Settlement
  BY DEF ResourceInv
<1> QED
  BY <1>1, ResourceInvariant, PTL
=============================================================================
