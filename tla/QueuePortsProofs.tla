-------------------------- MODULE QueuePortsProofs --------------------------
(***************************************************************************)
(* Proofs about the round-robin arbiters of ac.arbitrate, for modules with *)
(* any number of processes and candidates.  The greedy arbiters are a fold *)
(* over the candidates and stay with TLC.                                  *)
(***************************************************************************)
EXTENDS QueuePorts, WellFoundedInduction, TLAPS

\* A remainder is below its modulus.
LEMMA Remainder ==
    ASSUME NEW n \in Nat \ {0}, NEW a \in Nat
    PROVE  a % n \in 0..(n - 1)
OBVIOUS

\* Below the modulus nothing is taken off.
LEMMA Below ==
    ASSUME NEW n \in Nat \ {0}, NEW a \in 0..(n - 1)
    PROVE  a % n = a
OBVIOUS

\* The sum of two places goes round at most once.
LEMMA Around ==
    ASSUME NEW n \in Nat \ {0}, NEW a \in 0..(n - 1), NEW b \in 0..(n - 1)
    PROVE  (a + b) % n = IF a + b < n THEN a + b ELSE a + b - n
<1>1. CASE a + b < n
  BY <1>1, Below
<1>2. CASE a + b >= n
  <2>1. a + b - n \in 0..(n - 1)
    BY <1>2
  <2>2. QED BY <1>2, <2>1
<1>3. QED BY <1>1, <1>2

\* How many places candidate i is behind the start.
Distance(n, start, i) == IF i - 1 >= start THEN i - 1 - start ELSE i - 1 - start + n

\* A candidate is reached at its distance.
LEMMA DistanceTurn ==
    ASSUME NEW n \in Nat \ {0}, NEW start \in 0..(n - 1), NEW i \in 1..n
    PROVE  Distance(n, start, i) \in 0..(n - 1) /\ Turn(n, start, Distance(n, start, i)) = i
<1>1. Distance(n, start, i) \in 0..(n - 1)
  BY DEF Distance
<1> DEFINE d == Distance(n, start, i)
<1>2. d = IF i - 1 >= start THEN i - 1 - start ELSE i - 1 - start + n
  BY DEF Distance
<1> HIDE DEF d
<1>3. d \in 0..(n - 1)
  BY <1>1 DEF d
<1>4. (start + d) % n = IF start + d < n THEN start + d ELSE start + d - n
  BY <1>3, Around
<1>5. Turn(n, start, d) = i
  BY <1>2, <1>3, <1>4 DEF Turn
<1>6. QED BY <1>3, <1>5 DEF d

\* No other place reaches it.
LEMMA TurnDistance ==
    ASSUME NEW n \in Nat \ {0}, NEW start \in 0..(n - 1), NEW k \in 0..(n - 1)
    PROVE  Turn(n, start, k) \in 1..n /\ Distance(n, start, Turn(n, start, k)) = k
<1>1. (start + k) % n = IF start + k < n THEN start + k ELSE start + k - n
  BY Around
<1>2. QED BY <1>1 DEF Turn, Distance

\* When the turn passes a place before a candidate, the candidate is that much nearer.
LEMMA TurnPasses ==
    ASSUME NEW n \in Nat \ {0}, NEW start \in 0..(n - 1), NEW i \in 1..n,
           NEW k \in 0..(n - 1), k < Distance(n, start, i)
    PROVE  /\ (start + k + 1) % n \in 0..(n - 1)
           /\ Distance(n, (start + k + 1) % n, i) = Distance(n, start, i) - k - 1
<1>1. Distance(n, start, i) \in 0..(n - 1)
  BY DistanceTurn
<1>2. k + 1 \in 0..(n - 1) /\ start + k + 1 = start + (k + 1)
  BY <1>1
<1>3. (start + (k + 1)) % n = IF start + (k + 1) < n THEN start + (k + 1) ELSE start + (k + 1) - n
  BY <1>2, Around
<1> DEFINE t == (start + k + 1) % n
<1>4. t = IF start + k + 1 < n THEN start + k + 1 ELSE start + k + 1 - n
  BY <1>2, <1>3
<1> HIDE DEF t
<1>5. t \in 0..(n - 1) /\ Distance(n, t, i) = Distance(n, start, i) - k - 1
  BY <1>1, <1>2, <1>4 DEF Distance
<1>6. QED BY <1>5 DEF t

\* A set of naturals that is not empty has a least one.
LEMMA LeastAsked ==
    ASSUME NEW T, T \subseteq Nat, T # {}
    PROVE  \E x \in T : \A y \in T : x <= y
<1>1. IsWellFoundedOn(OpToRel(<, Nat), Nat)
  BY NatLessThanWellFounded
<1>2. PICK x \in T : \A y \in T : ~(<<y, x>> \in OpToRel(<, Nat))
  BY <1>1, WFMin
<1>3. \A y \in T : ~(y < x)
  BY <1>2 DEF OpToRel
<1>4. QED BY <1>3

\* The length of a list of requests.
LEMMA AskedLength ==
    ASSUME NEW n \in Nat, NEW asked \in [1..n -> BOOLEAN]
    PROVE  Len(asked) = n
OBVIOUS

\* If anybody asks there is exactly one first requester, no further than any that asks.
LEMMA FirstFound ==
    ASSUME NEW n \in Nat \ {0}, NEW start \in 0..(n - 1), NEW asked \in [1..n -> BOOLEAN],
           NEW i \in 1..n, asked[i]
    PROVE  \E k \in 0..(n - 1) : /\ FirstAsked(asked, start) = {k}
                                 /\ asked[Turn(n, start, k)] /\ k <= Distance(n, start, i)
<1> DEFINE T == {k \in 0..(n - 1) : asked[Turn(n, start, k)]}
<1>1. Len(asked) = n
  BY AskedLength
<1>2. Distance(n, start, i) \in T
  BY DistanceTurn
<1>3. PICK k \in T : \A l \in T : k <= l
  <2>1. T \subseteq Nat /\ T # {}
    BY <1>2
  <2> HIDE DEF T
  <2>2. QED BY <2>1, LeastAsked
<1>4. k \in 0..(n - 1) /\ asked[Turn(n, start, k)] /\ k <= Distance(n, start, i)
  BY <1>2, <1>3
<1>5. k \in FirstAsked(asked, start)
  BY <1>1, <1>3, <1>4 DEF FirstAsked
<1>6. ASSUME NEW l \in FirstAsked(asked, start) PROVE l = k
  <2>1. l \in T /\ l \in 0..(n - 1) /\ \A j \in 0..(l - 1) : ~asked[Turn(n, start, j)]
    BY <1>1 DEF FirstAsked
  <2>2. ~(k < l)
    BY <1>4, <2>1
  <2>3. QED BY <1>3, <1>4, <2>1, <2>2
<1>7. QED BY <1>4, <1>5, <1>6

\* What the helper returns: the grants (the round-robin helper of ProcessGenerator.cpp).
LEMMA HelperGrants ==
    ASSUME NEW n \in Nat \ {0}, NEW value \in Nat, NEW asked \in [1..n -> BOOLEAN]
    PROVE  \A i \in 1..n : RoundRobin(asked, value).grants[i]
                           <=> \E k \in FirstAsked(asked, value % n) : i = Turn(n, value % n, k)
<1>1. Len(asked) = n
  BY AskedLength
<1> DEFINE start == value % n
<1>2. RoundRobin(asked, value).grants =
         [i \in 1..n |-> \E k \in FirstAsked(asked, start) : i = Turn(n, start, k)]
  BY <1>1 DEF RoundRobin
<1> HIDE DEF start
<1>3. \A i \in 1..n : RoundRobin(asked, value).grants[i]
                      <=> \E k \in FirstAsked(asked, start) : i = Turn(n, start, k)
  BY <1>2
<1>4. QED BY <1>3 DEF start

\* What the helper returns: the next turn.
LEMMA HelperNext ==
    ASSUME NEW n \in Nat \ {0}, NEW value \in Nat, NEW asked \in [1..n -> BOOLEAN]
    PROVE  RoundRobin(asked, value).next =
                 IF FirstAsked(asked, value % n) = {} THEN value % n
                 ELSE ((value % n) + (CHOOSE k \in FirstAsked(asked, value % n) : TRUE) + 1) % n
<1>1. Len(asked) = n
  BY AskedLength
<1>2. QED BY <1>1 DEF RoundRobin

\* A request that is refused moves ahead by at least one place.
LEMMA RefusedMovesUp ==
    ASSUME NEW n \in Nat \ {0}, NEW value \in Nat, NEW asked \in [1..n -> BOOLEAN], NEW i \in 1..n, asked[i],
           ~RoundRobin(asked, value).grants[i]
    PROVE  /\ RoundRobin(asked, value).next \in 0..(n - 1)
           /\ Distance(n, RoundRobin(asked, value).next, i) < Distance(n, value % n, i)
<1> DEFINE start == value % n
<1>1. start \in 0..(n - 1)
  BY Remainder
<1>2. PICK k \in 0..(n - 1) : /\ FirstAsked(asked, start) = {k}
                             /\ asked[Turn(n, start, k)] /\ k <= Distance(n, start, i)
  BY <1>1, FirstFound
<1>3. i # Turn(n, start, k)
  BY <1>2, HelperGrants
<1>4. k # Distance(n, start, i)
  BY <1>1, <1>3, DistanceTurn
<1>5. (CHOOSE l \in FirstAsked(asked, start) : TRUE) = k /\ FirstAsked(asked, start) # {}
  BY <1>2
<1>6. RoundRobin(asked, value).next = (start + k + 1) % n
  BY <1>5, HelperNext
<1>7. Distance(n, start, i) \in 0..(n - 1)
  BY <1>1, DistanceTurn
<1> HIDE DEF start
<1>8. k < Distance(n, start, i)
  BY <1>2, <1>4, <1>7
<1> DEFINE next == (start + k + 1) % n
<1>9. next \in 0..(n - 1) /\ Distance(n, next, i) = Distance(n, start, i) - k - 1
  BY <1>1, <1>8, TurnPasses
<1> HIDE DEF next
<1>10. Distance(n, next, i) < Distance(n, start, i)
  BY <1>7, <1>9
<1>11. QED BY <1>6, <1>9, <1>10 DEF start, next

\* The next turn is a place.
LEMMA NextPlace ==
    ASSUME NEW n \in Nat \ {0}, NEW value \in Nat, NEW asked \in [1..n -> BOOLEAN]
    PROVE  RoundRobin(asked, value).next \in 0..(n - 1)
<1> DEFINE start == value % n
<1> DEFINE k == CHOOSE l \in FirstAsked(asked, start) : TRUE
<1>1. start \in 0..(n - 1)
  BY Remainder
<1>2. Len(asked) = n
  BY AskedLength
<1>3. FirstAsked(asked, start) # {} => k \in 0..(n - 1)
  BY <1>2 DEF FirstAsked
<1>4. RoundRobin(asked, value).next = IF FirstAsked(asked, start) = {} THEN start ELSE (start + k + 1) % n
  BY HelperNext
<1> HIDE DEF start, k
<1>5. CASE FirstAsked(asked, start) = {}
  BY <1>1, <1>4, <1>5
<1>6. CASE FirstAsked(asked, start) # {}
  <2>1. start + k + 1 \in Nat
    BY <1>1, <1>3, <1>6
  <2>2. QED BY <1>4, <1>6, <2>1, Remainder
<1>7. QED BY <1>5, <1>6

-----------------------------------------------------------------------------
(* Arbiters of a module. *)

Width(m, p) == Len(m.processes[p].arbiter.candidates)
RoundRobinAt(m, p) == m.processes[p].arbiter.policy = "round_robin"

\* A module of the given shape.
LEMMA Shape ==
    ASSUME NEW m, m.processes \in Seq(ProcessShapes), NEW p \in DOMAIN m.processes
    PROVE  /\ p # 0 /\ Width(m, p) \in Nat /\ DOMAIN m.processes[p].arbiter.candidates = 1..Width(m, p)
<1>1. p \in 1..Len(m.processes) /\ Len(m.processes) \in Nat
  OBVIOUS
<1>2. m.processes[p] \in ProcessShapes
  BY <1>1
<1>3. m.processes[p].arbiter.candidates \in Seq(Seq(STRING))
  BY <1>2 DEF ProcessShapes
<1>4. QED BY <1>1, <1>3 DEF Width

\* An accepted round-robin arbiter has candidates, and all of them share a resource (ArbitrateOp::verify).
LEMMA CandidatesShare ==
    ASSUME NEW m, m.processes \in Seq(ProcessShapes), Accepts(m), NEW p \in DOMAIN m.processes, RoundRobinAt(m, p)
    PROVE  /\ Width(m, p) \in Nat \ {0}
           /\ \A i, j \in 1..Width(m, p) :
                 ToSet(m.processes[p].arbiter.candidates[i]) \cap ToSet(m.processes[p].arbiter.candidates[j]) # {}
<1> DEFINE a == m.processes[p].arbiter
<1> DEFINE c == a.candidates
<1>1. a.policy = "round_robin" /\ a # NoArbiter
  BY DEF RoundRobinAt, NoArbiter
<1>2. ArbiterOk(m, a)
  BY <1>1 DEF Accepts, Arbiters
<1>3. c # <<>> /\ CommonResources(c) # {}
  BY <1>1, <1>2 DEF ArbiterOk
<1>4. Width(m, p) \in Nat /\ DOMAIN c = 1..Width(m, p)
  BY Shape
<1>5. c \in Seq(Seq(STRING))
  <2>1. m.processes[p] \in ProcessShapes
    OBVIOUS
  <2>2. QED BY <2>1 DEF ProcessShapes
<1>6. Width(m, p) # 0
  BY <1>3, <1>5 DEF Width
<1>7. PICK r : \A i \in DOMAIN c : r \in ToSet(c[i])
  BY <1>3 DEF CommonResources
<1>8. QED BY <1>4, <1>6, <1>7

\* The grants of the helper are right for an accepted arbiter: one at most, and one if anybody asks.
LEMMA HelperRight ==
    ASSUME NEW m, m.processes \in Seq(ProcessShapes), Accepts(m), NEW p \in DOMAIN m.processes, RoundRobinAt(m, p),
           NEW value \in Nat, NEW asked \in [1..Width(m, p) -> BOOLEAN]
    PROVE  Right(m.processes[p].arbiter, RoundRobin(asked, value).grants, asked)
<1> DEFINE a == m.processes[p].arbiter
<1> DEFINE n == Width(m, p)
<1> DEFINE g == RoundRobin(asked, value).grants
<1> DEFINE start == value % n
<1> DEFINE first == FirstAsked(asked, start)
<1>1. n \in Nat \ {0} /\ \A i, j \in 1..n : ToSet(a.candidates[i]) \cap ToSet(a.candidates[j]) # {}
  BY CandidatesShare
<1>2. DOMAIN a.candidates = 1..n
  BY Shape
<1>3. Len(asked) = n /\ start \in 0..(n - 1)
  BY <1>1, AskedLength, Remainder
<1>4. \A i \in 1..n : g[i] <=> \E k \in first : i = Turn(n, start, k)
  <2>1. asked \in [1..n -> BOOLEAN]
    OBVIOUS
  <2> HIDE DEF n
  <2>2. \A i \in 1..n : RoundRobin(asked, value).grants[i]
                        <=> \E k \in FirstAsked(asked, value % n) : i = Turn(n, value % n, k)
    BY <1>1, <2>1, HelperGrants
  <2>3. QED BY <2>2
<1>5. \A k \in first : k \in 0..(n - 1) /\ asked[Turn(n, start, k)]
  BY <1>3 DEF FirstAsked
<1>6. \A i \in 1..n : asked[i] => \E k \in 0..(n - 1) : first = {k}
  BY <1>1, <1>3, FirstFound
<1>7. \A k \in 0..(n - 1) : Turn(n, start, k) \in 1..n
  BY <1>1, <1>3, TurnDistance
<1> HIDE DEF g, n, start, first
<1>8. \A i \in 1..n : g[i] => asked[i]
  BY <1>4, <1>5
<1>9. \A i, j \in 1..n : g[i] /\ g[j] => i = j
  BY <1>4, <1>6, <1>8
<1>10. ASSUME NEW i \in 1..n, asked[i] PROVE \E j \in 1..n : g[j]
  <2>1. PICK k \in 0..(n - 1) : first = {k}
    BY <1>6, <1>10
  <2>2. QED BY <1>4, <1>7, <2>1
<1>11. a.policy # "greedy_fixed_priority"
  BY DEF RoundRobinAt
<1>12. QED BY <1>1, <1>2, <1>8, <1>9, <1>10, <1>11 DEF Right, g

-----------------------------------------------------------------------------
\* The invariant of the arbiters: a request that was refused d times is at most count - 1 - d places from its turn.
Served(p) ==
    \A i \in 1..Width(module, p) :
        /\ denied[p][i] \in Nat
        /\ denied[p][i] + Distance(Width(module, p), rr[p] % Width(module, p), i) < Width(module, p)

PortsInv ==
    /\ module.processes \in Seq(ProcessShapes)
    /\ verdict = "accepted" => Accepts(module)
    /\ todo \in Nat /\ (todo # 0 => verdict = "accepted")
    /\ DOMAIN requests = DOMAIN module.processes
    /\ \A p \in DOMAIN module.processes : requests[p] \in [1..Width(module, p) -> BOOLEAN]
    /\ rr \in [DOMAIN module.processes -> Nat]
    /\ DOMAIN denied = DOMAIN module.processes
    /\ \A p \in DOMAIN module.processes : DOMAIN denied[p] = 1..Width(module, p) /\ Served(p)

\* A request that was not refused yet keeps the bound wherever the turn is.
LEMMA Unserved ==
    ASSUME NEW n \in Nat \ {0}, NEW start \in Nat, NEW i \in 1..n
    PROVE  0 + Distance(n, start % n, i) < n
<1>1. start % n \in 0..(n - 1)
  BY Remainder
<1>2. Distance(n, start % n, i) \in 0..(n - 1)
  BY <1>1, DistanceTurn
<1>3. QED BY <1>2

\* The invariant holds at first.
LEMMA PortsInvInit ==
    ASSUME PortsWellFormed, PortsInit
    PROVE  PortsInv
<1>1. module.processes \in Seq(ProcessShapes)
  BY DEF PortsWellFormed, PortsInit
<1>2. ASSUME NEW p \in DOMAIN module.processes
      PROVE  /\ Width(module, p) \in Nat /\ DOMAIN module.processes[p].arbiter.candidates = 1..Width(module, p)
             /\ rr[p] \in Nat
  <2>1. rr[p] \in Nat
    BY <1>2 DEF PortsInit
  <2>2. QED BY <1>1, <1>2, <2>1, Shape
<1>3. ASSUME NEW p \in DOMAIN module.processes
      PROVE  requests[p] \in [1..Width(module, p) -> BOOLEAN]
  BY <1>2, <1>3 DEF PortsInit, NoRequests
<1>4. ASSUME NEW p \in DOMAIN module.processes
      PROVE  DOMAIN denied[p] = 1..Width(module, p) /\ Served(p)
  <2>1. DOMAIN denied[p] = 1..Width(module, p) /\ \A i \in 1..Width(module, p) : denied[p][i] = 0
    BY <1>2, <1>4 DEF PortsInit
  <2>2. ASSUME NEW i \in 1..Width(module, p)
        PROVE  0 + Distance(Width(module, p), rr[p] % Width(module, p), i) < Width(module, p)
    <3>1. Width(module, p) \in Nat \ {0}
      BY <1>2, <2>2
    <3>2. QED BY <1>2, <3>1, Unserved
  <2>3. QED BY <2>1, <2>2 DEF Served
<1>5. /\ verdict = "new" /\ todo = 0 /\ DOMAIN requests = DOMAIN module.processes
      /\ DOMAIN denied = DOMAIN module.processes /\ rr \in [DOMAIN module.processes -> Nat]
  BY DEF PortsInit, NoRequests
<1>6. QED BY <1>1, <1>3, <1>4, <1>5 DEF PortsInv

\* The steps that leave the arbiters alone.
LEMMA ArbitersRest ==
    ASSUME PortsInv, module' = module, rr' = rr, denied' = denied,
           verdict' = "accepted" => Accepts(module),
           todo' \in Nat, todo' # 0 => verdict' = "accepted",
           DOMAIN requests' = DOMAIN module.processes,
           \A p \in DOMAIN module.processes : requests'[p] \in [1..Width(module, p) -> BOOLEAN]
    PROVE  PortsInv'
BY DEF PortsInv, Served

\* New requests.
LEMMA EpochBegins == PortsInv /\ BeginEpoch => PortsInv'
<1> SUFFICES ASSUME PortsInv, BeginEpoch PROVE PortsInv'
  OBVIOUS
<1>1. /\ module' = module /\ verdict' = verdict /\ rr' = rr /\ denied' = denied /\ todo' = 1 /\ verdict = "accepted"
  BY DEF BeginEpoch
<1>2. /\ requests' \in [DOMAIN module.processes -> UNION {[1..n -> BOOLEAN] : n \in 0..module.longest}]
      /\ \A p \in DOMAIN module.processes : DOMAIN requests'[p] = DOMAIN module.processes[p].arbiter.candidates
  BY DEF BeginEpoch
<1>3. ASSUME NEW p \in DOMAIN module.processes PROVE requests'[p] \in [1..Width(module, p) -> BOOLEAN]
  <2>1. DOMAIN module.processes[p].arbiter.candidates = 1..Width(module, p)
    BY Shape DEF PortsInv
  <2>2. PICK n \in 0..module.longest : requests'[p] \in [1..n -> BOOLEAN]
    BY <1>2
  <2>3. QED BY <1>2, <2>1, <2>2
<1>4. DOMAIN requests' = DOMAIN module.processes
  BY <1>2
<1>5. QED BY <1>1, <1>3, <1>4, ArbitersRest DEF PortsInv

\* No requests.
LEMMA EpochEnds == PortsInv /\ EndEpoch => PortsInv'
<1> SUFFICES ASSUME PortsInv, EndEpoch PROVE PortsInv'
  OBVIOUS
<1>1. /\ module' = module /\ verdict' = verdict /\ rr' = rr /\ denied' = denied /\ todo' = 0
      /\ requests' = NoRequests(module)
  BY DEF EndEpoch
<1>2. ASSUME NEW p \in DOMAIN module.processes PROVE requests'[p] \in [1..Width(module, p) -> BOOLEAN]
  <2>1. DOMAIN module.processes[p].arbiter.candidates = 1..Width(module, p)
    BY Shape DEF PortsInv
  <2>2. QED BY <1>1, <2>1 DEF NoRequests
<1>3. DOMAIN requests' = DOMAIN module.processes
  BY <1>1 DEF NoRequests
<1>4. QED BY <1>1, <1>2, <1>3, ArbitersRest DEF PortsInv

\* One activation of a process: its arbiter keeps the bound.
LEMMA ArbiterServes ==
    ASSUME PortsInv, ProcessStep, NEW p, p = todo
    PROVE  Served(p)'
<1> DEFINE n == Width(module, p)
<1> DEFINE asked == requests[p]
<1> DEFINE next == RoundRobin(asked, rr[p]).next
<1> DEFINE grants == RoundRobin(asked, rr[p]).grants
<1>1. p \in DOMAIN module.processes /\ module' = module /\ p # 0 /\ verdict = "accepted" /\ Accepts(module)
  BY Shape DEF ProcessStep, PortsInv
<1>2. n \in Nat /\ DOMAIN module.processes[p].arbiter.candidates = 1..n
  BY <1>1, Shape DEF PortsInv
<1>3. asked \in [1..n -> BOOLEAN] /\ rr[p] \in Nat /\ DOMAIN rr = DOMAIN module.processes
  BY <1>1 DEF PortsInv
<1>4. rr'[p] = IF RoundRobinAt(module, p) THEN next ELSE rr[p]
  BY <1>1, <1>3 DEF ProcessStep, RoundRobinAt
<1>5. \A i \in 1..n : denied'[p][i] = IF RoundRobinAt(module, p) /\ asked[i] /\ ~grants[i]
                                      THEN denied[p][i] + 1 ELSE 0
  <2>1. DOMAIN denied = DOMAIN module.processes
    BY DEF PortsInv
  <2>2. RoundRobinAt(module, p) => Grants(p, asked) = grants
    BY DEF RoundRobinAt, Grants
  <2>3. denied' = [denied EXCEPT ![p] =
             [i \in DOMAIN module.processes[p].arbiter.candidates |->
                 IF module.processes[p].arbiter.policy = "round_robin" /\ asked[i] /\ ~Grants(p, asked)[i]
                 THEN @[i] + 1 ELSE 0]]
    BY DEF ProcessStep
  <2> HIDE DEF grants, asked, n
  <2>4. denied'[p] = [i \in 1..n |-> IF RoundRobinAt(module, p) /\ asked[i] /\ ~Grants(p, asked)[i]
                                     THEN denied[p][i] + 1 ELSE 0]
    BY <1>1, <1>2, <2>1, <2>3 DEF RoundRobinAt
  <2>5. QED BY <2>2, <2>4
<1>6. \A i \in 1..n : denied[p][i] \in Nat /\ denied[p][i] + Distance(n, rr[p] % n, i) < n
  BY <1>1 DEF PortsInv, Served
<1> SUFFICES ASSUME NEW i \in 1..n
             PROVE  denied'[p][i] \in Nat /\ denied'[p][i] + Distance(n, rr'[p] % n, i) < n
  BY <1>1 DEF Served
<1>8. n \in Nat \ {0}
  BY <1>2
<1>9. rr'[p] \in Nat
  BY <1>3, <1>4, <1>8, NextPlace
<1>10. CASE RoundRobinAt(module, p) /\ asked[i] /\ ~grants[i]
  <2>1. next \in 0..(n - 1) /\ Distance(n, next, i) < Distance(n, rr[p] % n, i)
    BY <1>3, <1>8, <1>10, RefusedMovesUp
  <2>2. next % n = next
    BY <1>8, <2>1, Below
  <2>3. rr[p] % n \in 0..(n - 1)
    BY <1>3, <1>8, Remainder
  <2>4. Distance(n, next, i) \in 0..(n - 1) /\ Distance(n, rr[p] % n, i) \in 0..(n - 1)
    BY <1>8, <2>1, <2>3, DistanceTurn
  <2>5. denied'[p][i] = denied[p][i] + 1 /\ rr'[p] = next
    BY <1>4, <1>5, <1>10
  <2>6. denied[p][i] \in Nat /\ denied[p][i] + Distance(n, rr[p] % n, i) < n
    BY <1>6
  <2>7. Distance(n, rr'[p] % n, i) = Distance(n, next, i)
    BY <2>2, <2>5
  <2> DEFINE new == Distance(n, next, i)
  <2> DEFINE old == Distance(n, rr[p] % n, i)
  <2> DEFINE d == denied[p][i]
  <2>8. new \in Nat /\ old \in Nat /\ d \in Nat /\ new < old /\ d + old < n
    BY <2>1, <2>4, <2>6
  <2> HIDE DEF new, old, d, n
  <2>9. d + 1 \in Nat /\ (d + 1) + new < n
    BY <1>8, <2>8
  <2>10. QED BY <2>5, <2>7, <2>9 DEF new, d
<1>11. CASE ~(RoundRobinAt(module, p) /\ asked[i] /\ ~grants[i])
  <2>1. denied'[p][i] = 0
    BY <1>5, <1>11
  <2>2. QED BY <1>8, <1>9, <2>1, Unserved
<1>12. QED BY <1>10, <1>11

\* A process step changes no other arbiter.
LEMMA ProcessServes == PortsInv /\ ProcessStep => PortsInv'
<1> SUFFICES ASSUME PortsInv, ProcessStep PROVE PortsInv'
  OBVIOUS
<1>1. /\ module' = module /\ verdict' = verdict /\ requests' = requests /\ todo' = todo + 1
      /\ todo \in DOMAIN module.processes
  BY DEF ProcessStep, Advance
<1>2. todo # 0 /\ todo' \in Nat /\ verdict = "accepted"
  BY <1>1, Shape DEF PortsInv
<1>4. ASSUME NEW p \in DOMAIN module.processes, p # todo
      PROVE  rr'[p] = rr[p] /\ denied'[p] = denied[p]
  BY <1>1, <1>4 DEF ProcessStep, PortsInv
<1>5. DOMAIN rr' = DOMAIN module.processes /\ DOMAIN denied' = DOMAIN module.processes
  BY <1>1 DEF ProcessStep, PortsInv
<1>6. ASSUME NEW p \in DOMAIN module.processes
      PROVE  rr'[p] \in Nat /\ DOMAIN denied'[p] = 1..Width(module, p) /\ Served(p)'
  <2>1. CASE p # todo
    BY <1>1, <1>4, <1>6, <2>1 DEF PortsInv, Served
  <2>2. CASE p = todo
    <3>1. Served(p)'
      BY <2>2, ArbiterServes
    <3>2. DOMAIN module.processes[p].arbiter.candidates = 1..Width(module, p) /\ Width(module, p) \in Nat
      BY Shape DEF PortsInv
    <3>3. DOMAIN denied'[p] = 1..Width(module, p)
      BY <1>1, <2>2, <3>2 DEF ProcessStep, PortsInv
    <3>4. rr'[p] \in Nat
      <4>1. rr'[p] = IF RoundRobinAt(module, p) THEN RoundRobin(requests[p], rr[p]).next ELSE rr[p]
        BY <1>1, <2>2 DEF ProcessStep, RoundRobinAt, PortsInv
      <4>2. rr[p] \in Nat /\ requests[p] \in [1..Width(module, p) -> BOOLEAN]
        BY DEF PortsInv
      <4>3. CASE RoundRobinAt(module, p)
        <5>1. Width(module, p) \in Nat \ {0}
          BY <1>2, <4>3, CandidatesShare DEF PortsInv
        <5>2. RoundRobin(requests[p], rr[p]).next \in 0..(Width(module, p) - 1)
          BY <4>2, <5>1, NextPlace
        <5>3. QED BY <4>1, <4>3, <5>1, <5>2
      <4>4. QED BY <4>1, <4>2, <4>3
    <3>5. QED BY <3>1, <3>3, <3>4
  <2>3. QED BY <2>1, <2>2
<1>7. rr' \in [DOMAIN module.processes -> Nat]
  BY <1>1, <1>5, <1>6 DEF ProcessStep, PortsInv
<1>8. QED BY <1>1, <1>2, <1>5, <1>6, <1>7 DEF PortsInv, Served

\* Every step preserves the invariant.
LEMMA PortsInvStep ==
    ASSUME PortsInv, [PortsNext]_portVars
    PROVE  PortsInv'
<1>1. CASE VerifyPorts
  <2>1. /\ module' = module /\ rr' = rr /\ denied' = denied /\ requests' = requests /\ todo' = todo
        /\ verdict = "new" /\ verdict' = IF Accepts(module) THEN "accepted" ELSE "refused"
    BY <1>1 DEF VerifyPorts
  <2>2. QED BY <2>1, ArbitersRest DEF PortsInv
<1>2. CASE LinkStep
  <2>1. /\ module' = module /\ rr' = rr /\ denied' = denied /\ requests' = requests /\ todo' = todo + 1
        /\ verdict' = verdict /\ todo \in (Len(module.processes) + 1)..Movers(module)
    BY <1>2 DEF LinkStep, Advance
  <2>2. todo # 0 /\ todo' \in Nat
    BY <2>1 DEF PortsInv
  <2>3. QED BY <2>1, <2>2, ArbitersRest DEF PortsInv
<1>3. CASE UNCHANGED portVars
  BY <1>3, ArbitersRest DEF PortsInv, portVars
<1>4. QED BY <1>1, <1>2, <1>3, EpochBegins, EpochEnds, ProcessServes DEF PortsNext

\* GrantsRight for the round-robin arbiters.
RoundRobinGrants ==
    verdict = "accepted" =>
        \A p \in DOMAIN module.processes :
            RoundRobinAt(module, p) => Right(module.processes[p].arbiter, Grants(p, requests[p]), requests[p])

\* The invariant is strong enough.
LEMMA PortsInvSound == PortsInv => RoundRobinServes /\ RoundRobinGrants
<1> SUFFICES ASSUME PortsInv PROVE RoundRobinServes /\ RoundRobinGrants
  OBVIOUS
<1>1. ASSUME NEW p \in DOMAIN module.processes, NEW i \in DOMAIN denied[p]
      PROVE  denied[p][i] < Width(module, p)
  <2>1. /\ i \in 1..Width(module, p) /\ Width(module, p) \in Nat /\ rr[p] \in Nat
        /\ denied[p][i] \in Nat /\ denied[p][i] + Distance(Width(module, p), rr[p] % Width(module, p), i) < Width(module, p)
    BY Shape DEF PortsInv, Served
  <2> DEFINE n == Width(module, p)
  <2> DEFINE d == Distance(n, rr[p] % n, i)
  <2>2. n \in Nat \ {0}
    BY <2>1
  <2>3. rr[p] % n \in 0..(n - 1)
    BY <2>1, <2>2, Remainder
  <2>4. d \in 0..(n - 1)
    BY <2>1, <2>2, <2>3, DistanceTurn
  <2>5. denied[p][i] + d < n
    BY <2>1
  <2> HIDE DEF d
  <2>6. QED BY <2>1, <2>2, <2>4, <2>5
<1>2. RoundRobinServes
  BY <1>1 DEF RoundRobinServes, Width
<1>3. ASSUME verdict = "accepted", NEW p \in DOMAIN module.processes, RoundRobinAt(module, p)
      PROVE  Right(module.processes[p].arbiter, Grants(p, requests[p]), requests[p])
  <2>1. Grants(p, requests[p]) = RoundRobin(requests[p], rr[p]).grants
    BY <1>3 DEF Grants, RoundRobinAt
  <2>2. Accepts(module) /\ rr[p] \in Nat /\ requests[p] \in [1..Width(module, p) -> BOOLEAN]
    BY <1>3 DEF PortsInv
  <2>3. Right(module.processes[p].arbiter, RoundRobin(requests[p], rr[p]).grants, requests[p])
    BY <1>3, <2>2, HelperRight DEF PortsInv
  <2>4. QED BY <2>1, <2>3
<1>4. QED BY <1>2, <1>3 DEF RoundRobinGrants

\* A request that stands at a round-robin arbiter is granted at the latest when every other candidate has been
\* served once, and the grants are the ones ac.arbitrate promises: for any modules of the shape the parser
\* leaves, any number of candidates and any requests (ArbitrateOp::verify, the helper of ProcessGenerator.cpp).
THEOREM RoundRobinTheorem ==
    ASSUME PortsWellFormed
    PROVE  PortsSpec => [](RoundRobinServes /\ RoundRobinGrants)
<1>1. PortsInit => PortsInv
  BY PortsInvInit
<1>2. PortsInv /\ [PortsNext]_portVars => PortsInv'
  BY PortsInvStep
<1>3. QED BY <1>1, <1>2, PortsInvSound, PTL DEF PortsSpec
=============================================================================
