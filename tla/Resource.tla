------------------------------ MODULE Resource ------------------------------
(***************************************************************************)
(* A finite service capacity shared by several owners: class Resource of   *)
(* include/gfsim/resource.h.                                               *)
(*                                                                         *)
(* During Work, owners propose reservations, releases and cancellations in *)
(* any number and any order.  doArbitrate decides which reservations fit,  *)
(* one iteration of its loop per step; doXfer applies the accepted         *)
(* reservations and the cancellations, then one release per step.  Nobody  *)
(* else acts between these steps.  The clock is left out: a reservation's  *)
(* issue and ready times only label it.  rank stands for the leading sort  *)
(* keys priority, port index and instance index.                           *)
(***************************************************************************)
EXTENDS Integers, Sequences, SequencesExt, FiniteSets, FiniteSetsExt

CONSTANTS
    Total,       \* totalCapacity_
    Owners,      \* object ids
    Txns,        \* transaction ids
    Ranks,       \* leading arbitration keys, lower wins
    MaxPending,  \* bound: releases proposed in one epoch
    MaxIssued    \* bound: capacity ever reserved before a reset

ASSUME ResourceAssumption ==
    /\ Total \in Nat \ {0}
    /\ Owners \subseteq Nat /\ Txns \subseteq Nat /\ Ranks \subseteq Nat
    /\ MaxPending \in Nat /\ MaxIssued \in Nat

Reservation == [txn : Txns, owner : Owners, rank : Ranks, amount : 1..Total]

VARIABLES
    reservations,  \* reservations_: at most one per transaction
    active,        \* activeCapacity_
    proposals,     \* proposals_, in the order they were made
    releases,      \* releaseProposals_: records [owner, amount]
    cancels,       \* cancellationProposals_
    accepted,      \* acceptedProposals_
    rejecting,     \* proposedRejectedTransactions_
    rejected,      \* rejectedTransactions_
    peak,          \* highWatermark_
    issued, returned, cancelled,  \* totalReservations_, totalReleases_, totalCancellations_
    applied,       \* how many of the releases doXfer has applied
    opening,       \* history: what was held when doXfer began, new reservations included
    phase          \* the call the object is in

proposalVars == <<proposals, releases, cancels>>
decisionVars == <<accepted, rejecting>>
countVars == <<issued, returned, cancelled>>
ledgerVars == <<reservations, active, rejected, peak, countVars>>
xferVars == <<applied, opening>>
vars == <<proposalVars, decisionVars, ledgerVars, xferVars, phase>>

-----------------------------------------------------------------------------

\* The capacity of a set of reservations is the number of units they hold.
Units(rs) == {u \in rs \X (1..Total) : u[2] <= u[1].amount}
Capacity(rs) == Cardinality(Units(rs))
OwnedBy(rs, o) == {r \in rs : r.owner = o}
WithTxn(rs, t) == {r \in rs : r.txn = t}

\* reservationLess: the stable order of arbitration and of partial releases.
Less(a, b) ==
    \/ a.rank < b.rank
    \/ a.rank = b.rank /\ a.owner < b.owner
    \/ a.rank = b.rank /\ a.owner = b.owner /\ a.txn < b.txn

Available == Total - active

-----------------------------------------------------------------------------
(* Work: the three proposals; a call that returns false changes nothing. *)

ProposeReserve(r) ==
    /\ phase = "work"
    /\ WithTxn(reservations, r.txn) = {}
    /\ \A i \in DOMAIN proposals : proposals[i].txn # r.txn
    /\ proposals' = Append(proposals, r)
    /\ UNCHANGED <<releases, cancels, decisionVars, ledgerVars, xferVars, phase>>

\* What an owner can still release: its reservations that are not being
\* cancelled, less what it has already proposed to release.
Releasable(o) ==
    LET live == {r \in OwnedBy(reservations, o) : r.txn \notin cancels}
        Deduct(left, release) ==
            IF release.owner # o THEN left
            ELSE IF release.amount > left THEN 0 ELSE left - release.amount
    IN  FoldLeft(Deduct, Capacity(live), releases)

ProposeRelease(o, amount) ==
    /\ phase = "work" /\ Len(releases) < MaxPending
    /\ amount <= Releasable(o)
    /\ releases' = Append(releases, [owner |-> o, amount |-> amount])
    /\ UNCHANGED <<proposals, cancels, decisionVars, ledgerVars, xferVars, phase>>

ProposeCancel(o, t) ==
    /\ phase = "work"
    /\ WithTxn(OwnedBy(reservations, o), t) # {}
    /\ t \notin cancels
    /\ cancels' = cancels \cup {t}
    /\ UNCHANGED <<proposals, releases, decisionVars, ledgerVars, xferVars, phase>>

-----------------------------------------------------------------------------
(* doArbitrate *)

Requests == {proposals[i] : i \in DOMAIN proposals}
Undecided == {r \in Requests : r \notin accepted /\ r.txn \notin rejecting}

Arbitrate ==
    /\ phase = "work"
    /\ issued + Available <= MaxIssued
    /\ accepted' = {} /\ rejecting' = {}
    /\ phase' = "arbitrate"
    /\ UNCHANGED <<proposalVars, ledgerVars, xferVars>>

\* Mutant of FirstOf: requests are served in the order they were made.
FirstMade(rs, r) ==
    \E i \in DOMAIN proposals :
        proposals[i] = r /\ \A j \in DOMAIN proposals : proposals[j] \in rs => i <= j

\* std::sort: r is the next of the requests rs.
FirstOf(rs, r) == \A x \in rs : x = r \/ Less(r, x)

\* One iteration of the loop: a request that does not fit is passed over, a
\* smaller one behind it may still fit.
Serve(r) ==
    /\ phase = "arbitrate"
    /\ r \in Undecided /\ FirstOf(Undecided, r)
    /\ \/ /\ r.amount <= Available - Capacity(accepted)
          /\ accepted' = accepted \cup {r} /\ UNCHANGED rejecting
       \/ /\ ~(r.amount <= Available - Capacity(accepted))
          /\ rejecting' = rejecting \cup {r.txn} /\ UNCHANGED accepted
    /\ UNCHANGED <<proposalVars, ledgerVars, xferVars, phase>>

-----------------------------------------------------------------------------
(* doXfer *)

Held == reservations \cup accepted
AfterCancel == {r \in Held : r.txn \notin cancels}

\* Mutant of Dropped: a cancellation does not give its capacity back.
DroppedNothing == 0

Dropped == Capacity({r \in Held : r.txn \in cancels})

\* The accepted reservations, then the cancellations.
Xfer ==
    /\ phase = "arbitrate" /\ Undecided = {}
    /\ opening' = Held /\ applied' = 0
    /\ reservations' = AfterCancel
    /\ active' = active + Capacity(accepted) - Dropped
    /\ issued' = issued + Capacity(accepted)
    /\ cancelled' = cancelled + Dropped
    /\ phase' = "release"
    /\ UNCHANGED <<proposalVars, decisionVars, rejected, peak, returned>>

\* Mutant of TakenFrom: the owner of a reservation is not looked at.
TakenFromAnyone(rs, release, r) ==
    LET before == Capacity({x \in rs : Less(x, r)})
    IN  Min({r.amount, Max({0, release.amount - before})})

\* applyRelease: what one release takes from reservation r of rs.  The
\* owner's reservations give in the stable order until the amount is reached.
TakenFrom(rs, release, r) ==
    LET before == Capacity({x \in OwnedBy(rs, release.owner) : Less(x, r)})
    IN  IF r.owner # release.owner THEN 0
        ELSE Min({r.amount, Max({0, release.amount - before})})

AfterRelease(rs, release) ==
    LET left == {[r EXCEPT !.amount = @ - TakenFrom(rs, release, r)] : r \in rs}
    IN  {r \in left : r.amount > 0}

\* One iteration of the loop over the releases.
ApplyRelease ==
    /\ phase = "release" /\ applied < Len(releases)
    /\ LET left == AfterRelease(reservations, releases[applied + 1])
           released == Capacity(reservations) - Capacity(left)
       IN  /\ reservations' = left
           /\ active' = active - released
           /\ returned' = returned + released
    /\ applied' = applied + 1
    /\ UNCHANGED <<proposalVars, decisionVars, rejected, peak, issued, cancelled, opening, phase>>

EndXfer ==
    /\ phase = "release" /\ applied = Len(releases)
    /\ peak' = Max({peak, active})
    /\ rejected' = rejecting
    /\ proposals' = <<>> /\ releases' = <<>> /\ cancels' = {}
    /\ accepted' = {} /\ rejecting' = {}
    /\ applied' = 0 /\ opening' = {}
    /\ phase' = "work"
    /\ UNCHANGED <<reservations, active, countVars>>

Init ==
    /\ reservations = {} /\ active = 0 /\ peak = 0
    /\ proposals = <<>> /\ releases = <<>> /\ cancels = {}
    /\ accepted = {} /\ rejecting = {} /\ rejected = {}
    /\ issued = 0 /\ returned = 0 /\ cancelled = 0
    /\ applied = 0 /\ opening = {}
    /\ phase = "work"

\* reset(), also after an epoch that failed between Arbitrate and Xfer.
Reset ==
    /\ phase = "work" \/ (phase = "arbitrate" /\ Undecided = {})
    /\ reservations' = {} /\ active' = 0 /\ peak' = 0
    /\ proposals' = <<>> /\ releases' = <<>> /\ cancels' = {}
    /\ accepted' = {} /\ rejecting' = {} /\ rejected' = {}
    /\ issued' = 0 /\ returned' = 0 /\ cancelled' = 0
    /\ applied' = 0 /\ opening' = {}
    /\ phase' = "work"

Next ==
    \/ \E r \in Reservation : ProposeReserve(r)
    \/ \E o \in Owners, amount \in 1..Total : ProposeRelease(o, amount)
    \/ \E o \in Owners, t \in Txns : ProposeCancel(o, t)
    \/ Arbitrate
    \/ \E r \in Requests : Serve(r)
    \/ Xfer
    \/ ApplyRelease
    \/ EndXfer
    \/ Reset

Spec == Init /\ [][Next]_vars

-----------------------------------------------------------------------------
(* Properties. *)

\* Types of the resource's state; no unsigned counter ever wraps below zero.
TypeOK ==
    /\ reservations \subseteq Reservation /\ accepted \subseteq Reservation
    /\ opening \subseteq Reservation
    /\ proposals \in Seq(Reservation)
    /\ releases \in Seq([owner : Owners, amount : 1..Total])
    /\ cancels \subseteq Txns /\ rejecting \subseteq Txns /\ rejected \subseteq Txns
    /\ active \in 0..Total /\ peak \in 0..Total
    /\ issued \in Nat /\ returned \in Nat /\ cancelled \in Nat
    /\ applied \in 0..Len(releases)
    /\ phase \in {"work", "arbitrate", "release"}

\* validate() and the lifetime counters: the active counter is the sum of the
\* live reservations, one per transaction, within the capacity; everything
\* ever reserved is live, was released or was cancelled; between epochs the
\* peak covers it.
Conservation ==
    /\ TypeOK
    /\ active = Capacity(reservations)
    /\ \A r, s \in reservations : r.txn = s.txn => r = s
    /\ issued = active + returned + cancelled
    /\ phase # "release" => active <= peak

\* doArbitrate decides by the stable keys alone, in whatever order the
\* requests came: a request is granted exactly if it fits into what the
\* granted requests before it leave free.
ArbitrationStable ==
    phase = "arbitrate" =>
      /\ \A r \in Requests \ Undecided :
            LET before == Capacity({a \in accepted : Less(a, r)})
            IN  r \in accepted <=> r.amount <= Available - before
      /\ rejecting = {r.txn : r \in Requests \ (accepted \cup Undecided)}

\* The units that the first n releases ask of owner o.
AskedUnits(o, n) ==
    {u \in (1..n) \X (1..Total) : releases[u[1]].owner = o /\ u[2] <= releases[u[1]].amount}
Asked(o, n) == Cardinality(AskedUnits(o, n))
Kept(o) == {r \in OwnedBy(opening, o) : r.txn \notin cancels}

\* doXfer settles every owner's account on its own: what it held and was
\* granted, less what it cancelled and released so far, and never less than
\* nothing; an owner that released nothing keeps its reservations as they are.
Settlement ==
    phase = "release" =>
        \A o \in Owners :
            /\ Capacity(OwnedBy(reservations, o)) = Max({0, Capacity(Kept(o)) - Asked(o, applied)})
            /\ Asked(o, applied) = 0 => OwnedBy(reservations, o) = Kept(o)
=============================================================================
