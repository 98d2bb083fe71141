--------------------------- MODULE ElectionProofs ---------------------------
(***************************************************************************)
(* The election's invariants for any number of processes, workers and      *)
(* terms and any expiry constants, and its implementation of numbered      *)
(* ownership terms.                                                        *)
(***************************************************************************)
EXTENDS Election, TLAPS

\* An unlocked section has no holder on record: every comparison with Unlocked
\* is then a comparison of the kind alone.
UnlockedIsBlank == section.kind = "none" => section = Unlocked

\* What a published record must hold for the operations to keep their types.
PublishedHasOwner == Published => lease.owner \in Proc

IInv ==
  /\ TypeOK
  /\ UnlockedIsBlank
  /\ PublishedHasOwner
  /\ LeaseIsNewestTerm
  /\ LockProtects
  /\ OwnerlessIsFenced

\* Ageing an instant keeps it within its limit.
LEMMA OlderInRange ==
  ASSUME NEW limit \in Nat, NEW age \in 0..limit
  PROVE  Older(age, limit) \in 0..limit
  BY DEF Older

\* The inductive invariant holds at the start.
LEMMA InitIInv == Init => IInv
  BY ElectionAssumption
  DEF Init, IInv, TypeOK, Lease, Fence, Section, Blank, Unlocked, Published,
      UnlockedIsBlank, PublishedHasOwner, LeaseIsNewestTerm, LockProtects,
      OwnerlessIsFenced, Participant

\* The clock: the only step that changes an age without taking the lock.
LEMMA TickIInv == IInv /\ Tick => IInv'
<1> SUFFICES ASSUME IInv, Tick PROVE IInv'
  OBVIOUS
<1>1. /\ lease' \in Lease
      /\ lease'.state = lease.state /\ lease'.owner = lease.owner
      /\ lease'.term = lease.term /\ lease'.handoff = lease.handoff
  <2>1. CASE Published
    <3> DEFINE a == Older(lease.age, StaleAfter)
               h == IF lease.handoff = NoProc THEN lease.handoffAge
                    ELSE Older(lease.handoffAge, HandoffTimeout)
    <3>1. lease' = [lease EXCEPT !.age = a, !.handoffAge = h]
      BY <2>1 DEF Tick
    <3>2. a \in 0..StaleAfter /\ h \in 0..HandoffTimeout
      BY OlderInRange, ElectionAssumption DEF IInv, TypeOK, Lease
    <3> QED
      BY <3>1, <3>2 DEF IInv, TypeOK, Lease
  <2>2. CASE ~Published
    BY <2>2 DEF Tick, IInv, TypeOK
  <2> QED
    BY <2>1, <2>2
<1>2. fence' \in Fence /\ fence'.state = fence.state
  <2>1. CASE fence.state = "ok"
    <3> DEFINE a == Older(fence.age, CleanupGrace)
    <3>1. fence' = [fence EXCEPT !.age = a]
      BY <2>1 DEF Tick
    <3>2. a \in 0..CleanupGrace
      BY OlderInRange, ElectionAssumption DEF IInv, TypeOK, Fence
    <3> QED
      BY <3>1, <3>2 DEF IInv, TypeOK, Fence
  <2>2. CASE fence.state # "ok"
    BY <2>2 DEF Tick, IInv, TypeOK
  <2> QED
    BY <2>1, <2>2
<1>3. UNCHANGED <<section, nextTerm, tokens, admitted>>
  BY DEF Tick
<1> QED
  BY <1>1, <1>2, <1>3
  DEF IInv, TypeOK, UnlockedIsBlank, PublishedHasOwner, Published,
      LeaseIsNewestTerm, LockProtects, OwnerlessIsFenced, Unlocked

\* A contender's step: the lock is free, so no protected work is under way, and
\* the record that appears carries the term just granted.
LEMMA TryAcquireIInv ==
  ASSUME IInv, NEW p \in Proc, TryAcquire(p)
  PROVE  IInv'
<1>1. lease' = LeaseOf(p, nextTerm) /\ nextTerm' = nextTerm + 1
  BY DEF TryAcquire
<1>2. /\ lease'.state = "ok" /\ lease'.owner = p /\ lease'.term = nextTerm
      /\ lease' \in Lease
  <2>1. lease' = [state |-> "ok", owner |-> p, term |-> nextTerm, age |-> 0,
                  handoff |-> NoProc, handoffAge |-> 0]
    BY <1>1 DEF LeaseOf, Blank
  <2>2. nextTerm \in Nat /\ 0 \in 0..StaleAfter /\ 0 \in 0..HandoffTimeout
    BY ElectionAssumption DEF IInv, TypeOK
  <2> QED
    BY <2>1, <2>2 DEF Lease
<1>3. /\ tokens' \in [Proc -> SUBSET Nat]
      /\ nextTerm \in tokens'[p]
  BY DEF TryAcquire, IInv, TypeOK
<1>4. nextTerm \in Nat \ {0} /\ nextTerm' = nextTerm + 1
  BY <1>1 DEF IInv, TypeOK
<1>5. /\ section' = Unlocked /\ section \in Section
      /\ UNCHANGED <<fence, section, admitted>>
  BY DEF TryAcquire, IInv, TypeOK
<1>6. TypeOK'
  BY <1>2, <1>3, <1>4, <1>5 DEF IInv, TypeOK
<1>7. Published' /\ PublishedHasOwner' /\ LeaseIsNewestTerm'
  BY <1>2, <1>3, <1>4 DEF Published, PublishedHasOwner, LeaseIsNewestTerm
<1>8. UnlockedIsBlank' /\ LockProtects' /\ OwnerlessIsFenced'
  BY <1>2, <1>5 DEF UnlockedIsBlank, LockProtects, OwnerlessIsFenced, Unlocked
<1> QED
  BY <1>6, <1>7, <1>8 DEF IInv

\* An owner's step with any token it ever held.
LEMMA OwnerStepIInv ==
  ASSUME IInv, NEW p \in Proc, NEW t \in tokens[p], OwnerStep(p, t)
  PROVE  IInv'
<1>1. CASE Renew(p, t)
  BY <1>1, ElectionAssumption
  DEF Renew, MayRenew, Holds, IInv, TypeOK, Lease, UnlockedIsBlank,
      PublishedHasOwner, Published, LeaseIsNewestTerm, LockProtects,
      OwnerlessIsFenced, Unlocked
<1>2. ASSUME NEW q \in Proc, Handoff(p, t, q)
      PROVE  IInv'
  <2>1. lease' = [lease EXCEPT !.age = 0, !.handoff = q, !.handoffAge = 0]
    BY <1>2 DEF Handoff
  <2>2. 0 \in 0..StaleAfter /\ 0 \in 0..HandoffTimeout
    BY ElectionAssumption
  <2>3. /\ lease' \in Lease /\ lease'.state = lease.state
        /\ lease'.owner = lease.owner /\ lease'.term = lease.term
    BY <2>1, <2>2 DEF IInv, TypeOK, Lease
  <2>4. section' = Unlocked /\ UNCHANGED <<fence, section, nextTerm, tokens, admitted>>
    BY <1>2 DEF Handoff
  <2> QED
    BY <2>3, <2>4
    DEF IInv, TypeOK, UnlockedIsBlank, PublishedHasOwner, Published,
        LeaseIsNewestTerm, LockProtects, OwnerlessIsFenced, Unlocked
<1>3. CASE ReleaseFence(p, t)
  BY <1>3, ElectionAssumption
  DEF ReleaseFence, Holds, IInv, TypeOK, Fence, Section, Participant,
      UnlockedIsBlank, PublishedHasOwner, Published, LeaseIsNewestTerm,
      LockProtects, OwnerlessIsFenced, Unlocked
<1>4. CASE \E c \in Worker \cup {p} : BeginAdmission(c, p, t)
  BY <1>4, ElectionAssumption
  DEF BeginAdmission, MayAdmit, MayHandOff, MayRenew, Holds, IInv, TypeOK,
      Section, Participant, UnlockedIsBlank, PublishedHasOwner, Published,
      LeaseIsNewestTerm, LockProtects, OwnerlessIsFenced, Unlocked
<1> QED
  BY <1>1, <1>2, <1>3, <1>4 DEF OwnerStep

\* A step of whoever holds the lock across steps.
LEMMA LockStepIInv ==
  ASSUME IInv, NEW c \in Participant, LockStep(c)
  PROVE  IInv'
<1>1. CASE EndAdmission(c)
  BY <1>1, ElectionAssumption
  DEF EndAdmission, IInv, TypeOK, Lease, Section, UnlockedIsBlank,
      PublishedHasOwner, Published, LeaseIsNewestTerm, LockProtects,
      OwnerlessIsFenced, Unlocked
<1>2. CASE BeginOwnerless(c)
  BY <1>2
  DEF BeginOwnerless, CleanupAllowed, IInv, TypeOK, Section, UnlockedIsBlank,
      PublishedHasOwner, Published, LeaseIsNewestTerm, LockProtects,
      OwnerlessIsFenced, Unlocked
<1>3. CASE EndOwnerless(c)
  BY <1>3
  DEF EndOwnerless, IInv, TypeOK, Section, UnlockedIsBlank, PublishedHasOwner,
      Published, LeaseIsNewestTerm, LockProtects, OwnerlessIsFenced, Unlocked
<1>4. CASE Abandon(c)
  BY <1>4
  DEF Abandon, IInv, TypeOK, Section, UnlockedIsBlank, PublishedHasOwner,
      Published, LeaseIsNewestTerm, LockProtects, OwnerlessIsFenced, Unlocked
<1> QED
  BY <1>1, <1>2, <1>3, <1>4 DEF LockStep

\* Removing the lease of a released term leaves no owner behind.
LEMMA ReleaseRemoveIInv ==
  ASSUME IInv, NEW p \in Proc, ReleaseRemove(p)
  PROVE  IInv'
<1>1. lease' = Blank /\ Blank \in Lease /\ Blank.state = "none"
  BY ElectionAssumption DEF ReleaseRemove, Blank, Lease
<1> QED
  BY <1>1
  DEF ReleaseRemove, IInv, TypeOK, Section, UnlockedIsBlank, PublishedHasOwner,
      Published, LeaseIsNewestTerm, LockProtects, OwnerlessIsFenced, Unlocked

\* Every step keeps the inductive invariant.
LEMMA NextIInv == IInv /\ [Next]_electionVars => IInv'
<1> SUFFICES ASSUME IInv, [Next]_electionVars PROVE IInv'
  OBVIOUS
<1>1. CASE UNCHANGED electionVars
  BY <1>1
  DEF electionVars, IInv, TypeOK, UnlockedIsBlank, PublishedHasOwner,
      Published, LeaseIsNewestTerm, LockProtects, OwnerlessIsFenced
<1>2. ASSUME NEW p \in Proc, TryAcquire(p) \/ ReleaseRemove(p)
      PROVE  IInv'
  BY <1>2, TryAcquireIInv, ReleaseRemoveIInv
<1>3. ASSUME NEW p \in Proc, NEW t \in tokens[p], OwnerStep(p, t)
      PROVE  IInv'
  BY <1>3, OwnerStepIInv
<1>4. ASSUME NEW c \in Participant, LockStep(c)
      PROVE  IInv'
  BY <1>4, LockStepIInv
<1>5. CASE Tick
  BY <1>5, TickIInv
<1> QED
  BY <1>1, <1>2, <1>3, <1>4, <1>5 DEF Next

\* The invariants of every run of the election hold for every value of its
\* constants (election.go: Renew, Release, RunForOwner, RunWhileNoPrimaryLease).
THEOREM ElectionInvariant == Spec => []IInv
  BY InitIInv, NextIInv, PTL DEF Spec

\* Every variable of the election keeps its type.
THEOREM ElectionTypeOK == Spec => []TypeOK
  BY ElectionInvariant, PTL DEF IInv

\* A published lease is the newest term, held by the process it names.
THEOREM LeaseIsAlwaysNewestTerm == Spec => []LeaseIsNewestTerm
  BY ElectionInvariant, PTL DEF IInv

\* The lock protects admissions, releases and ownerless work across steps.
THEOREM LockAlwaysProtects == Spec => []LockProtects
  BY ElectionInvariant, PTL DEF IInv

\* No ownerless workspace that was ever owned is without its release fence.
THEOREM OwnerlessIsAlwaysFenced == Spec => []OwnerlessIsFenced
  BY ElectionInvariant, PTL DEF IInv

-----------------------------------------------------------------------------
(* The action properties and the implementation of OwnershipTerm. *)

\* Only two kinds of step change the term on the lease: an acquisition, and the
\* second half of a release by the owner the lease names.
LEMMA TermChange ==
  ASSUME IInv, [Next]_electionVars, lease'.term # lease.term
  PROVE  \/ \E p \in Proc : TryAcquire(p)
         \/ \E p \in Proc : ReleaseRemove(p)
<1>1. CASE UNCHANGED electionVars
  BY <1>1 DEF electionVars
<1>2. ASSUME NEW p \in Proc, NEW t \in tokens[p], OwnerStep(p, t)
      PROVE  FALSE
  BY <1>2
  DEF OwnerStep, Renew, Handoff, ReleaseFence, BeginAdmission, IInv, TypeOK, Lease
<1>3. ASSUME NEW c \in Participant, LockStep(c)
      PROVE  FALSE
  BY <1>3
  DEF LockStep, EndAdmission, BeginOwnerless, EndOwnerless, Abandon, IInv,
      TypeOK, Lease
<1>4. CASE Tick
  BY <1>4 DEF Tick, IInv, TypeOK, Lease
<1> QED
  BY <1>1, <1>2, <1>3, <1>4 DEF Next

\* Handoff: a fresh reservation admits its target only.
THEOREM ReservationIsHonoured == Spec => ReservationHonoured
<1>1. ASSUME IInv, [Next]_electionVars,
             Published, lease.handoff # NoProc, ~Stale, ~HandoffExpired,
             lease'.term # lease.term
      PROVE  lease'.owner \in {lease.handoff, NoProc}
  <2>1. CASE \E p \in Proc : TryAcquire(p)
    BY <1>1, <2>1 DEF TryAcquire, MayAcquire, LeaseOf, Blank
  <2>2. CASE \E p \in Proc : ReleaseRemove(p)
    BY <2>2 DEF ReleaseRemove, Blank
  <2> QED
    BY <1>1, <2>1, <2>2, TermChange
<1> QED
  BY <1>1, ElectionInvariant, PTL DEF Spec, ReservationHonoured

\* Release and TryAcquire: only its own owner ends a fresh, unreserved term.
THEOREM OnlyOwnerEndsTerm == Spec => OnlyOwnerEndsFreshTerm
<1>1. ASSUME IInv, [Next]_electionVars, Published, lease'.term # lease.term
      PROVE  \/ /\ section = [kind |-> "release", by |-> lease.owner]
                /\ lease' = Blank
             \/ Stale \/ lease.handoff # NoProc
  <2>1. CASE \E p \in Proc : TryAcquire(p)
    BY <1>1, <2>1, ElectionAssumption DEF TryAcquire, MayAcquire, HandoffExpired
  <2>2. CASE \E p \in Proc : ReleaseRemove(p)
    BY <1>1, <2>2 DEF ReleaseRemove, IInv, LockProtects
  <2> QED
    BY <1>1, <2>1, <2>2, TermChange
<1> QED
  BY <1>1, ElectionInvariant, PTL DEF Spec, OnlyOwnerEndsFreshTerm

\* The initial lease, absent or damaged, belongs to nobody.
LEMMA InitImplements == Init => OT!Init
  BY DEF Init, OT!Init, Holder, Published, Blank, Unlocked

\* Every step of the election is a step of OwnershipTerm or changes nothing it
\* can see.
LEMMA StepImplements ==
  ASSUME IInv, [Next]_electionVars
  PROVE  [OT!Next]_(OT!vars)
<1>1. CASE UNCHANGED electionVars
  BY <1>1 DEF electionVars, OT!vars, Holder, Published
<1>2. ASSUME NEW p \in Proc, TryAcquire(p)
      PROVE  OT!Grant(p)
  <2>1. lease' = [state |-> "ok", owner |-> p, term |-> nextTerm, age |-> 0,
                  handoff |-> NoProc, handoffAge |-> 0]
    BY <1>2 DEF TryAcquire, LeaseOf, Blank
  <2>2. Holder' = p
    BY <2>1 DEF Holder, Published
  <2>3. nextTerm \in Nat /\ nextTerm' = nextTerm + 1
    BY <1>2 DEF TryAcquire, IInv, TypeOK
  <2>4. section = Unlocked /\ section' = section /\ admitted' = admitted
    BY <1>2 DEF TryAcquire
  <2> QED
    BY <2>2, <2>3, <2>4 DEF OT!Grant, Unlocked
<1>3. ASSUME NEW p \in Proc, ReleaseRemove(p)
      PROVE  OT!Revoke
  BY <1>3 DEF ReleaseRemove, OT!Revoke, Holder, Published, Blank, Unlocked
<1>4. ASSUME NEW p \in Proc, NEW t \in tokens[p], OwnerStep(p, t)
      PROVE  [OT!Next]_(OT!vars)
  <2>1. CASE Renew(p, t)
    BY <2>1 DEF Renew, IInv, TypeOK, Lease, Holder, Published, OT!vars
  <2>2. ASSUME NEW q \in Proc, Handoff(p, t, q)
        PROVE  OT!Revoke
    <3>1. /\ lease'.state = lease.state /\ lease'.handoff = q
          /\ section = Unlocked
          /\ UNCHANGED <<section, nextTerm, admitted>>
      BY <2>2 DEF Handoff, IInv, TypeOK, Lease
    <3> QED
      BY <3>1, ElectionAssumption DEF OT!Revoke, Holder, Unlocked
  <2>3. CASE ReleaseFence(p, t)
    BY <2>3 DEF ReleaseFence, Unlocked, Holder, Published, OT!vars
  <2>4. ASSUME NEW c \in Worker \cup {p}, BeginAdmission(c, p, t)
        PROVE  OT!BeginAdmission
    <3>1. /\ Published /\ lease.handoff = NoProc /\ lease.owner = p
          /\ lease.term = t /\ lease.term = nextTerm - 1
      BY <2>4
      DEF BeginAdmission, MayAdmit, MayHandOff, MayRenew, Holds, IInv,
          LeaseIsNewestTerm
    <3> QED
      BY <2>4, <3>1, ElectionAssumption
      DEF BeginAdmission, OT!BeginAdmission, Holder, Published, Unlocked
  <2> QED
    BY <1>4, <2>1, <2>2, <2>3, <2>4 DEF OwnerStep, OT!Next
<1>5. ASSUME NEW c \in Participant, LockStep(c)
      PROVE  [OT!Next]_(OT!vars)
  <2>1. CASE EndAdmission(c)
    <3>1. /\ lease'.state = lease.state /\ lease'.owner = lease.owner
          /\ lease'.handoff = lease.handoff
      BY <2>1 DEF EndAdmission, IInv, TypeOK, Lease
    <3>2. OT!End
      BY <2>1, <3>1 DEF EndAdmission, OT!End, Holder, Published, Unlocked
    <3> QED
      BY <3>2 DEF OT!Next
  <2>2. CASE BeginOwnerless(c)
    BY <2>2
    DEF BeginOwnerless, CleanupAllowed, OT!Next, OT!BeginOwnerless, Holder,
        Published, Unlocked
  <2>3. CASE EndOwnerless(c)
    BY <2>3 DEF EndOwnerless, OT!Next, OT!End, Holder, Published, Unlocked
  <2>4. CASE Abandon(c)
    <3>1. CASE section.kind = "release"
      BY <2>4, <3>1 DEF Abandon, OT!vars, Holder, Published, Unlocked
    <3>2. CASE section.kind # "release"
      BY <2>4, <3>2
      DEF Abandon, OT!Next, OT!End, Holder, Published, Unlocked, IInv, TypeOK,
          Section
    <3> QED
      BY <3>1, <3>2
  <2> QED
    BY <1>5, <2>1, <2>2, <2>3, <2>4 DEF LockStep
<1>6. CASE Tick
  <2>1. /\ lease'.state = lease.state /\ lease'.owner = lease.owner
        /\ lease'.handoff = lease.handoff
    BY <1>6 DEF Tick, IInv, TypeOK, Lease
  <2> QED
    BY <1>6, <2>1 DEF Tick, OT!vars, Holder, Published
<1> QED
  BY <1>1, <1>2, <1>3, <1>4, <1>5, <1>6 DEF Next, OT!Next

\* election.go implements numbered ownership terms: no term is granted, given up
\* or reserved while an admission or ownerless work runs, and every admission
\* runs under the newest term.
THEOREM ElectionImplementsOwnershipTerm == Spec => ImplementsOwnershipTerm
  BY ElectionInvariant, InitImplements, StepImplements, PTL
  DEF Spec, ImplementsOwnershipTerm, OT!Spec
=============================================================================
