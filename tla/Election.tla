------------------------------ MODULE Election ------------------------------
(***************************************************************************)
(* internal/instance/election.go: the lease that elects one workspace      *)
(* server among the processes that share a state directory.                *)
(*                                                                         *)
(* Three files make up the shared state: primary.json (lease),             *)
(* primary-release.json (fence) and primary.lock (section).  Every         *)
(* mutation runs inside withLock.  A short mutation is one step; the ones  *)
(* a crash or another clock reading can split (Release, RunForOwner,       *)
(* RunWhileNoPrimaryLease) take the lock in one step and leave it in       *)
(* another, and the kernel drops the lock of a holder that dies.           *)
(*                                                                         *)
(* Time.  The code only ever compares a stored instant plus a constant     *)
(* with the wall clock, so the model stores the AGE of each instant,       *)
(* saturated at the largest age a comparison can tell apart.  The clock is *)
(* shared and moves forward.                                               *)
(*                                                                         *)
(* Terms.  A token is a fresh random secret of one ownership term.  The    *)
(* model numbers terms in the order of acquisition and lets a process use  *)
(* any token it ever held, in any operation, at any time: the module is    *)
(* the most general client of the Election type.                           *)
(***************************************************************************)
EXTENDS Naturals

CONSTANTS
  Proc,            \* processes that contend for ownership (instance IDs)
  Worker,          \* detached worker processes: they only run fenced requests
  NoProc,          \* the empty instance ID
  Env,             \* Env[c]: the environment ID of c's configuration home
  StaleAfter,      \* 30 s
  HandoffTimeout,  \* 10 s
  CleanupGrace,    \* 60 s
  MaxTerm          \* bound: how many terms are ever acquired

ASSUME ElectionAssumption ==
  /\ NoProc \notin Proc \cup Worker
  /\ Proc \cap Worker = {}
  /\ StaleAfter \in Nat \ {0}
  /\ HandoffTimeout \in Nat \ {0}
  /\ CleanupGrace \in Nat \ {0}
  /\ MaxTerm \in Nat

VARIABLES
  lease,     \* primary.json
  fence,     \* primary-release.json
  section,   \* who holds primary.lock across steps, and for what
  nextTerm,  \* the next fresh token
  tokens,    \* tokens[p]: the terms p has been given
  admitted   \* the term of the latest action RunForOwner ran, 0 before one

electionVars == <<lease, fence, section, nextTerm, tokens, admitted>>

-----------------------------------------------------------------------------
(* The three files.  "bad" is a file that does not decode to a complete    *)
(* record; only something outside the program leaves one behind.           *)

Participant == Proc \cup Worker

Blank == [state |-> "none", owner |-> NoProc, term |-> 0, age |-> 0,
          handoff |-> NoProc, handoffAge |-> 0]

LeaseOf(p, t) == [Blank EXCEPT !.state = "ok", !.owner = p, !.term = t]

Lease == [state : {"none", "bad", "ok"}, owner : Proc \cup {NoProc},
          term : Nat, age : 0..StaleAfter,
          handoff : Proc \cup {NoProc}, handoffAge : 0..HandoffTimeout]

Fence == [state : {"none", "bad", "ok"}, age : 0..CleanupGrace]

Unlocked == [kind |-> "none", by |-> NoProc]

Section == [kind : {"none", "owner", "release", "ownerless"},
            by : Participant \cup {NoProc}]

TypeOK ==
  /\ lease \in Lease
  /\ fence \in Fence
  /\ section \in Section
  /\ nextTerm \in Nat \ {0}
  /\ tokens \in [Proc -> SUBSET Nat]
  /\ admitted \in Nat

Init ==
  /\ lease \in {Blank, [Blank EXCEPT !.state = "bad"]}
  /\ fence \in [state : {"none", "bad"}, age : {0}]
  /\ section = Unlocked
  /\ nextTerm = 1
  /\ tokens = [p \in Proc |-> {}]
  /\ admitted = 0

-----------------------------------------------------------------------------
(* Guards. *)

Published == lease.state = "ok"

Stale == lease.age = StaleAfter

HandoffExpired == lease.handoff # NoProc /\ lease.handoffAge = HandoffTimeout

MayAcquireAnyReservationMutant(p) ==
  ~Published \/ Stale \/ lease.handoff # NoProc

\* CanTakeOver, and TryAcquire's own test under the lock: no readable owner, a
\* stale one, a reservation for p, or a reservation that nobody used in time.
MayAcquire(p) ==
  \/ ~Published
  \/ Stale
  \/ lease.handoff = p
  \/ HandoffExpired

\* The exact term: same instance and same token.
Holds(p, t) == Published /\ lease.owner = p /\ lease.term = t

\* Renew's test.  Age does not matter: only a replacement revokes a term.
MayRenew(p, t) == Holds(p, t) /\ lease.handoff = NoProc

MayHandOff(p, t) == MayRenew(p, t) /\ ~Stale

MayAdmitReservedMutant(c, p, t) ==
  Holds(p, t) /\ ~Stale /\ Env[c] = Env[p]

\* RunForOwner's test, made by c with a request that carries p's term t.
MayAdmit(c, p, t) ==
  /\ MayHandOff(p, t)
  /\ Env[c] = Env[p]

CleanupAllowed ==
  /\ lease.state = "none"
  /\ \/ fence.state = "none"
     \/ fence.state = "ok" /\ fence.age = CleanupGrace

-----------------------------------------------------------------------------
(* Operations. *)

TryAcquireUnlockedMutant(p) ==
  /\ nextTerm <= MaxTerm
  /\ MayAcquire(p)
  /\ lease' = LeaseOf(p, nextTerm)
  /\ nextTerm' = nextTerm + 1
  /\ tokens' = [tokens EXCEPT ![p] = @ \cup {nextTerm}]
  /\ UNCHANGED <<fence, section, admitted>>

\* NewToken and TryAcquire.  A refused attempt leaves everything as it was.
TryAcquire(p) ==
  /\ section = Unlocked
  /\ nextTerm <= MaxTerm
  /\ MayAcquire(p)
  /\ lease' = LeaseOf(p, nextTerm)
  /\ nextTerm' = nextTerm + 1
  /\ tokens' = [tokens EXCEPT ![p] = @ \cup {nextTerm}]
  /\ UNCHANGED <<fence, section, admitted>>

RenewBlindMutant(p, t) ==
  /\ section = Unlocked
  /\ Published
  /\ lease' = LeaseOf(p, t)
  /\ UNCHANGED <<fence, section, nextTerm, tokens, admitted>>

Renew(p, t) ==
  /\ section = Unlocked
  /\ MayRenew(p, t)
  /\ lease' = [lease EXCEPT !.age = 0]
  /\ UNCHANGED <<fence, section, nextTerm, tokens, admitted>>

Handoff(p, t, q) ==
  /\ section = Unlocked
  /\ q # p
  /\ MayHandOff(p, t)
  /\ lease' = [lease EXCEPT !.age = 0, !.handoff = q, !.handoffAge = 0]
  /\ UNCHANGED <<fence, section, nextTerm, tokens, admitted>>

ReleaseFenceAnyMutant(p, t) ==
  /\ section = Unlocked
  /\ Published
  /\ fence' = [state |-> "ok", age |-> 0]
  /\ section' = [kind |-> "release", by |-> p]
  /\ UNCHANGED <<lease, nextTerm, tokens, admitted>>

ReleaseFenceUnwrittenMutant(p, t) ==
  /\ section = Unlocked
  /\ Holds(p, t)
  /\ section' = [kind |-> "release", by |-> p]
  /\ UNCHANGED <<lease, fence, nextTerm, tokens, admitted>>

\* Release: the durable fence first, the lease file second.
ReleaseFence(p, t) ==
  /\ section = Unlocked
  /\ Holds(p, t)
  /\ fence' = [state |-> "ok", age |-> 0]
  /\ section' = [kind |-> "release", by |-> p]
  /\ UNCHANGED <<lease, nextTerm, tokens, admitted>>

ReleaseRemove(p) ==
  /\ section = [kind |-> "release", by |-> p]
  /\ lease' = Blank
  /\ section' = Unlocked
  /\ UNCHANGED <<fence, nextTerm, tokens, admitted>>

\* RunForOwner (RunWhileOwner when c = p): the admission starts ...
BeginAdmission(c, p, t) ==
  /\ section = Unlocked
  /\ MayAdmit(c, p, t)
  /\ section' = [kind |-> "owner", by |-> c]
  /\ admitted' = t
  /\ UNCHANGED <<lease, fence, nextTerm, tokens>>

\* ... and, whatever the action returned, its end publishes a fresh heartbeat.
EndAdmission(c) ==
  /\ section = [kind |-> "owner", by |-> c]
  /\ lease' = [lease EXCEPT !.age = 0]
  /\ section' = Unlocked
  /\ UNCHANGED <<fence, nextTerm, tokens, admitted>>

\* RunWhileNoPrimaryLease, from a one-shot command or a contender.
BeginOwnerless(c) ==
  /\ section = Unlocked
  /\ CleanupAllowed
  /\ section' = [kind |-> "ownerless", by |-> c]
  /\ UNCHANGED <<lease, fence, nextTerm, tokens, admitted>>

EndOwnerless(c) ==
  /\ section = [kind |-> "ownerless", by |-> c]
  /\ section' = Unlocked
  /\ UNCHANGED <<lease, fence, nextTerm, tokens, admitted>>

\* The holder of the lock dies, or its last write fails: the lock is dropped
\* with the work half done.
Abandon(c) ==
  /\ section.kind # "none"
  /\ section.by = c
  /\ section' = Unlocked
  /\ UNCHANGED <<lease, fence, nextTerm, tokens, admitted>>

OlderUncappedMutant(age, limit) == age + 1

Older(age, limit) == IF age < limit THEN age + 1 ELSE age

Tick ==
  /\ \/ Published /\ ~Stale
     \/ Published /\ lease.handoff # NoProc /\ ~HandoffExpired
     \/ fence.state = "ok" /\ fence.age < CleanupGrace
  /\ lease' = IF Published
              THEN [lease EXCEPT
                      !.age = Older(@, StaleAfter),
                      !.handoffAge = IF lease.handoff = NoProc THEN @
                                     ELSE Older(@, HandoffTimeout)]
              ELSE lease
  /\ fence' = IF fence.state = "ok"
              THEN [fence EXCEPT !.age = Older(@, CleanupGrace)]
              ELSE fence
  /\ UNCHANGED <<section, nextTerm, tokens, admitted>>

OwnerStep(p, t) ==
  \/ Renew(p, t)
  \/ \E q \in Proc : Handoff(p, t, q)
  \/ ReleaseFence(p, t)
  \/ \E c \in Worker \cup {p} : BeginAdmission(c, p, t)

LockStep(c) ==
  \/ EndAdmission(c)
  \/ BeginOwnerless(c)
  \/ EndOwnerless(c)
  \/ Abandon(c)

Next ==
  \/ \E p \in Proc : TryAcquire(p) \/ ReleaseRemove(p)
  \/ \E p \in Proc : \E t \in tokens[p] : OwnerStep(p, t)
  \/ \E c \in Participant : LockStep(c)
  \/ Tick

Spec == Init /\ [][Next]_electionVars

-----------------------------------------------------------------------------
(* Properties. *)

\* A published lease always carries the newest term ever granted, and the
\* process it names holds that token: an older owner that wakes up can never
\* put its own record back (the comments on Renew and Release).
LeaseIsNewestTerm ==
  Published => /\ lease.term = nextTerm - 1
               /\ lease.term \in tokens[lease.owner]

\* What the lock protects while it is held across steps.  An admission keeps
\* its exact term in force with nobody waiting to take it over; a release works
\* on its own record, with the fence already durable; ownerless work runs only
\* while no lease file exists at all (RunWhileNoPrimaryLease).
LockProtects ==
  /\ section.kind = "owner" =>
       Published /\ lease.term = admitted /\ lease.handoff = NoProc
  /\ section.kind = "release" =>
       Published /\ lease.owner = section.by /\ fence.state = "ok"
  /\ section.kind = "ownerless" => lease.state = "none"

\* A workspace that has been owned and is now ownerless was released behind a
\* durable fence, so destructive ownerless work waits for the grace period
\* (Release writes the fence before it removes the lease).
OwnerlessIsFenced ==
  lease.state = "none" /\ nextTerm > 1 => fence.state = "ok"

\* A fresh reservation admits nobody but its target: the term that replaces a
\* reserved one belongs to the target unless the reservation or the whole lease
\* has expired (Handoff).
ReservationHonoured ==
  [][ /\ Published /\ lease.handoff # NoProc
      /\ ~Stale /\ ~HandoffExpired
      /\ lease'.term # lease.term
      => lease'.owner \in {lease.handoff, NoProc} ]_electionVars

\* A lease file disappears only at the hands of the exact owner it names, and
\* a live lease is replaced only once it is stale, reserved or expired: nothing
\* a former owner does with an old token shortens its successor's term.
OnlyOwnerEndsFreshTerm ==
  [][ Published /\ lease'.term # lease.term =>
        \/ section = [kind |-> "release", by |-> lease.owner] /\ lease' = Blank
        \/ Stale \/ lease.handoff # NoProc ]_electionVars

\* The election implements numbered terms with indivisible admissions.
Holder == IF Published /\ lease.handoff = NoProc THEN lease.owner ELSE NoProc

OT == INSTANCE OwnershipTerm WITH
        holder <- Holder,
        term <- nextTerm - 1,
        running <- IF section.kind \in {"owner", "ownerless"}
                   THEN section.kind ELSE "none"

ImplementsOwnershipTerm == OT!Spec
=============================================================================
