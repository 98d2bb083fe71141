------------------------- MODULE PrimaryTermProofs -------------------------
(***************************************************************************)
(* The server processes use the election as Election allows, whatever      *)
(* their number and speed, so that everything proved of the election holds *)
(* of them; and what they make of it holds for any constants too.          *)
(***************************************************************************)
EXTENDS PrimaryTerm, ElectionProofs

\* A term in progress, and a request on its way, carry a token that their process
\* was given.
InTerm(p) == server[p].phase \notin {"secondary", "exited"}

TokensHeld ==
  /\ \A p \in Proc : InTerm(p) => Term(p) \in tokens[p]
  /\ \A r \in requests : r[2] \in tokens[r[1]]

Held == ServerTypeOK /\ TokensHeld

\* At the start every token in use was given out by the election.
LEMMA ServerInitHeld == ServerInit => IInv /\ Held
<1> SUFFICES ASSUME ServerInit PROVE IInv /\ Held
  OBVIOUS
<1>1. IInv
  BY InitIInv DEF ServerInit
<1>2. server = [p \in Proc |-> Polling] /\ requests = {} /\ Polling \in Server
  BY DEF ServerInit, Polling, Server, Phase
<1>3. ServerTypeOK
  BY <1>1, <1>2 DEF ServerTypeOK, IInv
<1>4. TokensHeld
  BY <1>2 DEF TokensHeld, InTerm, Polling
<1> QED
  BY <1>1, <1>3, <1>4 DEF Held

\* What a step of p may do to the processes without a new term: p keeps its
\* term or ends it, the others stay where they are.
Proceeds(p) ==
  /\ server' \in [Proc -> Server]
  /\ \A q \in Proc \ {p} : server'[q] = server[q]
  /\ server'[p].phase \notin {"secondary", "exited"} =>
       InTerm(p) /\ server'[p].term = server[p].term

\* A server that proceeds within its term uses the token it has.
LEMMA ServerStepHeld ==
  ASSUME Held, IInv', NEW p \in Proc, Proceeds(p), UNCHANGED <<tokens, requests>>
  PROVE  Held'
<1>1. ServerTypeOK'
  BY DEF Held, ServerTypeOK, IInv, Proceeds
<1>2. TokensHeld'
  BY DEF Held, ServerTypeOK, TokensHeld, InTerm, Term, Proceeds
<1> QED
  BY <1>1, <1>2 DEF Held

\* After a term there is no term.
LEMMA AfterEnds ==
  ASSUME NEW f \in BOOLEAN
  PROVE  /\ After(f) \in Server /\ After(f).phase \in {"secondary", "exited"}
         /\ ~f => After(f).phase = "secondary"
         /\ f => After(f).phase = "exited"
  BY DEF After, Polling, Server, Phase

\* Settling a term keeps its token.
LEMMA SettleProceeds ==
  ASSUME Held, NEW p \in Proc, InTerm(p), NEW f \in BOOLEAN, Settle(p, f)
  PROVE  Proceeds(p)
<1> DEFINE bad == f \/ server[p].failed
<1>1. server \in [Proc -> Server] /\ bad \in BOOLEAN
  BY DEF Held, ServerTypeOK, Server
<1>2. CASE server[p].phase = "aborting"
  <2>1. server' = [server EXCEPT ![p] = After(bad)]
    BY <1>2 DEF Settle
  <2> HIDE DEF bad
  <2> QED
    BY <1>1, <2>1, AfterEnds DEF Proceeds
<1>3. CASE server[p].phase # "aborting"
  <2>1. server' = [server EXCEPT
          ![p] = [server[p] EXCEPT !.phase = "closing", !.failed = bad]]
    BY <1>3 DEF Settle
  <2> HIDE DEF bad
  <2> QED
    BY <1>1, <2>1 DEF Proceeds, Server, Phase
<1> QED
  BY <1>2, <1>3

\* A step of the server is a step of the election or leaves it alone.
LEMMA ServerStepRefines ==
  ASSUME Held, [ServerNext]_serverVars
  PROVE  [Next]_electionVars
<1>1. ASSUME NEW p \in Proc, NEW t \in tokens[p], OwnerStep(p, t)
      PROVE  Next
  BY <1>1 DEF Next
<1>2. ASSUME NEW p \in Proc, InTerm(p)
      PROVE  Term(p) \in tokens[p]
  BY <1>2 DEF Held, TokensHeld
<1>3. ASSUME NEW p \in Proc, ElectionStep(p)
      PROVE  [Next]_electionVars
  <2>1. CASE Attempt(p)
    BY <2>1 DEF Attempt, Next
  <2>2. CASE StartSucceeds(p) \/ RenewTick(p)
    BY <1>1, <1>2, <2>2 DEF StartSucceeds, RenewTick, InTerm, In, OwnerStep
  <2>3. CASE \/ SocketRefused(p) \/ StartLosesOwnership(p) \/ StartFails(p)
             \/ RenewRefused(p) \/ LoopFails(p)
             \/ (\E q \in Proc : HandoffRequested(p, q)) \/ Shutdown(p)
    BY <2>3
    DEF SocketRefused, StartLosesOwnership, StartFails, RenewRefused, LoopFails,
        HandoffRequested, Shutdown
  <2> QED
    BY <1>3, <2>1, <2>2, <2>3 DEF ElectionStep
<1>4. ASSUME NEW p \in Proc, StopStep(p)
      PROVE  [Next]_electionVars
  <2>1. CASE HandedOff(p)
    <3>1. server[p].target \in Proc
      BY <2>1 DEF HandedOff, Held, ServerTypeOK, Server
    <3> QED
      BY <1>1, <1>2, <2>1, <3>1 DEF HandedOff, InTerm, In, OwnerStep
  <2>2. CASE BeginRelease(p)
    BY <1>1, <1>2, <2>2 DEF BeginRelease, Releases, InTerm, In, OwnerStep
  <2>3. CASE FinishRelease(p)
    BY <2>3 DEF FinishRelease, Next
  <2>4. CASE ReleaseFails(p)
    BY <2>4 DEF ReleaseFails, Next, LockStep, Participant
  <2>5. CASE Drained(p) \/ HandoffRefused(p) \/ NothingToRelease(p) \/ Closed(p)
    BY <2>5 DEF Drained, HandoffRefused, NothingToRelease, Closed
  <2> QED
    BY <1>4, <2>1, <2>2, <2>3, <2>4, <2>5 DEF StopStep
<1>5. ASSUME NEW p \in Proc, Crash(p) \/ Request(p) \/ Admit(p)
      PROVE  [Next]_electionVars
  <2>1. CASE Crash(p)
    BY <2>1 DEF Crash, Next, LockStep, Participant
  <2>2. CASE Request(p)
    BY <2>2 DEF Request
  <2>3. CASE Admit(p)
    BY <1>1, <1>2, <2>3 DEF Admit, Works, InTerm, OwnerStep
  <2> QED
    BY <1>5, <2>1, <2>2, <2>3
<1>6. ASSUME NEW r \in requests, Drop(r) \/ \E c \in Worker : Serve(c, r)
      PROVE  [Next]_electionVars
  <2>1. r[1] \in Proc /\ r[2] \in tokens[r[1]]
    BY DEF Held, ServerTypeOK, TokensHeld
  <2>2. ASSUME NEW c \in Worker, Serve(c, r)
        PROVE  Next
    BY <1>1, <2>1, <2>2 DEF Serve, OwnerStep
  <2> QED
    BY <1>6, <2>2 DEF Drop
<1>7. ASSUME NEW c \in Participant, Fenced(c)
      PROVE  [Next]_electionVars
  BY <1>7 DEF Fenced, Next, LockStep
<1>8. CASE Clock
  BY <1>8 DEF Clock, Next
<1>9. CASE UNCHANGED serverVars
  BY <1>9 DEF serverVars
<1> QED
  BY <1>3, <1>4, <1>5, <1>6, <1>7, <1>8, <1>9 DEF ServerNext

\* Tokens are never taken back, so what is held stays held.
LEMMA ServerStepHolds ==
  ASSUME Held, IInv, IInv', [ServerNext]_serverVars
  PROVE  Held'
<1> USE DEF Term
<1>1. ASSUME UNCHANGED <<server, tokens>>, requests' \subseteq requests
      PROVE  Held'
  BY <1>1 DEF Held, ServerTypeOK, TokensHeld, InTerm, IInv
<1>2. ASSUME NEW p \in Proc, ElectionStep(p)
      PROVE  Held'
  <2>1. CASE Attempt(p)
    <3> DEFINE s == [Polling EXCEPT !.phase = "starting", !.term = nextTerm]
    <3>1. server' = [server EXCEPT ![p] = s] /\ requests' = requests
          /\ tokens' = [tokens EXCEPT ![p] = @ \cup {nextTerm}]
          /\ nextTerm \in Nat /\ tokens \in [Proc -> SUBSET Nat]
      BY <2>1 DEF Attempt, TryAcquire, IInv, TypeOK
    <3>2. s \in Server /\ s.term = nextTerm
      BY <3>1 DEF Polling, Server, Phase
    <3>3. \A q \in Proc : tokens[q] \subseteq tokens'[q]
      BY <3>1
    <3>4. nextTerm \in tokens'[p]
      BY <3>1
    <3>5. ServerTypeOK'
      BY <3>1, <3>2 DEF Held, ServerTypeOK, IInv
    <3>6. ASSUME NEW q \in Proc, InTerm(q)'
          PROVE  (Term(q) \in tokens[q])'
      <4>1. CASE q = p
        BY <3>1, <3>2, <3>4, <4>1 DEF Held, ServerTypeOK
      <4>2. CASE q # p
        BY <3>1, <3>3, <3>6, <4>2 DEF Held, ServerTypeOK, TokensHeld, InTerm
      <4> QED
        BY <4>1, <4>2
    <3>7. \A r \in requests' : r[2] \in tokens'[r[1]]
      BY <3>1, <3>3 DEF Held, ServerTypeOK, TokensHeld
    <3> QED
      BY <3>5, <3>6, <3>7 DEF Held, TokensHeld
  <2>2. CASE \/ SocketRefused(p) \/ StartSucceeds(p) \/ StartLosesOwnership(p)
             \/ StartFails(p) \/ RenewRefused(p) \/ LoopFails(p)
             \/ (\E q \in Proc : HandoffRequested(p, q)) \/ Shutdown(p)
    <3>1. UNCHANGED <<tokens, requests>>
      BY <2>2
      DEF SocketRefused, StartSucceeds, StartLosesOwnership, StartFails,
          RenewRefused, LoopFails, HandoffRequested, Shutdown, Renew, electionVars
    <3>2. server \in [Proc -> Server]
      BY DEF Held, ServerTypeOK
    <3>3. Proceeds(p)
      <4>1. CASE SocketRefused(p) \/ StartSucceeds(p) \/ StartLosesOwnership(p)
        BY <3>2, <4>1
        DEF SocketRefused, StartSucceeds, StartLosesOwnership, Enter, In, InTerm,
            Proceeds, Server, Phase
      <4>2. CASE StartFails(p)
        BY <3>2, <4>2 DEF StartFails, In, InTerm, Proceeds, Server, Phase
      <4>3. CASE \/ RenewRefused(p) \/ LoopFails(p)
                 \/ (\E q \in Proc : HandoffRequested(p, q))
        <5>1. PICK q \in Proc \cup {NoProc} : Stop(p, q, FALSE)
          BY <4>3 DEF RenewRefused, LoopFails, HandoffRequested
        <5>2. InTerm(p)
          BY <4>3 DEF RenewRefused, LoopFails, HandoffRequested, In, InTerm
        <5> QED
          BY <3>2, <5>1, <5>2 DEF Stop, Proceeds, Server, Phase
      <4>4. CASE Shutdown(p)
        BY <3>2, <4>4
        DEF Shutdown, Stop, Enter, In, InTerm, Proceeds, Server, Phase
      <4> QED
        BY <2>2, <4>1, <4>2, <4>3, <4>4
    <3> QED
      BY <3>1, <3>3, ServerStepHeld
  <2>3. CASE RenewTick(p)
    BY <1>1, <2>3 DEF RenewTick, Renew
  <2> QED
    BY <1>2, <2>1, <2>2, <2>3 DEF ElectionStep
<1>3. ASSUME NEW p \in Proc, StopStep(p) \/ Crash(p)
      PROVE  Held'
  <2>1. UNCHANGED requests
    BY <1>3
    DEF StopStep, Drained, HandedOff, HandoffRefused, BeginRelease, FinishRelease,
        NothingToRelease, ReleaseFails, Closed, Crash
  <2>2. UNCHANGED tokens
    BY <1>3
    DEF StopStep, Drained, HandedOff, HandoffRefused, BeginRelease, FinishRelease,
        NothingToRelease, ReleaseFails, Closed, Crash, Handoff, ReleaseFence,
        ReleaseRemove, Abandon, electionVars
  <2>3. Proceeds(p)
    <3>1. server \in [Proc -> Server] /\ server[p].failed \in BOOLEAN
      BY DEF Held, ServerTypeOK, Server
    <3>2. CASE Drained(p) \/ BeginRelease(p)
      BY <3>1, <3>2
      DEF Drained, BeginRelease, Releases, Enter, In, InTerm, Proceeds, Server,
          Phase
    <3>3. CASE HandoffRefused(p)
      BY <3>1, <3>3 DEF HandoffRefused, In, InTerm, Proceeds, Server, Phase
    <3>4. CASE Closed(p) \/ Crash(p)
      BY <3>1, <3>4, AfterEnds DEF Closed, Crash, Proceeds
    <3>5. CASE \/ HandedOff(p) \/ FinishRelease(p) \/ NothingToRelease(p)
               \/ ReleaseFails(p)
      BY <3>5, SettleProceeds
      DEF HandedOff, FinishRelease, NothingToRelease, ReleaseFails, Releases, In,
          InTerm
    <3> QED
      BY <1>3, <3>2, <3>3, <3>4, <3>5 DEF StopStep
  <2> QED
    BY <2>1, <2>2, <2>3, ServerStepHeld
<1>4. ASSUME NEW p \in Proc, Request(p) \/ Admit(p)
      PROVE  Held'
  <2>1. CASE Request(p)
    <3>1. Term(p) \in tokens[p] /\ Term(p) \in Nat
      BY <2>1 DEF Request, Works, Held, TokensHeld, InTerm, IInv, TypeOK
    <3>2. UNCHANGED <<server, tokens>> /\ requests' = requests \cup {<<p, Term(p)>>}
      BY <2>1 DEF Request, electionVars
    <3> QED
      BY <3>1, <3>2 DEF Held, ServerTypeOK, TokensHeld, InTerm, IInv
  <2>2. CASE Admit(p)
    BY <1>1, <2>2 DEF Admit, BeginAdmission
  <2> QED
    BY <1>4, <2>1, <2>2
<1>5. ASSUME NEW r \in requests, Drop(r) \/ \E c \in Worker : Serve(c, r)
      PROVE  Held'
  BY <1>1, <1>5 DEF Drop, Serve, BeginAdmission, electionVars
<1>6. CASE Clock \/ \E c \in Participant : Fenced(c)
  BY <1>1, <1>6
  DEF Clock, Tick, Fenced, EndAdmission, BeginOwnerless, Abandon, EndOwnerless
<1>7. CASE UNCHANGED serverVars
  BY <1>1, <1>7 DEF serverVars, electionVars
<1> QED
  BY <1>2, <1>3, <1>4, <1>5, <1>6, <1>7 DEF ServerNext

-----------------------------------------------------------------------------

\* Both invariants hold together: the election's invariant keeps the types that
\* the tokens need, the tokens make every step one of the election.
LEMMA ServerHeld == ServerSpec => [](IInv /\ Held)
<1>1. ASSUME IInv /\ Held, [ServerNext]_serverVars
      PROVE  (IInv /\ Held)'
  <2>1. IInv'
    BY <1>1, ServerStepRefines, NextIInv
  <2> QED
    BY <1>1, <2>1, ServerStepHolds
<1> QED
  BY <1>1, ServerInitHeld, PTL DEF ServerSpec

\* The processes and their requests have their types, however they interleave.
THEOREM ServerTypes == ServerSpec => []ServerTypeOK
  BY ServerHeld, PTL DEF Held

\* Every behaviour of the servers is one of the election's most general client:
\* runOwnerElection only uses tokens its process was given, so all that is proved
\* of Election holds of the program's own use of it.
THEOREM ServerImplementsElection == ServerSpec => ImplementsElection
<1>1. ServerInit => Init
  BY DEF ServerInit
<1>2. Held /\ [ServerNext]_serverVars => [Next]_electionVars
  BY ServerStepRefines
<1> QED
  BY <1>1, <1>2, ServerHeld, PTL DEF ServerSpec, Spec, ImplementsElection

-----------------------------------------------------------------------------
(* Admissions. *)

AdmittedInRange == admitted < nextTerm

\* An admission runs under the newest term.
LEMMA AdmissionsAscend ==
  ASSUME IInv, AdmittedInRange, [Next]_electionVars
  PROVE  AdmittedInRange' /\ admitted' >= admitted
<1>1. admitted \in Nat /\ nextTerm \in Nat
  BY DEF IInv, TypeOK
<1>2. CASE UNCHANGED <<admitted, nextTerm>>
  BY <1>1, <1>2 DEF AdmittedInRange
<1>3. ASSUME NEW p \in Proc, TryAcquire(p)
      PROVE  AdmittedInRange' /\ admitted' >= admitted
  BY <1>1, <1>3 DEF TryAcquire, AdmittedInRange
<1>4. ASSUME NEW p \in Proc, NEW t, NEW c, BeginAdmission(c, p, t)
      PROVE  AdmittedInRange' /\ admitted' >= admitted
  <2>1. admitted' = nextTerm - 1 /\ nextTerm' = nextTerm
    BY <1>4
    DEF BeginAdmission, MayAdmit, MayHandOff, MayRenew, Holds, IInv,
        LeaseIsNewestTerm
  <2> QED
    BY <1>1, <2>1 DEF AdmittedInRange
<1> QED
  BY <1>2, <1>3, <1>4
  DEF Next, OwnerStep, LockStep, Tick, Renew, Handoff, ReleaseFence,
      ReleaseRemove, EndAdmission, BeginOwnerless, EndOwnerless, Abandon,
      electionVars

\* Durable work is admitted in the order of terms, whatever requests outlive the
\* process that sent them.
THEOREM AdmissionsInOrder == ServerSpec => AdmissionsFollowTerms
<1>1. ServerInit => AdmittedInRange
  BY DEF ServerInit, Init, AdmittedInRange
<1>2. (IInv /\ Held) /\ AdmittedInRange /\ [ServerNext]_serverVars
        => AdmittedInRange' /\ [admitted' >= admitted]_serverVars
  BY ServerStepRefines, AdmissionsAscend
<1> QED
  BY <1>1, <1>2, ServerHeld, PTL DEF ServerSpec, AdmissionsFollowTerms

-----------------------------------------------------------------------------
(* What a step can do to the lease, and what to a process. *)

\* The record keeps its term, and only HandedOff reserves it.
LeaseKept ==
  /\ lease'.state = lease.state
  /\ lease'.owner = lease.owner
  /\ lease'.term = lease.term
  /\ lease'.handoff = lease.handoff \/ \E q \in Proc : HandedOff(q)

\* Only an attempt and the end of a release change who owns the lease.
LEMMA LeaseSteps ==
  ASSUME IInv, [ServerNext]_serverVars
  PROVE  \/ \E q \in Proc : Attempt(q) \/ FinishRelease(q)
         \/ LeaseKept
<1>1. lease \in Lease
  BY DEF IInv, TypeOK
<1>2. ASSUME UNCHANGED lease
      PROVE  LeaseKept
  BY <1>2 DEF LeaseKept
<1>3. ASSUME NEW p \in Proc, ElectionStep(p)
      PROVE  Attempt(p) \/ LeaseKept
  <2>1. CASE StartSucceeds(p) \/ RenewTick(p)
    BY <1>1, <2>1 DEF StartSucceeds, RenewTick, Renew, LeaseKept, Lease
  <2> QED
    BY <1>2, <1>3, <2>1
    DEF ElectionStep, SocketRefused, StartLosesOwnership, StartFails,
        RenewRefused, LoopFails, HandoffRequested, Shutdown, electionVars
<1>4. ASSUME NEW p \in Proc, StopStep(p)
      PROVE  FinishRelease(p) \/ LeaseKept
  <2>1. CASE HandedOff(p)
    BY <1>1, <2>1 DEF HandedOff, Handoff, LeaseKept, Lease
  <2> QED
    BY <1>2, <1>4, <2>1
    DEF StopStep, Drained, HandoffRefused, BeginRelease, NothingToRelease,
        ReleaseFails, Closed, ReleaseFence, Abandon, electionVars
<1>5. ASSUME NEW c, EndAdmission(c)
      PROVE  LeaseKept
  BY <1>1, <1>5 DEF EndAdmission, LeaseKept, Lease
<1>6. CASE Clock
  BY <1>1, <1>6 DEF Clock, Tick, LeaseKept, Lease
<1>7. ASSUME NEW p \in Proc, Crash(p) \/ Request(p) \/ Admit(p)
      PROVE  LeaseKept
  BY <1>2, <1>7
  DEF Crash, Request, Admit, Abandon, BeginAdmission, electionVars
<1>8. ASSUME NEW r \in requests, Drop(r) \/ \E c \in Worker : Serve(c, r)
      PROVE  LeaseKept
  BY <1>2, <1>8 DEF Drop, Serve, BeginAdmission, electionVars
<1>9. ASSUME NEW c \in Participant, Fenced(c)
      PROVE  LeaseKept
  BY <1>2, <1>5, <1>9 DEF Fenced, BeginOwnerless, EndOwnerless, Abandon
<1>10. CASE UNCHANGED serverVars
  BY <1>2, <1>10 DEF serverVars, electionVars
<1> QED
  BY <1>3, <1>4, <1>6, <1>7, <1>8, <1>9, <1>10 DEF ServerNext

\* The process polls, or is about to poll again.
Leaving(p) == In(p, "secondary") \/ (In(p, "closing") /\ ~server[p].failed)

\* Only Attempt begins a term, no step resumes owner-only work, and a term is left
\* with the lease dealt with.
ServerKept(p) ==
  /\ InTerm(p)' => InTerm(p) /\ Term(p)' = Term(p)
  /\ Works(p)' => Works(p)
  /\ Leaving(p)' =>
       Leaving(p) \/ HandedOff(p) \/ FinishRelease(p) \/ NothingToRelease(p)

\* A term that is settled does no more owner-only work.
LEMMA SettleKeeps ==
  ASSUME Held, NEW p \in Proc, Releases(p) \/ In(p, "releasing"),
         NEW f \in BOOLEAN, Settle(p, f)
  PROVE  ~Works(p)' /\ (f => ~Leaving(p)')
<1> DEFINE bad == f \/ server[p].failed
<1>1. server \in [Proc -> Server] /\ bad \in BOOLEAN /\ (f => bad)
  BY DEF Held, ServerTypeOK, Server
<1>2. CASE server[p].phase = "aborting"
  <2>1. server' = [server EXCEPT ![p] = After(bad)]
    BY <1>2 DEF Settle
  <2> HIDE DEF bad
  <2> QED
    BY <1>1, <2>1, AfterEnds DEF Works, Leaving, In
<1>3. CASE server[p].phase # "aborting"
  <2>1. server' = [server EXCEPT
          ![p] = [server[p] EXCEPT !.phase = "closing", !.failed = bad]]
    BY <1>3 DEF Settle
  <2> HIDE DEF bad
  <2> QED
    BY <1>1, <2>1 DEF Works, Leaving, In, Server
<1> QED
  BY <1>2, <1>3

\* Every step of a server begins a term or keeps the order of its phases.
LEMMA ServerSteps ==
  ASSUME Held, [ServerNext]_serverVars, NEW p \in Proc
  PROVE  Attempt(p) \/ ServerKept(p)
<1>1. server \in [Proc -> Server]
  BY DEF Held, ServerTypeOK
<1>2. ASSUME server'[p] = server[p]
      PROVE  ServerKept(p)
  BY <1>2 DEF ServerKept, InTerm, Term, Works, Leaving, In
<1>3. CASE ElectionStep(p)
  <2>1. CASE \/ SocketRefused(p) \/ StartSucceeds(p) \/ StartLosesOwnership(p)
             \/ StartFails(p) \/ Shutdown(p)
    BY <1>1, <2>1
    DEF SocketRefused, StartSucceeds, StartLosesOwnership, StartFails, Shutdown,
        Stop, Enter, In, ServerKept, InTerm, Term, Works, Leaving, Server
  <2>2. CASE \/ RenewRefused(p) \/ LoopFails(p)
             \/ (\E q \in Proc : HandoffRequested(p, q))
    <3>1. In(p, "primary") /\ \E q : Stop(p, q, FALSE)
      BY <2>2 DEF RenewRefused, LoopFails, HandoffRequested
    <3> QED
      BY <1>1, <3>1
      DEF Stop, In, ServerKept, InTerm, Term, Works, Leaving, Server
  <2>3. CASE RenewTick(p)
    BY <1>2, <2>3 DEF RenewTick
  <2> QED
    BY <1>3, <2>1, <2>2, <2>3 DEF ElectionStep
<1>4. CASE StopStep(p)
  <2>1. CASE Drained(p) \/ HandoffRefused(p)
    BY <1>1, <2>1
    DEF Drained, HandoffRefused, Enter, In, ServerKept, InTerm, Term, Works,
        Leaving, Server
  <2>2. CASE BeginRelease(p)
    BY <1>2, <2>2 DEF BeginRelease
  <2>3. CASE \/ HandedOff(p) \/ FinishRelease(p) \/ NothingToRelease(p)
             \/ ReleaseFails(p)
    <3>1. PICK f \in BOOLEAN : Settle(p, f) /\ (ReleaseFails(p) => f)
      BY <2>3 DEF HandedOff, FinishRelease, NothingToRelease, ReleaseFails
    <3>2. (Releases(p) \/ In(p, "releasing")) /\ InTerm(p)
      BY <2>3
      DEF HandedOff, FinishRelease, NothingToRelease, ReleaseFails, Releases, In,
          InTerm
    <3>3. Proceeds(p)
      BY <3>1, <3>2, SettleProceeds
    <3>4. ~Works(p)' /\ (f => ~Leaving(p)')
      BY <3>1, <3>2, SettleKeeps
    <3> QED
      BY <2>3, <3>1, <3>2, <3>3, <3>4 DEF Proceeds, ServerKept, InTerm, Term
  <2>4. CASE Closed(p)
    <3>1. server[p].failed \in BOOLEAN
      BY <1>1 DEF Server
    <3> QED
      BY <1>1, <2>4, <3>1, AfterEnds
      DEF Closed, In, ServerKept, InTerm, Term, Works, Leaving
  <2> QED
    BY <1>4, <2>1, <2>2, <2>3, <2>4 DEF StopStep
<1>5. CASE Crash(p)
  BY <1>1, <1>5, AfterEnds
  DEF Crash, ServerKept, InTerm, Term, Works, Leaving, In
<1>6. ASSUME NEW q \in Proc \ {p}, ElectionStep(q) \/ StopStep(q) \/ Crash(q)
      PROVE  server'[p] = server[p]
  BY <1>1, <1>6
  DEF ElectionStep, Attempt, SocketRefused, StartSucceeds, StartLosesOwnership,
      StartFails, RenewTick, RenewRefused, LoopFails, HandoffRequested, Shutdown,
      StopStep, Drained, HandedOff, HandoffRefused, BeginRelease, FinishRelease,
      NothingToRelease, ReleaseFails, Closed, Crash, Enter, Stop, Settle
<1>7. ASSUME \/ \E q \in Proc : Request(q) \/ Admit(q)
             \/ \E r \in requests : Drop(r) \/ \E c \in Worker : Serve(c, r)
             \/ \E c \in Participant : Fenced(c)
             \/ Clock
             \/ UNCHANGED serverVars
      PROVE  server'[p] = server[p]
  BY <1>7 DEF Request, Admit, Drop, Serve, Fenced, Clock, serverVars
<1> QED
  BY <1>2, <1>3, <1>4, <1>5, <1>6, <1>7 DEF ServerNext

-----------------------------------------------------------------------------
(* The lease and the process it names. *)

\* A process in a term that owns the published lease owns it under that term.
OwnTerm ==
  \A p \in Proc : Published /\ lease.owner = p /\ InTerm(p) => lease.term = Term(p)

LeavingOwnsNothing ==
  \A p \in Proc :
    Leaving(p) => ~(Published /\ lease.owner = p /\ lease.handoff = NoProc)

\* Each part alone is not inductive: NothingToRelease leaves the lease dealt with
\* only because the lease of another term cannot be p's own.
LeaseInv == ReservedMeansDrained /\ OwnTerm /\ LeavingOwnsNothing

\* The lease invariant holds at the start.
LEMMA ServerInitLeaseInv == ServerInit => LeaseInv
  BY DEF ServerInit, Init, LeaseInv, ReservedMeansDrained, OwnTerm,
         LeavingOwnsNothing, Published, Blank

\* What the three steps that change more than an age leave behind.
LEMMA AttemptLeaves ==
  ASSUME IInv, Held, NEW p \in Proc, Attempt(p)
  PROVE  /\ lease'.owner = p /\ lease'.handoff = NoProc
         /\ lease'.term = nextTerm /\ Term(p)' = nextTerm
         /\ ~Leaving(p)'
<1>1. server \in [Proc -> Server]
  BY DEF Held, ServerTypeOK
<1> QED
  BY <1>1 DEF Attempt, TryAcquire, LeaseOf, Blank, Term, Leaving, In, Polling

\* A term is handed off only by its owner, who works no more.
LEMMA HandedOffLeaves ==
  ASSUME Held, IInv, NEW p \in Proc, HandedOff(p)
  PROVE  lease.owner = p /\ lease'.handoff # NoProc /\ ~Works(p)'
<1>1. ~Works(p)'
  BY SettleKeeps DEF HandedOff
<1>2. lease \in Lease
  BY DEF IInv, TypeOK
<1> QED
  BY <1>1, <1>2 DEF HandedOff, Handoff, MayHandOff, MayRenew, Holds, Lease

\* The end of a release leaves no published lease.
LEMMA FinishReleaseLeaves ==
  ASSUME NEW p \in Proc, FinishRelease(p)
  PROVE  ~Published'
  BY DEF FinishRelease, ReleaseRemove, Blank, Published

\* Every step keeps the lease invariant.
LEMMA StepLeaseInv ==
  ASSUME IInv, Held, LeaseInv, [ServerNext]_serverVars
  PROVE  LeaseInv'
<1> SUFFICES ASSUME Published', NEW p \in Proc, lease'.owner = p
             PROVE  /\ lease'.handoff # NoProc /\ lease'.term = Term(p)'
                         => ~Works(p)'
                    /\ InTerm(p)' => lease'.term = Term(p)'
                    /\ Leaving(p)' => lease'.handoff # NoProc
  BY DEF LeaseInv, ReservedMeansDrained, OwnTerm, LeavingOwnsNothing
<1>1. CASE Attempt(p)
  BY <1>1, AttemptLeaves
<1>2. CASE ~Attempt(p)
  <2>1. ServerKept(p)
    BY <1>2, ServerSteps
  <2>2. LeaseKept
    BY <1>2, LeaseSteps, AttemptLeaves, FinishReleaseLeaves
  <2>3. Published /\ lease.owner = p /\ lease'.term = lease.term
    BY <2>2 DEF LeaseKept, Published
  <2>4. CASE \E q \in Proc : HandedOff(q)
    <3>1. HandedOff(p) /\ lease'.handoff # NoProc /\ ~Works(p)'
      BY <2>3, <2>4, HandedOffLeaves
    <3> QED
      BY <2>1, <2>3, <3>1 DEF LeaseInv, OwnTerm, ServerKept
  <2>5. CASE ~ \E q \in Proc : HandedOff(q)
    <3>1. lease'.handoff = lease.handoff
      BY <2>2, <2>5 DEF LeaseKept
    <3>2. Works(p)' => InTerm(p)'
      BY DEF Works, InTerm
    <3>3. lease'.handoff # NoProc /\ lease'.term = Term(p)' => ~Works(p)'
      BY <2>1, <2>3, <3>1, <3>2 DEF LeaseInv, ReservedMeansDrained, ServerKept
    <3>4. InTerm(p)' => lease'.term = Term(p)'
      BY <2>1, <2>3 DEF LeaseInv, OwnTerm, ServerKept
    <3>5. Leaving(p)' => lease'.handoff # NoProc
      <4>1. ~FinishRelease(p)
        BY FinishReleaseLeaves
      <4>2. ~NothingToRelease(p)
        BY <2>3
        DEF LeaseInv, OwnTerm, NothingToRelease, Releases, In, InTerm, Holds
      <4> QED
        BY <2>1, <2>3, <2>5, <3>1, <4>1, <4>2
        DEF LeaseInv, LeavingOwnsNothing, ServerKept
    <3> QED
      BY <3>3, <3>4, <3>5
  <2> QED
    BY <2>4, <2>5
<1> QED
  BY <1>1, <1>2

\* The lease invariant holds in every reachable state.
LEMMA ServerLeaseInv == ServerSpec => []LeaseInv
<1>1. (IInv /\ Held) /\ LeaseInv /\ [ServerNext]_serverVars => LeaseInv'
  BY StepLeaseInv
<1> QED
  BY <1>1, ServerInitLeaseInv, ServerHeld, PTL DEF ServerSpec

\* stopFor drains before it hands over: while the lease is reserved for a
\* successor, no owner-only loop of its term is running.
THEOREM ReservedIsDrained == ServerSpec => []ReservedMeansDrained
  BY ServerLeaseInv, PTL DEF LeaseInv

\* Every way out of a term, the failure path of step included, deals with the
\* lease before the process polls again.
THEOREM SecondaryOwnsNoLease == ServerSpec => []SecondaryOwnsNothing
<1>1. LeaseInv => SecondaryOwnsNothing
  BY DEF LeaseInv, LeavingOwnsNothing, Leaving, SecondaryOwnsNothing
<1> QED
  BY <1>1, ServerLeaseInv, PTL

\* A process in the middle of its owner-only work loses the lease only by letting
\* its heartbeat go stale.
THEOREM WorkerLosesStaleLease == ServerSpec => WorkerLosesOnlyStaleLease
<1>1. ASSUME IInv, Held, LeaseInv, [ServerNext]_serverVars,
             NEW p \in Proc, Works(p), Holds(p, Term(p)), lease'.term # lease.term
      PROVE  Stale
  <2>1. lease.handoff = NoProc
    BY <1>1 DEF LeaseInv, ReservedMeansDrained, Holds
  <2>2. PICK q \in Proc : Attempt(q) \/ FinishRelease(q)
    BY <1>1, LeaseSteps DEF LeaseKept
  <2>3. CASE Attempt(q)
    BY <1>1, <2>1, <2>3, ElectionAssumption
    DEF Attempt, TryAcquire, MayAcquire, HandoffExpired, Holds
  <2>4. CASE FinishRelease(q)
    <3>1. lease.owner = q
      BY <1>1, <2>4 DEF FinishRelease, ReleaseRemove, IInv, LockProtects
    <3> QED
      BY <1>1, <2>4, <3>1
      DEF FinishRelease, Releases, In, Works, Holds
  <2> QED
    BY <2>2, <2>3, <2>4
<1>2. (IInv /\ Held) /\ LeaseInv /\ [ServerNext]_serverVars
        => [ \A p \in Proc :
               /\ Works(p)
               /\ Holds(p, Term(p))
               /\ lease'.term # lease.term
               => Stale ]_serverVars
  BY <1>1
<1> QED
  BY <1>2, ServerHeld, ServerLeaseInv, PTL
  DEF ServerSpec, WorkerLosesOnlyStaleLease
=============================================================================
