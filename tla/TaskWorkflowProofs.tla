------------------------- MODULE TaskWorkflowProofs -------------------------
(***************************************************************************)
(* Proofs about internal/orchestrator (TaskWorkflow.tla), in three layers. *)
(*                                                                         *)
(* ClaimInv holds for every value of the constants, whatever the agents do *)
(* and whenever a shutdown comes: types, one retained execution per phase, *)
(* and a journaled lease for every document Spynel put in a claimed        *)
(* directory.                                                              *)
(*                                                                         *)
(* OrderlyInv holds if no shutdown comes between the fence of a scan and   *)
(* its end: every retained execution and every dispatch has its lease, and *)
(* a claim that is being journaled has a number of its own.                *)
(*                                                                         *)
(* PolicyInv holds if, moreover, an agent does not enter the directory of  *)
(* claims of the other phase: an interrupted claim keeps the journal of    *)
(* its interruption, and a task that needs review is reviewed.             *)
(***************************************************************************)
EXTENDS TaskWorkflow, TLAPS

-----------------------------------------------------------------------------
(* The first layer. *)

Claiming == {"rename", "record", "start"}

Retiring == {"retire first", "retire second"}

\* A manager that is down has left nothing behind in memory.
HomeFits ==
  manager.state = "down" =>
    /\ scan.at = "idle" /\ control.at = "none"
    /\ \A ph \in Phase : ~Inflight(ph)

\* Leases and dispatches are numbered from one, and what is no lease is not
\* cancelled.
NumbersFit ==
  \A ph \in Phase : /\ Leased(ph) => lease[ph].attempt # 0
                    /\ lease[ph].cancel => Leased(ph)
                    /\ Inflight(ph) => flight[ph].attempt # 0

\* The claim a scan is about to make has its journal and no dispatch yet.
ClaimFits ==
  scan.at \in Claiming =>
    /\ lease[scan.phase].state = "claiming"
    /\ ~Inflight(scan.phase)

\* Past the attachment of a running manager, what is retained is in flight.
ScanFits ==
  manager.state = "running" /\ scan.at \notin {"idle", "attach"} =>
    \A ph \in Phase : ~Inflight(ph) => Retained(ph) = {}

\* A dispatch that has yet to send has nothing to collide with.
FlightFits ==
  manager.state = "running" =>
    \A ph \in Phase :
      flight[ph].at \in {"prepare", "send"} => Retained(ph) = {}

OneRetained == \A ph \in Phase : \A n, k \in Retained(ph) : n = k

\* The lease that is about to go is of no claimed document of Spynel's.
RetireFits ==
  scan.at \in Retiring => ~(AtFile(scan.phase) /\ doc.by = "spynel")

ClaimInv ==
  /\ TypeOK
  /\ HomeFits /\ NumbersFit /\ ClaimFits
  /\ ScanFits /\ FlightFits /\ OneRetained
  /\ RetireFits /\ ClaimsAreJournaled

-----------------------------------------------------------------------------
(* The second layer. *)

\* No shutdown comes in the middle of a scan, and no interruption either.
PausesFit ==
  /\ scan.at \notin {"idle", "attach"} => manager.state = "running"
  /\ control.at # "none" => scan.at = "idle"

\* A dispatch has the lease it was made for, and so will the one of a claim.
LeasesFit ==
  /\ \A ph \in Phase : Inflight(ph) => Current(ph)
  /\ scan.at \in Claiming => lease[scan.phase].owner = manager.gen
  /\ scan.at \in Retiring => ~Inflight(scan.phase)

\* A claim that is being journaled is the only one, its document is where the
\* claim takes it or left it, and its number is new to the worker.
JournalFits(ph) ==
  lease[ph].state = "claiming" =>
    /\ ~Inflight(ph)
    /\ Retained(ph) = {}
    /\ \A q \in Phase : q # ph => ~Leased(q)
    /\ doc.dir \in {Queue(ph), Claimed(ph)}
    /\ doc.attempt[ph] <= lease[ph].attempt
    /\ lease[ph].attempt <= doc.attempt[ph] + 1
    /\ <<ph, lease[ph].attempt>> \notin used

JournalsFit ==
  /\ \A ph \in Phase : JournalFits(ph)
  /\ scan.at \in {"rename", "record"} =>
       lease[scan.phase].attempt = doc.attempt[scan.phase] + 1
  /\ scan.at = "start" => lease[scan.phase].attempt = doc.attempt[scan.phase]
  /\ scan.at \in {"first", "second", "stale", "orphans"} \cup Retiring =>
       \A ph \in Phase : lease[ph].state # "claiming"

\* The document remembers the number of every claim that was dispatched.
AttemptsFit ==
  \A ph \in Phase :
    /\ Leased(ph) /\ lease[ph].state # "claiming"
         => lease[ph].attempt <= doc.attempt[ph]
    /\ \A n \in Attempt : <<ph, n>> \in used => n <= doc.attempt[ph]

OrderlyInv ==
  /\ PausesFit /\ LeasesFit /\ JournalsFit /\ AttemptsFit
  /\ RetirementWaitsForDelivery

-----------------------------------------------------------------------------
(* The third layer. *)

\* An agent does not claim the other phase by moving the document.
WellBehaved == /\ "reviewing" \notin ImplementerMoves
               /\ "working" \notin ReviewerMoves

\* A document in a claimed directory is claimed, and by nobody else.
HomesFit ==
  /\ \A ph \in Phase : AtFile(ph) => Leased(ph)
  /\ \A ph, q \in Phase : Leased(ph) /\ Leased(q) => ph = q
  /\ scan.at \in Retiring => ~AtFile(scan.phase)

\* The journal of an accepted interruption stays with its claim, and only an
\* interruption that found nothing takes it back.
CancelsFit ==
  /\ \A ph \in Phase : \A n \in Attempt :
       exec[ph][n].turn # "none" /\ exec[ph][n].cancelled => lease[ph].cancel
  /\ \A ph \in Phase :
       Leased(ph) /\ <<ph, lease[ph].attempt>> \in stopped => lease[ph].cancel
  /\ stopped \subseteq used
  /\ \A ph \in Phase : \A n \in Attempt :
       exec[ph][n].turn # "none" => <<ph, n>> \in used

ControlFits ==
  control.at # "none" =>
    /\ control.attempt # 0
    /\ control.at = "deliver" => /\ lease[control.phase].cancel
                                 /\ lease[control.phase].attempt = control.attempt
    /\ control.at = "restore" => ~control.already
    /\ ~control.already =>
         /\ <<control.phase, control.attempt>> \notin stopped
         /\ ~exec[control.phase][control.attempt].cancelled

\* With reviews disabled there is no claim of the review phase.
DisabledFit ==
  Reviews = "never" =>
    /\ ~Leased("review") /\ ~Inflight("review") /\ Retained("review") = {}

\* A document in done that nobody reviewed still has the implementation's claim,
\* which will be retired only if no review is needed.
ReviewFits ==
  doc.dir = "done" =>
    /\ Leased("review") => doc.by = "review"
    /\ ReviewRequired /\ doc.by # "review" =>
         /\ Leased("implementation")
         /\ ~(scan.at \in Retiring /\ scan.phase = "implementation")

PolicyInv ==
  /\ HomesFit /\ CancelsFit /\ ControlFits /\ DisabledFit /\ ReviewFits
  /\ CancelledStaysDown

-----------------------------------------------------------------------------
(* Facts about the operators. *)

\* The two phases, each the other's other.
LEMMA Phases ==
  /\ "implementation" \in Phase /\ "review" \in Phase
  /\ \A ph \in Phase : Other(ph) \in Phase /\ Other(ph) # ph
  /\ \A ph, q \in Phase : q # ph <=> q = Other(ph)
BY DEF Phase, Other

\* The directories of a phase are directories, and every phase has its own.
LEMMA Dirs ==
  /\ \A ph \in Phase : Queue(ph) \in Dir /\ Claimed(ph) \in Dir
  /\ \A ph, q \in Phase : Queue(ph) # Claimed(q)
  /\ \A ph, q \in Phase : Claimed(ph) = Claimed(q) => ph = q
  /\ \A ph, q \in Phase : Queue(ph) = Queue(q) => ph = q
BY DEF Phase, Dir, Queue, Claimed

\* Directories that agents may choose are directories.
LEMMA MovesTyped == \A ph \in Phase : Moves(ph) \subseteq Dir
BY TaskWorkflowAssumption DEF Moves

\* The oldest of at most one retained execution is that one.
LEMMA OldestRetained ==
  ASSUME TypeOK, OneRetained, NEW ph \in Phase, Retained(ph) # {}
  PROVE  Oldest(ph) \in Attempt /\ Retained(ph) = {Oldest(ph)}
<1>1. Retained(ph) \subseteq Attempt /\ Attempt \subseteq Nat
  BY TaskWorkflowAssumption DEF Retained, Attempt
<1>2. PICK n \in Retained(ph) : TRUE
  OBVIOUS
<1>3. \A k \in Retained(ph) : k = n /\ n <= k
  <2> TAKE k \in Retained(ph)
  <2>1. k = n /\ n \in Nat
    BY <1>1, <1>2 DEF OneRetained
  <2> QED
    BY <2>1
<1>4. Oldest(ph) \in Retained(ph)
  BY <1>2, <1>3 DEF Oldest
<1> QED
  BY <1>1, <1>3, <1>4

\* Marking keeps a lease what it is, but for its state and its heartbeat.
LEMMA MarkedLease ==
  ASSUME TypeOK, NEW ph \in Phase, NEW state \in LeaseState \ {"none"}
  PROVE  /\ Marked(ph, state) \in [Phase -> Lease]
         /\ \A q \in Phase :
              /\ Marked(ph, state)[q].owner = lease[q].owner
              /\ Marked(ph, state)[q].attempt = lease[q].attempt
              /\ Marked(ph, state)[q].cancel = lease[q].cancel
              /\ (Marked(ph, state)[q].state = "none")
                   <=> (lease[q].state = "none")
              /\ q # ph => Marked(ph, state)[q] = lease[q]
              /\ ~Current(ph) => Marked(ph, state)[q] = lease[q]
              /\ Marked(ph, state)[q].state \in {state, lease[q].state}
<1> DEFINE r == [lease[ph] EXCEPT !.state = state, !.old = FALSE]
<1>1. lease \in [Phase -> Lease] /\ lease[ph] \in Lease
  BY DEF TypeOK
<1>2. /\ r \in Lease /\ r.state = state /\ r.owner = lease[ph].owner
      /\ r.attempt = lease[ph].attempt /\ r.cancel = lease[ph].cancel
  BY <1>1 DEF Lease
<1>3. Marked(ph, state) = IF Current(ph) THEN [lease EXCEPT ![ph] = r] ELSE lease
  BY <1>1 DEF Marked
<1>4. Current(ph) => lease[ph].state # "none"
  BY DEF Current, Leased
<1> HIDE DEF r
<1> QED
  BY <1>1, <1>2, <1>3, <1>4

\* A document may be moved to any directory.
LEMMA MovedToTyped ==
  ASSUME TypeOK, NEW d \in Dir
  PROVE  /\ MovedTo(d) \in Document
         /\ MovedTo(d).dir = d
         /\ MovedTo(d).attempt = doc.attempt
         /\ MovedTo(d).required = doc.required
         /\ doc.dir = d => MovedTo(d) = doc
         /\ doc.dir # d => MovedTo(d).by = "spynel"
BY DEF TypeOK, MovedTo, Document

\* A reconciled document ends in a directory, which is not a claimed one unless
\* it was left there.
LEMMA SettledDir ==
  ASSUME TypeOK, NEW ph \in Phase, NEW d \in Settled(ph, doc.dir)
  PROVE  /\ d \in Dir
         /\ d \in {doc.dir, "todo", "review", "done"}
         /\ d = "done" => doc.dir = "done"
         /\ d = "working" => doc.dir = "working"
         /\ d = "reviewing" => doc.dir = "reviewing"
         /\ d = "reviewing" /\ ph = "implementation" => Leased("review")
BY DEF Settled, TypeOK, Document, Dir, Phase

-----------------------------------------------------------------------------
(* Steps that handle what is claimed: they make no claim and retire none. *)

\* Leases keep who holds them and which claim they are of; only a dispatch
\* changes the state of its own.  Dispatches go on or end, executions lose what
\* they had, and no claim, document or scan is touched.
Handles ==
  /\ UNCHANGED <<doc, elder, used, manager, scan>>
  /\ lease' \in [Phase -> Lease]
  /\ \A q \in Phase :
       /\ lease'[q].owner = lease[q].owner
       /\ lease'[q].attempt = lease[q].attempt
       /\ lease'[q].state # lease[q].state =>
            Leased(q) /\ Inflight(q) /\ lease'[q].state \notin {"none", "claiming"}
       /\ lease'[q].cancel => lease[q].cancel \/ Leased(q)
  /\ flight' \in [Phase -> Flight]
  /\ \A q \in Phase : flight'[q].at # "none" =>
       /\ flight[q].at # "none"
       /\ flight'[q].attempt = flight[q].attempt
       /\ flight'[q].owner = flight[q].owner
       /\ flight'[q].at \in {"prepare", "send"} =>
            flight[q].at \in {"prepare", "send"}
  /\ \/ flight' = flight
     \/ manager.state # "running"
     \/ scan.at \in {"idle", "attach"}
  /\ exec' \in [Phase -> [Attempt -> Execution]]
  /\ \A q \in Phase, n \in Attempt :
       exec'[q][n].turn # "none" => exec[q][n].turn # "none"
  /\ stopped' \in SUBSET (Phase \X Attempt)
  /\ worker' \in {"up", "down"}
  /\ faults' \in 0..MaxFault
  /\ control' \in Control
  /\ control'.at # "none" =>
       control.at # "none" \/ (manager.state = "running" /\ scan.at = "idle")

\* ... and that have nothing to do with interruptions.
Plain ==
  /\ stopped' = stopped
  /\ control' \in {control, NoControl}
  /\ \A q \in Phase : lease'[q].cancel = lease[q].cancel
  /\ \A q \in Phase, n \in Attempt :
       /\ exec'[q][n].cancelled => exec[q][n].cancelled
       /\ exec'[q][n].turn # "none" =>
            /\ exec'[q][n].cancelled = exec[q][n].cancelled
            /\ exec'[q][n].turn = exec[q][n].turn

\* A fault is counted up to the bound.
LEMMA FaultTyped ==
  ASSUME TypeOK, Fault
  PROVE  faults' \in 0..MaxFault
BY TaskWorkflowAssumption DEF TypeOK, Fault

\* A dispatch that ends is gone, and the other one stays.
LEMMA LandEffect ==
  ASSUME TypeOK, NEW ph \in Phase, Land(ph)
  PROVE  /\ flight' \in [Phase -> Flight]
         /\ flight'[ph] = Grounded /\ flight'[ph].at = "none"
         /\ \A q \in Phase : q # ph => flight'[q] = flight[q]
BY TaskWorkflowAssumption DEF TypeOK, Land, Grounded, Flight

\* A dispatch that goes on is the same one.
LEMMA FlyEffect ==
  ASSUME TypeOK, NEW ph \in Phase,
         NEW at \in {"none", "prepare", "send", "bind", "consume", "ack"},
         Fly(ph, at)
  PROVE  /\ flight' \in [Phase -> Flight]
         /\ flight'[ph].at = at
         /\ flight'[ph].attempt = flight[ph].attempt
         /\ flight'[ph].owner = flight[ph].owner
         /\ \A q \in Phase : q # ph => flight'[q] = flight[q]
BY DEF TypeOK, Fly, Flight

\* A scan that goes on is still about the same phase.
LEMMA ScanToEffect ==
  ASSUME TypeOK, NEW at \in ScanAt, ScanTo(at)
  PROVE  /\ scan' \in [at : ScanAt, phase : Phase]
         /\ scan'.at = at /\ scan'.phase = scan.phase
BY DEF TypeOK, ScanTo

\* A dispatch that has a lease marked by Marked handles it.
LEMMA MarkedHandles ==
  ASSUME TypeOK, NEW ph \in Phase, Inflight(ph),
         NEW state \in (LeaseState \ {"none", "claiming"}) \cup {lease[ph].state},
         lease' = Marked(ph, state)
  PROVE  /\ lease' \in [Phase -> Lease]
         /\ \A q \in Phase :
              /\ lease'[q].owner = lease[q].owner
              /\ lease'[q].attempt = lease[q].attempt
              /\ lease'[q].cancel = lease[q].cancel
              /\ lease'[q].state # lease[q].state =>
                   /\ Leased(q) /\ Inflight(q)
                   /\ lease'[q].state \notin {"none", "claiming"}
<1>1. CASE state = "none"
  BY <1>1 DEF Marked, Current, Leased, TypeOK
<1>2. CASE state # "none"
  <2>1. state \in LeaseState \ {"none"}
    BY <1>2 DEF TypeOK, Lease
  <2>2. lease'[ph].state # lease[ph].state => Leased(ph)
    BY <2>1, MarkedLease DEF Current
  <2> QED
    BY <2>1, <2>2, MarkedLease
<1> QED
  BY <1>1, <1>2

\* What stays has its type.
LEMMA Same ==
  ASSUME TypeOK
  PROVE  /\ lease \in [Phase -> Lease] /\ flight \in [Phase -> Flight]
         /\ exec \in [Phase -> [Attempt -> Execution]]
         /\ stopped \in SUBSET (Phase \X Attempt)
         /\ worker \in {"up", "down"} /\ faults \in 0..MaxFault
         /\ control \in Control
         /\ NoControl \in Control
BY TaskWorkflowAssumption DEF TypeOK, NoControl, Control, Phase

\* Any step that marks the lease of its dispatch, keeps it or lets it go, and
\* leaves the executions alone.
LEMMA DispatchHandles ==
  ASSUME TypeOK, NEW ph \in Phase, Inflight(ph),
         NEW state \in (LeaseState \ {"none", "claiming"}) \cup {lease[ph].state},
         lease' = Marked(ph, state) \/ lease' = lease,
         \/ Land(ph)
         \/ \E at \in {"bind", "consume", "ack"} : Fly(ph, at)
         \/ Fly(ph, "send") /\ flight[ph].at = "prepare"
         \/ flight' = flight,
         scan.at \in {"idle", "attach"} \/ manager.state # "running",
         faults' \in 0..MaxFault,
         UNCHANGED <<doc, elder, exec, stopped, used, worker, manager, scan, control>>
  PROVE  Handles /\ Plain
<1>1. /\ lease' \in [Phase -> Lease]
      /\ \A q \in Phase :
           /\ lease'[q].owner = lease[q].owner
           /\ lease'[q].attempt = lease[q].attempt
           /\ lease'[q].cancel = lease[q].cancel
           /\ lease'[q].state # lease[q].state =>
                /\ Leased(q) /\ Inflight(q)
                /\ lease'[q].state \notin {"none", "claiming"}
  BY MarkedHandles, Same
<1>2. /\ flight' \in [Phase -> Flight]
      /\ \A q \in Phase : flight'[q].at # "none" =>
           /\ flight[q].at # "none"
           /\ flight'[q].attempt = flight[q].attempt
           /\ flight'[q].owner = flight[q].owner
           /\ flight'[q].at \in {"prepare", "send"} =>
                flight[q].at \in {"prepare", "send"}
  <2>1. CASE Land(ph)
    BY <2>1, LandEffect
  <2>2. CASE \E at \in {"bind", "consume", "ack"} : Fly(ph, at)
    BY <2>2, FlyEffect DEF Inflight
  <2>3. CASE Fly(ph, "send") /\ flight[ph].at = "prepare"
    BY <2>3, FlyEffect
  <2>4. CASE flight' = flight
    BY <2>4, Same
  <2> QED
    BY <2>1, <2>2, <2>3, <2>4
<1> QED
  BY <1>1, <1>2, Same DEF Handles, Plain

\* Every step of a dispatch handles its lease, but for the admission of a turn.
LEMMA FlightHandles ==
  ASSUME TypeOK, NEW ph \in Phase,
         \/ Prepare(ph) \/ Bind(ph) \/ Finish(ph) \/ Detach(ph) \/ Fails(ph)
         \/ Send(ph) /\ ~Sendable(ph)
  PROVE  Handles /\ Plain
<1>1. CASE Prepare(ph)
  <2>1. Inflight(ph) /\ flight[ph].at = "prepare"
    BY <1>1 DEF Prepare, At, Inflight
  <2>2. Fly(ph, "send") \/ Land(ph)
    BY <1>1 DEF Prepare
  <2>3. lease' = Marked(ph, "recovering") \/ lease' = Marked(ph, "error")
    BY <1>1 DEF Prepare, Errored
  <2> QED
    BY <1>1, <2>1, <2>2, <2>3, DispatchHandles, Same
       DEF Prepare, Owned, turns, LeaseState
<1>2. CASE Bind(ph)
  <2>1. Inflight(ph)
    BY <1>2 DEF Bind, At, Inflight
  <2>2. Fly(ph, "consume") \/ Land(ph)
    BY <1>2 DEF Bind
  <2>3. \/ lease' = Marked(ph, "processing")
        \/ lease' = Marked(ph, lease[ph].state)
    BY <1>2 DEF Bind
  <2> QED
    BY <1>2, <2>1, <2>2, <2>3, DispatchHandles, Same
       DEF Bind, Owned, turns, LeaseState
<1>3. CASE Finish(ph)
  <2>1. Inflight(ph)
    BY <1>3 DEF Finish, At, Inflight
  <2>2. Fly(ph, "ack") \/ Land(ph)
    BY <1>3 DEF Finish
  <2>3. \/ lease' = Marked(ph, "cancelled") \/ lease' = Marked(ph, "error")
        \/ lease' = lease
    BY <1>3 DEF Finish, Errored
  <2> QED
    BY <1>3, <2>1, <2>2, <2>3, DispatchHandles, Same
       DEF Finish, Owned, turns, LeaseState
<1>4. CASE Detach(ph)
  <2>1. Inflight(ph) /\ Land(ph) /\ UNCHANGED lease
    BY <1>4 DEF Detach
  <2>2. scan.at \in {"idle", "attach"} \/ manager.state # "running"
    BY <1>4 DEF Detach
  <2> QED
    BY <1>4, <2>1, <2>2, DispatchHandles, Same DEF Detach, turns, LeaseState
<1>5. CASE Fails(ph)
  <2>1. Inflight(ph) /\ Land(ph) /\ lease' = Marked(ph, "error")
    BY <1>5 DEF Fails, Inflight, Errored
  <2> QED
    BY <1>5, <2>1, DispatchHandles, FaultTyped
       DEF Fails, Owned, turns, LeaseState
<1>6. CASE Send(ph) /\ ~Sendable(ph)
  <2>1. Inflight(ph) /\ Land(ph) /\ lease' = Marked(ph, "error")
    BY <1>6 DEF Send, At, Inflight, Errored
  <2> QED
    BY <1>6, <2>1, DispatchHandles, Same
       DEF Send, Admission, Owned, turns, LeaseState
<1> QED
  BY <1>1, <1>2, <1>3, <1>4, <1>5, <1>6

\* What a report, a consumed event and the end of a turn write.
LEMMA ExecWritten ==
  ASSUME NEW r \in Execution, NEW b \in BOOLEAN, NEW error \in {"none", "set"}
  PROVE  /\ [r EXCEPT !.unread = b] \in Execution
         /\ [r EXCEPT !.unread = b].turn = r.turn
         /\ [r EXCEPT !.unread = b].cancelled = r.cancelled
         /\ [r EXCEPT !.turn = "over", !.unread = TRUE, !.error = error]
              \in Execution
         /\ [r EXCEPT !.turn = "over", !.unread = TRUE, !.error = error].turn
              = "over"
         /\ [r EXCEPT !.turn = "over", !.unread = TRUE, !.error = error].cancelled
              = r.cancelled
         /\ [r EXCEPT !.cancelled = TRUE] \in Execution
         /\ [r EXCEPT !.cancelled = TRUE].turn = r.turn
         /\ [r EXCEPT !.cancelled = TRUE].cancelled = TRUE
BY DEF Execution

\* Consuming events, acknowledging and ageing are handling, too.
LEMMA ConsumeHandles ==
  ASSUME TypeOK, NEW ph \in Phase, Deliver(ph) \/ Ack(ph) \/ LeaseAges(ph)
  PROVE  Handles /\ Plain
<1>1. CASE Deliver(ph)
  <2> DEFINE n == flight[ph].attempt
             e == [exec[ph][n] EXCEPT !.unread = FALSE]
  <2>1. Inflight(ph)
    BY <1>1 DEF Deliver, At, Inflight
  <2>2. \/ lease' = Marked(ph, "processing")
        \/ lease' = Marked(ph, "awaiting_transition")
        \/ lease' = Marked(ph, lease[ph].state)
    BY <1>1 DEF Deliver
  <2>3. /\ lease' \in [Phase -> Lease]
        /\ \A q \in Phase :
             /\ lease'[q].owner = lease[q].owner
             /\ lease'[q].attempt = lease[q].attempt
             /\ lease'[q].cancel = lease[q].cancel
             /\ lease'[q].state # lease[q].state =>
                  /\ Leased(q) /\ Inflight(q)
                  /\ lease'[q].state \notin {"none", "claiming"}
    BY <2>1, <2>2, MarkedHandles DEF LeaseState
  <2>4. CASE Land(ph) /\ UNCHANGED exec
    BY <1>1, <2>3, <2>4, LandEffect, Same
       DEF Deliver, Owned, Handles, Plain
  <2>5. CASE exec' = [exec EXCEPT ![ph][n].unread = FALSE] /\ UNCHANGED flight
    <3>1. CASE n \in Attempt
      <4>1. e \in Execution /\ e.turn = exec[ph][n].turn
            /\ e.cancelled = exec[ph][n].cancelled
        <5>1. exec[ph][n] \in Execution
          BY <3>1, Same
        <5> QED
          BY <5>1, ExecWritten
      <4>2. exec' = [exec EXCEPT ![ph][n] = e]
        BY <2>5
      <4> HIDE DEF e
      <4>3. /\ exec' \in [Phase -> [Attempt -> Execution]]
            /\ \A q \in Phase, k \in Attempt :
                 /\ exec'[q][k].turn = exec[q][k].turn
                 /\ exec'[q][k].cancelled = exec[q][k].cancelled
        <5>1. exec \in [Phase -> [Attempt -> Execution]]
          BY Same
        <5> QED
          BY <3>1, <4>1, <4>2, <5>1
      <4> QED
        <5>1. /\ UNCHANGED <<doc, elder, stopped, used, worker, manager, scan,
                             flight, control, faults>>
              /\ scan.at \in {"idle", "attach"}
          BY <1>1, <2>5 DEF Deliver, Owned
        <5> QED
          BY <2>3, <4>3, <5>1, Same DEF Handles, Plain
    <3>2. CASE n \notin Attempt
      <4>1. exec' = exec
        BY <2>5, <3>2 DEF TypeOK
      <4> QED
        BY <1>1, <2>3, <2>5, <4>1, Same DEF Deliver, Owned, Handles, Plain
    <3> QED
      BY <3>1, <3>2
  <2> QED
    BY <1>1, <2>4, <2>5 DEF Deliver
<1>2. CASE Ack(ph)
  <2>1. /\ Land(ph) /\ lease' = lease
        /\ UNCHANGED <<doc, elder, stopped, used, worker, manager, scan, control>>
        /\ scan.at = "idle" /\ faults' \in 0..MaxFault
    BY <1>2, FaultTyped, Same DEF Ack, Admission
  <2>2. \/ exec' = [exec EXCEPT ![ph][flight[ph].attempt] = NoExecution]
        \/ exec' = exec
    BY <1>2 DEF Ack
  <2>3. /\ NoExecution \in Execution /\ NoExecution.turn = "none"
        /\ ~NoExecution.cancelled
    BY DEF NoExecution, Execution
  <2>4. /\ exec' \in [Phase -> [Attempt -> Execution]]
        /\ \A q \in Phase, k \in Attempt :
             \/ exec'[q][k] = exec[q][k]
             \/ exec'[q][k].turn = "none" /\ ~exec'[q][k].cancelled
    <3>1. exec \in [Phase -> [Attempt -> Execution]]
      BY Same
    <3> QED
      BY <2>2, <2>3, <3>1
  <2> QED
    BY <2>1, <2>4, LandEffect, Same DEF Handles, Plain
<1>3. CASE LeaseAges(ph)
  <2> DEFINE r == [lease[ph] EXCEPT !.old = TRUE]
  <2>1. lease \in [Phase -> Lease] /\ lease[ph] \in Lease
    BY Same
  <2>2. /\ r \in Lease /\ r.owner = lease[ph].owner
        /\ r.attempt = lease[ph].attempt /\ r.cancel = lease[ph].cancel
        /\ r.state = lease[ph].state
    BY <2>1 DEF Lease
  <2>3. lease' = [lease EXCEPT ![ph] = r]
    BY <1>3 DEF LeaseAges
  <2> HIDE DEF r
  <2>4. /\ lease' \in [Phase -> Lease]
        /\ \A q \in Phase :
             /\ lease'[q].owner = lease[q].owner
             /\ lease'[q].attempt = lease[q].attempt
             /\ lease'[q].cancel = lease[q].cancel
             /\ lease'[q].state = lease[q].state
    BY <2>1, <2>2, <2>3
  <2> QED
    BY <1>3, <2>4, Same DEF LeaseAges, turns, Handles, Plain
<1> QED
  BY <1>1, <1>2, <1>3

\* An agent that reports and a turn that ends change one execution.
LEMMA TurnHandles ==
  ASSUME TypeOK, NEW ph \in Phase, NEW n \in Attempt,
         AgentReports(ph, n) \/ TurnEnds(ph, n)
  PROVE  /\ Handles
         /\ UNCHANGED <<lease, flight, worker, control, faults>>
         /\ \A q \in Phase, k \in Attempt :
              /\ exec'[q][k].cancelled = exec[q][k].cancelled
              /\ exec'[q][k].turn # exec[q][k].turn => exec'[q][k].turn = "over"
         /\ AgentReports(ph, n) => Plain
         /\ TurnEnds(ph, n) =>
              stopped' = IF exec[ph][n].cancelled THEN stopped \cup {<<ph, n>>}
                         ELSE stopped
<1>1. CASE AgentReports(ph, n)
  <2> DEFINE e == [exec[ph][n] EXCEPT !.unread = TRUE]
  <2>1. /\ e \in Execution /\ e.turn = exec[ph][n].turn
        /\ e.cancelled = exec[ph][n].cancelled
    <3>1. exec[ph][n] \in Execution
      BY Same
    <3> QED
      BY <3>1, ExecWritten
  <2>2. exec' = [exec EXCEPT ![ph][n] = e]
    BY <1>1 DEF AgentReports
  <2> HIDE DEF e
  <2>3. /\ exec' \in [Phase -> [Attempt -> Execution]]
        /\ \A q \in Phase, k \in Attempt :
             /\ exec'[q][k].turn = exec[q][k].turn
             /\ exec'[q][k].cancelled = exec[q][k].cancelled
    <3>1. exec \in [Phase -> [Attempt -> Execution]]
      BY Same
    <3> QED
      BY <2>1, <2>2, <3>1
  <2>4. UNCHANGED <<doc, lease, elder, stopped, used, worker, manager, scan,
                    flight, control, faults>>
    BY <1>1 DEF AgentReports
  <2>5. ~TurnEnds(ph, n)
    <3>1. exec'[ph][n].turn = "live"
      BY <1>1, <2>3 DEF AgentReports, Live
    <3>2. TurnEnds(ph, n) => exec'[ph][n].turn = "over"
      BY DEF TurnEnds, TypeOK, Execution
    <3> QED
      BY <3>1, <3>2
  <2> QED
    BY <2>3, <2>4, <2>5, Same DEF Handles, Plain
<1>2. CASE TurnEnds(ph, n)
  <2>1. PICK error \in {"none", "set"} :
          exec' = [exec EXCEPT ![ph][n].turn = "over", ![ph][n].unread = TRUE,
                               ![ph][n].error = error]
    BY <1>2 DEF TurnEnds
  <2> DEFINE e == [exec[ph][n] EXCEPT !.turn = "over", !.unread = TRUE,
                                      !.error = error]
  <2>2. /\ e \in Execution /\ e.turn = "over"
        /\ e.cancelled = exec[ph][n].cancelled
    <3>1. exec[ph][n] \in Execution
      BY Same
    <3> QED
      BY <3>1, ExecWritten
  <2>3. exec' = [exec EXCEPT ![ph][n] = e]
    BY <2>1 DEF TypeOK
  <2> HIDE DEF e
  <2>4. /\ exec' \in [Phase -> [Attempt -> Execution]]
        /\ exec'[ph][n].turn = "over"
        /\ \A q \in Phase, k \in Attempt :
             /\ exec'[q][k].turn # exec[q][k].turn => q = ph /\ k = n
             /\ exec'[q][k].cancelled = exec[q][k].cancelled
    <3>1. exec \in [Phase -> [Attempt -> Execution]]
      BY Same
    <3> QED
      BY <2>2, <2>3, <3>1
  <2>5. /\ UNCHANGED <<doc, lease, elder, used, worker, manager, scan, flight,
                       control, faults>>
        /\ stopped' = IF exec[ph][n].cancelled THEN stopped \cup {<<ph, n>>}
                      ELSE stopped
        /\ exec[ph][n].turn = "live"
    BY <1>2 DEF TurnEnds, Live
  <2>6. stopped' \in SUBSET (Phase \X Attempt)
    BY <2>5, Same
  <2>7. ~AgentReports(ph, n)
    <3>1. AgentReports(ph, n) => exec'[ph][n].turn = exec[ph][n].turn
      BY DEF AgentReports, TypeOK, Execution
    <3> QED
      BY <2>4, <2>5, <3>1
  <2>8. \A q \in Phase, k \in Attempt :
          exec'[q][k].turn # "none" => exec[q][k].turn # "none"
    BY <2>4, <2>5
  <2> QED
    BY <2>4, <2>5, <2>6, <2>7, <2>8, Same DEF Handles
<1> QED
  BY <1>1, <1>2

\* A lease whose cancellation is asked for or taken back is otherwise the same.
LEMMA CancelWritten ==
  ASSUME TypeOK, NEW ph \in Phase, NEW b \in BOOLEAN,
         lease' = [lease EXCEPT ![ph].cancel = b]
  PROVE  /\ lease' \in [Phase -> Lease]
         /\ lease'[ph].cancel = b
         /\ \A q \in Phase :
              /\ lease'[q].owner = lease[q].owner
              /\ lease'[q].attempt = lease[q].attempt
              /\ lease'[q].state = lease[q].state
              /\ q # ph => lease'[q] = lease[q]
<1> DEFINE r == [lease[ph] EXCEPT !.cancel = b]
<1>1. lease[ph] \in Lease
  BY Same
<1>2. /\ r \in Lease /\ r.cancel = b /\ r.owner = lease[ph].owner
      /\ r.attempt = lease[ph].attempt /\ r.state = lease[ph].state
  BY <1>1 DEF Lease
<1>3. lease' = [lease EXCEPT ![ph] = r]
  OBVIOUS
<1> HIDE DEF r
<1> QED
  BY <1>2, <1>3, Same

\* An interruption writes the lease before it asks, asks, and takes back what
\* it wrote; nothing else of a claim changes.
LEMMA ControlHandles ==
  ASSUME TypeOK, HomeFits, Interrupt
  PROVE  Handles
<1>1. ASSUME NEW ph \in Phase, NEW n \in Attempt, RequestCancel(ph, n)
      PROVE  Handles
  <2>1. lease' = [lease EXCEPT ![ph].cancel = TRUE] /\ Leased(ph)
    BY <1>1 DEF RequestCancel, Cancellable, Leased
  <2>2. control' \in Control
    <3>1. lease[ph].cancel \in BOOLEAN
      BY Same DEF Lease
    <3>2. n \in 0..MaxAttempt
      BY TaskWorkflowAssumption DEF Attempt
    <3> QED
      BY <1>1, <3>1, <3>2 DEF RequestCancel, Control
  <2>3. /\ UNCHANGED <<doc, elder, exec, stopped, used, worker, manager, scan,
                       flight, faults>>
        /\ manager.state = "running" /\ scan.at = "idle"
    BY <1>1 DEF RequestCancel, turns, Admission, Owned
  <2> QED
    BY <2>1, <2>2, <2>3, CancelWritten, Same DEF Handles
<1>2. CASE DeliverCancel
  <2> DEFINE ph == control.phase
             n == control.attempt
             e == [exec[ph][n] EXCEPT !.cancelled = TRUE]
  <2>1. ph \in Phase
    BY Same DEF Control
  <2>2. exec' = [exec EXCEPT ![ph][n].cancelled = TRUE]
    BY <1>2 DEF DeliverCancel
  <2>3. /\ exec' \in [Phase -> [Attempt -> Execution]]
        /\ \A q \in Phase, k \in Attempt : exec'[q][k].turn = exec[q][k].turn
    <3>1. CASE n \in Attempt
      <4>1. exec[ph][n] \in Execution
        BY <2>1, <3>1, Same
      <4>2. e \in Execution /\ e.turn = exec[ph][n].turn
        BY <4>1, ExecWritten
      <4>3. exec' = [exec EXCEPT ![ph][n] = e]
        BY <2>2
      <4> HIDE DEF e
      <4> QED
        <5>1. exec \in [Phase -> [Attempt -> Execution]]
          BY Same
        <5> QED
          BY <2>1, <3>1, <4>2, <4>3, <5>1
    <3>2. CASE n \notin Attempt
      <4>1. exec' = exec
        BY <2>1, <2>2, <3>2, Same
      <4> QED
        BY <4>1, Same
    <3> QED
      BY <3>1, <3>2
  <2>4. /\ UNCHANGED <<doc, lease, elder, stopped, used, worker, manager, scan,
                       flight, faults>>
        /\ control' = NoControl
    BY <1>2 DEF DeliverCancel
  <2> QED
    BY <2>3, <2>4, Same DEF Handles, NoControl
<1>3. CASE NothingInterrupted
  <2>1. control' \in Control /\ control.at # "none"
    <3>1. [control EXCEPT !.at = "restore"] \in Control
      BY Same DEF Control
    <3> QED
      BY <1>3, <3>1, Same DEF NothingInterrupted
  <2> QED
    BY <1>3, <2>1, Same DEF NothingInterrupted, turns, Handles
<1>4. CASE RestoreCancel
  <2>1. control.phase \in Phase
    BY Same DEF Control
  <2>2. \/ lease' = [lease EXCEPT ![control.phase].cancel = FALSE]
        \/ lease' = lease
    BY <1>4 DEF RestoreCancel
  <2>3. /\ lease' \in [Phase -> Lease]
        /\ \A q \in Phase : /\ lease'[q].owner = lease[q].owner
                            /\ lease'[q].attempt = lease[q].attempt
                            /\ lease'[q].state = lease[q].state
                            /\ lease'[q].cancel => lease[q].cancel
    BY <2>1, <2>2, CancelWritten, Same
  <2> QED
    BY <1>4, <2>3, Same DEF RestoreCancel, turns, Handles, NoControl
<1>5. CASE ControlRefused
  BY <1>5, Same DEF ControlRefused, turns, Handles, NoControl
<1> QED
  BY <1>1, <1>2, <1>3, <1>4, <1>5 DEF Interrupt

\* The worker's death leaves nothing that was not there.
LEMMA DeathHandles ==
  ASSUME TypeOK, WorkerDies
  PROVE  Handles /\ Plain
<1>1. \A e \in Execution :
        /\ Replayed(e) \in Execution
        /\ Replayed(e).cancelled => e.cancelled
        /\ Replayed(e).turn # "none" => /\ Replayed(e).turn = e.turn
                                        /\ Replayed(e).cancelled = e.cancelled
  BY DEF Replayed, Execution, NoExecution
<1>2. /\ NoExecution \in Execution /\ NoExecution.turn = "none"
      /\ ~NoExecution.cancelled
  BY DEF NoExecution, Execution
<1>3. /\ exec' \in [Phase -> [Attempt -> Execution]]
      /\ \A q \in Phase, n \in Attempt :
           /\ exec'[q][n].cancelled => exec[q][n].cancelled
           /\ exec'[q][n].turn # "none" =>
                /\ exec'[q][n].turn = exec[q][n].turn
                /\ exec'[q][n].cancelled = exec[q][n].cancelled
  <2>1. CASE exec' = [q \in Phase |-> [n \in Attempt |-> Replayed(exec[q][n])]]
    BY <1>1, <2>1, Same
  <2>2. CASE exec' = [q \in Phase |-> [n \in Attempt |-> NoExecution]]
    BY <1>2, <2>2
  <2> QED
    BY <2>1, <2>2 DEF WorkerDies
<1>4. /\ UNCHANGED <<doc, lease, elder, stopped, used, manager, scan, flight,
                     control>>
      /\ worker' = "down" /\ faults' \in 0..MaxFault
  BY FaultTyped DEF WorkerDies
<1> QED
  BY <1>3, <1>4, Same DEF Handles, Plain

\* What handles a claim keeps the first layer.
LEMMA HandlesKeepsClaims ==
  ASSUME ClaimInv, Handles
  PROVE  ClaimInv'
<1>1. TypeOK'
  BY DEF ClaimInv, TypeOK, Handles
<1>2. \A q \in Phase : Retained(q)' \subseteq Retained(q)
  BY DEF Handles, Retained
<1>3. \A q \in Phase : /\ Leased(q)' <=> Leased(q)
                       /\ Inflight(q)' => Inflight(q)
  BY DEF Handles, Leased, Inflight
<1>4. HomeFits'
  BY <1>3 DEF ClaimInv, HomeFits, Handles
<1>5. NumbersFit'
  BY <1>3 DEF ClaimInv, NumbersFit, Handles, Inflight, Leased
<1>6. ClaimFits'
  BY <1>3 DEF ClaimInv, ClaimFits, Handles, TypeOK
<1>7. ScanFits'
  BY <1>2, <1>3 DEF ClaimInv, ScanFits, Handles, Inflight
<1>8. FlightFits'
  BY <1>2 DEF ClaimInv, FlightFits, Handles
<1>9. OneRetained'
  BY <1>2 DEF ClaimInv, OneRetained
<1>10. RetireFits' /\ ClaimsAreJournaled'
  BY <1>3 DEF ClaimInv, RetireFits, ClaimsAreJournaled, Handles, AtFile
<1> QED
  BY <1>1, <1>4, <1>5, <1>6, <1>7, <1>8, <1>9, <1>10 DEF ClaimInv

-----------------------------------------------------------------------------
(* What each step of a scan changes. *)

\* A scan that goes on or ends and changes nothing else.
Walks ==
  /\ UNCHANGED <<doc, lease, elder, turns, manager, flight, control, faults>>
  /\ manager.state # "down"
  /\ scan' \in [at : ScanAt, phase : Phase]
  /\ scan'.at \notin Claiming \cup Retiring
  /\ scan'.at \notin {"idle", "attach"} => scan.at \notin {"idle", "attach"}
  /\ scan.at = "idle" => control.at = "none"
  /\ scan'.at \in {"first", "second", "stale", "orphans"} =>
       \/ scan.at \in {"first", "second"}
       \/ \A ph \in Phase : lease[ph].state = "claiming" => Inflight(ph)

\* The steps that only look.
LEMMA LookWalks ==
  ASSUME TypeOK,
         \/ Inspect \/ FenceRefused \/ Resumed \/ OrphansRecovered \/ SkipQueue
  PROVE  Walks
<1>1. CASE Inspect
  BY <1>1, ScanToEffect
     DEF Inspect, Walks, Admission, Owned, Claiming, Retiring, ScanAt
<1>2. CASE FenceRefused
  BY <1>2, Phases
     DEF FenceRefused, Walks, Pass, Idle, Claiming, Retiring, ScanAt
<1>3. CASE Resumed
  <2>1. elder \in Phase
    BY DEF TypeOK
  <2> QED
    BY <1>3, <2>1 DEF Resumed, Walks, Pass, Claiming, Retiring, ScanAt
<1>4. CASE OrphansRecovered
  BY <1>4, ScanToEffect
     DEF OrphansRecovered, Walks, Pass, Claiming, Retiring, ScanAt
<1>5. CASE SkipQueue
  BY <1>5, Phases
     DEF SkipQueue, NextQueue, Walks, Pass, Idle, Claiming, Retiring, ScanAt
<1> QED
  BY <1>1, <1>2, <1>3, <1>4, <1>5

\* A new lease and a new dispatch are typed.
LEMMA NewTyped ==
  ASSUME TypeOK, NEW state \in LeaseState, NEW n \in 0..MaxAttempt,
         NEW at \in {"none", "prepare", "send", "bind", "consume", "ack"}
  PROVE  NewLease(state, n) \in Lease /\ Takeoff(at, n) \in Flight
BY DEF TypeOK, NewLease, Takeoff, Lease, Flight

\* The absent lease is typed.
LEMMA NoLeaseTyped == NoLease \in Lease
BY TaskWorkflowAssumption DEF NoLease, Lease, LeaseState

\* A retained execution that is attached has the lease of its claim, which the
\* manager takes over; the scan goes on when all of them are.
LEMMA AttachEffect ==
  ASSUME TypeOK, OneRetained, AttachRetained
  PROVE  /\ UNCHANGED <<doc, elder, exec, stopped, used, worker, manager,
                        control, faults>>
         /\ manager.state = "running" /\ scan.at = "attach"
         /\ scan' \in [at : ScanAt, phase : Phase]
         /\ scan'.at \in {"idle", "resume"}
         /\ lease' \in [Phase -> Lease] /\ flight' \in [Phase -> Flight]
         /\ \A ph \in Phase :
              \/ lease'[ph] = lease[ph] /\ flight'[ph] = flight[ph]
              \/ /\ Leased(ph) /\ lease[ph].state # "claiming" /\ ~Inflight(ph)
                 /\ lease[ph].attempt \in Attempt
                 /\ Retained(ph) = {lease[ph].attempt}
                 /\ lease'[ph].state \notin {"none", "claiming"}
                 /\ lease'[ph].attempt = lease[ph].attempt
                 /\ lease'[ph].cancel = lease[ph].cancel
                 /\ lease'[ph].owner = manager.gen
                 /\ flight'[ph] = Takeoff("bind", lease[ph].attempt)
         /\ scan'.at = "resume" =>
              \A ph \in Phase : flight'[ph].at = "none" => Retained(ph) = {}
<1> DEFINE refused == {ph \in Unattached : ~Attachable(ph, Oldest(ph))}
<1>1. PICK P \in SUBSET (Unattached \ refused) : \E L \in SUBSET P :
        /\ Attach(P, L)
        /\ IF refused = {} THEN P = Unattached /\ ScanTo("resume")
                           ELSE scan' = Idle
  BY DEF AttachRetained
<1>2. PICK L \in SUBSET P : Attach(P, L)
  BY <1>1
<1>3. \A ph \in P :
        /\ ph \in Phase /\ ~Inflight(ph) /\ Leased(ph)
        /\ lease[ph].state # "claiming" /\ lease[ph].attempt \in Attempt
        /\ Oldest(ph) = lease[ph].attempt
        /\ Retained(ph) = {lease[ph].attempt}
  <2> TAKE ph \in P
  <2>1. ph \in Phase /\ Retained(ph) # {} /\ ~Inflight(ph)
        /\ Attachable(ph, Oldest(ph))
    BY <1>1 DEF Unattached
  <2>2. Oldest(ph) \in Attempt /\ Retained(ph) = {Oldest(ph)}
    BY <2>1, OldestRetained
  <2> QED
    BY <2>1, <2>2 DEF Attachable, Leased
<1>4. \A ph \in Phase :
        lease'[ph] = IF ph \notin P THEN lease[ph]
                     ELSE [lease[ph] EXCEPT
                             !.owner = manager.gen,
                             !.old = FALSE,
                             !.state = IF exec[ph][Oldest(ph)].cancelled
                                          \/ lease[ph].cancel
                                       THEN "cancelled"
                                       ELSE IF ph \in L THEN "processing" ELSE @]
  BY <1>2 DEF Attach
<1>5. \A ph \in P :
        /\ lease'[ph] \in Lease
        /\ lease'[ph].state \notin {"none", "claiming"}
        /\ lease'[ph].attempt = lease[ph].attempt
        /\ lease'[ph].cancel = lease[ph].cancel
        /\ lease'[ph].owner = manager.gen
  <2> TAKE ph \in P
  <2>1. ph \in Phase /\ lease[ph] \in Lease /\ manager.gen \in Nat
    BY <1>3 DEF TypeOK
  <2>2. lease[ph].state \notin {"none", "claiming"}
    BY <1>3 DEF Leased
  <2>3. PICK state \in LeaseState \ {"none", "claiming"} :
          lease'[ph] = [lease[ph] EXCEPT !.owner = manager.gen, !.old = FALSE,
                                         !.state = state]
    <3>1. "cancelled" \in LeaseState /\ "processing" \in LeaseState
          /\ lease[ph].state \in LeaseState
      BY <2>1 DEF Lease, LeaseState
    <3> QED
      BY <1>4, <2>1, <2>2, <3>1
  <2> QED
    BY <2>1, <2>3 DEF Lease
<1>6. /\ lease' \in [Phase -> Lease]
      /\ \A ph \in Phase : ph \notin P => lease'[ph] = lease[ph]
  <2>1. lease' = [ph \in Phase |-> lease'[ph]]
    BY <1>2 DEF Attach
  <2>2. \A ph \in Phase : lease'[ph] \in Lease
    BY <1>4, <1>5, Same
  <2> QED
    BY <1>4, <2>1, <2>2
<1>7. /\ flight' = [ph \in Phase |->
           IF ph \in P THEN Takeoff("bind", Oldest(ph)) ELSE flight[ph]]
  BY <1>2 DEF Attach
<1>8. \A ph \in P : Takeoff("bind", lease[ph].attempt) \in Flight
  BY <1>3, NewTyped, Same DEF Lease
<1>9. /\ flight' \in [Phase -> Flight]
      /\ \A ph \in Phase :
           flight'[ph] = IF ph \in P THEN Takeoff("bind", lease[ph].attempt)
                         ELSE flight[ph]
  BY <1>3, <1>7, <1>8, Same
<1>10. /\ UNCHANGED <<doc, elder, exec, stopped, used, worker, manager,
                      control, faults>>
       /\ manager.state = "running" /\ scan.at = "attach"
  BY DEF AttachRetained, Pass, turns
<1>11. /\ scan' \in [at : ScanAt, phase : Phase]
       /\ scan'.at \in {"idle", "resume"}
       /\ scan'.at = "resume" => P = Unattached
  <2>1. CASE scan' = Idle
    BY <2>1, Phases DEF Idle, ScanAt
  <2>2. CASE ScanTo("resume") /\ P = Unattached
    BY <2>2, ScanToEffect DEF ScanAt
  <2> QED
    BY <1>1, <2>1, <2>2
<1>12. scan'.at = "resume" =>
         \A ph \in Phase : flight'[ph].at = "none" => Retained(ph) = {}
  BY <1>9, <1>11 DEF Unattached, Takeoff, Inflight
<1> QED
  BY <1>3, <1>5, <1>6, <1>9, <1>10, <1>11, <1>12

\* A document whose claim is recorded is otherwise the same.
LEMMA DocumentWritten ==
  ASSUME TypeOK, NEW ph \in Phase, NEW n \in 0..MaxAttempt, NEW d \in Dir,
         NEW e \in Dir, NEW b \in Phase \cup {"spynel"},
         doc' = [doc EXCEPT !.dir = d, !.status = e, !.attempt[ph] = n, !.by = b]
  PROVE  /\ doc' \in Document
         /\ doc'.dir = d /\ doc'.by = b /\ doc'.required = doc.required
         /\ doc'.attempt[ph] = n
         /\ \A q \in Phase : q # ph => doc'.attempt[q] = doc.attempt[q]
BY DEF TypeOK, Document

\* A lease that is replaced is the new one, and the other one stays.
LEMMA LeaseReplaced ==
  ASSUME TypeOK, NEW ph \in Phase, NEW l \in Lease,
         lease' = [lease EXCEPT ![ph] = l]
  PROVE  /\ lease' \in [Phase -> Lease]
         /\ lease'[ph] = l
         /\ \A q \in Phase : q # ph => lease'[q] = lease[q]
BY DEF TypeOK

\* A dispatch that is replaced is the new one, and the other one stays.
LEMMA FlightReplaced ==
  ASSUME TypeOK, NEW ph \in Phase, NEW f \in Flight,
         flight' = [flight EXCEPT ![ph] = f]
  PROVE  /\ flight' \in [Phase -> Flight]
         /\ flight'[ph] = f
         /\ \A q \in Phase : q # ph => flight'[q] = flight[q]
BY DEF TypeOK

\* A lease that gets a new state is otherwise the same.
LEMMA StateWritten ==
  ASSUME TypeOK, NEW ph \in Phase, NEW state \in LeaseState,
         lease' = [lease EXCEPT ![ph].state = state]
  PROVE  /\ lease' \in [Phase -> Lease]
         /\ lease'[ph].state = state
         /\ lease'[ph].attempt = lease[ph].attempt
         /\ lease'[ph].owner = lease[ph].owner
         /\ lease'[ph].cancel = lease[ph].cancel
         /\ \A q \in Phase : q # ph => lease'[q] = lease[q]
<1> DEFINE r == [lease[ph] EXCEPT !.state = state]
<1>1. lease[ph] \in Lease
  BY Same
<1>2. /\ r \in Lease /\ r.state = state /\ r.owner = lease[ph].owner
      /\ r.attempt = lease[ph].attempt /\ r.cancel = lease[ph].cancel
  BY <1>1 DEF Lease
<1>3. lease' = [lease EXCEPT ![ph] = r]
  OBVIOUS
<1> HIDE DEF r
<1> QED
  BY <1>2, <1>3, LeaseReplaced

\* An interrupted claim is finished and recovered, or left to reconciliation.
LEMMA ResumeEffect ==
  ASSUME TypeOK, NEW ph \in Phase, ResumeClaim(ph)
  PROVE  /\ UNCHANGED <<elder, turns, manager, scan, control, faults>>
         /\ scan.at = "resume" /\ manager.state # "down"
         /\ lease[ph].state = "claiming" /\ ~Inflight(ph)
         /\ doc' \in Document
         /\ lease' \in [Phase -> Lease] /\ flight' \in [Phase -> Flight]
         /\ \A q \in Phase : q # ph => lease'[q] = lease[q] /\ flight'[q] = flight[q]
         /\ \/ /\ doc.dir \in {Queue(ph), Claimed(ph)}
               /\ doc'.dir = Claimed(ph) /\ doc'.by = "spynel"
               /\ doc'.required = doc.required
               /\ doc'.attempt[ph] = lease[ph].attempt
               /\ \A q \in Phase : q # ph => doc'.attempt[q] = doc.attempt[q]
               /\ lease'[ph] = NewLease("recovering", lease[ph].attempt)
               /\ flight'[ph] = Takeoff("prepare", lease[ph].attempt)
            \/ /\ doc.dir \notin {Queue(ph), Claimed(ph)}
               /\ doc' = doc /\ flight' = flight
               /\ lease'[ph].state = "processing"
               /\ lease'[ph].attempt = lease[ph].attempt
               /\ lease'[ph].owner = lease[ph].owner
               /\ lease'[ph].cancel = lease[ph].cancel
<1>1. lease[ph].attempt \in 0..MaxAttempt
  BY Same DEF Lease
<1>2. CASE doc.dir \in {Queue(ph), Claimed(ph)}
  <2>1. /\ doc' = [doc EXCEPT !.dir = Claimed(ph), !.status = Claimed(ph),
                              !.attempt[ph] = lease[ph].attempt, !.by = "spynel"]
        /\ lease' = [lease EXCEPT ![ph] = NewLease("recovering", @.attempt)]
        /\ flight' = [flight EXCEPT ![ph] = Takeoff("prepare", lease[ph].attempt)]
    BY <1>2 DEF ResumeClaim
  <2>2. /\ doc' \in Document
        /\ doc'.dir = Claimed(ph) /\ doc'.by = "spynel"
        /\ doc'.required = doc.required
        /\ doc'.attempt[ph] = lease[ph].attempt
        /\ \A q \in Phase : q # ph => doc'.attempt[q] = doc.attempt[q]
    <3>1. Claimed(ph) \in Dir /\ "spynel" \in Phase \cup {"spynel"}
      BY Dirs
    <3> QED
      BY <1>1, <2>1, <3>1, DocumentWritten
  <2>3. /\ lease' \in [Phase -> Lease]
        /\ lease'[ph] = NewLease("recovering", lease[ph].attempt)
        /\ \A q \in Phase : q # ph => lease'[q] = lease[q]
    BY <1>1, <2>1, NewTyped, LeaseReplaced, Same DEF LeaseState
  <2>4. /\ flight' \in [Phase -> Flight]
        /\ flight'[ph] = Takeoff("prepare", lease[ph].attempt)
        /\ \A q \in Phase : q # ph => flight'[q] = flight[q]
    BY <1>1, <2>1, NewTyped, FlightReplaced DEF LeaseState
  <2> QED
    BY <1>2, <2>2, <2>3, <2>4 DEF ResumeClaim, Pass
<1>3. CASE doc.dir \notin {Queue(ph), Claimed(ph)}
  <2>1. lease' = [lease EXCEPT ![ph].state = "processing"]
        /\ UNCHANGED <<doc, flight>>
    BY <1>3 DEF ResumeClaim
  <2>2. doc \in Document
    BY DEF TypeOK
  <2> QED
    BY <1>3, <2>1, <2>2, StateWritten, Same DEF ResumeClaim, Pass, LeaseState
<1> QED
  BY <1>2, <1>3

\* A reconciled document is where the reconciliation settled it, and the lease
\* is next; or the scan goes on, or a hook ended it.
LEMMA ReconcileEffect ==
  ASSUME TypeOK, Reconcile
  PROVE  \/ Walks
         \/ /\ UNCHANGED <<lease, elder, turns, manager, flight, control, faults>>
            /\ scan.at \in {"first", "second"} /\ manager.state # "down"
            /\ scan' \in [at : ScanAt, phase : Phase]
            /\ scan'.at \in {"idle"} \cup Retiring
            /\ scan'.at \in Retiring => scan'.phase = scan.phase
            /\ Transitioned(scan.phase)
            /\ \E d \in Settled(scan.phase, doc.dir) : doc' = MovedTo(d)
            /\ doc' \in Document
            /\ doc'.attempt = doc.attempt /\ doc'.required = doc.required
<1>1. scan.phase \in Phase
  BY DEF TypeOK
<1>2. CASE Transitioned(scan.phase)
  <2>1. PICK d \in Settled(scan.phase, doc.dir) :
          /\ doc' = MovedTo(d)
          /\ \/ ScanTo(IF scan.at = "first" THEN "retire first"
                                            ELSE "retire second")
             \/ Hooked(scan.phase, d) /\ scan' = Idle
    BY <1>2 DEF Reconcile
  <2>2. /\ doc' \in Document
        /\ doc'.attempt = doc.attempt /\ doc'.required = doc.required
    BY <1>1, <2>1, SettledDir, MovedToTyped
  <2>3. /\ scan' \in [at : ScanAt, phase : Phase]
        /\ scan'.at \in {"idle"} \cup Retiring
        /\ scan'.at \in Retiring => scan'.phase = scan.phase
    <3>1. CASE scan' = Idle
      BY <3>1, Phases DEF Idle, ScanAt, Retiring
    <3>2. CASE ScanTo("retire first") \/ ScanTo("retire second")
      BY <3>2, ScanToEffect DEF ScanAt, Retiring
    <3> QED
      BY <2>1, <3>1, <3>2
  <2> QED
    BY <1>2, <2>1, <2>2, <2>3 DEF Reconcile, Pass
<1>3. CASE ~Transitioned(scan.phase)
  <2>1. scan' = AfterPass /\ UNCHANGED doc
    BY <1>3 DEF Reconcile
  <2> QED
    BY <1>1, <2>1, Phases
       DEF Reconcile, Pass, AfterPass, Walks, Claiming, Retiring, ScanAt
<1> QED
  BY <1>2, <1>3

\* The lease of the pass is gone.
LEMMA RetireEffect ==
  ASSUME TypeOK, Retire
  PROVE  /\ UNCHANGED <<doc, elder, turns, manager, flight, control, faults>>
         /\ scan.at \in Retiring /\ manager.state # "down"
         /\ scan' \in [at : ScanAt, phase : Phase]
         /\ scan'.at \in {"second", "stale"}
         /\ lease' \in [Phase -> Lease]
         /\ lease'[scan.phase] = NoLease
         /\ \A q \in Phase : q # scan.phase => lease'[q] = lease[q]
<1>1. scan.phase \in Phase
  BY DEF TypeOK
<1>2. lease' = [lease EXCEPT ![scan.phase] = NoLease]
  BY DEF Retire
<1> QED
  BY <1>1, <1>2, LeaseReplaced, NoLeaseTyped, Phases
     DEF Retire, Pass, AfterPass, Retiring, ScanAt

\* An abandoned claim is dispatched for recovery under this manager, and what
\* was to be cancelled is marked.
LEMMA StaleEffect ==
  ASSUME TypeOK, NumbersFit, RecoverStale
  PROVE  /\ UNCHANGED <<doc, elder, turns, manager, control, faults>>
         /\ scan.at = "stale" /\ manager.state # "down"
         /\ scan' \in [at : ScanAt, phase : Phase] /\ scan'.at = "orphans"
         /\ lease' \in [Phase -> Lease] /\ flight' \in [Phase -> Flight]
         /\ \A ph \in Phase :
              /\ lease'[ph].attempt = lease[ph].attempt
              /\ lease'[ph].cancel = lease[ph].cancel
              /\ \/ /\ Leased(ph) /\ ~lease[ph].cancel /\ ~Inflight(ph)
                    /\ lease'[ph].state = lease[ph].state
                    /\ lease'[ph].owner = manager.gen
                    /\ flight'[ph] = Takeoff("prepare", lease[ph].attempt)
                 \/ /\ flight'[ph] = flight[ph]
                    /\ lease'[ph].owner = lease[ph].owner
                    /\ lease'[ph].state # lease[ph].state =>
                         Leased(ph) /\ lease'[ph].state = "cancelled"
<1>1. \A ph \in Phase :
        /\ lease[ph] \in Lease
        /\ Takeoff("prepare", lease[ph].attempt) \in Flight
        /\ lease[ph].cancel => Leased(ph)
  BY NewTyped, Same DEF Lease, LeaseState, NumbersFit
<1>2. lease' = [ph \in Phase |->
        IF Abandoned(ph)
        THEN [lease[ph] EXCEPT !.owner = manager.gen, !.old = FALSE]
        ELSE IF lease[ph].cancel THEN [lease[ph] EXCEPT !.state = "cancelled"]
        ELSE lease[ph]]
  BY DEF RecoverStale
<1>3. flight' = [ph \in Phase |->
        IF Abandoned(ph) THEN Takeoff("prepare", lease[ph].attempt)
        ELSE flight[ph]]
  BY DEF RecoverStale
<1>4. \A l \in Lease, g \in Nat :
        /\ [l EXCEPT !.owner = g, !.old = FALSE] \in Lease
        /\ [l EXCEPT !.owner = g, !.old = FALSE].owner = g
        /\ [l EXCEPT !.owner = g, !.old = FALSE].state = l.state
        /\ [l EXCEPT !.owner = g, !.old = FALSE].attempt = l.attempt
        /\ [l EXCEPT !.owner = g, !.old = FALSE].cancel = l.cancel
        /\ [l EXCEPT !.state = "cancelled"] \in Lease
        /\ [l EXCEPT !.state = "cancelled"].owner = l.owner
        /\ [l EXCEPT !.state = "cancelled"].state = "cancelled"
        /\ [l EXCEPT !.state = "cancelled"].attempt = l.attempt
        /\ [l EXCEPT !.state = "cancelled"].cancel = l.cancel
  BY DEF Lease, LeaseState
<1>5. manager.gen \in Nat
  BY DEF TypeOK
<1>6. lease' \in [Phase -> Lease]
  BY <1>1, <1>2, <1>4, <1>5
<1>7. flight' \in [Phase -> Flight]
  BY <1>1, <1>3, Same
<1>8. \A ph \in Phase :
        /\ lease'[ph].attempt = lease[ph].attempt
        /\ lease'[ph].cancel = lease[ph].cancel
        /\ \/ /\ Leased(ph) /\ ~lease[ph].cancel /\ ~Inflight(ph)
              /\ lease'[ph].state = lease[ph].state
              /\ lease'[ph].owner = manager.gen
              /\ flight'[ph] = Takeoff("prepare", lease[ph].attempt)
           \/ /\ flight'[ph] = flight[ph]
              /\ lease'[ph].owner = lease[ph].owner
              /\ lease'[ph].state # lease[ph].state =>
                   Leased(ph) /\ lease'[ph].state = "cancelled"
  <2> TAKE ph \in Phase
  <2>1. CASE Abandoned(ph)
    BY <1>1, <1>2, <1>3, <1>4, <1>5, <2>1 DEF Abandoned
  <2>2. CASE ~Abandoned(ph) /\ lease[ph].cancel
    BY <1>1, <1>2, <1>3, <1>4, <2>2
  <2>3. CASE ~Abandoned(ph) /\ ~lease[ph].cancel
    BY <1>2, <1>3, <2>3
  <2> QED
    BY <2>1, <2>2, <2>3
<1> QED
  BY <1>6, <1>7, <1>8, ScanToEffect DEF RecoverStale, Pass, ScanAt

\* A claimed document without a lease is claimed again under the number it has,
\* and is dispatched for recovery.
LEMMA OrphanEffect ==
  ASSUME TypeOK, NEW ph \in Phase, RecoverOrphan(ph)
  PROVE  /\ UNCHANGED <<turns, manager, scan, control, faults>>
         /\ scan.at = "orphans" /\ manager.state # "down"
         /\ elder' \in Phase
         /\ AtFile(ph) /\ ~Leased(ph) /\ ~Inflight(ph)
         /\ doc' \in Document
         /\ doc'.dir = doc.dir /\ doc'.by = doc.by
         /\ doc'.required = doc.required
         /\ doc'.attempt[ph] \in Attempt
         /\ doc'.attempt[ph] >= doc.attempt[ph]
         /\ \A q \in Phase : q # ph => doc'.attempt[q] = doc.attempt[q]
         /\ lease' \in [Phase -> Lease] /\ flight' \in [Phase -> Flight]
         /\ lease'[ph] = NewLease("recovering", doc'.attempt[ph])
         /\ flight'[ph] = Takeoff("prepare", doc'.attempt[ph])
         /\ \A q \in Phase : q # ph => lease'[q] = lease[q] /\ flight'[q] = flight[q]
<1> DEFINE n == IF doc.attempt[ph] = 0 THEN 1 ELSE doc.attempt[ph]
<1>1. /\ doc.attempt[ph] \in 0..MaxAttempt /\ doc \in Document
      /\ n \in Attempt /\ n \in 0..MaxAttempt /\ n >= doc.attempt[ph]
  BY TaskWorkflowAssumption DEF TypeOK, Document, Attempt
<1>2. /\ doc' = IF n = doc.attempt[ph] THEN doc
                ELSE [doc EXCEPT !.attempt[ph] = n, !.status = Claimed(ph)]
      /\ lease' = [lease EXCEPT ![ph] = NewLease("recovering", n)]
      /\ flight' = [flight EXCEPT ![ph] = Takeoff("prepare", n)]
  BY DEF RecoverOrphan
<1> HIDE DEF n
<1>3. /\ doc' \in Document
      /\ doc'.dir = doc.dir /\ doc'.by = doc.by /\ doc'.required = doc.required
      /\ doc'.attempt[ph] = n
      /\ \A q \in Phase : q # ph => doc'.attempt[q] = doc.attempt[q]
  <2>1. CASE n = doc.attempt[ph]
    BY <1>1, <1>2, <2>1
  <2>2. CASE n # doc.attempt[ph]
    <3>1. Claimed(ph) \in Dir
      BY Dirs
    <3> QED
      BY <1>1, <1>2, <2>2, <3>1 DEF Document
  <2> QED
    BY <2>1, <2>2
<1>4. /\ lease' \in [Phase -> Lease]
      /\ lease'[ph] = NewLease("recovering", n)
      /\ \A q \in Phase : q # ph => lease'[q] = lease[q]
  BY <1>1, <1>2, NewTyped, LeaseReplaced DEF LeaseState
<1>5. /\ flight' \in [Phase -> Flight]
      /\ flight'[ph] = Takeoff("prepare", n)
      /\ \A q \in Phase : q # ph => flight'[q] = flight[q]
  BY <1>1, <1>2, NewTyped, FlightReplaced DEF LeaseState
<1>6. elder' \in Phase
  BY Phases DEF RecoverOrphan, Started
<1> QED
  BY <1>1, <1>3, <1>4, <1>5, <1>6 DEF RecoverOrphan, Pass, Orphaned

\* A due document goes to the queue, and so does one that needs no review.
LEMMA QueueEffect ==
  ASSUME TypeOK, Wake \/ BypassReview
  PROVE  /\ UNCHANGED <<lease, elder, turns, manager, flight, control, faults>>
         /\ scan.at \in {"wake", "queue"} /\ manager.state # "down"
         /\ scan' \in [at : ScanAt, phase : Phase]
         /\ scan'.at \in {"queue", "idle"}
         /\ doc' \in Document
         /\ \/ doc' = doc
            \/ /\ doc'.dir = "todo" /\ doc'.by = "spynel"
               /\ doc'.attempt = doc.attempt /\ doc'.required = doc.required
               /\ \/ doc.dir = "waiting" /\ scan.at = "wake"
                  \/ doc.dir = "review" /\ \A q \in Phase : ~Leased(q)
<1>1. "todo" \in Dir /\ doc \in Document
  BY DEF Dir, TypeOK
<1>2. CASE Wake
  BY <1>1, <1>2, MovedToTyped, Phases DEF Wake, Pass, ScanAt
<1>3. CASE BypassReview
  <2>1. doc' = MovedTo("todo") /\ doc.dir = "review"
        /\ \A q \in Phase : ~Leased(q)
    BY <1>3 DEF BypassReview, Claimable, ReviewDisabled, Queue
  <2> QED
    BY <1>1, <1>3, <2>1, MovedToTyped, Phases
       DEF BypassReview, Pass, NextQueue, Idle, ScanAt
<1> QED
  BY <1>2, <1>3

\* A queued document without any lease is journaled under the next number.
LEMMA JournalEffect ==
  ASSUME TypeOK, Journal
  PROVE  /\ UNCHANGED <<doc, turns, manager, flight, control, faults>>
         /\ scan.at = "queue" /\ manager.state # "down"
         /\ scan' \in [at : ScanAt, phase : Phase]
         /\ scan'.at = "rename" /\ scan'.phase = scan.phase
         /\ elder' \in Phase
         /\ ~Inflight(scan.phase) /\ \A q \in Phase : ~Leased(q)
         /\ doc.dir = Queue(scan.phase)
         /\ ~ReviewDisabled(scan.phase)
         /\ doc.attempt[scan.phase] + 1 \in Attempt
         /\ lease' \in [Phase -> Lease]
         /\ lease'[scan.phase] =
              NewLease("claiming", doc.attempt[scan.phase] + 1)
         /\ \A q \in Phase : q # scan.phase => lease'[q] = lease[q]
<1> DEFINE ph == scan.phase
           n == doc.attempt[ph] + 1
<1>1. ph \in Phase /\ doc.attempt[ph] \in 0..MaxAttempt
  BY DEF TypeOK, Document
<1>2. n \in Attempt /\ n \in 0..MaxAttempt
  BY <1>1, TaskWorkflowAssumption DEF Journal, Claimable, Attempt
<1>3. lease' = [lease EXCEPT ![ph] = NewLease("claiming", n)]
  BY DEF Journal
<1>4. NewLease("claiming", n) \in Lease
  BY <1>2, NewTyped DEF LeaseState
<1>5. elder' \in Phase
  BY <1>1, Phases DEF Journal, Started
<1> HIDE DEF n
<1>6. /\ lease' \in [Phase -> Lease]
      /\ lease'[ph] = NewLease("claiming", n)
      /\ \A q \in Phase : q # ph => lease'[q] = lease[q]
  BY <1>1, <1>3, <1>4, LeaseReplaced
<1> USE DEF n
<1> QED
  BY <1>2, <1>5, <1>6, ScanToEffect DEF Journal, Pass, Claimable, ScanAt

\* The scan of one phase's queue ends with the next one's, or the scan ends.
LEMMA NextQueueEffect ==
  ASSUME NextQueue
  PROVE  scan' \in [at : ScanAt, phase : Phase] /\ scan'.at \in {"queue", "idle"}
BY Phases DEF NextQueue, Idle, ScanAt

\* The document moves to the claimed directory, or its claim is given up.
LEMMA RenameEffect ==
  ASSUME TypeOK, Rename
  PROVE  /\ UNCHANGED <<elder, turns, manager, flight, control, faults>>
         /\ scan.at = "rename" /\ manager.state # "down"
         /\ scan' \in [at : ScanAt, phase : Phase]
         /\ doc' \in Document
         /\ lease' \in [Phase -> Lease]
         /\ \A q \in Phase : q # scan.phase => lease'[q] = lease[q]
         /\ \/ /\ scan'.at = "record" /\ scan'.phase = scan.phase
               /\ lease' = lease
               /\ doc.dir = Queue(scan.phase)
               /\ doc'.dir = Claimed(scan.phase) /\ doc'.by = "spynel"
               /\ doc'.attempt = doc.attempt /\ doc'.required = doc.required
            \/ /\ scan'.at \in {"queue", "idle"} /\ doc' = doc
               /\ doc.dir # Queue(scan.phase)
               /\ \/ AtFile(scan.phase) /\ lease' = lease
                  \/ ~AtFile(scan.phase) /\ lease'[scan.phase] = NoLease
<1>1. scan.phase \in Phase /\ doc \in Document
  BY DEF TypeOK
<1>2. CASE doc.dir = Queue(scan.phase)
  <2>1. doc' = [doc EXCEPT !.dir = Claimed(scan.phase), !.by = "spynel"]
        /\ ScanTo("record") /\ UNCHANGED lease
    BY <1>2 DEF Rename
  <2>2. Claimed(scan.phase) \in Dir
    BY <1>1, Dirs
  <2>3. /\ doc' \in Document
        /\ doc'.dir = Claimed(scan.phase) /\ doc'.by = "spynel"
        /\ doc'.attempt = doc.attempt /\ doc'.required = doc.required
    BY <1>1, <2>1, <2>2 DEF Document
  <2> QED
    BY <1>2, <2>1, <2>3, ScanToEffect, Same DEF Rename, Pass, ScanAt
<1>3. CASE doc.dir # Queue(scan.phase)
  <2>1. /\ lease' = IF AtFile(scan.phase) THEN lease
                    ELSE [lease EXCEPT ![scan.phase] = NoLease]
        /\ NextQueue /\ UNCHANGED doc
    BY <1>3 DEF Rename
  <2>2. /\ lease' \in [Phase -> Lease]
        /\ \A q \in Phase : q # scan.phase => lease'[q] = lease[q]
        /\ \/ AtFile(scan.phase) /\ lease' = lease
           \/ ~AtFile(scan.phase) /\ lease'[scan.phase] = NoLease
    BY <1>1, <2>1, LeaseReplaced, NoLeaseTyped, Same
  <2> QED
    BY <1>1, <1>3, <2>1, <2>2, NextQueueEffect DEF Rename, Pass
<1> QED
  BY <1>2, <1>3

\* The claimed document gets the number of its claim, unless the write fails.
LEMMA RecordEffect ==
  ASSUME TypeOK, Record
  PROVE  /\ UNCHANGED <<lease, elder, turns, manager, flight, control>>
         /\ scan.at = "record" /\ manager.state # "down"
         /\ faults' \in 0..MaxFault
         /\ scan' \in [at : ScanAt, phase : Phase]
         /\ doc' \in Document
         /\ doc'.dir = doc.dir /\ doc'.by = doc.by
         /\ doc'.required = doc.required
         /\ \/ /\ scan'.at = "start" /\ scan'.phase = scan.phase
               /\ doc'.attempt[scan.phase] = lease[scan.phase].attempt
               /\ \A q \in Phase : q # scan.phase =>
                    doc'.attempt[q] = doc.attempt[q]
            \/ scan'.at \in {"queue", "idle"} /\ doc' = doc
<1>1. /\ scan.phase \in Phase /\ doc \in Document
      /\ lease[scan.phase].attempt \in 0..MaxAttempt
  BY DEF TypeOK, Lease
<1>2. CASE /\ doc' = [doc EXCEPT !.status = Claimed(scan.phase),
                        !.attempt[scan.phase] = lease[scan.phase].attempt]
           /\ ScanTo("start") /\ UNCHANGED faults
  <2>1. Claimed(scan.phase) \in Dir
    BY <1>1, Dirs
  <2>2. /\ doc' \in Document
        /\ doc'.dir = doc.dir /\ doc'.by = doc.by
        /\ doc'.required = doc.required
        /\ doc'.attempt[scan.phase] = lease[scan.phase].attempt
        /\ \A q \in Phase : q # scan.phase => doc'.attempt[q] = doc.attempt[q]
    BY <1>1, <1>2, <2>1 DEF Document
  <2> QED
    BY <1>2, <2>2, ScanToEffect, Same DEF Record, Pass, ScanAt
<1>3. CASE Fault /\ NextQueue /\ UNCHANGED doc
  BY <1>1, <1>3, NextQueueEffect, FaultTyped DEF Record, Pass
<1> QED
  BY <1>2, <1>3 DEF Record

\* The claim is dispatched, or a hook leaves it without a dispatch.
LEMMA StartEffect ==
  ASSUME TypeOK, Start
  PROVE  /\ UNCHANGED <<doc, elder, turns, manager, control, faults>>
         /\ scan.at = "start" /\ manager.state # "down"
         /\ scan' \in [at : ScanAt, phase : Phase]
         /\ scan'.at \in {"queue", "idle"}
         /\ lease' \in [Phase -> Lease] /\ flight' \in [Phase -> Flight]
         /\ lease'[scan.phase].state \notin {"none", "claiming"}
         /\ lease'[scan.phase].attempt = lease[scan.phase].attempt
         /\ lease'[scan.phase].owner = lease[scan.phase].owner
         /\ lease'[scan.phase].cancel = lease[scan.phase].cancel
         /\ \A q \in Phase : q # scan.phase =>
              lease'[q] = lease[q] /\ flight'[q] = flight[q]
         /\ \/ flight'[scan.phase] = Takeoff("send", lease[scan.phase].attempt)
            \/ flight' = flight
<1>1. /\ scan.phase \in Phase
      /\ lease[scan.phase].attempt \in 0..MaxAttempt
  BY DEF TypeOK, Lease
<1>2. PICK state \in {"processing", "hook_cancelled", "error"} :
        lease' = [lease EXCEPT ![scan.phase].state = state]
  BY DEF Start
<1>3. /\ lease' \in [Phase -> Lease]
      /\ lease'[scan.phase].state = state
      /\ lease'[scan.phase].attempt = lease[scan.phase].attempt
      /\ lease'[scan.phase].owner = lease[scan.phase].owner
      /\ lease'[scan.phase].cancel = lease[scan.phase].cancel
      /\ \A q \in Phase : q # scan.phase => lease'[q] = lease[q]
  <2>1. state \in LeaseState
    BY DEF LeaseState
  <2> QED
    BY <1>1, <1>2, <2>1, StateWritten
<1>4. \/ flight' = [flight EXCEPT
                      ![scan.phase] = Takeoff("send", lease[scan.phase].attempt)]
      \/ flight' = flight
  BY DEF Start
<1>5. Takeoff("send", lease[scan.phase].attempt) \in Flight
  BY <1>1, NewTyped DEF LeaseState
<1>6. /\ flight' \in [Phase -> Flight]
      /\ \A q \in Phase : q # scan.phase => flight'[q] = flight[q]
      /\ \/ flight'[scan.phase] = Takeoff("send", lease[scan.phase].attempt)
         \/ flight' = flight
  BY <1>1, <1>4, <1>5, FlightReplaced, Same
<1> QED
  BY <1>1, <1>3, <1>6, NextQueueEffect DEF Start, Pass

\* The worker admits a turn, which it retains; the reply may be lost.
LEMMA SendEffect ==
  ASSUME TypeOK, NumbersFit, NEW ph \in Phase, Send(ph), Sendable(ph)
  PROVE  /\ UNCHANGED <<doc, elder, stopped, worker, manager, scan, control>>
         /\ flight[ph].at = "send" /\ flight[ph].attempt \in Attempt
         /\ manager.state = "running" /\ worker = "up"
         /\ scan.at = "idle" /\ control.at = "none"
         /\ AtFile(ph) /\ exec[ph][flight[ph].attempt].turn = "none"
         /\ faults' \in 0..MaxFault
         /\ used' = used \cup {<<ph, flight[ph].attempt>>}
         /\ exec' \in [Phase -> [Attempt -> Execution]]
         /\ exec'[ph][flight[ph].attempt].turn \in {"live", "over"}
         /\ exec'[ph][flight[ph].attempt].turn = "live" => Reservable(ph)
         /\ ~exec'[ph][flight[ph].attempt].cancelled
         /\ \A q \in Phase, n \in Attempt :
              q # ph \/ n # flight[ph].attempt => exec'[q][n] = exec[q][n]
         /\ lease' \in [Phase -> Lease]
         /\ \A q \in Phase :
              /\ lease'[q].owner = lease[q].owner
              /\ lease'[q].attempt = lease[q].attempt
              /\ lease'[q].cancel = lease[q].cancel
              /\ lease'[q].state # lease[q].state =>
                   /\ Leased(q) /\ Inflight(q)
                   /\ lease'[q].state \notin {"none", "claiming"}
         /\ flight' \in [Phase -> Flight]
         /\ \A q \in Phase : q # ph => flight'[q] = flight[q]
         /\ flight'[ph].at \in {"none", "bind"}
         /\ flight'[ph].at = "bind" =>
              /\ flight'[ph].attempt = flight[ph].attempt
              /\ flight'[ph].owner = flight[ph].owner
<1> DEFINE n == flight[ph].attempt
<1>1. flight[ph].at = "send" /\ Inflight(ph) /\ n \in Attempt
  <2>1. flight[ph].at = "send" /\ Inflight(ph)
    BY DEF Send, At, Inflight
  <2>2. n # 0 /\ n \in 0..MaxAttempt
    BY <2>1, Same DEF NumbersFit, Flight
  <2> QED
    BY <2>1, <2>2, TaskWorkflowAssumption DEF Attempt
<1>2. PICK e \in Admitted(ph) : exec' = [exec EXCEPT ![ph][n] = e]
  BY DEF Send
<1>3. /\ e \in Execution /\ e.turn \in {"live", "over"} /\ ~e.cancelled
      /\ e.turn = "live" => Reservable(ph)
  <2>1. NoExecution \in Execution /\ ~NoExecution.cancelled
    BY DEF NoExecution, Execution
  <2> DEFINE live == [NoExecution EXCEPT !.turn = "live"]
             rejected == [NoExecution EXCEPT !.turn = "over",
                                             !.error = "unsaved", !.unread = TRUE]
             refused == [NoExecution EXCEPT !.turn = "over", !.error = "set"]
  <2>2. live \in Execution /\ live.turn = "live" /\ ~live.cancelled
    BY <2>1 DEF Execution
  <2>3. rejected \in Execution /\ rejected.turn = "over" /\ ~rejected.cancelled
    BY <2>1 DEF Execution
  <2>4. refused \in Execution /\ refused.turn = "over" /\ ~refused.cancelled
    BY <2>1 DEF Execution
  <2>5. e \in {live, rejected, refused} /\ (~Reservable(ph) => e = refused)
    BY <1>2, <2>2, <2>3, <2>4 DEF Admitted
  <2> HIDE DEF live, rejected, refused
  <2> QED
    BY <2>2, <2>3, <2>4, <2>5
<1>4. /\ exec' \in [Phase -> [Attempt -> Execution]]
      /\ exec'[ph][n] = e
      /\ \A q \in Phase, k \in Attempt : q # ph \/ k # n => exec'[q][k] = exec[q][k]
  <2>1. exec \in [Phase -> [Attempt -> Execution]]
    BY Same
  <2> QED
    BY <1>1, <1>2, <1>3, <2>1
<1>5. /\ used' = used \cup {<<ph, n>>}
      /\ \/ Fly(ph, "bind") /\ UNCHANGED <<lease, faults>>
         \/ Fault /\ lease' \in {Marked(ph, "error"), lease} /\ Land(ph)
      /\ UNCHANGED <<doc, elder, stopped, worker, manager, scan, control>>
      /\ Admission
  BY DEF Send, Errored
<1>6. /\ lease' \in [Phase -> Lease]
      /\ \A q \in Phase :
           /\ lease'[q].owner = lease[q].owner
           /\ lease'[q].attempt = lease[q].attempt
           /\ lease'[q].cancel = lease[q].cancel
           /\ lease'[q].state # lease[q].state =>
                /\ Leased(q) /\ Inflight(q)
                /\ lease'[q].state \notin {"none", "claiming"}
  <2>1. CASE lease' = lease
    BY <2>1, Same
  <2>2. CASE lease' = Marked(ph, "error")
    BY <1>1, <2>2, MarkedHandles DEF LeaseState
  <2> QED
    BY <1>5, <2>1, <2>2
<1>7. /\ flight' \in [Phase -> Flight]
      /\ \A q \in Phase : q # ph => flight'[q] = flight[q]
      /\ flight'[ph].at \in {"none", "bind"}
      /\ flight'[ph].at = "bind" => /\ flight'[ph].attempt = flight[ph].attempt
                                    /\ flight'[ph].owner = flight[ph].owner
  BY <1>5, FlyEffect, LandEffect
<1>8. faults' \in 0..MaxFault
  BY <1>5, FaultTyped, Same
<1>9. AtFile(ph) /\ exec[ph][n].turn = "none"
  BY <1>1 DEF Sendable, Retained
<1> QED
  BY <1>1, <1>3, <1>4, <1>5, <1>6, <1>7, <1>8, <1>9 DEF Admission, Owned

\* An agent whose turn is live puts the document where it wants it.
LEMMA AgentEffect ==
  ASSUME TypeOK, NEW ph \in Phase, NEW n \in Attempt, AgentMoves(ph, n)
  PROVE  /\ UNCHANGED <<lease, elder, turns, manager, scan, flight, control,
                        faults>>
         /\ exec[ph][n].turn = "live"
         /\ doc' \in Document
         /\ doc'.dir \in Moves(ph) /\ doc'.by = ph
         /\ doc'.attempt = doc.attempt /\ doc'.required = doc.required
<1>1. PICK d \in Moves(ph) :
        doc' = [doc EXCEPT !.dir = d, !.status = d, !.by = ph]
  BY DEF AgentMoves
<1>2. d \in Dir /\ doc \in Document
  BY MovesTyped DEF TypeOK
<1>3. /\ doc' \in Document /\ doc'.dir = d /\ doc'.by = ph
      /\ doc'.attempt = doc.attempt /\ doc'.required = doc.required
  BY <1>1, <1>2 DEF Document
<1> QED
  BY <1>3 DEF AgentMoves, Live

-----------------------------------------------------------------------------
(* Every step of the scan, a dispatch, an agent or a process keeps the first *)
(* layer.                                                                    *)

\* What leases and dispatches are made of.
LEMMA Parts ==
  /\ \A at, n : /\ Takeoff(at, n).at = at /\ Takeoff(at, n).attempt = n
                /\ Takeoff(at, n).owner = manager.gen
  /\ \A state, n : /\ NewLease(state, n).state = state
                   /\ NewLease(state, n).attempt = n
                   /\ NewLease(state, n).owner = manager.gen
                   /\ ~NewLease(state, n).cancel
  /\ NoLease.state = "none" /\ ~NoLease.cancel
  /\ \A n \in Attempt : n # 0 /\ n \in Nat
BY TaskWorkflowAssumption DEF Takeoff, NewLease, NoLease, Attempt

\* A scan that goes on, or ends, keeps the first layer.
LEMMA WalkKeepsClaims ==
  ASSUME ClaimInv, Walks
  PROVE  ClaimInv'
<1>1. TypeOK /\ OneRetained /\ NumbersFit
  BY DEF ClaimInv
<1>2. TypeOK'
  BY <1>1 DEF TypeOK, Walks, turns
<1>3. \A q \in Phase : Retained(q)' = Retained(q)
  BY <1>1 DEF Retained, Walks, turns
<1>4. HomeFits'
  BY <1>1, Parts
     DEF ClaimInv, TypeOK, HomeFits, Inflight, Walks, turns
<1>5. NumbersFit'
  BY <1>1, Parts
     DEF ClaimInv, TypeOK, NumbersFit, Leased, Inflight, Walks, turns
<1>6. ClaimFits'
  BY <1>1, Parts
     DEF ClaimInv, TypeOK, ClaimFits, Claiming, Inflight, Walks, turns
<1>7. ScanFits'
  BY <1>1, <1>3, Parts
     DEF ClaimInv, TypeOK, ScanFits, Inflight, Walks, turns
<1>8. FlightFits'
  BY <1>1, <1>3, Parts
     DEF ClaimInv, TypeOK, FlightFits, Walks, turns
<1>9. OneRetained'
  BY <1>1, <1>3
     DEF ClaimInv, TypeOK, OneRetained, Walks, turns
<1>10. RetireFits'
  BY <1>1
     DEF ClaimInv, TypeOK, RetireFits, Retiring, AtFile, Walks, turns
<1>11. ClaimsAreJournaled'
  BY <1>1, Parts
     DEF ClaimInv, TypeOK, ClaimsAreJournaled, AtFile, Leased, Walks, turns
<1> QED
  BY <1>2, <1>4, <1>5, <1>6, <1>7, <1>8, <1>9, <1>10, <1>11 DEF ClaimInv

\* So does a scan that takes up what is retained.
LEMMA AttachKeepsClaims ==
  ASSUME ClaimInv, AttachRetained
  PROVE  ClaimInv'
<1>1. TypeOK /\ OneRetained /\ NumbersFit
  BY DEF ClaimInv
<1>2. TypeOK'
  BY <1>1, AttachEffect DEF TypeOK
<1>3. \A q \in Phase : Retained(q)' = Retained(q)
  BY <1>1, AttachEffect DEF Retained
<1>4. HomeFits'
  BY <1>1, AttachEffect, Parts
     DEF ClaimInv, TypeOK, HomeFits, Inflight
<1>5. NumbersFit'
  <2> SUFFICES ASSUME NEW q \in Phase
               PROVE  /\ lease'[q].state # "none" => lease'[q].attempt # 0
                      /\ lease'[q].cancel => lease'[q].state # "none"
                      /\ flight'[q].at # "none" => flight'[q].attempt # 0
    BY DEF NumbersFit, Leased, Inflight
  <2>1. /\ lease[q].state # "none" => lease[q].attempt # 0
        /\ lease[q].cancel => lease[q].state # "none"
        /\ flight[q].at # "none" => flight[q].attempt # 0
    BY <1>1 DEF NumbersFit, Leased, Inflight
  <2> QED
    BY <1>1, <2>1, AttachEffect, Parts DEF Leased
<1>6. ClaimFits'
  BY <1>1, AttachEffect, Parts
     DEF ClaimInv, TypeOK, ClaimFits, Claiming, Inflight
<1>7. ScanFits'
  BY <1>1, AttachEffect, <1>3, Parts
     DEF ClaimInv, TypeOK, ScanFits, Inflight
<1>8. FlightFits'
  BY <1>1, AttachEffect, <1>3, Parts
     DEF ClaimInv, TypeOK, FlightFits
<1>9. OneRetained'
  BY <1>1, AttachEffect, <1>3
     DEF ClaimInv, TypeOK, OneRetained
<1>10. RetireFits'
  BY <1>1, AttachEffect
     DEF ClaimInv, TypeOK, RetireFits, Retiring, AtFile
<1>11. ClaimsAreJournaled'
  BY <1>1, AttachEffect, Parts
     DEF ClaimInv, TypeOK, ClaimsAreJournaled, AtFile, Leased
<1> QED
  BY <1>2, <1>4, <1>5, <1>6, <1>7, <1>8, <1>9, <1>10, <1>11 DEF ClaimInv

\* So does one that finishes an interrupted claim.
LEMMA ResumeKeepsClaims ==
  ASSUME ClaimInv, NEW ph \in Phase, ResumeClaim(ph)
  PROVE  ClaimInv'
<1>1. TypeOK /\ OneRetained /\ NumbersFit
  BY DEF ClaimInv
<1>2. TypeOK'
  BY <1>1, ResumeEffect DEF TypeOK, turns
<1>3. \A q \in Phase : Retained(q)' = Retained(q)
  BY <1>1, ResumeEffect DEF Retained, turns
<1>4. HomeFits'
  BY <1>1, ResumeEffect, Parts
     DEF ClaimInv, TypeOK, HomeFits, Inflight, turns
<1>5. NumbersFit'
  BY <1>1, ResumeEffect, Parts
     DEF ClaimInv, TypeOK, NumbersFit, Leased, Inflight, turns
<1>6. ClaimFits'
  BY <1>1, ResumeEffect, Parts
     DEF ClaimInv, TypeOK, ClaimFits, Claiming, Inflight, turns
<1>7. ScanFits'
  BY <1>1, ResumeEffect, <1>3, Parts
     DEF ClaimInv, TypeOK, ScanFits, Inflight, turns
<1>8. FlightFits'
  <2> SUFFICES ASSUME manager'.state = "running", NEW q \in Phase,
                      flight'[q].at \in {"prepare", "send"}
               PROVE  Retained(q) = {}
    BY <1>3 DEF FlightFits
  <2>1. /\ flight[q].at \in {"prepare", "send"} /\ manager.state = "running"
             => Retained(q) = {}
        /\ flight[q].at = "none" /\ manager.state = "running"
           /\ scan.at \notin {"idle", "attach"} => Retained(q) = {}
    BY DEF ClaimInv, FlightFits, ScanFits, Inflight
  <2> QED
    <3>1. /\ manager' = manager /\ scan.at = "resume"
          /\ flight'[q].at = flight[q].at \/ flight[q].at = "none"
      BY <1>1, ResumeEffect DEF Inflight
    <3> QED
      BY <2>1, <3>1
<1>9. OneRetained'
  BY <1>1, ResumeEffect, <1>3
     DEF ClaimInv, TypeOK, OneRetained, turns
<1>10. RetireFits'
  BY <1>1, ResumeEffect
     DEF ClaimInv, TypeOK, RetireFits, Retiring, AtFile, turns
<1>11. ClaimsAreJournaled'
  <2> SUFFICES ASSUME NEW q \in Phase, doc'.dir = Claimed(q), doc'.by = "spynel"
               PROVE  lease'[q].state # "none"
    BY DEF ClaimsAreJournaled, AtFile, Leased
  <2>1. doc.dir = Claimed(q) /\ doc.by = "spynel" => lease[q].state # "none"
    BY DEF ClaimInv, ClaimsAreJournaled, AtFile, Leased
  <2> QED
    BY <1>1, <2>1, ResumeEffect, Parts, Dirs
       DEF TypeOK, ClaimInv, ClaimFits, Claiming, RetireFits, AtFile, turns
<1> QED
  BY <1>2, <1>4, <1>5, <1>6, <1>7, <1>8, <1>9, <1>10, <1>11 DEF ClaimInv

\* So does one that settles a document: Spynel puts none in a claimed directory.
LEMMA SettleKeepsClaims ==
  ASSUME ClaimInv, Reconcile, ~Walks
  PROVE  ClaimInv'
<1>1. TypeOK /\ OneRetained /\ NumbersFit
  BY DEF ClaimInv
<1>2. TypeOK'
  BY <1>1, ReconcileEffect DEF TypeOK, turns
<1>3. \A q \in Phase : Retained(q)' = Retained(q)
  BY <1>1, ReconcileEffect DEF Retained, turns
<1>4. HomeFits'
  BY <1>1, ReconcileEffect, Parts
     DEF ClaimInv, TypeOK, HomeFits, Inflight, turns
<1>5. NumbersFit'
  BY <1>1, ReconcileEffect, Parts
     DEF ClaimInv, TypeOK, NumbersFit, Leased, Inflight, turns
<1>6. ClaimFits'
  <2>1. scan'.at \notin Claiming
    BY <1>1, ReconcileEffect DEF Claiming, Retiring
  <2> QED
    BY <2>1 DEF ClaimFits
<1>7. ScanFits'
  BY <1>1, ReconcileEffect, <1>3, Parts
     DEF ClaimInv, TypeOK, ScanFits, Inflight, turns
<1>8. FlightFits'
  BY <1>1, ReconcileEffect, <1>3, Parts
     DEF ClaimInv, TypeOK, FlightFits, turns
<1>9. OneRetained'
  BY <1>1, ReconcileEffect, <1>3
     DEF ClaimInv, TypeOK, OneRetained, turns
<1>10. RetireFits'
  <2>1. PICK d \in Settled(scan.phase, doc.dir) : doc' = MovedTo(d)
    BY <1>1, ReconcileEffect
  <2>2. /\ scan.phase \in Phase /\ d \in Dir /\ doc'.dir = d
        /\ doc.dir = d => doc' = doc
        /\ d \in {doc.dir, "todo", "review", "done"}
    <3>1. scan.phase \in Phase
      BY <1>1 DEF TypeOK
    <3> QED
      BY <1>1, <2>1, <3>1, SettledDir, MovedToTyped
  <2>3. ~AtFile(scan.phase) /\ UNCHANGED <<lease, flight>>
    BY <1>1, ReconcileEffect DEF Transitioned
  <2>4. doc'.dir # Claimed(scan.phase)
    <3>1. Claimed(scan.phase) \notin {"todo", "review", "done"}
      BY DEF Claimed
    <3> QED
      BY <2>2, <2>3, <3>1 DEF AtFile
  <2> QED
    BY <1>1, <2>4, ReconcileEffect DEF RetireFits, AtFile
<1>11. ClaimsAreJournaled'
  <2>1. PICK d \in Settled(scan.phase, doc.dir) : doc' = MovedTo(d)
    BY <1>1, ReconcileEffect
  <2>2. /\ scan.phase \in Phase /\ d \in Dir /\ doc'.dir = d
        /\ doc.dir = d => doc' = doc
        /\ d \in {doc.dir, "todo", "review", "done"}
    <3>1. scan.phase \in Phase
      BY <1>1 DEF TypeOK
    <3> QED
      BY <1>1, <2>1, <3>1, SettledDir, MovedToTyped
  <2>3. \A q \in Phase : doc'.dir = Claimed(q) => doc' = doc
    <3> TAKE q \in Phase
    <3>1. Claimed(q) \notin {"todo", "review", "done"}
      BY DEF Claimed
    <3> QED
      BY <2>2, <3>1
  <2>4. UNCHANGED lease
    BY <1>1, ReconcileEffect
  <2> QED
    BY <2>3, <2>4 DEF ClaimInv, ClaimsAreJournaled, AtFile, Leased
<1> QED
  BY <1>2, <1>4, <1>5, <1>6, <1>7, <1>8, <1>9, <1>10, <1>11 DEF ClaimInv

\* So does one that retires the lease of a document that has left.
LEMMA RetireKeepsClaims ==
  ASSUME ClaimInv, Retire
  PROVE  ClaimInv'
<1>1. TypeOK /\ OneRetained /\ NumbersFit
  BY DEF ClaimInv
<1>2. TypeOK'
  BY <1>1, RetireEffect DEF TypeOK, turns
<1>3. \A q \in Phase : Retained(q)' = Retained(q)
  BY <1>1, RetireEffect DEF Retained, turns
<1>4. HomeFits'
  BY <1>1, RetireEffect, Parts
     DEF ClaimInv, TypeOK, HomeFits, Inflight, turns
<1>5. NumbersFit'
  BY <1>1, RetireEffect, Parts
     DEF ClaimInv, TypeOK, NumbersFit, Leased, Inflight, turns
<1>6. ClaimFits'
  BY <1>1, RetireEffect, Parts
     DEF ClaimInv, TypeOK, ClaimFits, Claiming, Inflight, turns
<1>7. ScanFits'
  <2> SUFFICES ASSUME manager'.state = "running", NEW q \in Phase,
                      flight'[q].at = "none"
               PROVE  Retained(q) = {}
    BY <1>3 DEF ScanFits, Inflight
  <2>1. flight[q].at = "none" /\ manager.state = "running"
           /\ scan.at \notin {"idle", "attach"} => Retained(q) = {}
    BY DEF ClaimInv, ScanFits, Inflight
  <2> QED
    BY <1>1, <2>1, RetireEffect, Parts DEF turns, Retiring, TypeOK
<1>8. FlightFits'
  BY <1>1, RetireEffect, <1>3, Parts
     DEF ClaimInv, TypeOK, FlightFits, turns
<1>9. OneRetained'
  BY <1>1, RetireEffect, <1>3
     DEF ClaimInv, TypeOK, OneRetained, turns
<1>10. RetireFits'
  BY <1>1, RetireEffect
     DEF ClaimInv, TypeOK, RetireFits, Retiring, AtFile, turns
<1>11. ClaimsAreJournaled'
  <2> SUFFICES ASSUME NEW q \in Phase, doc'.dir = Claimed(q), doc'.by = "spynel"
               PROVE  lease'[q].state # "none"
    BY DEF ClaimsAreJournaled, AtFile, Leased
  <2>1. doc.dir = Claimed(q) /\ doc.by = "spynel" => lease[q].state # "none"
    BY DEF ClaimInv, ClaimsAreJournaled, AtFile, Leased
  <2> QED
    BY <1>1, <2>1, RetireEffect, Parts, Dirs
       DEF TypeOK, ClaimInv, ClaimFits, Claiming, RetireFits, AtFile, turns
<1> QED
  BY <1>2, <1>4, <1>5, <1>6, <1>7, <1>8, <1>9, <1>10, <1>11 DEF ClaimInv

\* So does one that recovers what has been abandoned.
LEMMA StaleKeepsClaims ==
  ASSUME ClaimInv, RecoverStale
  PROVE  ClaimInv'
<1>1. TypeOK /\ OneRetained /\ NumbersFit
  BY DEF ClaimInv
<1>2. TypeOK'
  BY <1>1, StaleEffect DEF TypeOK, turns
<1>3. \A q \in Phase : Retained(q)' = Retained(q)
  BY <1>1, StaleEffect DEF Retained, turns
<1>4. HomeFits'
  <2>1. manager' = manager /\ manager.state # "down"
    BY <1>1, StaleEffect
  <2> QED
    BY <2>1 DEF HomeFits
<1>5. NumbersFit'
  <2>1. \A q \in Phase :
          /\ lease'[q].attempt = lease[q].attempt
          /\ lease'[q].cancel = lease[q].cancel
          /\ (lease'[q].state = "none") <=> (lease[q].state = "none")
          /\ flight'[q] = flight[q] \/ flight'[q].attempt = lease[q].attempt
          /\ flight'[q] = flight[q] \/ lease[q].state # "none"
    BY <1>1, StaleEffect, Parts DEF Leased
  <2> QED
    BY <1>1, <2>1 DEF NumbersFit, Leased, Inflight
<1>6. ClaimFits'
  BY <1>1, StaleEffect, Parts
     DEF ClaimInv, TypeOK, ClaimFits, Claiming, Inflight, turns
<1>7. ScanFits'
  <2> SUFFICES ASSUME manager'.state = "running", NEW q \in Phase,
                      flight'[q].at = "none"
               PROVE  Retained(q) = {}
    BY <1>3 DEF ScanFits, Inflight
  <2>1. flight[q].at = "none" /\ manager.state = "running"
           /\ scan.at \notin {"idle", "attach"} => Retained(q) = {}
    BY DEF ClaimInv, ScanFits, Inflight
  <2> QED
    BY <1>1, <2>1, StaleEffect, Parts DEF turns, Retiring, TypeOK
<1>8. FlightFits'
  <2> SUFFICES ASSUME manager'.state = "running", NEW q \in Phase,
                      flight'[q].at \in {"prepare", "send"}
               PROVE  Retained(q) = {}
    BY <1>3 DEF FlightFits
  <2>1. /\ flight[q].at \in {"prepare", "send"} /\ manager.state = "running"
             => Retained(q) = {}
        /\ flight[q].at = "none" /\ manager.state = "running"
           /\ scan.at \notin {"idle", "attach"} => Retained(q) = {}
    BY DEF ClaimInv, FlightFits, ScanFits, Inflight
  <2> QED
    BY <1>1, <2>1, StaleEffect, Parts
       DEF turns, Inflight, ClaimInv, ClaimFits, Claiming, TypeOK
<1>9. OneRetained'
  BY <1>1, StaleEffect, <1>3
     DEF ClaimInv, TypeOK, OneRetained, turns
<1>10. RetireFits'
  BY <1>1, StaleEffect
     DEF ClaimInv, TypeOK, RetireFits, Retiring, AtFile, turns
<1>11. ClaimsAreJournaled'
  BY <1>1, StaleEffect, Parts
     DEF ClaimInv, TypeOK, ClaimsAreJournaled, AtFile, Leased, turns
<1> QED
  BY <1>2, <1>4, <1>5, <1>6, <1>7, <1>8, <1>9, <1>10, <1>11 DEF ClaimInv

\* So does one that recovers a claimed document without a lease.
LEMMA OrphanKeepsClaims ==
  ASSUME ClaimInv, NEW ph \in Phase, RecoverOrphan(ph)
  PROVE  ClaimInv'
<1>1. TypeOK /\ OneRetained /\ NumbersFit
  BY DEF ClaimInv
<1>2. TypeOK'
  BY <1>1, OrphanEffect DEF TypeOK, turns
<1>3. \A q \in Phase : Retained(q)' = Retained(q)
  BY <1>1, OrphanEffect DEF Retained, turns
<1>4. HomeFits'
  BY <1>1, OrphanEffect, Parts
     DEF ClaimInv, TypeOK, HomeFits, Inflight, turns
<1>5. NumbersFit'
  BY <1>1, OrphanEffect, Parts
     DEF ClaimInv, TypeOK, NumbersFit, Leased, Inflight, turns
<1>6. ClaimFits'
  BY <1>1, OrphanEffect, Parts
     DEF ClaimInv, TypeOK, ClaimFits, Claiming, Inflight, turns
<1>7. ScanFits'
  BY <1>1, OrphanEffect, <1>3, Parts
     DEF ClaimInv, TypeOK, ScanFits, Inflight, turns
<1>8. FlightFits'
  <2> SUFFICES ASSUME manager'.state = "running", NEW q \in Phase,
                      flight'[q].at \in {"prepare", "send"}
               PROVE  Retained(q) = {}
    BY <1>3 DEF FlightFits
  <2>1. /\ flight[q].at \in {"prepare", "send"} /\ manager.state = "running"
             => Retained(q) = {}
        /\ flight[q].at = "none" /\ manager.state = "running"
           /\ scan.at \notin {"idle", "attach"} => Retained(q) = {}
    BY DEF ClaimInv, FlightFits, ScanFits, Inflight
  <2> QED
    BY <1>1, <2>1, OrphanEffect, Parts
       DEF turns, Inflight, ClaimInv, ClaimFits, Claiming, TypeOK
<1>9. OneRetained'
  BY <1>1, OrphanEffect, <1>3
     DEF ClaimInv, TypeOK, OneRetained, turns
<1>10. RetireFits'
  BY <1>1, OrphanEffect
     DEF ClaimInv, TypeOK, RetireFits, Retiring, AtFile, turns
<1>11. ClaimsAreJournaled'
  BY <1>1, OrphanEffect, Parts
     DEF ClaimInv, TypeOK, ClaimsAreJournaled, AtFile, Leased, turns
<1> QED
  BY <1>2, <1>4, <1>5, <1>6, <1>7, <1>8, <1>9, <1>10, <1>11 DEF ClaimInv

\* So does one that puts a document into a queue.
LEMMA QueueKeepsClaims ==
  ASSUME ClaimInv, Wake \/ BypassReview
  PROVE  ClaimInv'
<1>1. TypeOK /\ OneRetained /\ NumbersFit
  BY DEF ClaimInv
<1>2. TypeOK'
  BY <1>1, QueueEffect DEF TypeOK, turns
<1>3. \A q \in Phase : Retained(q)' = Retained(q)
  BY <1>1, QueueEffect DEF Retained, turns
<1>4. HomeFits'
  BY <1>1, QueueEffect, Parts
     DEF ClaimInv, TypeOK, HomeFits, Inflight, turns
<1>5. NumbersFit'
  BY <1>1, QueueEffect, Parts
     DEF ClaimInv, TypeOK, NumbersFit, Leased, Inflight, turns
<1>6. ClaimFits'
  BY <1>1, QueueEffect, Parts
     DEF ClaimInv, TypeOK, ClaimFits, Claiming, Inflight, turns
<1>7. ScanFits'
  BY <1>1, QueueEffect, <1>3, Parts
     DEF ClaimInv, TypeOK, ScanFits, Inflight, turns
<1>8. FlightFits'
  BY <1>1, QueueEffect, <1>3, Parts
     DEF ClaimInv, TypeOK, FlightFits, turns
<1>9. OneRetained'
  BY <1>1, QueueEffect, <1>3
     DEF ClaimInv, TypeOK, OneRetained, turns
<1>10. RetireFits'
  BY <1>1, QueueEffect
     DEF ClaimInv, TypeOK, RetireFits, Retiring, AtFile, turns
<1>11. ClaimsAreJournaled'
  <2> SUFFICES ASSUME NEW q \in Phase, doc'.dir = Claimed(q), doc'.by = "spynel"
               PROVE  lease'[q].state # "none"
    BY DEF ClaimsAreJournaled, AtFile, Leased
  <2>1. doc.dir = Claimed(q) /\ doc.by = "spynel" => lease[q].state # "none"
    BY DEF ClaimInv, ClaimsAreJournaled, AtFile, Leased
  <2>2. Claimed(q) # "todo"
    BY DEF Claimed
  <2> QED
    BY <1>1, <2>1, <2>2, QueueEffect, Parts, Dirs
       DEF TypeOK, ClaimInv, ClaimFits, Claiming, RetireFits, AtFile, turns
<1> QED
  BY <1>2, <1>4, <1>5, <1>6, <1>7, <1>8, <1>9, <1>10, <1>11 DEF ClaimInv

\* So does one that journals a claim.
LEMMA JournalKeepsClaims ==
  ASSUME ClaimInv, Journal
  PROVE  ClaimInv'
<1>1. TypeOK /\ OneRetained /\ NumbersFit
  BY DEF ClaimInv
<1>2. TypeOK'
  BY <1>1, JournalEffect DEF TypeOK, turns
<1>3. \A q \in Phase : Retained(q)' = Retained(q)
  BY <1>1, JournalEffect DEF Retained, turns
<1>4. HomeFits'
  BY <1>1, JournalEffect, Parts
     DEF ClaimInv, TypeOK, HomeFits, Inflight, turns
<1>5. NumbersFit'
  BY <1>1, JournalEffect, Parts
     DEF ClaimInv, TypeOK, NumbersFit, Leased, Inflight, turns
<1>6. ClaimFits'
  BY <1>1, JournalEffect, Parts
     DEF ClaimInv, TypeOK, ClaimFits, Claiming, Inflight, turns
<1>7. ScanFits'
  BY <1>1, JournalEffect, <1>3, Parts
     DEF ClaimInv, TypeOK, ScanFits, Inflight, turns
<1>8. FlightFits'
  BY <1>1, JournalEffect, <1>3, Parts
     DEF ClaimInv, TypeOK, FlightFits, turns
<1>9. OneRetained'
  BY <1>1, JournalEffect, <1>3
     DEF ClaimInv, TypeOK, OneRetained, turns
<1>10. RetireFits'
  BY <1>1, JournalEffect
     DEF ClaimInv, TypeOK, RetireFits, Retiring, AtFile, turns
<1>11. ClaimsAreJournaled'
  BY <1>1, JournalEffect, Parts
     DEF ClaimInv, TypeOK, ClaimsAreJournaled, AtFile, Leased, turns
<1> QED
  BY <1>2, <1>4, <1>5, <1>6, <1>7, <1>8, <1>9, <1>10, <1>11 DEF ClaimInv

\* So does one that moves the document it claims, or gives up.
LEMMA RenameKeepsClaims ==
  ASSUME ClaimInv, Rename
  PROVE  ClaimInv'
<1>1. TypeOK /\ OneRetained /\ NumbersFit
  BY DEF ClaimInv
<1>2. TypeOK'
  BY <1>1, RenameEffect DEF TypeOK, turns
<1>3. \A q \in Phase : Retained(q)' = Retained(q)
  BY <1>1, RenameEffect DEF Retained, turns
<1>4. HomeFits'
  BY <1>1, RenameEffect, Parts
     DEF ClaimInv, TypeOK, HomeFits, Inflight, turns
<1>5. NumbersFit'
  BY <1>1, RenameEffect, Parts
     DEF ClaimInv, TypeOK, NumbersFit, Leased, Inflight, turns
<1>6. ClaimFits'
  BY <1>1, RenameEffect, Parts
     DEF ClaimInv, TypeOK, ClaimFits, Claiming, Inflight, turns
<1>7. ScanFits'
  BY <1>1, RenameEffect, <1>3, Parts
     DEF ClaimInv, TypeOK, ScanFits, Inflight, turns
<1>8. FlightFits'
  BY <1>1, RenameEffect, <1>3, Parts
     DEF ClaimInv, TypeOK, FlightFits, turns
<1>9. OneRetained'
  BY <1>1, RenameEffect, <1>3
     DEF ClaimInv, TypeOK, OneRetained, turns
<1>10. RetireFits'
  BY <1>1, RenameEffect
     DEF ClaimInv, TypeOK, RetireFits, Retiring, AtFile, turns
<1>11. ClaimsAreJournaled'
  <2> SUFFICES ASSUME NEW q \in Phase, doc'.dir = Claimed(q), doc'.by = "spynel"
               PROVE  lease'[q].state # "none"
    BY DEF ClaimsAreJournaled, AtFile, Leased
  <2>1. doc.dir = Claimed(q) /\ doc.by = "spynel" => lease[q].state # "none"
    BY DEF ClaimInv, ClaimsAreJournaled, AtFile, Leased
  <2> QED
    BY <1>1, <2>1, RenameEffect, Parts, Dirs
       DEF TypeOK, ClaimInv, ClaimFits, Claiming, RetireFits, AtFile, turns
<1> QED
  BY <1>2, <1>4, <1>5, <1>6, <1>7, <1>8, <1>9, <1>10, <1>11 DEF ClaimInv

\* So does one that records the claim in the document.
LEMMA RecordKeepsClaims ==
  ASSUME ClaimInv, Record
  PROVE  ClaimInv'
<1>1. TypeOK /\ OneRetained /\ NumbersFit
  BY DEF ClaimInv
<1>2. TypeOK'
  BY <1>1, RecordEffect DEF TypeOK, turns
<1>3. \A q \in Phase : Retained(q)' = Retained(q)
  BY <1>1, RecordEffect DEF Retained, turns
<1>4. HomeFits'
  BY <1>1, RecordEffect, Parts
     DEF ClaimInv, TypeOK, HomeFits, Inflight, turns
<1>5. NumbersFit'
  BY <1>1, RecordEffect, Parts
     DEF ClaimInv, TypeOK, NumbersFit, Leased, Inflight, turns
<1>6. ClaimFits'
  BY <1>1, RecordEffect, Parts
     DEF ClaimInv, TypeOK, ClaimFits, Claiming, Inflight, turns
<1>7. ScanFits'
  BY <1>1, RecordEffect, <1>3, Parts
     DEF ClaimInv, TypeOK, ScanFits, Inflight, turns
<1>8. FlightFits'
  BY <1>1, RecordEffect, <1>3, Parts
     DEF ClaimInv, TypeOK, FlightFits, turns
<1>9. OneRetained'
  BY <1>1, RecordEffect, <1>3
     DEF ClaimInv, TypeOK, OneRetained, turns
<1>10. RetireFits'
  BY <1>1, RecordEffect
     DEF ClaimInv, TypeOK, RetireFits, Retiring, AtFile, turns
<1>11. ClaimsAreJournaled'
  BY <1>1, RecordEffect, Parts
     DEF ClaimInv, TypeOK, ClaimsAreJournaled, AtFile, Leased, turns
<1> QED
  BY <1>2, <1>4, <1>5, <1>6, <1>7, <1>8, <1>9, <1>10, <1>11 DEF ClaimInv

\* So does one that dispatches the claim.
LEMMA StartKeepsClaims ==
  ASSUME ClaimInv, Start
  PROVE  ClaimInv'
<1>1. TypeOK /\ OneRetained /\ NumbersFit
  BY DEF ClaimInv
<1>2. TypeOK'
  BY <1>1, StartEffect DEF TypeOK, turns
<1>3. \A q \in Phase : Retained(q)' = Retained(q)
  BY <1>1, StartEffect DEF Retained, turns
<1>4. HomeFits'
  BY <1>1, StartEffect, Parts
     DEF ClaimInv, TypeOK, HomeFits, Inflight, turns
<1>5. NumbersFit'
  <2> SUFFICES ASSUME NEW q \in Phase
               PROVE  /\ lease'[q].state # "none" => lease'[q].attempt # 0
                      /\ lease'[q].cancel => lease'[q].state # "none"
                      /\ flight'[q].at # "none" => flight'[q].attempt # 0
    BY DEF NumbersFit, Leased, Inflight
  <2>1. /\ lease[q].state # "none" => lease[q].attempt # 0
        /\ lease[q].cancel => lease[q].state # "none"
        /\ flight[q].at # "none" => flight[q].attempt # 0
    BY <1>1 DEF NumbersFit, Leased, Inflight
  <2> QED
    BY <1>1, <2>1, StartEffect, Parts DEF Leased, ClaimInv, ClaimFits, Claiming
<1>6. ClaimFits'
  BY <1>1, StartEffect, Parts
     DEF ClaimInv, TypeOK, ClaimFits, Claiming, Inflight, turns
<1>7. ScanFits'
  <2> SUFFICES ASSUME manager'.state = "running", NEW q \in Phase,
                      flight'[q].at = "none"
               PROVE  Retained(q) = {}
    BY <1>3 DEF ScanFits, Inflight
  <2>1. flight[q].at = "none" /\ manager.state = "running"
           /\ scan.at \notin {"idle", "attach"} => Retained(q) = {}
    BY DEF ClaimInv, ScanFits, Inflight
  <2> QED
    BY <1>1, <2>1, StartEffect, Parts DEF turns, Retiring, TypeOK
<1>8. FlightFits'
  <2> SUFFICES ASSUME manager'.state = "running", NEW q \in Phase,
                      flight'[q].at \in {"prepare", "send"}
               PROVE  Retained(q) = {}
    BY <1>3 DEF FlightFits
  <2>1. /\ flight[q].at \in {"prepare", "send"} /\ manager.state = "running"
             => Retained(q) = {}
        /\ flight[q].at = "none" /\ manager.state = "running"
           /\ scan.at \notin {"idle", "attach"} => Retained(q) = {}
    BY DEF ClaimInv, FlightFits, ScanFits, Inflight
  <2> QED
    BY <1>1, <2>1, StartEffect, Parts
       DEF turns, Inflight, ClaimInv, ClaimFits, Claiming, TypeOK
<1>9. OneRetained'
  BY <1>1, StartEffect, <1>3
     DEF ClaimInv, TypeOK, OneRetained, turns
<1>10. RetireFits'
  BY <1>1, StartEffect
     DEF ClaimInv, TypeOK, RetireFits, Retiring, AtFile, turns
<1>11. ClaimsAreJournaled'
  BY <1>1, StartEffect, Parts
     DEF ClaimInv, TypeOK, ClaimsAreJournaled, AtFile, Leased, turns
<1> QED
  BY <1>2, <1>4, <1>5, <1>6, <1>7, <1>8, <1>9, <1>10, <1>11 DEF ClaimInv

\* So does a dispatch that gets its turn admitted.
LEMMA SendKeepsClaims ==
  ASSUME ClaimInv, NEW ph \in Phase, Send(ph), Sendable(ph)
  PROVE  ClaimInv'
<1>1. TypeOK /\ OneRetained /\ NumbersFit
  BY DEF ClaimInv
<1>2. TypeOK'
  BY <1>1, SendEffect DEF TypeOK
<1>3. HomeFits'
  BY <1>1, SendEffect, Parts
     DEF ClaimInv, TypeOK, HomeFits, Inflight
<1>4. NumbersFit'
  <2> SUFFICES ASSUME NEW q \in Phase
               PROVE  /\ lease'[q].state # "none" => lease'[q].attempt # 0
                      /\ lease'[q].cancel => lease'[q].state # "none"
                      /\ flight'[q].at # "none" => flight'[q].attempt # 0
    BY DEF NumbersFit, Leased, Inflight
  <2>1. /\ lease[q].state # "none" => lease[q].attempt # 0
        /\ lease[q].cancel => lease[q].state # "none"
        /\ flight[q].at # "none" => flight[q].attempt # 0
    BY <1>1 DEF NumbersFit, Leased, Inflight
  <2> QED
    BY <1>1, <2>1, SendEffect, Parts DEF Leased
<1>5. ClaimFits'
  BY <1>1, SendEffect, Parts
     DEF ClaimInv, TypeOK, ClaimFits, Claiming, Inflight
<1>6. ScanFits'
  BY <1>1, SendEffect, Parts
     DEF ClaimInv, TypeOK, ScanFits, Inflight
<1>7. FlightFits'
  <2> SUFFICES ASSUME NEW q \in Phase, flight'[q].at \in {"prepare", "send"}
               PROVE  Retained(q)' = {}
    BY DEF FlightFits
  <2>1. q # ph /\ flight'[q] = flight[q]
    BY <1>1, SendEffect
  <2>2. Retained(q)' = Retained(q)
    BY <1>1, <2>1, SendEffect DEF Retained
  <2> QED
    BY <1>1, <2>1, <2>2, SendEffect DEF ClaimInv, FlightFits
<1>8. OneRetained'
  <2>1. Retained(ph) = {}
    BY <1>1, SendEffect DEF ClaimInv, FlightFits
  <2>2. Retained(ph)' \subseteq {flight[ph].attempt}
    BY <1>1, <2>1, SendEffect DEF Retained
  <2>3. \A q \in Phase : q # ph => Retained(q)' = Retained(q)
    BY <1>1, SendEffect DEF Retained
  <2> QED
    BY <1>1, <2>2, <2>3 DEF OneRetained
<1>9. RetireFits'
  BY <1>1, SendEffect
     DEF ClaimInv, TypeOK, RetireFits, Retiring, AtFile
<1>10. ClaimsAreJournaled'
  <2> SUFFICES ASSUME NEW q \in Phase, doc'.dir = Claimed(q), doc'.by = "spynel"
               PROVE  lease'[q].state # "none"
    BY DEF ClaimsAreJournaled, AtFile, Leased
  <2>1. doc.dir = Claimed(q) /\ doc.by = "spynel" => lease[q].state # "none"
    BY DEF ClaimInv, ClaimsAreJournaled, AtFile, Leased
  <2> QED
    BY <1>1, <2>1, SendEffect, Parts, Dirs
       DEF TypeOK, ClaimInv, ClaimFits, Claiming, RetireFits, AtFile, turns
<1> QED
  BY <1>2, <1>3, <1>4, <1>5, <1>6, <1>7, <1>8, <1>9, <1>10 DEF ClaimInv

\* So does an agent that moves its document.
LEMMA AgentKeepsClaims ==
  ASSUME ClaimInv, NEW ph \in Phase, NEW n \in Attempt,
         AgentMoves(ph, n)
  PROVE  ClaimInv'
<1>1. TypeOK /\ OneRetained /\ NumbersFit
  BY DEF ClaimInv
<1>2. TypeOK'
  BY <1>1, AgentEffect DEF TypeOK, turns
<1>3. \A q \in Phase : Retained(q)' = Retained(q)
  BY <1>1, AgentEffect DEF Retained, turns
<1>4. HomeFits'
  BY <1>1, AgentEffect, Parts
     DEF ClaimInv, TypeOK, HomeFits, Inflight, turns
<1>5. NumbersFit'
  BY <1>1, AgentEffect, Parts
     DEF ClaimInv, TypeOK, NumbersFit, Leased, Inflight, turns
<1>6. ClaimFits'
  BY <1>1, AgentEffect, Parts
     DEF ClaimInv, TypeOK, ClaimFits, Claiming, Inflight, turns
<1>7. ScanFits'
  BY <1>1, AgentEffect, <1>3, Parts
     DEF ClaimInv, TypeOK, ScanFits, Inflight, turns
<1>8. FlightFits'
  BY <1>1, AgentEffect, <1>3, Parts
     DEF ClaimInv, TypeOK, FlightFits, turns
<1>9. OneRetained'
  BY <1>1, AgentEffect, <1>3
     DEF ClaimInv, TypeOK, OneRetained, turns
<1>10. RetireFits'
  <2>1. ph # "spynel"
    BY DEF Phase
  <2> QED
    BY <1>1, <2>1, AgentEffect DEF RetireFits, turns
<1>11. ClaimsAreJournaled'
  <2> SUFFICES ASSUME NEW q \in Phase, doc'.dir = Claimed(q), doc'.by = "spynel"
               PROVE  lease'[q].state # "none"
    BY DEF ClaimsAreJournaled, AtFile, Leased
  <2>1. doc.dir = Claimed(q) /\ doc.by = "spynel" => lease[q].state # "none"
    BY DEF ClaimInv, ClaimsAreJournaled, AtFile, Leased
  <2>2. ph # "spynel"
    BY DEF Phase
  <2> QED
    BY <1>1, <2>1, <2>2, AgentEffect, Parts, Dirs
       DEF TypeOK, ClaimInv, ClaimFits, Claiming, RetireFits, AtFile, turns
<1> QED
  BY <1>2, <1>4, <1>5, <1>6, <1>7, <1>8, <1>9, <1>10, <1>11 DEF ClaimInv

\* So do the beginnings and the ends of a manager.
LEMMA ProcessKeepsClaims ==
  ASSUME ClaimInv, Stop \/ Down \/ Crash \/ Restart
  PROVE  ClaimInv'
<1>1. TypeOK
  BY DEF ClaimInv
<1>2. /\ UNCHANGED <<doc, lease, elder, exec, stopped, used>>
      /\ worker' \in {"up", "down"} /\ faults' \in 0..MaxFault
  BY <1>1, FaultTyped, Same DEF Stop, Down, Crash, Restart, turns
<1>3. \A q \in Phase : Retained(q)' = Retained(q)
  BY <1>2 DEF Retained
<1>4. manager' \in [gen : Nat, state : {"running", "stopping", "down"},
                    reviews : ReviewModes]
  <2>1. /\ manager.gen \in Nat /\ manager.reviews \in ReviewModes
        /\ manager \in [gen : Nat, state : {"running", "stopping", "down"},
                       reviews : ReviewModes]
    BY <1>1 DEF TypeOK
  <2>2. \/ manager' = [manager EXCEPT !.state = "stopping"]
        \/ manager' = [manager EXCEPT !.state = "down"]
        \/ manager' = [manager EXCEPT !.gen = manager.gen + 1, !.state = "running"]
    BY DEF Stop, Down, Crash, Restart
  <2>3. manager.gen + 1 \in Nat
    BY <2>1
  <2>4. \/ manager' = [gen |-> manager.gen, state |-> "stopping",
                       reviews |-> manager.reviews]
        \/ manager' = [gen |-> manager.gen, state |-> "down",
                       reviews |-> manager.reviews]
        \/ manager' = [gen |-> manager.gen + 1, state |-> "running",
                       reviews |-> manager.reviews]
    BY <2>1, <2>2
  <2> QED
    BY <2>1, <2>3, <2>4
<1>5. \/ /\ UNCHANGED <<scan, flight, control>>
         /\ \/ manager.state = "running" /\ manager'.state = "stopping"
            \/ /\ manager'.state = "down" /\ scan.at = "idle"
               /\ control.at = "none" /\ \A q \in Phase : ~Inflight(q)
            \/ manager.state = "down" /\ manager'.state = "running"
      \/ /\ manager'.state = "down" /\ scan' = Idle /\ control' = NoControl
         /\ flight' = [q \in Phase |-> Grounded]
  BY <1>1 DEF Stop, Down, Crash, Restart, TypeOK
<1>6. Grounded \in Flight /\ Grounded.at = "none"
  BY TaskWorkflowAssumption DEF Grounded, Flight
<1>7. Idle \in [at : ScanAt, phase : Phase] /\ Idle.at = "idle"
  BY Phases DEF Idle, ScanAt
<1>8. TypeOK'
  BY <1>1, <1>2, <1>4, <1>5, <1>6, <1>7, Same DEF TypeOK
<1>9. HomeFits'
  BY <1>5, <1>6, <1>7 DEF ClaimInv, HomeFits, Inflight, NoControl
<1>10. NumbersFit'
  BY <1>2, <1>5, <1>6 DEF ClaimInv, NumbersFit, Leased, Inflight
<1>11. ClaimFits'
  BY <1>2, <1>5, <1>7 DEF ClaimInv, ClaimFits, Claiming, Inflight
<1>12. ScanFits'
  BY <1>3, <1>5, <1>7 DEF ClaimInv, ScanFits, HomeFits, Inflight
<1>13. FlightFits'
  BY <1>3, <1>5, <1>6 DEF ClaimInv, FlightFits, HomeFits, Inflight
<1>14. OneRetained'
  BY <1>3 DEF ClaimInv, OneRetained
<1>15. RetireFits' /\ ClaimsAreJournaled'
  BY <1>2, <1>5, <1>7
     DEF ClaimInv, RetireFits, Retiring, ClaimsAreJournaled, AtFile, Leased
<1> QED
  BY <1>8, <1>9, <1>10, <1>11, <1>12, <1>13, <1>14, <1>15 DEF ClaimInv

\* Every step handles what is claimed, or is one of those above.
LEMMA Steps ==
  ASSUME TypeOK, HomeFits, Next
  PROVE  \/ Handles /\ (Plain \/ Interrupt
                        \/ \E ph \in Phase, n \in Attempt : TurnEnds(ph, n))
         \/ Walks \/ AttachRetained \/ (\E ph \in Phase : ResumeClaim(ph))
         \/ Reconcile \/ Retire \/ RecoverStale
         \/ (\E ph \in Phase : RecoverOrphan(ph))
         \/ Wake \/ BypassReview \/ Journal \/ Rename \/ Record \/ Start
         \/ (\E ph \in Phase : Send(ph) /\ Sendable(ph))
         \/ (\E ph \in Phase, n \in Attempt : AgentMoves(ph, n))
         \/ Stop \/ Down \/ Crash \/ Restart
<1>1. CASE Scan
  BY <1>1, LookWalks DEF Scan
<1>2. ASSUME NEW ph \in Phase, FlightStep(ph) \/ Fails(ph) \/ LeaseAges(ph)
      PROVE  \/ Handles /\ Plain
             \/ Send(ph) /\ Sendable(ph)
  BY <1>2, FlightHandles, ConsumeHandles DEF FlightStep
<1>3. ASSUME NEW ph \in Phase, NEW n \in Attempt,
             AgentReports(ph, n) \/ TurnEnds(ph, n)
      PROVE  Handles /\ (Plain \/ TurnEnds(ph, n))
  BY <1>3, TurnHandles
<1>4. CASE Interrupt
  BY <1>4, ControlHandles
<1>5. CASE Process
  BY <1>5, DeathHandles DEF Process
<1> QED
  BY <1>1, <1>2, <1>3, <1>4, <1>5 DEF Next

\* The first layer holds at the start.
LEMMA ClaimInit ==
  ASSUME Init
  PROVE  ClaimInv
<1>1. PICK ph \in Phase, required \in BOOLEAN :
        doc = [dir |-> Queue(ph), status |-> Queue(ph),
               attempt |-> [q \in Phase |-> 0], required |-> required,
               by |-> "spynel"]
  BY DEF Init
<1>2. NoExecution \in Execution /\ NoExecution.turn = "none"
  BY DEF NoExecution, Execution
<1>3. Grounded \in Flight /\ Grounded.at = "none"
  BY TaskWorkflowAssumption DEF Grounded, Flight
<1>4. Idle \in [at : ScanAt, phase : Phase] /\ Idle.at = "idle"
  BY Phases DEF Idle, ScanAt
<1>5. NoControl \in Control /\ NoControl.at = "none"
  BY TaskWorkflowAssumption, Phases DEF NoControl, Control
<1>6. doc \in Document
  BY <1>1, Dirs, TaskWorkflowAssumption DEF Document
<1>7. \A q \in Phase : Retained(q) = {}
  BY <1>2 DEF Init, Retained
<1>8. TypeOK
  BY <1>2, <1>3, <1>4, <1>5, <1>6, NoLeaseTyped, Phases, TaskWorkflowAssumption
     DEF Init, TypeOK
<1>9. HomeFits /\ NumbersFit /\ ClaimFits
  BY <1>3, <1>4, Parts
     DEF Init, HomeFits, NumbersFit, ClaimFits, Claiming, Leased, Inflight
<1>10. ScanFits /\ FlightFits /\ OneRetained
  BY <1>7 DEF ScanFits, FlightFits, OneRetained
<1>11. RetireFits /\ ClaimsAreJournaled
  BY <1>1, <1>4, Dirs DEF Init, RetireFits, Retiring, ClaimsAreJournaled, AtFile
<1> QED
  BY <1>8, <1>9, <1>10, <1>11 DEF ClaimInv

\* Every step keeps the first layer.
LEMMA ClaimStep ==
  ASSUME ClaimInv, [Next]_vars
  PROVE  ClaimInv'
<1>1. CASE UNCHANGED vars
  BY <1>1
     DEF vars, turns, ClaimInv, TypeOK, HomeFits, NumbersFit, ClaimFits, ScanFits,
         FlightFits, OneRetained, RetireFits, ClaimsAreJournaled, Leased, Inflight,
         AtFile, Retained
<1>2. CASE Next
  <2>1. TypeOK /\ HomeFits
    BY DEF ClaimInv
  <2> QED
    BY <1>2, <2>1, Steps, HandlesKeepsClaims, WalkKeepsClaims,
       AttachKeepsClaims,
       ResumeKeepsClaims, SettleKeepsClaims, RetireKeepsClaims, StaleKeepsClaims,
       OrphanKeepsClaims, QueueKeepsClaims, JournalKeepsClaims, RenameKeepsClaims,
       RecordKeepsClaims, StartKeepsClaims, SendKeepsClaims, AgentKeepsClaims,
       ProcessKeepsClaims
<1> QED
  BY <1>1, <1>2

\* For every value of the constants, the first layer is an invariant of the task
\* workflow: no step of a scan, a dispatch, an agent, an interruption, a crash or
\* a restart breaks it.
THEOREM ClaimInvariant == Spec => []ClaimInv
BY ClaimInit, ClaimStep, PTL DEF Spec

\* Every variable keeps its type.
THEOREM TaskTypeOK == Spec => []TypeOK
<1>1. ClaimInv => TypeOK
  BY DEF ClaimInv
<1> QED
  BY <1>1, ClaimInvariant, PTL

\* No phase of a task ever has two live turns, whenever replies are lost, managers
\* crash or shut down in the middle of a scan, and wherever agents move the
\* document.
THEOREM NoSecondTurn == Spec => []OneTurnPerPhase
<1>1. ClaimInv => OneTurnPerPhase
  BY DEF ClaimInv, OneRetained, OneTurnPerPhase, Live, Retained
<1> QED
  BY <1>1, ClaimInvariant, PTL

\* A document that Spynel put in a claimed directory always has its lease, so a
\* crash at any point of a claim is recovered from the journal.
THEOREM ClaimsHaveLeases == Spec => []ClaimsAreJournaled
<1>1. ClaimInv => ClaimsAreJournaled
  BY DEF ClaimInv
<1> QED
  BY <1>1, ClaimInvariant, PTL

-----------------------------------------------------------------------------
(* The second layer, if no shutdown comes between the fence of a scan and its *)
(* end.                                                                       *)

\* Attempts are numbers, of documents, leases and dispatches.
LEMMA Numbers ==
  ASSUME TypeOK
  PROVE  /\ scan.phase \in Phase /\ Attempt \subseteq Nat
         /\ \A q \in Phase : /\ doc.attempt[q] \in Nat
                             /\ lease[q].attempt \in Nat
                             /\ flight[q].attempt \in Nat
<1>1. 0..MaxAttempt \subseteq Nat /\ Attempt \subseteq Nat
  BY TaskWorkflowAssumption DEF Attempt
<1>2. scan.phase \in Phase
  BY DEF TypeOK
<1>3. \A q \in Phase : doc.attempt[q] \in 0..MaxAttempt
  BY DEF TypeOK, Document
<1>4. \A q \in Phase : lease[q].attempt \in 0..MaxAttempt
  BY DEF TypeOK, Lease
<1>5. \A q \in Phase : flight[q].attempt \in 0..MaxAttempt
  BY DEF TypeOK, Flight
<1> QED
  BY <1>1, <1>2, <1>3, <1>4, <1>5

\* What handles a claim keeps the second layer.
LEMMA HandlesKeepsOrder ==
  ASSUME ClaimInv, OrderlyInv, Handles
  PROVE  OrderlyInv'
<1>1. TypeOK /\ OneRetained /\ NumbersFit
  BY DEF ClaimInv
<1>2. \A q \in Phase : Retained(q)' \subseteq Retained(q)
  BY DEF Handles, Retained
<1>3. PausesFit'
  BY <1>1 DEF OrderlyInv, PausesFit, TypeOK, Handles
<1>4. LeasesFit'
  <2>1. \A q \in Phase : Inflight(q)' => Current(q)'
    <3> SUFFICES ASSUME NEW q \in Phase, flight'[q].at # "none"
                 PROVE  /\ lease'[q].state # "none"
                        /\ lease'[q].owner = flight'[q].owner
                        /\ lease'[q].attempt = flight'[q].attempt
      BY DEF Inflight, Current, Leased
    <3>1. flight[q].at # "none" => /\ lease[q].state # "none"
                                   /\ lease[q].owner = flight[q].owner
                                   /\ lease[q].attempt = flight[q].attempt
      BY DEF OrderlyInv, LeasesFit, Inflight, Current, Leased
    <3> QED
      BY <1>1, <3>1, Parts DEF Inflight, Leased, Handles
  <2>2. /\ scan'.at \in Claiming => lease'[scan'.phase].owner = manager'.gen
        /\ scan'.at \in Retiring => flight'[scan'.phase].at = "none"
    BY <1>1, Numbers, Parts
       DEF OrderlyInv, LeasesFit, Claiming, Retiring, Inflight, Handles
  <2> QED
    BY <2>1, <2>2 DEF LeasesFit, Inflight
<1>5. JournalsFit'
  <2>1. \A q \in Phase : JournalFits(q)'
    <3> SUFFICES ASSUME NEW q \in Phase, lease'[q].state = "claiming"
                 PROVE  JournalFits(q)'
      BY DEF JournalFits
    <3>1. JournalFits(q)
      BY <1>1, Numbers DEF OrderlyInv, JournalsFit
    <3> QED
      <4>1. /\ UNCHANGED <<doc, used>> /\ lease[q].state = "claiming"
            /\ lease'[q].attempt = lease[q].attempt
            /\ flight'[q].at # "none" => flight[q].at # "none"
            /\ \A r \in Phase :
                 lease'[r].state # "none" => lease[r].state # "none"
        BY DEF Handles, Leased
      <4> QED
        BY <1>2, <3>1, <4>1 DEF JournalFits, Inflight, Leased
  <2>2. /\ scan'.at \in {"rename", "record"} =>
             lease'[scan'.phase].attempt = doc'.attempt[scan'.phase] + 1
        /\ scan'.at = "start" =>
             lease'[scan'.phase].attempt = doc'.attempt[scan'.phase]
    BY <1>1, Numbers, Parts
       DEF OrderlyInv, JournalsFit, Claiming, Retiring, Handles
  <2>3. scan'.at \in {"first", "second", "stale", "orphans"} \cup Retiring =>
          \A q \in Phase : lease'[q].state # "claiming"
    BY <1>1, Numbers, Parts
       DEF OrderlyInv, JournalsFit, Claiming, Retiring, Handles
  <2> QED
    BY <2>1, <2>2, <2>3 DEF JournalsFit
<1>6. AttemptsFit'
  <2>1. \A q \in Phase : lease[q].state = "claiming" => ~Inflight(q)
    BY DEF OrderlyInv, JournalsFit, JournalFits
  <2> QED
    BY <2>1 DEF OrderlyInv, AttemptsFit, Handles, Leased
<1>7. RetirementWaitsForDelivery'
  BY <1>1, <1>2, Parts
     DEF OrderlyInv, RetirementWaitsForDelivery, Leased, Handles
<1> QED
  BY <1>3, <1>4, <1>5, <1>6, <1>7 DEF OrderlyInv

\* A scan that goes on, or ends, keeps the second layer.
LEMMA WalkKeepsOrder ==
  ASSUME ClaimInv, OrderlyInv, Walks
  PROVE  OrderlyInv'
<1>1. TypeOK /\ OneRetained /\ NumbersFit
  BY DEF ClaimInv
<1>2. \A q \in Phase : Retained(q)' = Retained(q)
  BY <1>1 DEF Retained, Walks, turns
<1>3. PausesFit'
  BY <1>1 DEF OrderlyInv, PausesFit, TypeOK, Walks, turns
<1>4. LeasesFit'
  <2>1. \A q \in Phase : Inflight(q)' => Current(q)'
    <3> SUFFICES ASSUME NEW q \in Phase, flight'[q].at # "none"
                 PROVE  /\ lease'[q].state # "none"
                        /\ lease'[q].owner = flight'[q].owner
                        /\ lease'[q].attempt = flight'[q].attempt
      BY DEF Inflight, Current, Leased
    <3>1. flight[q].at # "none" => /\ lease[q].state # "none"
                                   /\ lease[q].owner = flight[q].owner
                                   /\ lease[q].attempt = flight[q].attempt
      BY DEF OrderlyInv, LeasesFit, Inflight, Current, Leased
    <3> QED
      BY <1>1, <3>1, Parts DEF Inflight, Leased, Walks, turns
  <2>2. /\ scan'.at \in Claiming => lease'[scan'.phase].owner = manager'.gen
        /\ scan'.at \in Retiring => flight'[scan'.phase].at = "none"
    BY <1>1, Numbers, Parts
       DEF OrderlyInv, LeasesFit, Claiming, Retiring, Inflight, Walks, turns
  <2> QED
    BY <2>1, <2>2 DEF LeasesFit, Inflight
<1>5. JournalsFit'
  <2>1. \A q \in Phase : JournalFits(q)'
    <3> SUFFICES ASSUME NEW q \in Phase, lease'[q].state = "claiming"
                 PROVE  JournalFits(q)'
      BY DEF JournalFits
    <3>1. JournalFits(q)
      BY <1>1, Numbers DEF OrderlyInv, JournalsFit
    <3> QED
      BY <1>1, <1>2, <3>1, Parts, Dirs, Phases
         DEF JournalFits, Inflight, Leased, Walks, turns
  <2>2. /\ scan'.at \in {"rename", "record"} =>
             lease'[scan'.phase].attempt = doc'.attempt[scan'.phase] + 1
        /\ scan'.at = "start" =>
             lease'[scan'.phase].attempt = doc'.attempt[scan'.phase]
    BY <1>1, Numbers, Parts
       DEF OrderlyInv, JournalsFit, Claiming, Retiring, Walks, turns
  <2>3. scan'.at \in {"first", "second", "stale", "orphans"} \cup Retiring =>
          \A q \in Phase : lease'[q].state # "claiming"
    <3>1. \A q \in Phase : lease[q].state = "claiming" => ~Inflight(q)
      BY DEF OrderlyInv, JournalsFit, JournalFits
    <3> QED
      BY <3>1 DEF OrderlyInv, JournalsFit, Retiring, Walks
  <2> QED
    BY <2>1, <2>2, <2>3 DEF JournalsFit
<1>6. AttemptsFit'
  BY <1>1, Numbers, Parts
     DEF OrderlyInv, AttemptsFit, Leased, Walks, turns
<1>7. RetirementWaitsForDelivery'
  BY <1>1, <1>2, Parts
     DEF OrderlyInv, RetirementWaitsForDelivery, Leased, Walks, turns
<1> QED
  BY <1>3, <1>4, <1>5, <1>6, <1>7 DEF OrderlyInv

\* So does a scan that takes up what is retained.
LEMMA AttachKeepsOrder ==
  ASSUME ClaimInv, OrderlyInv, AttachRetained
  PROVE  OrderlyInv'
<1>1. TypeOK /\ OneRetained /\ NumbersFit
  BY DEF ClaimInv
<1>2. \A q \in Phase : Retained(q)' = Retained(q)
  BY <1>1, AttachEffect DEF Retained
<1>3. PausesFit'
  BY <1>1, AttachEffect DEF OrderlyInv, PausesFit, TypeOK
<1>4. LeasesFit'
  <2>1. \A q \in Phase : Inflight(q)' => Current(q)'
    <3> SUFFICES ASSUME NEW q \in Phase, flight'[q].at # "none"
                 PROVE  /\ lease'[q].state # "none"
                        /\ lease'[q].owner = flight'[q].owner
                        /\ lease'[q].attempt = flight'[q].attempt
      BY DEF Inflight, Current, Leased
    <3>1. flight[q].at # "none" => /\ lease[q].state # "none"
                                   /\ lease[q].owner = flight[q].owner
                                   /\ lease[q].attempt = flight[q].attempt
      BY DEF OrderlyInv, LeasesFit, Inflight, Current, Leased
    <3> QED
      BY <1>1, <3>1, Parts, AttachEffect DEF Inflight, Leased
  <2>2. /\ scan'.at \in Claiming => lease'[scan'.phase].owner = manager'.gen
        /\ scan'.at \in Retiring => flight'[scan'.phase].at = "none"
    BY <1>1, Numbers, Parts, AttachEffect
       DEF OrderlyInv, LeasesFit, Claiming, Retiring, Inflight
  <2> QED
    BY <2>1, <2>2 DEF LeasesFit, Inflight
<1>5. JournalsFit'
  <2>1. \A q \in Phase : JournalFits(q)'
    <3> SUFFICES ASSUME NEW q \in Phase, lease'[q].state = "claiming"
                 PROVE  JournalFits(q)'
      BY DEF JournalFits
    <3>1. JournalFits(q)
      BY <1>1, Numbers DEF OrderlyInv, JournalsFit
    <3> QED
      BY <1>1, <1>2, <3>1, Parts, Dirs, Phases, AttachEffect
         DEF JournalFits, Inflight, Leased
  <2>2. /\ scan'.at \in {"rename", "record"} =>
             lease'[scan'.phase].attempt = doc'.attempt[scan'.phase] + 1
        /\ scan'.at = "start" =>
             lease'[scan'.phase].attempt = doc'.attempt[scan'.phase]
    BY <1>1, Numbers, Parts, AttachEffect
       DEF OrderlyInv, JournalsFit, Claiming, Retiring
  <2>3. scan'.at \in {"first", "second", "stale", "orphans"} \cup Retiring =>
          \A q \in Phase : lease'[q].state # "claiming"
    BY <1>1, Numbers, Parts, AttachEffect
       DEF OrderlyInv, JournalsFit, Claiming, Retiring
  <2> QED
    BY <2>1, <2>2, <2>3 DEF JournalsFit
<1>6. AttemptsFit'
  BY <1>1, Numbers, Parts, AttachEffect
     DEF OrderlyInv, AttemptsFit, Leased
<1>7. RetirementWaitsForDelivery'
  BY <1>1, <1>2, Parts, AttachEffect
     DEF OrderlyInv, RetirementWaitsForDelivery, Leased
<1> QED
  BY <1>3, <1>4, <1>5, <1>6, <1>7 DEF OrderlyInv

\* So does one that finishes an interrupted claim.
LEMMA ResumeKeepsOrder ==
  ASSUME ClaimInv, OrderlyInv, NEW ph \in Phase, ResumeClaim(ph)
  PROVE  OrderlyInv'
<1>1. TypeOK /\ OneRetained /\ NumbersFit
  BY DEF ClaimInv
<1>2. \A q \in Phase : Retained(q)' = Retained(q)
  BY <1>1, ResumeEffect DEF Retained, turns
<1>3. PausesFit'
  BY <1>1, ResumeEffect DEF OrderlyInv, PausesFit, TypeOK, turns
<1>4. LeasesFit'
  <2>1. \A q \in Phase : Inflight(q)' => Current(q)'
    <3> SUFFICES ASSUME NEW q \in Phase, flight'[q].at # "none"
                 PROVE  /\ lease'[q].state # "none"
                        /\ lease'[q].owner = flight'[q].owner
                        /\ lease'[q].attempt = flight'[q].attempt
      BY DEF Inflight, Current, Leased
    <3>1. flight[q].at # "none" => /\ lease[q].state # "none"
                                   /\ lease[q].owner = flight[q].owner
                                   /\ lease[q].attempt = flight[q].attempt
      BY DEF OrderlyInv, LeasesFit, Inflight, Current, Leased
    <3> QED
      BY <1>1, <3>1, Parts, ResumeEffect DEF Inflight, Leased, turns
  <2>2. /\ scan'.at \in Claiming => lease'[scan'.phase].owner = manager'.gen
        /\ scan'.at \in Retiring => flight'[scan'.phase].at = "none"
    BY <1>1, Numbers, Parts, ResumeEffect
       DEF OrderlyInv, LeasesFit, Claiming, Retiring, Inflight, turns
  <2> QED
    BY <2>1, <2>2 DEF LeasesFit, Inflight
<1>5. JournalsFit'
  <2>1. \A q \in Phase : JournalFits(q)'
    <3> SUFFICES ASSUME NEW q \in Phase, lease'[q].state = "claiming"
                 PROVE  JournalFits(q)'
      BY DEF JournalFits
    <3>1. JournalFits(q)
      BY <1>1, Numbers DEF OrderlyInv, JournalsFit
    <3> QED
      BY <1>1, <1>2, <3>1, Parts, Dirs, Phases, ResumeEffect
         DEF JournalFits, Inflight, Leased, turns
  <2>2. /\ scan'.at \in {"rename", "record"} =>
             lease'[scan'.phase].attempt = doc'.attempt[scan'.phase] + 1
        /\ scan'.at = "start" =>
             lease'[scan'.phase].attempt = doc'.attempt[scan'.phase]
    BY <1>1, Numbers, Parts, ResumeEffect
       DEF OrderlyInv, JournalsFit, Claiming, Retiring, turns
  <2>3. scan'.at \in {"first", "second", "stale", "orphans"} \cup Retiring =>
          \A q \in Phase : lease'[q].state # "claiming"
    BY <1>1, Numbers, Parts, ResumeEffect
       DEF OrderlyInv, JournalsFit, Claiming, Retiring, turns
  <2> QED
    BY <2>1, <2>2, <2>3 DEF JournalsFit
<1>6. AttemptsFit'
  <2> SUFFICES ASSUME NEW q \in Phase
               PROVE  /\ lease'[q].state \notin {"none", "claiming"} =>
                           lease'[q].attempt <= doc'.attempt[q]
                      /\ \A n \in Attempt : <<q, n>> \in used' =>
                           n <= doc'.attempt[q]
    BY DEF AttemptsFit, Leased
  <2>1. /\ lease[q].state \notin {"none", "claiming"} =>
             lease[q].attempt <= doc.attempt[q]
        /\ \A n \in Attempt : <<q, n>> \in used => n <= doc.attempt[q]
    BY DEF OrderlyInv, AttemptsFit, Leased
  <2>2. JournalFits(q)
    BY DEF OrderlyInv, JournalsFit
  <2> QED
    BY <1>1, <2>1, <2>2, Numbers, Parts, ResumeEffect
       DEF JournalFits, Inflight, turns
<1>7. RetirementWaitsForDelivery'
  BY <1>1, <1>2, Parts, ResumeEffect
     DEF OrderlyInv, RetirementWaitsForDelivery, Leased, turns
<1> QED
  BY <1>3, <1>4, <1>5, <1>6, <1>7 DEF OrderlyInv

\* So does one that settles a document.
LEMMA SettleKeepsOrder ==
  ASSUME ClaimInv, OrderlyInv, Reconcile, ~Walks
  PROVE  OrderlyInv'
<1>1. TypeOK /\ OneRetained /\ NumbersFit
  BY DEF ClaimInv
<1>2. \A q \in Phase : Retained(q)' = Retained(q)
  BY <1>1, ReconcileEffect DEF Retained, turns
<1>3. PausesFit'
  BY <1>1, ReconcileEffect DEF OrderlyInv, PausesFit, TypeOK, turns
<1>4. LeasesFit'
  <2>1. \A q \in Phase : Inflight(q)' => Current(q)'
    <3> SUFFICES ASSUME NEW q \in Phase, flight'[q].at # "none"
                 PROVE  /\ lease'[q].state # "none"
                        /\ lease'[q].owner = flight'[q].owner
                        /\ lease'[q].attempt = flight'[q].attempt
      BY DEF Inflight, Current, Leased
    <3>1. flight[q].at # "none" => /\ lease[q].state # "none"
                                   /\ lease[q].owner = flight[q].owner
                                   /\ lease[q].attempt = flight[q].attempt
      BY DEF OrderlyInv, LeasesFit, Inflight, Current, Leased
    <3> QED
      BY <1>1, <3>1, Parts, ReconcileEffect DEF Inflight, Leased, turns
  <2>2. /\ scan'.at \in Claiming => lease'[scan'.phase].owner = manager'.gen
        /\ scan'.at \in Retiring => flight'[scan'.phase].at = "none"
    BY <1>1, Numbers, Parts, ReconcileEffect
       DEF OrderlyInv, LeasesFit, Claiming, Retiring, Inflight, turns, Transitioned
  <2> QED
    BY <2>1, <2>2 DEF LeasesFit, Inflight
<1>5. JournalsFit'
  <2>1. \A q \in Phase : JournalFits(q)'
    <3>1. \A q \in Phase : lease[q].state # "claiming"
      BY <1>1, ReconcileEffect DEF OrderlyInv, JournalsFit, Retiring
    <3>2. \A q \in Phase : lease'[q].state # "claiming"
      BY <1>1, <3>1, ReconcileEffect, Parts
    <3> QED
      BY <3>2 DEF JournalFits
  <2>2. /\ scan'.at \in {"rename", "record"} =>
             lease'[scan'.phase].attempt = doc'.attempt[scan'.phase] + 1
        /\ scan'.at = "start" =>
             lease'[scan'.phase].attempt = doc'.attempt[scan'.phase]
    BY <1>1, Numbers, Parts, ReconcileEffect
       DEF OrderlyInv, JournalsFit, Claiming, Retiring, turns
  <2>3. scan'.at \in {"first", "second", "stale", "orphans"} \cup Retiring =>
          \A q \in Phase : lease'[q].state # "claiming"
    BY <1>1, Numbers, Parts, ReconcileEffect
       DEF OrderlyInv, JournalsFit, Claiming, Retiring, turns
  <2> QED
    BY <2>1, <2>2, <2>3 DEF JournalsFit
<1>6. AttemptsFit'
  <2> SUFFICES ASSUME NEW q \in Phase
               PROVE  /\ lease'[q].state \notin {"none", "claiming"} =>
                           lease'[q].attempt <= doc'.attempt[q]
                      /\ \A n \in Attempt : <<q, n>> \in used' =>
                           n <= doc'.attempt[q]
    BY DEF AttemptsFit, Leased
  <2>1. /\ lease[q].state \notin {"none", "claiming"} =>
             lease[q].attempt <= doc.attempt[q]
        /\ \A n \in Attempt : <<q, n>> \in used => n <= doc.attempt[q]
    BY DEF OrderlyInv, AttemptsFit, Leased
  <2>2. JournalFits(q)
    BY DEF OrderlyInv, JournalsFit
  <2> QED
    BY <1>1, <2>1, <2>2, Numbers, Parts, ReconcileEffect
       DEF JournalFits, Inflight, turns
<1>7. RetirementWaitsForDelivery'
  BY <1>1, <1>2, Parts, ReconcileEffect
     DEF OrderlyInv, RetirementWaitsForDelivery, Leased, turns
<1> QED
  BY <1>3, <1>4, <1>5, <1>6, <1>7 DEF OrderlyInv

\* So does one that retires the lease of a document that has left.
LEMMA RetireKeepsOrder ==
  ASSUME ClaimInv, OrderlyInv, Retire
  PROVE  OrderlyInv'
<1>1. TypeOK /\ OneRetained /\ NumbersFit
  BY DEF ClaimInv
<1>2. \A q \in Phase : Retained(q)' = Retained(q)
  BY <1>1, RetireEffect DEF Retained, turns
<1>3. PausesFit'
  BY <1>1, RetireEffect DEF OrderlyInv, PausesFit, Retiring
<1>4. LeasesFit'
  <2>1. \A q \in Phase : Inflight(q)' => Current(q)'
    <3> SUFFICES ASSUME NEW q \in Phase, flight'[q].at # "none"
                 PROVE  /\ lease'[q].state # "none"
                        /\ lease'[q].owner = flight'[q].owner
                        /\ lease'[q].attempt = flight'[q].attempt
      BY DEF Inflight, Current, Leased
    <3>1. flight[q].at # "none" => /\ lease[q].state # "none"
                                   /\ lease[q].owner = flight[q].owner
                                   /\ lease[q].attempt = flight[q].attempt
      BY DEF OrderlyInv, LeasesFit, Inflight, Current, Leased
    <3> QED
      BY <1>1, <3>1, Parts, RetireEffect
         DEF Inflight, Leased, turns, OrderlyInv, LeasesFit, NoLease
  <2>2. /\ scan'.at \in Claiming => lease'[scan'.phase].owner = manager'.gen
        /\ scan'.at \in Retiring => flight'[scan'.phase].at = "none"
    BY <1>1, Numbers, Parts, RetireEffect
       DEF OrderlyInv, LeasesFit, Claiming, Retiring, Inflight, turns
  <2> QED
    BY <2>1, <2>2 DEF LeasesFit, Inflight
<1>5. JournalsFit'
  <2>1. \A q \in Phase : JournalFits(q)'
    <3> SUFFICES ASSUME NEW q \in Phase, lease'[q].state = "claiming"
                 PROVE  JournalFits(q)'
      BY DEF JournalFits
    <3>1. JournalFits(q)
      BY <1>1, Numbers DEF OrderlyInv, JournalsFit
    <3> QED
      BY <1>1, <1>2, <3>1, Parts, Dirs, Phases, RetireEffect
         DEF JournalFits, Inflight, Leased, turns
  <2>2. /\ scan'.at \in {"rename", "record"} =>
             lease'[scan'.phase].attempt = doc'.attempt[scan'.phase] + 1
        /\ scan'.at = "start" =>
             lease'[scan'.phase].attempt = doc'.attempt[scan'.phase]
    BY <1>1, Numbers, Parts, RetireEffect
       DEF OrderlyInv, JournalsFit, Claiming, Retiring, turns
  <2>3. scan'.at \in {"first", "second", "stale", "orphans"} \cup Retiring =>
          \A q \in Phase : lease'[q].state # "claiming"
    BY <1>1, Numbers, Parts, RetireEffect
       DEF OrderlyInv, JournalsFit, Claiming, Retiring, turns
  <2> QED
    BY <2>1, <2>2, <2>3 DEF JournalsFit
<1>6. AttemptsFit'
  BY <1>1, Numbers, Parts, RetireEffect
     DEF OrderlyInv, AttemptsFit, Leased, turns
<1>7. RetirementWaitsForDelivery'
  <2>1. Retained(scan.phase) = {}
    BY <1>1, RetireEffect, Numbers
       DEF ClaimInv, ScanFits, OrderlyInv, PausesFit, LeasesFit, Retiring
  <2> QED
    BY <1>1, <1>2, <2>1, RetireEffect
       DEF OrderlyInv, RetirementWaitsForDelivery, Leased
<1> QED
  BY <1>3, <1>4, <1>5, <1>6, <1>7 DEF OrderlyInv

\* So does one that recovers what has been abandoned.
LEMMA StaleKeepsOrder ==
  ASSUME ClaimInv, OrderlyInv, RecoverStale
  PROVE  OrderlyInv'
<1>1. TypeOK /\ OneRetained /\ NumbersFit
  BY DEF ClaimInv
<1>2. \A q \in Phase : Retained(q)' = Retained(q)
  BY <1>1, StaleEffect DEF Retained, turns
<1>3. PausesFit'
  BY <1>1, StaleEffect DEF OrderlyInv, PausesFit, TypeOK, turns
<1>4. LeasesFit'
  <2>1. \A q \in Phase : Inflight(q)' => Current(q)'
    <3> SUFFICES ASSUME NEW q \in Phase, flight'[q].at # "none"
                 PROVE  /\ lease'[q].state # "none"
                        /\ lease'[q].owner = flight'[q].owner
                        /\ lease'[q].attempt = flight'[q].attempt
      BY DEF Inflight, Current, Leased
    <3>1. flight[q].at # "none" => /\ lease[q].state # "none"
                                   /\ lease[q].owner = flight[q].owner
                                   /\ lease[q].attempt = flight[q].attempt
      BY DEF OrderlyInv, LeasesFit, Inflight, Current, Leased
    <3> QED
      BY <1>1, <3>1, Parts, StaleEffect DEF Inflight, Leased, turns
  <2>2. /\ scan'.at \in Claiming => lease'[scan'.phase].owner = manager'.gen
        /\ scan'.at \in Retiring => flight'[scan'.phase].at = "none"
    BY <1>1, Numbers, Parts, StaleEffect
       DEF OrderlyInv, LeasesFit, Claiming, Retiring, Inflight, turns
  <2> QED
    BY <2>1, <2>2 DEF LeasesFit, Inflight
<1>5. JournalsFit'
  <2>1. \A q \in Phase : JournalFits(q)'
    <3>1. \A q \in Phase : lease[q].state # "claiming"
      BY <1>1, StaleEffect DEF OrderlyInv, JournalsFit, Retiring
    <3>2. \A q \in Phase : lease'[q].state # "claiming"
      BY <1>1, <3>1, StaleEffect, Parts
    <3> QED
      BY <3>2 DEF JournalFits
  <2>2. /\ scan'.at \in {"rename", "record"} =>
             lease'[scan'.phase].attempt = doc'.attempt[scan'.phase] + 1
        /\ scan'.at = "start" =>
             lease'[scan'.phase].attempt = doc'.attempt[scan'.phase]
    BY <1>1, Numbers, Parts, StaleEffect
       DEF OrderlyInv, JournalsFit, Claiming, Retiring, turns
  <2>3. scan'.at \in {"first", "second", "stale", "orphans"} \cup Retiring =>
          \A q \in Phase : lease'[q].state # "claiming"
    BY <1>1, Numbers, Parts, StaleEffect
       DEF OrderlyInv, JournalsFit, Claiming, Retiring, turns
  <2> QED
    BY <2>1, <2>2, <2>3 DEF JournalsFit
<1>6. AttemptsFit'
  <2> SUFFICES ASSUME NEW q \in Phase
               PROVE  /\ lease'[q].state \notin {"none", "claiming"} =>
                           lease'[q].attempt <= doc'.attempt[q]
                      /\ \A n \in Attempt : <<q, n>> \in used' =>
                           n <= doc'.attempt[q]
    BY DEF AttemptsFit, Leased
  <2>1. /\ lease[q].state \notin {"none", "claiming"} =>
             lease[q].attempt <= doc.attempt[q]
        /\ \A n \in Attempt : <<q, n>> \in used => n <= doc.attempt[q]
    BY DEF OrderlyInv, AttemptsFit, Leased
  <2>2. JournalFits(q)
    BY DEF OrderlyInv, JournalsFit
  <2>3. lease[q].state # "claiming" /\ used' = used
    BY <1>1, StaleEffect DEF OrderlyInv, JournalsFit, turns
  <2> QED
    BY <1>1, <2>1, <2>2, Numbers, Parts, StaleEffect, <2>3
       DEF JournalFits, Inflight, Leased
<1>7. RetirementWaitsForDelivery'
  BY <1>1, <1>2, Parts, StaleEffect
     DEF OrderlyInv, RetirementWaitsForDelivery, Leased, turns
<1> QED
  BY <1>3, <1>4, <1>5, <1>6, <1>7 DEF OrderlyInv

\* So does one that recovers a claimed document without a lease.
LEMMA OrphanKeepsOrder ==
  ASSUME ClaimInv, OrderlyInv, NEW ph \in Phase, RecoverOrphan(ph)
  PROVE  OrderlyInv'
<1>1. TypeOK /\ OneRetained /\ NumbersFit
  BY DEF ClaimInv
<1>2. \A q \in Phase : Retained(q)' = Retained(q)
  BY <1>1, OrphanEffect DEF Retained, turns
<1>3. PausesFit'
  BY <1>1, OrphanEffect DEF OrderlyInv, PausesFit, TypeOK, turns
<1>4. LeasesFit'
  <2>1. \A q \in Phase : Inflight(q)' => Current(q)'
    <3> SUFFICES ASSUME NEW q \in Phase, flight'[q].at # "none"
                 PROVE  /\ lease'[q].state # "none"
                        /\ lease'[q].owner = flight'[q].owner
                        /\ lease'[q].attempt = flight'[q].attempt
      BY DEF Inflight, Current, Leased
    <3>1. flight[q].at # "none" => /\ lease[q].state # "none"
                                   /\ lease[q].owner = flight[q].owner
                                   /\ lease[q].attempt = flight[q].attempt
      BY DEF OrderlyInv, LeasesFit, Inflight, Current, Leased
    <3> QED
      BY <1>1, <3>1, Parts, OrphanEffect DEF Inflight, Leased, turns
  <2>2. /\ scan'.at \in Claiming => lease'[scan'.phase].owner = manager'.gen
        /\ scan'.at \in Retiring => flight'[scan'.phase].at = "none"
    BY <1>1, Numbers, Parts, OrphanEffect
       DEF OrderlyInv, LeasesFit, Claiming, Retiring, Inflight, turns
  <2> QED
    BY <2>1, <2>2 DEF LeasesFit, Inflight
<1>5. JournalsFit'
  <2>1. \A q \in Phase : JournalFits(q)'
    <3>1. \A q \in Phase : lease[q].state # "claiming"
      BY <1>1, OrphanEffect DEF OrderlyInv, JournalsFit, Retiring
    <3>2. \A q \in Phase : lease'[q].state # "claiming"
      BY <1>1, <3>1, OrphanEffect, Parts
    <3> QED
      BY <3>2 DEF JournalFits
  <2>2. /\ scan'.at \in {"rename", "record"} =>
             lease'[scan'.phase].attempt = doc'.attempt[scan'.phase] + 1
        /\ scan'.at = "start" =>
             lease'[scan'.phase].attempt = doc'.attempt[scan'.phase]
    BY <1>1, Numbers, Parts, OrphanEffect
       DEF OrderlyInv, JournalsFit, Claiming, Retiring, turns
  <2>3. scan'.at \in {"first", "second", "stale", "orphans"} \cup Retiring =>
          \A q \in Phase : lease'[q].state # "claiming"
    <3>1. \A q \in Phase : lease[q].state # "claiming"
      BY <1>1, OrphanEffect DEF OrderlyInv, JournalsFit
    <3> QED
      BY <1>1, <3>1, OrphanEffect, Parts
  <2> QED
    BY <2>1, <2>2, <2>3 DEF JournalsFit
<1>6. AttemptsFit'
  BY <1>1, Numbers, Parts, OrphanEffect
     DEF OrderlyInv, AttemptsFit, Leased, turns
<1>7. RetirementWaitsForDelivery'
  BY <1>1, <1>2, Parts, OrphanEffect
     DEF OrderlyInv, RetirementWaitsForDelivery, Leased, turns
<1> QED
  BY <1>3, <1>4, <1>5, <1>6, <1>7 DEF OrderlyInv

\* So does one that puts a document into a queue.
LEMMA QueueKeepsOrder ==
  ASSUME ClaimInv, OrderlyInv, Wake \/ BypassReview
  PROVE  OrderlyInv'
<1>1. TypeOK /\ OneRetained /\ NumbersFit
  BY DEF ClaimInv
<1>2. \A q \in Phase : Retained(q)' = Retained(q)
  BY <1>1, QueueEffect DEF Retained, turns
<1>3. PausesFit'
  BY <1>1, QueueEffect DEF OrderlyInv, PausesFit, TypeOK, turns
<1>4. LeasesFit'
  <2>1. \A q \in Phase : Inflight(q)' => Current(q)'
    <3> SUFFICES ASSUME NEW q \in Phase, flight'[q].at # "none"
                 PROVE  /\ lease'[q].state # "none"
                        /\ lease'[q].owner = flight'[q].owner
                        /\ lease'[q].attempt = flight'[q].attempt
      BY DEF Inflight, Current, Leased
    <3>1. flight[q].at # "none" => /\ lease[q].state # "none"
                                   /\ lease[q].owner = flight[q].owner
                                   /\ lease[q].attempt = flight[q].attempt
      BY DEF OrderlyInv, LeasesFit, Inflight, Current, Leased
    <3> QED
      BY <1>1, <3>1, Parts, QueueEffect DEF Inflight, Leased, turns
  <2>2. /\ scan'.at \in Claiming => lease'[scan'.phase].owner = manager'.gen
        /\ scan'.at \in Retiring => flight'[scan'.phase].at = "none"
    BY <1>1, Numbers, Parts, QueueEffect
       DEF OrderlyInv, LeasesFit, Claiming, Retiring, Inflight, turns
  <2> QED
    BY <2>1, <2>2 DEF LeasesFit, Inflight
<1>5. JournalsFit'
  <2>1. \A q \in Phase : JournalFits(q)'
    <3> SUFFICES ASSUME NEW q \in Phase, lease'[q].state = "claiming"
                 PROVE  JournalFits(q)'
      BY DEF JournalFits
    <3>1. JournalFits(q) /\ lease[q].state = "claiming"
      BY <1>1, QueueEffect DEF OrderlyInv, JournalsFit
    <3>2. doc' = doc
      <4>1. doc.dir \in {Queue(q), Claimed(q)} /\ Leased(q)
        BY <3>1 DEF JournalFits, Leased
      <4>2. doc.dir # "waiting"
        BY <4>1 DEF Queue, Claimed
      <4> QED
        BY <1>1, <4>1, <4>2, QueueEffect
    <3>3. UNCHANGED <<lease, flight, used>>
      BY <1>1, QueueEffect DEF turns
    <3> QED
      BY <1>2, <3>1, <3>2, <3>3 DEF JournalFits, Inflight, Leased
  <2>2. /\ scan'.at \in {"rename", "record"} =>
             lease'[scan'.phase].attempt = doc'.attempt[scan'.phase] + 1
        /\ scan'.at = "start" =>
             lease'[scan'.phase].attempt = doc'.attempt[scan'.phase]
    BY <1>1, Numbers, Parts, QueueEffect
       DEF OrderlyInv, JournalsFit, Claiming, Retiring, turns
  <2>3. scan'.at \in {"first", "second", "stale", "orphans"} \cup Retiring =>
          \A q \in Phase : lease'[q].state # "claiming"
    BY <1>1, Numbers, Parts, QueueEffect
       DEF OrderlyInv, JournalsFit, Claiming, Retiring, turns
  <2> QED
    BY <2>1, <2>2, <2>3 DEF JournalsFit
<1>6. AttemptsFit'
  BY <1>1, Numbers, Parts, QueueEffect
     DEF OrderlyInv, AttemptsFit, Leased, turns
<1>7. RetirementWaitsForDelivery'
  BY <1>1, <1>2, Parts, QueueEffect
     DEF OrderlyInv, RetirementWaitsForDelivery, Leased, turns
<1> QED
  BY <1>3, <1>4, <1>5, <1>6, <1>7 DEF OrderlyInv

\* So does one that journals a claim.
LEMMA JournalKeepsOrder ==
  ASSUME ClaimInv, OrderlyInv, Journal
  PROVE  OrderlyInv'
<1>1. TypeOK /\ OneRetained /\ NumbersFit
  BY DEF ClaimInv
<1>2. \A q \in Phase : Retained(q)' = Retained(q)
  BY <1>1, JournalEffect DEF Retained, turns
<1>3. PausesFit'
  BY <1>1, JournalEffect DEF OrderlyInv, PausesFit, TypeOK, turns
<1>4. LeasesFit'
  <2>1. \A q \in Phase : Inflight(q)' => Current(q)'
    <3> SUFFICES ASSUME NEW q \in Phase, flight[q].at # "none"
                 PROVE  /\ lease'[q].state # "none"
                        /\ lease'[q].owner = flight[q].owner
                        /\ lease'[q].attempt = flight[q].attempt
      BY <1>1, JournalEffect DEF Inflight, Current, Leased
    <3>1. /\ lease[q].state # "none"
          /\ lease[q].owner = flight[q].owner
          /\ lease[q].attempt = flight[q].attempt
      BY DEF OrderlyInv, LeasesFit, Inflight, Current, Leased
    <3> QED
      BY <1>1, <3>1, JournalEffect DEF Leased
  <2>2. lease'[scan'.phase].owner = manager'.gen /\ scan'.at \notin Retiring
    <3>1. lease'[scan.phase].owner = manager.gen
      BY <1>1, JournalEffect, Parts
    <3>2. manager' = manager /\ scan'.phase = scan.phase /\ scan'.at = "rename"
      BY <1>1, JournalEffect
    <3> QED
      BY <3>1, <3>2 DEF Retiring
  <2> QED
    BY <2>1, <2>2 DEF LeasesFit
<1>5. JournalsFit'
  <2>1. \A q \in Phase : JournalFits(q)'
    <3> SUFFICES ASSUME NEW q \in Phase, lease'[q].state = "claiming"
                 PROVE  JournalFits(q)'
      BY DEF JournalFits
    <3>1. q = scan.phase
      BY <1>1, JournalEffect DEF Leased
    <3>2. /\ ~Inflight(q) /\ Retained(q) = {} /\ doc.dir = Queue(q)
          /\ \A p \in Phase : p # q => ~Leased(p)'
      BY <1>1, <3>1, JournalEffect
         DEF OrderlyInv, RetirementWaitsForDelivery, Leased
    <3>3. /\ lease'[q].attempt = doc.attempt[q] + 1 /\ doc.attempt[q] \in Nat
          /\ lease'[q].attempt \in Attempt
      BY <1>1, <3>1, JournalEffect, Parts, Numbers
    <3>4. <<q, lease'[q].attempt>> \notin used
      BY <3>3 DEF OrderlyInv, AttemptsFit
    <3>5. UNCHANGED <<doc, flight, used>>
      BY <1>1, JournalEffect DEF turns
    <3> QED
      BY <1>2, <3>2, <3>3, <3>4, <3>5 DEF JournalFits, Inflight
  <2>2. /\ scan'.at \in {"rename", "record"} =>
             lease'[scan'.phase].attempt = doc'.attempt[scan'.phase] + 1
        /\ scan'.at = "start" =>
             lease'[scan'.phase].attempt = doc'.attempt[scan'.phase]
    <3>1. /\ scan'.at = "rename" /\ scan'.phase = scan.phase /\ doc' = doc
          /\ lease'[scan.phase].attempt = doc.attempt[scan.phase] + 1
      BY <1>1, JournalEffect, Parts
    <3> QED
      BY <3>1
  <2>3. scan'.at \in {"first", "second", "stale", "orphans"} \cup Retiring =>
          \A q \in Phase : lease'[q].state # "claiming"
    BY <1>1, Numbers, Parts, JournalEffect
       DEF OrderlyInv, JournalsFit, Claiming, Retiring, turns
  <2> QED
    BY <2>1, <2>2, <2>3 DEF JournalsFit
<1>6. AttemptsFit'
  BY <1>1, Numbers, Parts, JournalEffect
     DEF OrderlyInv, AttemptsFit, Leased, turns
<1>7. RetirementWaitsForDelivery'
  BY <1>1, <1>2, Parts, JournalEffect
     DEF OrderlyInv, RetirementWaitsForDelivery, Leased, turns
<1> QED
  BY <1>3, <1>4, <1>5, <1>6, <1>7 DEF OrderlyInv

\* So does one that moves the document it claims, or gives up.
LEMMA RenameKeepsOrder ==
  ASSUME ClaimInv, OrderlyInv, Rename
  PROVE  OrderlyInv'
<1>1. TypeOK /\ OneRetained /\ NumbersFit
  BY DEF ClaimInv
<1>2. \A q \in Phase : Retained(q)' = Retained(q)
  BY <1>1, RenameEffect DEF Retained, turns
<1>3. PausesFit'
  BY <1>1, RenameEffect DEF OrderlyInv, PausesFit, TypeOK, turns
<1>4. LeasesFit'
  <2>1. \A q \in Phase : Inflight(q)' => Current(q)'
    <3> SUFFICES ASSUME NEW q \in Phase, flight'[q].at # "none"
                 PROVE  /\ lease'[q].state # "none"
                        /\ lease'[q].owner = flight'[q].owner
                        /\ lease'[q].attempt = flight'[q].attempt
      BY DEF Inflight, Current, Leased
    <3>1. flight[q].at # "none" => /\ lease[q].state # "none"
                                   /\ lease[q].owner = flight[q].owner
                                   /\ lease[q].attempt = flight[q].attempt
      BY DEF OrderlyInv, LeasesFit, Inflight, Current, Leased
    <3> QED
      BY <1>1, <3>1, Parts, RenameEffect
         DEF Inflight, Leased, turns, ClaimInv, ClaimFits, Claiming
  <2>2. /\ scan'.at \in Claiming => lease'[scan'.phase].owner = manager'.gen
        /\ scan'.at \in Retiring => flight'[scan'.phase].at = "none"
    BY <1>1, Numbers, Parts, RenameEffect
       DEF OrderlyInv, LeasesFit, Claiming, Retiring, Inflight, turns
  <2> QED
    BY <2>1, <2>2 DEF LeasesFit, Inflight
<1>5. JournalsFit'
  <2>1. \A q \in Phase : JournalFits(q)'
    <3> SUFFICES ASSUME NEW q \in Phase, lease'[q].state = "claiming"
                 PROVE  JournalFits(q)'
      BY DEF JournalFits
    <3>1. JournalFits(q)
      BY <1>1, Numbers DEF OrderlyInv, JournalsFit
    <3> QED
      BY <1>1, <1>2, <3>1, Parts, Dirs, Phases, RenameEffect
         DEF JournalFits, Inflight, Leased, turns
  <2>2. /\ scan'.at \in {"rename", "record"} =>
             lease'[scan'.phase].attempt = doc'.attempt[scan'.phase] + 1
        /\ scan'.at = "start" =>
             lease'[scan'.phase].attempt = doc'.attempt[scan'.phase]
    BY <1>1, Numbers, Parts, RenameEffect
       DEF OrderlyInv, JournalsFit, Claiming, Retiring, turns
  <2>3. scan'.at \in {"first", "second", "stale", "orphans"} \cup Retiring =>
          \A q \in Phase : lease'[q].state # "claiming"
    BY <1>1, Numbers, Parts, RenameEffect
       DEF OrderlyInv, JournalsFit, Claiming, Retiring, turns
  <2> QED
    BY <2>1, <2>2, <2>3 DEF JournalsFit
<1>6. AttemptsFit'
  BY <1>1, Numbers, Parts, RenameEffect
     DEF OrderlyInv, AttemptsFit, Leased, turns
<1>7. RetirementWaitsForDelivery'
  <2>1. Retained(scan.phase) = {}
    BY <1>1, RenameEffect, Numbers
       DEF ClaimInv, ClaimFits, Claiming, OrderlyInv, JournalsFit, JournalFits
  <2> QED
    BY <1>1, <1>2, <2>1, RenameEffect
       DEF OrderlyInv, RetirementWaitsForDelivery, Leased
<1> QED
  BY <1>3, <1>4, <1>5, <1>6, <1>7 DEF OrderlyInv

\* So does one that records the claim in the document.
LEMMA RecordKeepsOrder ==
  ASSUME ClaimInv, OrderlyInv, Record
  PROVE  OrderlyInv'
<1>1. TypeOK /\ OneRetained /\ NumbersFit
  BY DEF ClaimInv
<1>2. \A q \in Phase : Retained(q)' = Retained(q)
  BY <1>1, RecordEffect DEF Retained, turns
<1>3. PausesFit'
  BY <1>1, RecordEffect DEF OrderlyInv, PausesFit, TypeOK, turns
<1>4. LeasesFit'
  <2>1. \A q \in Phase : Inflight(q)' => Current(q)'
    <3> SUFFICES ASSUME NEW q \in Phase, flight'[q].at # "none"
                 PROVE  /\ lease'[q].state # "none"
                        /\ lease'[q].owner = flight'[q].owner
                        /\ lease'[q].attempt = flight'[q].attempt
      BY DEF Inflight, Current, Leased
    <3>1. flight[q].at # "none" => /\ lease[q].state # "none"
                                   /\ lease[q].owner = flight[q].owner
                                   /\ lease[q].attempt = flight[q].attempt
      BY DEF OrderlyInv, LeasesFit, Inflight, Current, Leased
    <3> QED
      BY <1>1, <3>1, Parts, RecordEffect DEF Inflight, Leased, turns
  <2>2. /\ scan'.at \in Claiming => lease'[scan'.phase].owner = manager'.gen
        /\ scan'.at \in Retiring => flight'[scan'.phase].at = "none"
    BY <1>1, Numbers, Parts, RecordEffect
       DEF OrderlyInv, LeasesFit, Claiming, Retiring, Inflight, turns
  <2> QED
    BY <2>1, <2>2 DEF LeasesFit, Inflight
<1>5. JournalsFit'
  <2>1. \A q \in Phase : JournalFits(q)'
    <3> SUFFICES ASSUME NEW q \in Phase, lease'[q].state = "claiming"
                 PROVE  JournalFits(q)'
      BY DEF JournalFits
    <3>1. scan.phase \in Phase /\ lease[scan.phase].state = "claiming"
      BY <1>1, RecordEffect, Numbers DEF ClaimInv, ClaimFits, Claiming
    <3>2. JournalFits(scan.phase)
      BY <3>1 DEF OrderlyInv, JournalsFit
    <3>3. q = scan.phase /\ UNCHANGED <<lease, flight, used>>
      BY <1>1, <3>1, <3>2, RecordEffect DEF JournalFits, Leased, turns
    <3> QED
      BY <1>1, <1>2, <3>1, <3>2, <3>3, RecordEffect, Numbers
         DEF JournalFits, Inflight, Leased
  <2>2. /\ scan'.at \in {"rename", "record"} =>
             lease'[scan'.phase].attempt = doc'.attempt[scan'.phase] + 1
        /\ scan'.at = "start" =>
             lease'[scan'.phase].attempt = doc'.attempt[scan'.phase]
    BY <1>1, Numbers, Parts, RecordEffect
       DEF OrderlyInv, JournalsFit, Claiming, Retiring, turns
  <2>3. scan'.at \in {"first", "second", "stale", "orphans"} \cup Retiring =>
          \A q \in Phase : lease'[q].state # "claiming"
    BY <1>1, Numbers, Parts, RecordEffect
       DEF OrderlyInv, JournalsFit, Claiming, Retiring, turns
  <2> QED
    BY <2>1, <2>2, <2>3 DEF JournalsFit
<1>6. AttemptsFit'
  <2> SUFFICES ASSUME NEW q \in Phase
               PROVE  /\ lease'[q].state \notin {"none", "claiming"} =>
                           lease'[q].attempt <= doc'.attempt[q]
                      /\ \A n \in Attempt : <<q, n>> \in used' =>
                           n <= doc'.attempt[q]
    BY DEF AttemptsFit, Leased
  <2>1. /\ lease[q].state \notin {"none", "claiming"} =>
             lease[q].attempt <= doc.attempt[q]
        /\ \A n \in Attempt : <<q, n>> \in used => n <= doc.attempt[q]
    BY DEF OrderlyInv, AttemptsFit, Leased
  <2>2. JournalFits(q)
    BY DEF OrderlyInv, JournalsFit
  <2>3. lease[scan.phase].state = "claiming" /\ used' = used
    BY <1>1, RecordEffect DEF ClaimInv, ClaimFits, Claiming, turns
  <2> QED
    BY <1>1, <2>1, <2>2, Numbers, Parts, RecordEffect, <2>3
       DEF JournalFits, Inflight
<1>7. RetirementWaitsForDelivery'
  BY <1>1, <1>2, Parts, RecordEffect
     DEF OrderlyInv, RetirementWaitsForDelivery, Leased, turns
<1> QED
  BY <1>3, <1>4, <1>5, <1>6, <1>7 DEF OrderlyInv

\* So does one that dispatches the claim.
LEMMA StartKeepsOrder ==
  ASSUME ClaimInv, OrderlyInv, Start
  PROVE  OrderlyInv'
<1>1. TypeOK /\ OneRetained /\ NumbersFit
  BY DEF ClaimInv
<1>2. \A q \in Phase : Retained(q)' = Retained(q)
  BY <1>1, StartEffect DEF Retained, turns
<1>3. PausesFit'
  BY <1>1, StartEffect DEF OrderlyInv, PausesFit, TypeOK, turns
<1>4. LeasesFit'
  <2>1. \A q \in Phase : Inflight(q)' => Current(q)'
    <3> SUFFICES ASSUME NEW q \in Phase, flight'[q].at # "none"
                 PROVE  /\ lease'[q].state # "none"
                        /\ lease'[q].owner = flight'[q].owner
                        /\ lease'[q].attempt = flight'[q].attempt
      BY DEF Inflight, Current, Leased
    <3>1. flight[q].at # "none" => /\ lease[q].state # "none"
                                   /\ lease[q].owner = flight[q].owner
                                   /\ lease[q].attempt = flight[q].attempt
      BY DEF OrderlyInv, LeasesFit, Inflight, Current, Leased
    <3> QED
      BY <1>1, <3>1, Parts, StartEffect
         DEF Inflight, Leased, turns, OrderlyInv, LeasesFit, Claiming,
             ClaimInv, ClaimFits
  <2>2. /\ scan'.at \in Claiming => lease'[scan'.phase].owner = manager'.gen
        /\ scan'.at \in Retiring => flight'[scan'.phase].at = "none"
    BY <1>1, Numbers, Parts, StartEffect
       DEF OrderlyInv, LeasesFit, Claiming, Retiring, Inflight, turns
  <2> QED
    BY <2>1, <2>2 DEF LeasesFit, Inflight
<1>5. JournalsFit'
  <2>1. \A q \in Phase : JournalFits(q)'
    <3> SUFFICES ASSUME NEW q \in Phase, lease'[q].state = "claiming"
                 PROVE  JournalFits(q)'
      BY DEF JournalFits
    <3>1. scan.phase \in Phase /\ lease[scan.phase].state = "claiming"
      BY <1>1, StartEffect, Numbers DEF ClaimInv, ClaimFits, Claiming
    <3>2. JournalFits(scan.phase)
      BY <3>1 DEF OrderlyInv, JournalsFit
    <3>3. FALSE
      BY <1>1, <3>1, <3>2, StartEffect DEF JournalFits, Leased
    <3> QED
      BY <3>3
  <2>2. /\ scan'.at \in {"rename", "record"} =>
             lease'[scan'.phase].attempt = doc'.attempt[scan'.phase] + 1
        /\ scan'.at = "start" =>
             lease'[scan'.phase].attempt = doc'.attempt[scan'.phase]
    BY <1>1, Numbers, Parts, StartEffect
       DEF OrderlyInv, JournalsFit, Claiming, Retiring, turns
  <2>3. scan'.at \in {"first", "second", "stale", "orphans"} \cup Retiring =>
          \A q \in Phase : lease'[q].state # "claiming"
    BY <1>1, Numbers, Parts, StartEffect
       DEF OrderlyInv, JournalsFit, Claiming, Retiring, turns
  <2> QED
    BY <2>1, <2>2, <2>3 DEF JournalsFit
<1>6. AttemptsFit'
  <2> SUFFICES ASSUME NEW q \in Phase
               PROVE  /\ lease'[q].state \notin {"none", "claiming"} =>
                           lease'[q].attempt <= doc'.attempt[q]
                      /\ \A n \in Attempt : <<q, n>> \in used' =>
                           n <= doc'.attempt[q]
    BY DEF AttemptsFit, Leased
  <2>1. /\ lease[q].state \notin {"none", "claiming"} =>
             lease[q].attempt <= doc.attempt[q]
        /\ \A n \in Attempt : <<q, n>> \in used => n <= doc.attempt[q]
    BY DEF OrderlyInv, AttemptsFit, Leased
  <2>2. JournalFits(q)
    BY DEF OrderlyInv, JournalsFit
  <2>3. lease[scan.phase].attempt = doc.attempt[scan.phase] /\ used' = used
    BY <1>1, StartEffect DEF OrderlyInv, JournalsFit, turns
  <2> QED
    BY <1>1, <2>1, <2>2, Numbers, Parts, StartEffect, <2>3
       DEF JournalFits, Inflight
<1>7. RetirementWaitsForDelivery'
  BY <1>1, <1>2, Parts, StartEffect
     DEF OrderlyInv, RetirementWaitsForDelivery, Leased, turns
<1> QED
  BY <1>3, <1>4, <1>5, <1>6, <1>7 DEF OrderlyInv

\* So does a dispatch that gets its turn admitted.
LEMMA SendKeepsOrder ==
  ASSUME ClaimInv, OrderlyInv, NEW ph \in Phase, Send(ph), Sendable(ph)
  PROVE  OrderlyInv'
<1>1. TypeOK /\ OneRetained /\ NumbersFit
  BY DEF ClaimInv
<1>2. \A q \in Phase : q # ph => Retained(q)' = Retained(q)
  BY <1>1, SendEffect DEF Retained
<1>3. PausesFit'
  BY <1>1, SendEffect DEF OrderlyInv, PausesFit, TypeOK
<1>4. LeasesFit'
  <2>1. \A q \in Phase : Inflight(q)' => Current(q)'
    <3> SUFFICES ASSUME NEW q \in Phase, flight'[q].at # "none"
                 PROVE  /\ lease'[q].state # "none"
                        /\ lease'[q].owner = flight'[q].owner
                        /\ lease'[q].attempt = flight'[q].attempt
      BY DEF Inflight, Current, Leased
    <3>1. flight[q].at # "none" => /\ lease[q].state # "none"
                                   /\ lease[q].owner = flight[q].owner
                                   /\ lease[q].attempt = flight[q].attempt
      BY DEF OrderlyInv, LeasesFit, Inflight, Current, Leased
    <3> QED
      BY <1>1, <3>1, Parts, SendEffect DEF Inflight, Leased
  <2>2. /\ scan'.at \in Claiming => lease'[scan'.phase].owner = manager'.gen
        /\ scan'.at \in Retiring => flight'[scan'.phase].at = "none"
    BY <1>1, Numbers, Parts, SendEffect
       DEF OrderlyInv, LeasesFit, Claiming, Retiring, Inflight
  <2> QED
    BY <2>1, <2>2 DEF LeasesFit, Inflight
<1>5. JournalsFit'
  <2>1. \A q \in Phase : JournalFits(q)'
    <3>1. /\ Inflight(ph) /\ Leased(ph)
      BY <1>1, SendEffect DEF Inflight, OrderlyInv, LeasesFit, Current
    <3>2. \A q \in Phase : lease[q].state # "claiming"
      BY <3>1 DEF OrderlyInv, JournalsFit, JournalFits
    <3>3. \A q \in Phase : lease'[q].state # "claiming"
      BY <1>1, <3>2, SendEffect
    <3> QED
      BY <3>3 DEF JournalFits
  <2>2. /\ scan'.at \in {"rename", "record"} =>
             lease'[scan'.phase].attempt = doc'.attempt[scan'.phase] + 1
        /\ scan'.at = "start" =>
             lease'[scan'.phase].attempt = doc'.attempt[scan'.phase]
    BY <1>1, Numbers, Parts, SendEffect
       DEF OrderlyInv, JournalsFit, Claiming, Retiring
  <2>3. scan'.at \in {"first", "second", "stale", "orphans"} \cup Retiring =>
          \A q \in Phase : lease'[q].state # "claiming"
    BY <1>1, Numbers, Parts, SendEffect
       DEF OrderlyInv, JournalsFit, Claiming, Retiring
  <2> QED
    BY <2>1, <2>2, <2>3 DEF JournalsFit
<1>6. AttemptsFit'
  <2> SUFFICES ASSUME NEW q \in Phase
               PROVE  /\ lease'[q].state \notin {"none", "claiming"} =>
                           lease'[q].attempt <= doc'.attempt[q]
                      /\ \A n \in Attempt : <<q, n>> \in used' =>
                           n <= doc'.attempt[q]
    BY DEF AttemptsFit, Leased
  <2>1. /\ lease[q].state \notin {"none", "claiming"} =>
             lease[q].attempt <= doc.attempt[q]
        /\ \A n \in Attempt : <<q, n>> \in used => n <= doc.attempt[q]
    BY DEF OrderlyInv, AttemptsFit, Leased
  <2>2. JournalFits(q)
    BY DEF OrderlyInv, JournalsFit
  <2>3. lease[ph].state \notin {"none", "claiming"}
        /\ lease[ph].attempt = flight[ph].attempt
    BY <1>1, SendEffect
       DEF OrderlyInv, LeasesFit, Current, Leased, Inflight, JournalsFit, JournalFits
  <2> QED
    BY <1>1, <2>1, <2>2, Numbers, Parts, SendEffect, <2>3
       DEF JournalFits, Inflight, Leased
<1>7. RetirementWaitsForDelivery'
  <2>1. Leased(ph) /\ lease[ph].attempt = flight[ph].attempt
    BY <1>1, SendEffect DEF Inflight, OrderlyInv, LeasesFit, Current
  <2>2. Retained(ph)' \subseteq Retained(ph) \cup {flight[ph].attempt}
    BY <1>1, SendEffect DEF Retained
  <2> QED
    BY <1>1, <1>2, <2>1, <2>2, SendEffect
       DEF OrderlyInv, RetirementWaitsForDelivery, Leased
<1> QED
  BY <1>3, <1>4, <1>5, <1>6, <1>7 DEF OrderlyInv

\* So does an agent that moves its document.
LEMMA AgentKeepsOrder ==
  ASSUME ClaimInv, OrderlyInv, NEW ph \in Phase, NEW n \in Attempt,
         AgentMoves(ph, n)
  PROVE  OrderlyInv'
<1>1. TypeOK /\ OneRetained /\ NumbersFit
  BY DEF ClaimInv
<1>2. \A q \in Phase : Retained(q)' = Retained(q)
  BY <1>1, AgentEffect DEF Retained, turns
<1>3. PausesFit'
  BY <1>1, AgentEffect DEF OrderlyInv, PausesFit, TypeOK, turns
<1>4. LeasesFit'
  <2>1. \A q \in Phase : Inflight(q)' => Current(q)'
    <3> SUFFICES ASSUME NEW q \in Phase, flight'[q].at # "none"
                 PROVE  /\ lease'[q].state # "none"
                        /\ lease'[q].owner = flight'[q].owner
                        /\ lease'[q].attempt = flight'[q].attempt
      BY DEF Inflight, Current, Leased
    <3>1. flight[q].at # "none" => /\ lease[q].state # "none"
                                   /\ lease[q].owner = flight[q].owner
                                   /\ lease[q].attempt = flight[q].attempt
      BY DEF OrderlyInv, LeasesFit, Inflight, Current, Leased
    <3> QED
      BY <1>1, <3>1, Parts, AgentEffect DEF Inflight, Leased, turns
  <2>2. /\ scan'.at \in Claiming => lease'[scan'.phase].owner = manager'.gen
        /\ scan'.at \in Retiring => flight'[scan'.phase].at = "none"
    BY <1>1, Numbers, Parts, AgentEffect
       DEF OrderlyInv, LeasesFit, Claiming, Retiring, Inflight, turns
  <2> QED
    BY <2>1, <2>2 DEF LeasesFit, Inflight
<1>5. JournalsFit'
  <2>1. \A q \in Phase : JournalFits(q)'
    <3>1. n \in Retained(ph)
      BY <1>1, AgentEffect DEF Retained
    <3>2. Leased(ph)
      BY <3>1 DEF OrderlyInv, RetirementWaitsForDelivery
    <3>3. \A q \in Phase : lease[q].state # "claiming"
      BY <3>1, <3>2 DEF OrderlyInv, JournalsFit, JournalFits
    <3> QED
      BY <1>1, <3>3, AgentEffect DEF JournalFits
  <2>2. /\ scan'.at \in {"rename", "record"} =>
             lease'[scan'.phase].attempt = doc'.attempt[scan'.phase] + 1
        /\ scan'.at = "start" =>
             lease'[scan'.phase].attempt = doc'.attempt[scan'.phase]
    BY <1>1, Numbers, Parts, AgentEffect
       DEF OrderlyInv, JournalsFit, Claiming, Retiring, turns
  <2>3. scan'.at \in {"first", "second", "stale", "orphans"} \cup Retiring =>
          \A q \in Phase : lease'[q].state # "claiming"
    BY <1>1, Numbers, Parts, AgentEffect
       DEF OrderlyInv, JournalsFit, Claiming, Retiring, turns
  <2> QED
    BY <2>1, <2>2, <2>3 DEF JournalsFit
<1>6. AttemptsFit'
  BY <1>1, Numbers, Parts, AgentEffect
     DEF OrderlyInv, AttemptsFit, Leased, turns
<1>7. RetirementWaitsForDelivery'
  BY <1>1, <1>2, Parts, AgentEffect
     DEF OrderlyInv, RetirementWaitsForDelivery, Leased, turns
<1> QED
  BY <1>3, <1>4, <1>5, <1>6, <1>7 DEF OrderlyInv

\* So do the beginnings and the ends of a manager, unless a shutdown cuts a scan.
LEMMA ProcessKeepsOrder ==
  ASSUME ClaimInv, OrderlyInv, StopInScan = FALSE,
         Stop \/ Down \/ Crash \/ Restart
  PROVE  OrderlyInv'
<1>1. TypeOK
  BY DEF ClaimInv
<1>2. UNCHANGED <<doc, lease, elder, exec, stopped, used>>
  BY DEF Stop, Down, Crash, Restart, turns
<1>3. \A q \in Phase : Retained(q)' = Retained(q)
  BY <1>2 DEF Retained
<1>4. \/ /\ UNCHANGED <<scan, flight, control>> /\ manager'.gen = manager.gen
         /\ scan.at \in {"idle", "attach"}
      \/ /\ scan' = scan /\ control' = control
         /\ manager.state = "down" /\ flight' = flight
      \/ /\ scan' = Idle /\ control' = NoControl
         /\ flight' = [q \in Phase |-> Grounded]
  BY <1>1 DEF Stop, Down, Crash, Restart, TypeOK
<1>5. Grounded.at = "none" /\ Idle.at = "idle" /\ NoControl.at = "none"
  BY DEF Grounded, Idle, NoControl
<1>6. \A q \in Phase : Inflight(q)' => Inflight(q) /\ flight'[q] = flight[q]
  BY <1>4, <1>5 DEF Inflight
<1>7. scan'.at \in {"idle", "attach"}
  BY <1>4, <1>5 DEF ClaimInv, HomeFits
<1>8. PausesFit'
  BY <1>4, <1>5, <1>7 DEF OrderlyInv, PausesFit, ClaimInv, HomeFits
<1>9. LeasesFit'
  BY <1>2, <1>6, <1>7
     DEF OrderlyInv, LeasesFit, Current, Leased, Claiming, Retiring
<1>10. JournalsFit'
  <2>1. \A q \in Phase : JournalFits(q)'
    <3> SUFFICES ASSUME NEW q \in Phase, lease'[q].state = "claiming"
                 PROVE  JournalFits(q)'
      BY DEF JournalFits
    <3>1. JournalFits(q)
      BY DEF OrderlyInv, JournalsFit
    <3> QED
      BY <1>2, <1>3, <1>6, <3>1 DEF JournalFits, Leased
  <2> QED
    BY <1>7, <2>1 DEF JournalsFit, Retiring
<1>11. AttemptsFit' /\ RetirementWaitsForDelivery'
  BY <1>2, <1>3 DEF OrderlyInv, AttemptsFit, RetirementWaitsForDelivery, Leased
<1> QED
  BY <1>8, <1>9, <1>10, <1>11 DEF OrderlyInv

\* The second layer holds at the start.
LEMMA OrderlyInit ==
  ASSUME Init
  PROVE  OrderlyInv
<1>1. /\ scan.at = "idle" /\ control.at = "none" /\ used = {}
      /\ \A q \in Phase : /\ lease[q].state = "none" /\ flight[q].at = "none"
                          /\ \A n \in Attempt : exec[q][n].turn = "none"
  BY Parts DEF Init, Idle, NoControl, Grounded, NoExecution
<1>2. \A q \in Phase : Retained(q) = {}
  BY <1>1 DEF Retained
<1> QED
  BY <1>1, <1>2
     DEF OrderlyInv, PausesFit, LeasesFit, JournalsFit, JournalFits, AttemptsFit,
         RetirementWaitsForDelivery, Claiming, Retiring, Leased, Inflight

\* Every step keeps the second layer, unless a shutdown cuts a scan.
LEMMA OrderlyStep ==
  ASSUME ClaimInv, OrderlyInv, StopInScan = FALSE, [Next]_vars
  PROVE  OrderlyInv'
<1>1. CASE UNCHANGED vars
  BY <1>1
     DEF vars, turns, OrderlyInv, PausesFit, LeasesFit, JournalsFit, JournalFits,
         AttemptsFit, RetirementWaitsForDelivery, Leased, Inflight, Current,
         Retained
<1>2. CASE Next
  <2>1. TypeOK /\ HomeFits
    BY DEF ClaimInv
  <2> QED
    BY <1>2, <2>1, Steps, HandlesKeepsOrder, WalkKeepsOrder, AttachKeepsOrder,
       ResumeKeepsOrder, SettleKeepsOrder, RetireKeepsOrder, StaleKeepsOrder,
       OrphanKeepsOrder, QueueKeepsOrder, JournalKeepsOrder, RenameKeepsOrder,
       RecordKeepsOrder, StartKeepsOrder, SendKeepsOrder, AgentKeepsOrder,
       ProcessKeepsOrder
<1> QED
  BY <1>1, <1>2

\* If no shutdown comes between the fence of a scan and its end, the second layer
\* is an invariant too, whatever else happens.
THEOREM OrderlyInvariant ==
  ASSUME StopInScan = FALSE
  PROVE  Spec => [](ClaimInv /\ OrderlyInv)
<1>1. Init => ClaimInv /\ OrderlyInv
  BY ClaimInit, OrderlyInit
<1>2. ClaimInv /\ OrderlyInv /\ [Next]_vars => (ClaimInv /\ OrderlyInv)'
  BY ClaimStep, OrderlyStep
<1> QED
  BY <1>1, <1>2, PTL DEF Spec

\* If no shutdown comes in the middle of a scan, no claim is retired before its
\* execution has been delivered and acknowledged, for agents that move the
\* document anywhere.  With such a shutdown the run stop_in_scan refutes it.
THEOREM RetirementWaits ==
  ASSUME StopInScan = FALSE
  PROVE  Spec => []RetirementWaitsForDelivery
<1>1. OrderlyInv => RetirementWaitsForDelivery
  BY DEF OrderlyInv
<1> QED
  BY <1>1, OrderlyInvariant, PTL

\* A step that journals a claim gives it a number the worker has never had.
LEMMA FreshStep ==
  ASSUME ClaimInv, OrderlyInv, Next, NEW ph \in Phase,
         lease'[ph].state = "claiming", lease[ph].state # "claiming"
  PROVE  <<ph, lease'[ph].attempt>> \notin used
<1>1. TypeOK /\ HomeFits /\ NumbersFit /\ OneRetained
  BY DEF ClaimInv
<1>2. CASE Journal
  <2>1. ph = scan.phase
    BY <1>1, <1>2, JournalEffect
  <2>2. /\ lease'[ph].attempt = doc.attempt[ph] + 1
        /\ lease'[ph].attempt \in Attempt /\ doc.attempt[ph] \in Nat
    BY <1>1, <1>2, <2>1, JournalEffect, Parts, Numbers
  <2> QED
    BY <2>2 DEF OrderlyInv, AttemptsFit
<1>3. CASE ~Journal
  <2>1. CASE Handles
    BY <2>1 DEF Handles
  <2>2. CASE Walks
    BY <2>2 DEF Walks
  <2>3. CASE AttachRetained
    BY <1>1, <2>3, AttachEffect
  <2>4. ASSUME NEW q \in Phase, ResumeClaim(q)
        PROVE  FALSE
    BY <1>1, <2>4, ResumeEffect, Parts
  <2>5. CASE Reconcile
    BY <1>1, <2>5, ReconcileEffect DEF Walks
  <2>6. CASE Retire
    BY <1>1, <2>6, RetireEffect, Parts
  <2>7. CASE RecoverStale
    BY <1>1, <2>7, StaleEffect
  <2>8. ASSUME NEW q \in Phase, RecoverOrphan(q)
        PROVE  FALSE
    BY <1>1, <2>8, OrphanEffect, Parts
  <2>9. CASE Wake \/ BypassReview
    BY <1>1, <2>9, QueueEffect
  <2>10. CASE Rename
    BY <1>1, <2>10, RenameEffect, Parts
  <2>11. CASE Record
    BY <1>1, <2>11, RecordEffect
  <2>12. CASE Start
    BY <1>1, <2>12, StartEffect
  <2>13. ASSUME NEW q \in Phase, Send(q), Sendable(q)
         PROVE  FALSE
    BY <1>1, <2>13, SendEffect
  <2>14. ASSUME NEW q \in Phase, NEW n \in Attempt, AgentMoves(q, n)
         PROVE  FALSE
    BY <1>1, <2>14, AgentEffect
  <2>15. CASE Stop \/ Down \/ Crash \/ Restart
    BY <2>15 DEF Stop, Down, Crash, Restart
  <2> QED
    BY <1>1, <1>3, <2>1, <2>2, <2>3, <2>4, <2>5, <2>6, <2>7, <2>8, <2>9, <2>10,
       <2>11, <2>12, <2>13, <2>14, <2>15, Steps
<1> QED
  BY <1>2, <1>3

\* If no shutdown comes in the middle of a scan, a new claim never takes the
\* number of an earlier one that reached the worker.
THEOREM FreshAttempts ==
  ASSUME StopInScan = FALSE
  PROVE  Spec => AttemptsAreFresh
<1>1. ClaimInv /\ OrderlyInv /\ [Next]_vars =>
        [\A ph \in Phase :
           lease'[ph].state = "claiming" /\ lease[ph].state # "claiming"
             => <<ph, lease'[ph].attempt>> \notin used]_vars
  BY FreshStep DEF vars
<1> QED
  BY <1>1, OrderlyInvariant, PTL DEF Spec, AttemptsAreFresh

-----------------------------------------------------------------------------
(* The third layer, if no agent claims the other phase's documents either. *)

\* A scan that goes on, or ends, keeps the third layer.
LEMMA WalkKeepsPolicy ==
  ASSUME ClaimInv, OrderlyInv, OrderlyInv', WellBehaved, PolicyInv,
         Walks
  PROVE  PolicyInv'
<1>1. TypeOK /\ OneRetained /\ NumbersFit
  BY DEF ClaimInv
<1>2. \A q \in Phase : Retained(q)' = Retained(q)
  BY <1>1 DEF Retained, Walks, turns
<1>3. HomesFit'
  BY <1>1, Numbers, Parts
     DEF PolicyInv, HomesFit, AtFile, Leased, Retiring, Walks, turns
<1>4. CancelsFit'
  BY <1>1, Numbers, Parts
     DEF PolicyInv, CancelsFit, Leased, Walks, turns
<1>5. ControlFits'
  <2>1. control.at # "none" => scan.at = "idle"
    BY DEF OrderlyInv, PausesFit
  <2> QED
    BY <1>1, <2>1 DEF PolicyInv, ControlFits, Retiring, Walks, turns
<1>6. DisabledFit'
  BY <1>1, <1>2, Numbers, Parts, Phases
     DEF PolicyInv, DisabledFit, Reviews, Leased, Inflight, Walks, turns
<1>7. ReviewFits'
  BY <1>1, Numbers, Parts, Phases
     DEF PolicyInv, ReviewFits, ReviewRequired, Reviews, Leased, Retiring, Walks, turns
<1>8. CancelledStaysDown'
  BY <1>1 DEF PolicyInv, CancelledStaysDown, Live, Walks, turns
<1> QED
  BY <1>3, <1>4, <1>5, <1>6, <1>7, <1>8 DEF PolicyInv

\* So does a scan that takes up what is retained.
LEMMA AttachKeepsPolicy ==
  ASSUME ClaimInv, OrderlyInv, OrderlyInv', WellBehaved, PolicyInv,
         AttachRetained
  PROVE  PolicyInv'
<1>1. TypeOK /\ OneRetained /\ NumbersFit
  BY DEF ClaimInv
<1>2. \A q \in Phase : Retained(q)' = Retained(q)
  BY <1>1, AttachEffect DEF Retained
<1>3. HomesFit'
  <2>1. /\ \A q \in Phase : doc.dir = Claimed(q) => lease[q].state # "none"
        /\ \A p, q \in Phase :
             lease[p].state # "none" /\ lease[q].state # "none" => p = q
        /\ scan.at \in Retiring => doc.dir # Claimed(scan.phase)
    BY DEF PolicyInv, HomesFit, AtFile, Leased
  <2>2. \A q \in Phase : doc'.dir = Claimed(q) => lease'[q].state # "none"
    BY <1>1, <2>1, Parts, Dirs, AttachEffect DEF Leased
  <2>3. \A p, q \in Phase :
          lease'[p].state # "none" /\ lease'[q].state # "none" => p = q
    BY <1>1, <2>1, Parts, AttachEffect DEF Leased
  <2>4. scan'.at \in Retiring => doc'.dir # Claimed(scan'.phase)
    BY <1>1, <2>1, AttachEffect DEF Retiring
  <2> QED
    BY <2>2, <2>3, <2>4 DEF HomesFit, AtFile, Leased
<1>4. CancelsFit'
  BY <1>1, Numbers, Parts, AttachEffect
     DEF PolicyInv, CancelsFit, Leased
<1>5. ControlFits'
  <2>1. control.at # "none" => scan.at = "idle"
    BY DEF OrderlyInv, PausesFit
  <2> QED
    BY <1>1, <2>1, AttachEffect DEF PolicyInv, ControlFits, Retiring
<1>6. DisabledFit'
  BY <1>1, <1>2, Numbers, Parts, Phases, AttachEffect
     DEF PolicyInv, DisabledFit, Reviews, Leased, Inflight
<1>7. ReviewFits'
  BY <1>1, Numbers, Parts, Phases, AttachEffect
     DEF PolicyInv, ReviewFits, ReviewRequired, Reviews, Leased, Retiring
<1>8. CancelledStaysDown'
  BY <1>1, AttachEffect DEF PolicyInv, CancelledStaysDown, Live
<1> QED
  BY <1>3, <1>4, <1>5, <1>6, <1>7, <1>8 DEF PolicyInv

\* So does one that finishes an interrupted claim.
LEMMA ResumeKeepsPolicy ==
  ASSUME ClaimInv, OrderlyInv, OrderlyInv', WellBehaved, PolicyInv,
         NEW ph \in Phase, ResumeClaim(ph)
  PROVE  PolicyInv'
<1>1. TypeOK /\ OneRetained /\ NumbersFit
  BY DEF ClaimInv
<1>2. \A q \in Phase : Retained(q)' = Retained(q)
  BY <1>1, ResumeEffect DEF Retained, turns
<1>3. HomesFit'
  <2>1. /\ \A q \in Phase : doc.dir = Claimed(q) => lease[q].state # "none"
        /\ \A p, q \in Phase :
             lease[p].state # "none" /\ lease[q].state # "none" => p = q
        /\ scan.at \in Retiring => doc.dir # Claimed(scan.phase)
    BY DEF PolicyInv, HomesFit, AtFile, Leased
  <2>2. \A q \in Phase : doc'.dir = Claimed(q) => lease'[q].state # "none"
    BY <1>1, <2>1, Parts, Dirs, ResumeEffect DEF Leased
  <2>3. \A p, q \in Phase :
          lease'[p].state # "none" /\ lease'[q].state # "none" => p = q
    BY <1>1, <2>1, Parts, ResumeEffect DEF Leased
  <2>4. scan'.at \in Retiring => doc'.dir # Claimed(scan'.phase)
    BY <1>1, <2>1, ResumeEffect DEF Retiring
  <2> QED
    BY <2>2, <2>3, <2>4 DEF HomesFit, AtFile, Leased
<1>4. CancelsFit'
  <2>1. /\ \A q \in Phase, k \in Attempt : exec[q][k].turn # "none" =>
             /\ exec[q][k].cancelled => lease[q].cancel
             /\ <<q, k>> \in used
        /\ \A q \in Phase :
             lease[q].state # "none" /\ <<q, lease[q].attempt>> \in stopped
               => lease[q].cancel
        /\ stopped \subseteq used
    BY DEF PolicyInv, CancelsFit, Leased
  <2>2. \A q \in Phase, k \in Attempt :
          exec'[q][k].turn # "none" =>
            lease'[q].state # "none" /\ lease'[q].attempt = k
    BY DEF OrderlyInv, RetirementWaitsForDelivery, Retained, Leased
  <2>5. /\ <<ph, lease[ph].attempt>> \notin used
        /\ \A k \in Attempt : exec[ph][k].turn = "none"
    <3>1. JournalFits(ph)
      BY DEF OrderlyInv, JournalsFit
    <3>2. /\ Retained(ph) = {} /\ <<ph, lease[ph].attempt>> \notin used
      BY <1>1, <3>1, ResumeEffect DEF JournalFits
    <3> QED
      BY <3>2 DEF Retained
  <2>3. \A q \in Phase, k \in Attempt : exec'[q][k].turn # "none" =>
          /\ exec'[q][k].cancelled => lease'[q].cancel
          /\ <<q, k>> \in used'
    BY <1>1, <2>1, <2>2, Parts, ResumeEffect, <2>5 DEF Leased, turns
  <2>4. /\ \A q \in Phase :
             lease'[q].state # "none" /\ <<q, lease'[q].attempt>> \in stopped'
               => lease'[q].cancel
        /\ stopped' \subseteq used'
    BY <1>1, <2>1, Parts, ResumeEffect, <2>5 DEF Leased, turns
  <2> QED
    BY <2>3, <2>4 DEF CancelsFit, Leased
<1>5. ControlFits'
  <2>1. control.at # "none" => scan.at = "idle"
    BY DEF OrderlyInv, PausesFit
  <2> QED
    BY <1>1, <2>1, ResumeEffect DEF PolicyInv, ControlFits, Retiring, turns
<1>6. DisabledFit'
  BY <1>1, <1>2, Numbers, Parts, Phases, ResumeEffect
     DEF PolicyInv, DisabledFit, Reviews, Leased, Inflight, turns
<1>7. ReviewFits'
  <2>1. doc.dir = "done" =>
          /\ lease["review"].state # "none" => doc.by = "review"
          /\ ReviewRequired /\ doc.by # "review" =>
               /\ lease["implementation"].state # "none"
               /\ ~(scan.at \in Retiring /\ scan.phase = "implementation")
    BY DEF PolicyInv, ReviewFits, Leased
  <2>2. ReviewRequired' <=> ReviewRequired
    BY <1>1, ResumeEffect DEF ReviewRequired, Reviews, turns
  <2> SUFFICES ASSUME doc'.dir = "done"
               PROVE  /\ lease'["review"].state # "none" => doc'.by = "review"
                      /\ ReviewRequired' /\ doc'.by # "review" =>
                           /\ lease'["implementation"].state # "none"
                           /\ ~(/\ scan'.at \in Retiring
                                /\ scan'.phase = "implementation")
    BY DEF ReviewFits, Leased
  <2> QED
    BY <1>1, <2>1, <2>2, Phases, Parts, ResumeEffect
       DEF Retiring, Leased, Claimed, Queue, turns
<1>8. CancelledStaysDown'
  BY <1>1, ResumeEffect DEF PolicyInv, CancelledStaysDown, Live, turns
<1> QED
  BY <1>3, <1>4, <1>5, <1>6, <1>7, <1>8 DEF PolicyInv

\* So does one that settles a document.
LEMMA SettleKeepsPolicy ==
  ASSUME ClaimInv, OrderlyInv, OrderlyInv', WellBehaved, PolicyInv,
         Reconcile, ~Walks
  PROVE  PolicyInv'
<1>1. TypeOK /\ OneRetained /\ NumbersFit
  BY DEF ClaimInv
<1>2. \A q \in Phase : Retained(q)' = Retained(q)
  BY <1>1, ReconcileEffect DEF Retained, turns
<1>3. HomesFit'
  <2>1. /\ \A q \in Phase : doc.dir = Claimed(q) => lease[q].state # "none"
        /\ \A p, q \in Phase :
             lease[p].state # "none" /\ lease[q].state # "none" => p = q
        /\ scan.at \in Retiring => doc.dir # Claimed(scan.phase)
    BY DEF PolicyInv, HomesFit, AtFile, Leased
  <2>2. \A q \in Phase : doc'.dir = Claimed(q) => lease'[q].state # "none"
    <3>1. PICK d \in Settled(scan.phase, doc.dir) : doc' = MovedTo(d)
      BY <1>1, ReconcileEffect
    <3>2. /\ doc'.dir = d /\ (doc.dir = d => doc' = doc)
          /\ d \in {doc.dir, "todo", "review", "done"}
      BY <1>1, <3>1, Numbers, SettledDir, MovedToTyped
    <3>3. \A q \in Phase : Claimed(q) \notin {"todo", "review", "done"}
      BY DEF Claimed
    <3> QED
      BY <1>1, <2>1, <3>2, <3>3, ReconcileEffect
  <2>3. \A p, q \in Phase :
          lease'[p].state # "none" /\ lease'[q].state # "none" => p = q
    BY <1>1, <2>1, Parts, ReconcileEffect DEF Leased
  <2>4. scan'.at \in Retiring => doc'.dir # Claimed(scan'.phase)
    <3>1. PICK d \in Settled(scan.phase, doc.dir) : doc' = MovedTo(d)
      BY <1>1, ReconcileEffect
    <3>2. /\ doc'.dir = d /\ (doc.dir = d => doc' = doc)
          /\ d \in {doc.dir, "todo", "review", "done"}
      BY <1>1, <3>1, Numbers, SettledDir, MovedToTyped
    <3>3. \A q \in Phase : Claimed(q) \notin {"todo", "review", "done"}
      BY DEF Claimed
    <3>4. doc.dir # Claimed(scan.phase)
      BY <1>1, ReconcileEffect DEF Transitioned, AtFile
    <3>5. scan'.at \in Retiring => scan'.phase = scan.phase
      BY <1>1, ReconcileEffect
    <3> QED
      BY <1>1, <3>2, <3>3, <3>4, <3>5, Numbers
  <2> QED
    BY <2>2, <2>3, <2>4 DEF HomesFit, AtFile, Leased
<1>4. CancelsFit'
  BY <1>1, Numbers, Parts, ReconcileEffect
     DEF PolicyInv, CancelsFit, Leased, turns
<1>5. ControlFits'
  <2>1. control.at # "none" => scan.at = "idle"
    BY DEF OrderlyInv, PausesFit
  <2> QED
    BY <1>1, <2>1, ReconcileEffect DEF PolicyInv, ControlFits, Retiring, turns
<1>6. DisabledFit'
  BY <1>1, <1>2, Numbers, Parts, Phases, ReconcileEffect
     DEF PolicyInv, DisabledFit, Reviews, Leased, Inflight, turns
<1>7. ReviewFits'
  <2>1. doc.dir = "done" =>
          /\ lease["review"].state # "none" => doc.by = "review"
          /\ ReviewRequired /\ doc.by # "review" =>
               /\ lease["implementation"].state # "none"
               /\ ~(scan.at \in Retiring /\ scan.phase = "implementation")
    BY DEF PolicyInv, ReviewFits, Leased
  <2>2. ReviewRequired' <=> ReviewRequired
    BY <1>1, ReconcileEffect DEF ReviewRequired, Reviews, turns
  <2>3. PICK d \in Settled(scan.phase, doc.dir) : doc' = MovedTo(d)
    BY <1>1, ReconcileEffect
  <2>4. /\ doc'.dir = d /\ (doc.dir = d => doc' = doc)
        /\ d = "done" => doc.dir = "done"
    BY <1>1, <2>3, Numbers, SettledDir, MovedToTyped
  <2>5. scan.phase = "implementation" /\ ReviewRequired => d # "done"
    <3> SUFFICES ASSUME scan.phase = "implementation", ReviewRequired, d = "done"
                 PROVE  FALSE
      OBVIOUS
    <3>1. doc.dir = "done" /\ Leased("implementation")
      BY <1>1, <2>4, ReconcileEffect DEF Transitioned, Leased
    <3>2. ~Leased("review") /\ Reviews # "never"
      BY <3>1, Phases DEF PolicyInv, HomesFit, ReviewRequired
    <3> QED
      BY <2>3, <3>1, <3>2 DEF Settled
  <2> SUFFICES ASSUME doc'.dir = "done"
               PROVE  /\ lease'["review"].state # "none" => doc'.by = "review"
                      /\ ReviewRequired' /\ doc'.by # "review" =>
                           /\ lease'["implementation"].state # "none"
                           /\ ~(/\ scan'.at \in Retiring
                                /\ scan'.phase = "implementation")
    BY DEF ReviewFits, Leased
  <2> QED
    BY <1>1, <2>1, <2>2, Phases, Parts, ReconcileEffect, <2>4, <2>5
       DEF Retiring, Leased, Claimed, Queue, turns
<1>8. CancelledStaysDown'
  BY <1>1, ReconcileEffect DEF PolicyInv, CancelledStaysDown, Live, turns
<1> QED
  BY <1>3, <1>4, <1>5, <1>6, <1>7, <1>8 DEF PolicyInv

\* So does one that retires the lease of a document that has left.
LEMMA RetireKeepsPolicy ==
  ASSUME ClaimInv, OrderlyInv, OrderlyInv', WellBehaved, PolicyInv,
         Retire
  PROVE  PolicyInv'
<1>1. TypeOK /\ OneRetained /\ NumbersFit
  BY DEF ClaimInv
<1>2. \A q \in Phase : Retained(q)' = Retained(q)
  BY <1>1, RetireEffect DEF Retained, turns
<1>3. HomesFit'
  <2>1. /\ \A q \in Phase : doc.dir = Claimed(q) => lease[q].state # "none"
        /\ \A p, q \in Phase :
             lease[p].state # "none" /\ lease[q].state # "none" => p = q
        /\ scan.at \in Retiring => doc.dir # Claimed(scan.phase)
    BY DEF PolicyInv, HomesFit, AtFile, Leased
  <2>2. \A q \in Phase : doc'.dir = Claimed(q) => lease'[q].state # "none"
    BY <1>1, <2>1, Parts, Dirs, RetireEffect DEF Leased
  <2>3. \A p, q \in Phase :
          lease'[p].state # "none" /\ lease'[q].state # "none" => p = q
    BY <1>1, <2>1, Parts, RetireEffect DEF Leased
  <2>4. scan'.at \in Retiring => doc'.dir # Claimed(scan'.phase)
    BY <1>1, <2>1, RetireEffect DEF Retiring
  <2> QED
    BY <2>2, <2>3, <2>4 DEF HomesFit, AtFile, Leased
<1>4. CancelsFit'
  <2>1. /\ \A q \in Phase, k \in Attempt : exec[q][k].turn # "none" =>
             /\ exec[q][k].cancelled => lease[q].cancel
             /\ <<q, k>> \in used
        /\ \A q \in Phase :
             lease[q].state # "none" /\ <<q, lease[q].attempt>> \in stopped
               => lease[q].cancel
        /\ stopped \subseteq used
    BY DEF PolicyInv, CancelsFit, Leased
  <2>2. \A q \in Phase, k \in Attempt :
          exec'[q][k].turn # "none" =>
            lease'[q].state # "none" /\ lease'[q].attempt = k
    BY DEF OrderlyInv, RetirementWaitsForDelivery, Retained, Leased
  <2>3. \A q \in Phase, k \in Attempt : exec'[q][k].turn # "none" =>
          /\ exec'[q][k].cancelled => lease'[q].cancel
          /\ <<q, k>> \in used'
    BY <1>1, <2>1, <2>2, Parts, RetireEffect DEF Leased, turns
  <2>4. /\ \A q \in Phase :
             lease'[q].state # "none" /\ <<q, lease'[q].attempt>> \in stopped'
               => lease'[q].cancel
        /\ stopped' \subseteq used'
    BY <1>1, <2>1, Parts, RetireEffect DEF Leased, turns
  <2> QED
    BY <2>3, <2>4 DEF CancelsFit, Leased
<1>5. ControlFits'
  <2>1. control.at # "none" => scan.at = "idle"
    BY DEF OrderlyInv, PausesFit
  <2> QED
    BY <1>1, <2>1, RetireEffect DEF PolicyInv, ControlFits, Retiring, turns
<1>6. DisabledFit'
  BY <1>1, <1>2, Numbers, Parts, Phases, RetireEffect
     DEF PolicyInv, DisabledFit, Reviews, Leased, Inflight, turns
<1>7. ReviewFits'
  BY <1>1, Numbers, Parts, Phases, RetireEffect
     DEF PolicyInv, ReviewFits, ReviewRequired, Reviews, Leased, Retiring, turns
<1>8. CancelledStaysDown'
  BY <1>1, RetireEffect DEF PolicyInv, CancelledStaysDown, Live, turns
<1> QED
  BY <1>3, <1>4, <1>5, <1>6, <1>7, <1>8 DEF PolicyInv

\* So does one that recovers what has been abandoned.
LEMMA StaleKeepsPolicy ==
  ASSUME ClaimInv, OrderlyInv, OrderlyInv', WellBehaved, PolicyInv,
         RecoverStale
  PROVE  PolicyInv'
<1>1. TypeOK /\ OneRetained /\ NumbersFit
  BY DEF ClaimInv
<1>2. \A q \in Phase : Retained(q)' = Retained(q)
  BY <1>1, StaleEffect DEF Retained, turns
<1>3. HomesFit'
  <2>1. /\ \A q \in Phase : doc.dir = Claimed(q) => lease[q].state # "none"
        /\ \A p, q \in Phase :
             lease[p].state # "none" /\ lease[q].state # "none" => p = q
        /\ scan.at \in Retiring => doc.dir # Claimed(scan.phase)
    BY DEF PolicyInv, HomesFit, AtFile, Leased
  <2>2. \A q \in Phase : doc'.dir = Claimed(q) => lease'[q].state # "none"
    BY <1>1, <2>1, Parts, Dirs, StaleEffect DEF Leased
  <2>3. \A p, q \in Phase :
          lease'[p].state # "none" /\ lease'[q].state # "none" => p = q
    BY <1>1, <2>1, Parts, StaleEffect DEF Leased
  <2>4. scan'.at \in Retiring => doc'.dir # Claimed(scan'.phase)
    BY <1>1, <2>1, StaleEffect DEF Retiring
  <2> QED
    BY <2>2, <2>3, <2>4 DEF HomesFit, AtFile, Leased
<1>4. CancelsFit'
  BY <1>1, Numbers, Parts, StaleEffect
     DEF PolicyInv, CancelsFit, Leased, turns
<1>5. ControlFits'
  <2>1. control.at # "none" => scan.at = "idle"
    BY DEF OrderlyInv, PausesFit
  <2> QED
    BY <1>1, <2>1, StaleEffect DEF PolicyInv, ControlFits, Retiring, turns
<1>6. DisabledFit'
  BY <1>1, <1>2, Numbers, Parts, Phases, StaleEffect
     DEF PolicyInv, DisabledFit, Reviews, Leased, Inflight, turns
<1>7. ReviewFits'
  BY <1>1, Numbers, Parts, Phases, StaleEffect
     DEF PolicyInv, ReviewFits, ReviewRequired, Reviews, Leased, Retiring, turns
<1>8. CancelledStaysDown'
  BY <1>1, StaleEffect DEF PolicyInv, CancelledStaysDown, Live, turns
<1> QED
  BY <1>3, <1>4, <1>5, <1>6, <1>7, <1>8 DEF PolicyInv

\* So does one that puts a document into a queue.
LEMMA QueueKeepsPolicy ==
  ASSUME ClaimInv, OrderlyInv, OrderlyInv', WellBehaved, PolicyInv,
         Wake \/ BypassReview
  PROVE  PolicyInv'
<1>1. TypeOK /\ OneRetained /\ NumbersFit
  BY DEF ClaimInv
<1>2. \A q \in Phase : Retained(q)' = Retained(q)
  BY <1>1, QueueEffect DEF Retained, turns
<1>3. HomesFit'
  <2>1. /\ \A q \in Phase : doc.dir = Claimed(q) => lease[q].state # "none"
        /\ \A p, q \in Phase :
             lease[p].state # "none" /\ lease[q].state # "none" => p = q
        /\ scan.at \in Retiring => doc.dir # Claimed(scan.phase)
    BY DEF PolicyInv, HomesFit, AtFile, Leased
  <2>2. \A q \in Phase : doc'.dir = Claimed(q) => lease'[q].state # "none"
    <3>1. \A q \in Phase : Claimed(q) # "todo"
      BY DEF Claimed
    <3> QED
      BY <1>1, <2>1, <3>1, QueueEffect
  <2>3. \A p, q \in Phase :
          lease'[p].state # "none" /\ lease'[q].state # "none" => p = q
    BY <1>1, <2>1, Parts, QueueEffect DEF Leased
  <2>4. scan'.at \in Retiring => doc'.dir # Claimed(scan'.phase)
    BY <1>1, <2>1, QueueEffect DEF Retiring
  <2> QED
    BY <2>2, <2>3, <2>4 DEF HomesFit, AtFile, Leased
<1>4. CancelsFit'
  BY <1>1, Numbers, Parts, QueueEffect
     DEF PolicyInv, CancelsFit, Leased, turns
<1>5. ControlFits'
  <2>1. control.at # "none" => scan.at = "idle"
    BY DEF OrderlyInv, PausesFit
  <2> QED
    BY <1>1, <2>1, QueueEffect DEF PolicyInv, ControlFits, Retiring, turns
<1>6. DisabledFit'
  BY <1>1, <1>2, Numbers, Parts, Phases, QueueEffect
     DEF PolicyInv, DisabledFit, Reviews, Leased, Inflight, turns
<1>7. ReviewFits'
  BY <1>1, Numbers, Parts, Phases, QueueEffect
     DEF PolicyInv, ReviewFits, ReviewRequired, Reviews, Leased, Retiring, turns
<1>8. CancelledStaysDown'
  BY <1>1, QueueEffect DEF PolicyInv, CancelledStaysDown, Live, turns
<1> QED
  BY <1>3, <1>4, <1>5, <1>6, <1>7, <1>8 DEF PolicyInv

\* So does one that journals a claim.
LEMMA JournalKeepsPolicy ==
  ASSUME ClaimInv, OrderlyInv, OrderlyInv', WellBehaved, PolicyInv,
         Journal
  PROVE  PolicyInv'
<1>1. TypeOK /\ OneRetained /\ NumbersFit
  BY DEF ClaimInv
<1>2. \A q \in Phase : Retained(q)' = Retained(q)
  BY <1>1, JournalEffect DEF Retained, turns
<1>3. HomesFit'
  <2>1. /\ \A q \in Phase : doc.dir = Claimed(q) => lease[q].state # "none"
        /\ \A p, q \in Phase :
             lease[p].state # "none" /\ lease[q].state # "none" => p = q
        /\ scan.at \in Retiring => doc.dir # Claimed(scan.phase)
    BY DEF PolicyInv, HomesFit, AtFile, Leased
  <2>2. \A q \in Phase : doc'.dir = Claimed(q) => lease'[q].state # "none"
    BY <1>1, <2>1, Parts, Dirs, JournalEffect DEF Leased, turns
  <2>3. \A p, q \in Phase :
          lease'[p].state # "none" /\ lease'[q].state # "none" => p = q
    BY <1>1, <2>1, Parts, JournalEffect DEF Leased, turns
  <2>4. scan'.at \in Retiring => doc'.dir # Claimed(scan'.phase)
    BY <1>1, <2>1, JournalEffect DEF Retiring, turns
  <2> QED
    BY <2>2, <2>3, <2>4 DEF HomesFit, AtFile, Leased
<1>4. CancelsFit'
  <2>1. /\ \A q \in Phase, k \in Attempt : exec[q][k].turn # "none" =>
             /\ exec[q][k].cancelled => lease[q].cancel
             /\ <<q, k>> \in used
        /\ \A q \in Phase :
             lease[q].state # "none" /\ <<q, lease[q].attempt>> \in stopped
               => lease[q].cancel
        /\ stopped \subseteq used
    BY DEF PolicyInv, CancelsFit, Leased
  <2>2. \A q \in Phase, k \in Attempt :
          exec'[q][k].turn # "none" =>
            lease'[q].state # "none" /\ lease'[q].attempt = k
    BY DEF OrderlyInv, RetirementWaitsForDelivery, Retained, Leased
  <2>5. /\ <<scan.phase, lease'[scan.phase].attempt>> \notin used
        /\ \A k \in Attempt : exec[scan.phase][k].turn = "none"
    <3>1. /\ scan.phase \in Phase /\ doc.attempt[scan.phase] \in Nat
          /\ lease'[scan.phase].attempt = doc.attempt[scan.phase] + 1
          /\ lease'[scan.phase].attempt \in Attempt /\ ~Leased(scan.phase)
      BY <1>1, JournalEffect, Parts, Numbers
    <3> QED
      BY <3>1 DEF OrderlyInv, AttemptsFit, RetirementWaitsForDelivery, Retained
  <2>3. \A q \in Phase, k \in Attempt : exec'[q][k].turn # "none" =>
          /\ exec'[q][k].cancelled => lease'[q].cancel
          /\ <<q, k>> \in used'
    BY <1>1, <2>1, <2>2, Parts, JournalEffect, <2>5 DEF Leased, turns
  <2>4. /\ \A q \in Phase :
             lease'[q].state # "none" /\ <<q, lease'[q].attempt>> \in stopped'
               => lease'[q].cancel
        /\ stopped' \subseteq used'
    BY <1>1, <2>1, Parts, JournalEffect, <2>5 DEF Leased, turns
  <2> QED
    BY <2>3, <2>4 DEF CancelsFit, Leased
<1>5. ControlFits'
  <2>1. control.at # "none" => scan.at = "idle"
    BY DEF OrderlyInv, PausesFit
  <2> QED
    BY <1>1, <2>1, JournalEffect DEF PolicyInv, ControlFits, Retiring, turns
<1>6. DisabledFit'
  <2>1. Reviews = "never" => scan.phase = "implementation"
    BY <1>1, Numbers, JournalEffect DEF ReviewDisabled, Phase
  <2> QED
    BY <1>1, <1>2, <2>1, Phases, JournalEffect
       DEF PolicyInv, DisabledFit, Reviews, Leased, Inflight, turns
<1>7. ReviewFits'
  <2>1. doc.dir = "done" =>
          /\ lease["review"].state # "none" => doc.by = "review"
          /\ ReviewRequired /\ doc.by # "review" =>
               /\ lease["implementation"].state # "none"
               /\ ~(scan.at \in Retiring /\ scan.phase = "implementation")
    BY DEF PolicyInv, ReviewFits, Leased
  <2>2. ReviewRequired' <=> ReviewRequired
    BY <1>1, JournalEffect DEF ReviewRequired, Reviews, turns
  <2> SUFFICES ASSUME doc'.dir = "done"
               PROVE  /\ lease'["review"].state # "none" => doc'.by = "review"
                      /\ ReviewRequired' /\ doc'.by # "review" =>
                           /\ lease'["implementation"].state # "none"
                           /\ ~(/\ scan'.at \in Retiring
                                /\ scan'.phase = "implementation")
    BY DEF ReviewFits, Leased
  <2> QED
    BY <1>1, <2>1, <2>2, Phases, Parts, JournalEffect
       DEF Retiring, Leased, Claimed, Queue, turns
<1>8. CancelledStaysDown'
  BY <1>1, JournalEffect DEF PolicyInv, CancelledStaysDown, Live, turns
<1> QED
  BY <1>3, <1>4, <1>5, <1>6, <1>7, <1>8 DEF PolicyInv

\* So does one that moves the document it claims, or gives up.
LEMMA RenameKeepsPolicy ==
  ASSUME ClaimInv, OrderlyInv, OrderlyInv', WellBehaved, PolicyInv,
         Rename
  PROVE  PolicyInv'
<1>1. TypeOK /\ OneRetained /\ NumbersFit
  BY DEF ClaimInv
<1>2. \A q \in Phase : Retained(q)' = Retained(q)
  BY <1>1, RenameEffect DEF Retained, turns
<1>3. HomesFit'
  <2>1. /\ \A q \in Phase : doc.dir = Claimed(q) => lease[q].state # "none"
        /\ \A p, q \in Phase :
             lease[p].state # "none" /\ lease[q].state # "none" => p = q
        /\ scan.at \in Retiring => doc.dir # Claimed(scan.phase)
    BY DEF PolicyInv, HomesFit, AtFile, Leased
  <2>2. \A q \in Phase : doc'.dir = Claimed(q) => lease'[q].state # "none"
    BY <1>1, <2>1, Parts, Dirs, RenameEffect
       DEF Leased, ClaimInv, ClaimFits, Claiming, AtFile
  <2>3. \A p, q \in Phase :
          lease'[p].state # "none" /\ lease'[q].state # "none" => p = q
    BY <1>1, <2>1, Parts, RenameEffect
       DEF Leased, ClaimInv, ClaimFits, Claiming, AtFile
  <2>4. scan'.at \in Retiring => doc'.dir # Claimed(scan'.phase)
    BY <1>1, <2>1, RenameEffect
       DEF Retiring, ClaimInv, ClaimFits, Claiming, AtFile
  <2> QED
    BY <2>2, <2>3, <2>4 DEF HomesFit, AtFile, Leased
<1>4. CancelsFit'
  <2>1. /\ \A q \in Phase, k \in Attempt : exec[q][k].turn # "none" =>
             /\ exec[q][k].cancelled => lease[q].cancel
             /\ <<q, k>> \in used
        /\ \A q \in Phase :
             lease[q].state # "none" /\ <<q, lease[q].attempt>> \in stopped
               => lease[q].cancel
        /\ stopped \subseteq used
    BY DEF PolicyInv, CancelsFit, Leased
  <2>2. \A q \in Phase, k \in Attempt :
          exec'[q][k].turn # "none" =>
            lease'[q].state # "none" /\ lease'[q].attempt = k
    BY DEF OrderlyInv, RetirementWaitsForDelivery, Retained, Leased
  <2>3. \A q \in Phase, k \in Attempt : exec'[q][k].turn # "none" =>
          /\ exec'[q][k].cancelled => lease'[q].cancel
          /\ <<q, k>> \in used'
    BY <1>1, <2>1, <2>2, Parts, RenameEffect DEF Leased, turns
  <2>4. /\ \A q \in Phase :
             lease'[q].state # "none" /\ <<q, lease'[q].attempt>> \in stopped'
               => lease'[q].cancel
        /\ stopped' \subseteq used'
    BY <1>1, <2>1, Parts, RenameEffect DEF Leased, turns
  <2> QED
    BY <2>3, <2>4 DEF CancelsFit, Leased
<1>5. ControlFits'
  <2>1. control.at # "none" => scan.at = "idle"
    BY DEF OrderlyInv, PausesFit
  <2> QED
    BY <1>1, <2>1, RenameEffect DEF PolicyInv, ControlFits, Retiring, turns
<1>6. DisabledFit'
  BY <1>1, <1>2, Numbers, Parts, Phases, RenameEffect
     DEF PolicyInv, DisabledFit, Reviews, Leased, Inflight, turns
<1>7. ReviewFits'
  <2>1. doc.dir = "done" =>
          /\ lease["review"].state # "none" => doc.by = "review"
          /\ ReviewRequired /\ doc.by # "review" =>
               /\ lease["implementation"].state # "none"
               /\ ~(scan.at \in Retiring /\ scan.phase = "implementation")
    BY DEF PolicyInv, ReviewFits, Leased
  <2>2. ReviewRequired' <=> ReviewRequired
    BY <1>1, RenameEffect DEF ReviewRequired, Reviews, turns
  <2>3. doc.dir \in {Queue(scan.phase), Claimed(scan.phase)}
    BY <1>1, RenameEffect, Numbers
       DEF ClaimInv, ClaimFits, Claiming, OrderlyInv, JournalsFit, JournalFits
  <2> SUFFICES ASSUME doc'.dir = "done"
               PROVE  /\ lease'["review"].state # "none" => doc'.by = "review"
                      /\ ReviewRequired' /\ doc'.by # "review" =>
                           /\ lease'["implementation"].state # "none"
                           /\ ~(/\ scan'.at \in Retiring
                                /\ scan'.phase = "implementation")
    BY DEF ReviewFits, Leased
  <2> QED
    BY <1>1, <2>1, <2>2, Phases, Parts, RenameEffect, <2>3
       DEF Retiring, Leased, Claimed, Queue, turns
<1>8. CancelledStaysDown'
  BY <1>1, RenameEffect DEF PolicyInv, CancelledStaysDown, Live, turns
<1> QED
  BY <1>3, <1>4, <1>5, <1>6, <1>7, <1>8 DEF PolicyInv

\* So does one that records the claim in the document.
LEMMA RecordKeepsPolicy ==
  ASSUME ClaimInv, OrderlyInv, OrderlyInv', WellBehaved, PolicyInv,
         Record
  PROVE  PolicyInv'
<1>1. TypeOK /\ OneRetained /\ NumbersFit
  BY DEF ClaimInv
<1>2. \A q \in Phase : Retained(q)' = Retained(q)
  BY <1>1, RecordEffect DEF Retained, turns
<1>3. HomesFit'
  <2>1. /\ \A q \in Phase : doc.dir = Claimed(q) => lease[q].state # "none"
        /\ \A p, q \in Phase :
             lease[p].state # "none" /\ lease[q].state # "none" => p = q
        /\ scan.at \in Retiring => doc.dir # Claimed(scan.phase)
    BY DEF PolicyInv, HomesFit, AtFile, Leased
  <2>2. \A q \in Phase : doc'.dir = Claimed(q) => lease'[q].state # "none"
    BY <1>1, <2>1, Parts, Dirs, RecordEffect DEF Leased, turns
  <2>3. \A p, q \in Phase :
          lease'[p].state # "none" /\ lease'[q].state # "none" => p = q
    BY <1>1, <2>1, Parts, RecordEffect DEF Leased, turns
  <2>4. scan'.at \in Retiring => doc'.dir # Claimed(scan'.phase)
    BY <1>1, <2>1, RecordEffect DEF Retiring, turns
  <2> QED
    BY <2>2, <2>3, <2>4 DEF HomesFit, AtFile, Leased
<1>4. CancelsFit'
  BY <1>1, Numbers, Parts, RecordEffect
     DEF PolicyInv, CancelsFit, Leased, turns
<1>5. ControlFits'
  <2>1. control.at # "none" => scan.at = "idle"
    BY DEF OrderlyInv, PausesFit
  <2> QED
    BY <1>1, <2>1, RecordEffect DEF PolicyInv, ControlFits, Retiring, turns
<1>6. DisabledFit'
  BY <1>1, <1>2, Numbers, Parts, Phases, RecordEffect
     DEF PolicyInv, DisabledFit, Reviews, Leased, Inflight, turns
<1>7. ReviewFits'
  BY <1>1, Numbers, Parts, Phases, RecordEffect
     DEF PolicyInv, ReviewFits, ReviewRequired, Reviews, Leased, Retiring, turns
<1>8. CancelledStaysDown'
  BY <1>1, RecordEffect DEF PolicyInv, CancelledStaysDown, Live, turns
<1> QED
  BY <1>3, <1>4, <1>5, <1>6, <1>7, <1>8 DEF PolicyInv

\* So does one that dispatches the claim.
LEMMA StartKeepsPolicy ==
  ASSUME ClaimInv, OrderlyInv, OrderlyInv', WellBehaved, PolicyInv,
         Start
  PROVE  PolicyInv'
<1>1. TypeOK /\ OneRetained /\ NumbersFit
  BY DEF ClaimInv
<1>2. \A q \in Phase : Retained(q)' = Retained(q)
  BY <1>1, StartEffect DEF Retained, turns
<1>3. HomesFit'
  <2>1. /\ \A q \in Phase : doc.dir = Claimed(q) => lease[q].state # "none"
        /\ \A p, q \in Phase :
             lease[p].state # "none" /\ lease[q].state # "none" => p = q
        /\ scan.at \in Retiring => doc.dir # Claimed(scan.phase)
    BY DEF PolicyInv, HomesFit, AtFile, Leased
  <2>2. \A q \in Phase : doc'.dir = Claimed(q) => lease'[q].state # "none"
    BY <1>1, <2>1, Parts, Dirs, StartEffect
       DEF Leased, ClaimInv, ClaimFits, Claiming
  <2>3. \A p, q \in Phase :
          lease'[p].state # "none" /\ lease'[q].state # "none" => p = q
    BY <1>1, <2>1, Parts, StartEffect DEF Leased, ClaimInv, ClaimFits, Claiming
  <2>4. scan'.at \in Retiring => doc'.dir # Claimed(scan'.phase)
    BY <1>1, <2>1, StartEffect DEF Retiring, ClaimInv, ClaimFits, Claiming
  <2> QED
    BY <2>2, <2>3, <2>4 DEF HomesFit, AtFile, Leased
<1>4. CancelsFit'
  <2>1. /\ \A q \in Phase, k \in Attempt : exec[q][k].turn # "none" =>
             /\ exec[q][k].cancelled => lease[q].cancel
             /\ <<q, k>> \in used
        /\ \A q \in Phase :
             lease[q].state # "none" /\ <<q, lease[q].attempt>> \in stopped
               => lease[q].cancel
        /\ stopped \subseteq used
    BY DEF PolicyInv, CancelsFit, Leased
  <2>2. \A q \in Phase, k \in Attempt :
          exec'[q][k].turn # "none" =>
            lease'[q].state # "none" /\ lease'[q].attempt = k
    BY DEF OrderlyInv, RetirementWaitsForDelivery, Retained, Leased
  <2>3. \A q \in Phase, k \in Attempt : exec'[q][k].turn # "none" =>
          /\ exec'[q][k].cancelled => lease'[q].cancel
          /\ <<q, k>> \in used'
    BY <1>1, <2>1, <2>2, Parts, StartEffect
       DEF Leased, turns, ClaimInv, ClaimFits, Claiming
  <2>4. /\ \A q \in Phase :
             lease'[q].state # "none" /\ <<q, lease'[q].attempt>> \in stopped'
               => lease'[q].cancel
        /\ stopped' \subseteq used'
    BY <1>1, <2>1, Parts, StartEffect
       DEF Leased, turns, ClaimInv, ClaimFits, Claiming
  <2> QED
    BY <2>3, <2>4 DEF CancelsFit, Leased
<1>5. ControlFits'
  <2>1. control.at # "none" => scan.at = "idle"
    BY DEF OrderlyInv, PausesFit
  <2> QED
    BY <1>1, <2>1, StartEffect DEF PolicyInv, ControlFits, Retiring, turns
<1>6. DisabledFit'
  <2>1. Leased(scan.phase)
    BY <1>1, StartEffect DEF ClaimInv, ClaimFits, Claiming, Leased
  <2>2. Reviews = "never" => scan.phase = "implementation"
    BY <1>1, <2>1, Numbers DEF PolicyInv, DisabledFit, Phase
  <2> QED
    BY <1>1, <1>2, <2>2, Phases, StartEffect
       DEF PolicyInv, DisabledFit, Reviews, Leased, Inflight, turns
<1>7. ReviewFits'
  <2>1. doc.dir = "done" =>
          /\ lease["review"].state # "none" => doc.by = "review"
          /\ ReviewRequired /\ doc.by # "review" =>
               /\ lease["implementation"].state # "none"
               /\ ~(scan.at \in Retiring /\ scan.phase = "implementation")
    BY DEF PolicyInv, ReviewFits, Leased
  <2>2. ReviewRequired' <=> ReviewRequired
    BY <1>1, StartEffect
       DEF ReviewRequired, Reviews, turns, ClaimInv, ClaimFits, Claiming
  <2> SUFFICES ASSUME doc'.dir = "done"
               PROVE  /\ lease'["review"].state # "none" => doc'.by = "review"
                      /\ ReviewRequired' /\ doc'.by # "review" =>
                           /\ lease'["implementation"].state # "none"
                           /\ ~(/\ scan'.at \in Retiring
                                /\ scan'.phase = "implementation")
    BY DEF ReviewFits, Leased
  <2> QED
    BY <1>1, <2>1, <2>2, Phases, Parts, StartEffect
       DEF Retiring, Leased, Claimed, Queue, turns, ClaimInv, ClaimFits, Claiming
<1>8. CancelledStaysDown'
  BY <1>1, StartEffect DEF PolicyInv, CancelledStaysDown, Live, turns
<1> QED
  BY <1>3, <1>4, <1>5, <1>6, <1>7, <1>8 DEF PolicyInv

\* So does a dispatch that gets its turn admitted.
LEMMA SendKeepsPolicy ==
  ASSUME ClaimInv, OrderlyInv, OrderlyInv', WellBehaved, PolicyInv,
         NEW ph \in Phase, Send(ph), Sendable(ph)
  PROVE  PolicyInv'
<1>1. TypeOK /\ OneRetained /\ NumbersFit
  BY DEF ClaimInv
<1>2. \A q \in Phase : q # ph => Retained(q)' = Retained(q)
  BY <1>1, SendEffect DEF Retained
<1>3. HomesFit'
  <2>1. /\ \A q \in Phase : doc.dir = Claimed(q) => lease[q].state # "none"
        /\ \A p, q \in Phase :
             lease[p].state # "none" /\ lease[q].state # "none" => p = q
        /\ scan.at \in Retiring => doc.dir # Claimed(scan.phase)
    BY DEF PolicyInv, HomesFit, AtFile, Leased
  <2>2. \A q \in Phase : doc'.dir = Claimed(q) => lease'[q].state # "none"
    BY <1>1, <2>1, Parts, Dirs, SendEffect DEF Leased
  <2>3. \A p, q \in Phase :
          lease'[p].state # "none" /\ lease'[q].state # "none" => p = q
    BY <1>1, <2>1, Parts, SendEffect DEF Leased
  <2>4. scan'.at \in Retiring => doc'.dir # Claimed(scan'.phase)
    BY <1>1, <2>1, SendEffect DEF Retiring
  <2> QED
    BY <2>2, <2>3, <2>4 DEF HomesFit, AtFile, Leased
<1>4. CancelsFit'
  <2>1. /\ \A q \in Phase, k \in Attempt : exec[q][k].turn # "none" =>
             /\ exec[q][k].cancelled => lease[q].cancel
             /\ <<q, k>> \in used
        /\ \A q \in Phase :
             lease[q].state # "none" /\ <<q, lease[q].attempt>> \in stopped
               => lease[q].cancel
        /\ stopped \subseteq used
    BY DEF PolicyInv, CancelsFit, Leased
  <2>2. \A q \in Phase, k \in Attempt :
          exec'[q][k].turn # "none" =>
            lease'[q].state # "none" /\ lease'[q].attempt = k
    BY DEF OrderlyInv, RetirementWaitsForDelivery, Retained, Leased
  <2>3. \A q \in Phase, k \in Attempt : exec'[q][k].turn # "none" =>
          /\ exec'[q][k].cancelled => lease'[q].cancel
          /\ <<q, k>> \in used'
    BY <1>1, <2>1, <2>2, Parts, SendEffect DEF Leased
  <2>4. /\ \A q \in Phase :
             lease'[q].state # "none" /\ <<q, lease'[q].attempt>> \in stopped'
               => lease'[q].cancel
        /\ stopped' \subseteq used'
    BY <1>1, <2>1, Parts, SendEffect DEF Leased
  <2> QED
    BY <2>3, <2>4 DEF CancelsFit, Leased
<1>5. ControlFits'
  <2>1. control.at # "none" => scan.at = "idle"
    BY DEF OrderlyInv, PausesFit
  <2> QED
    BY <1>1, <2>1, SendEffect DEF PolicyInv, ControlFits, Retiring
<1>6. DisabledFit'
  BY <1>1, <1>2, Numbers, Parts, Phases, SendEffect
     DEF PolicyInv, DisabledFit, Reviews, Leased, Inflight
<1>7. ReviewFits'
  <2>1. /\ UNCHANGED <<doc, scan, manager>>
        /\ \A q \in Phase :
             (lease'[q].state = "none") <=> (lease[q].state = "none")
    BY <1>1, SendEffect DEF Leased
  <2>2. ReviewRequired' <=> ReviewRequired
    BY <2>1 DEF ReviewRequired, Reviews
  <2> QED
    BY <2>1, <2>2, Phases DEF PolicyInv, ReviewFits, Leased, Retiring
<1>8. CancelledStaysDown'
  <2>1. \A c \in stopped :
          exec'[c[1]][c[2]].turn = "live" => c = <<ph, flight[ph].attempt>>
    BY <1>1, SendEffect DEF PolicyInv, CancelledStaysDown, Live, TypeOK
  <2>2. exec'[ph][flight[ph].attempt].turn = "live" =>
          <<ph, flight[ph].attempt>> \notin stopped
    BY <1>1, SendEffect DEF PolicyInv, CancelsFit, Reservable, Current
  <2>3. stopped' = stopped
    BY <1>1, SendEffect
  <2> QED
    BY <2>1, <2>2, <2>3 DEF CancelledStaysDown, Live
<1> QED
  BY <1>3, <1>4, <1>5, <1>6, <1>7, <1>8 DEF PolicyInv

\* So does an agent that moves its document.
LEMMA AgentKeepsPolicy ==
  ASSUME ClaimInv, OrderlyInv, OrderlyInv', WellBehaved, PolicyInv,
         NEW ph \in Phase, NEW n \in Attempt,
         AgentMoves(ph, n)
  PROVE  PolicyInv'
<1>1. TypeOK /\ OneRetained /\ NumbersFit
  BY DEF ClaimInv
<1>2. \A q \in Phase : Retained(q)' = Retained(q)
  BY <1>1, AgentEffect DEF Retained, turns
<1>3. HomesFit'
  <2>1. /\ \A q \in Phase : doc.dir = Claimed(q) => lease[q].state # "none"
        /\ \A p, q \in Phase :
             lease[p].state # "none" /\ lease[q].state # "none" => p = q
        /\ scan.at \in Retiring => doc.dir # Claimed(scan.phase)
    BY DEF PolicyInv, HomesFit, AtFile, Leased
  <2>2. \A q \in Phase : doc'.dir = Claimed(q) => lease'[q].state # "none"
    <3>1. /\ lease[ph].state # "none" /\ n \in Retained(ph)
          /\ \A q \in Phase : q # ph => doc'.dir # Claimed(q)
      <4>1. n \in Retained(ph)
        BY <1>1, AgentEffect DEF Retained
      <4>2. \A q \in Phase : q # ph => doc'.dir # Claimed(q)
        BY <1>1, AgentEffect DEF WellBehaved, Moves, Claimed, Phase
      <4> QED
        BY <4>1, <4>2 DEF OrderlyInv, RetirementWaitsForDelivery, Leased
    <3> QED
      BY <1>1, <3>1, AgentEffect
  <2>3. \A p, q \in Phase :
          lease'[p].state # "none" /\ lease'[q].state # "none" => p = q
    BY <1>1, <2>1, Parts, AgentEffect DEF Leased
  <2>4. scan'.at \in Retiring => doc'.dir # Claimed(scan'.phase)
    <3>1. /\ lease[ph].state # "none" /\ n \in Retained(ph)
          /\ \A q \in Phase : q # ph => doc'.dir # Claimed(q)
      <4>1. n \in Retained(ph)
        BY <1>1, AgentEffect DEF Retained
      <4>2. \A q \in Phase : q # ph => doc'.dir # Claimed(q)
        BY <1>1, AgentEffect DEF WellBehaved, Moves, Claimed, Phase
      <4> QED
        BY <4>1, <4>2 DEF OrderlyInv, RetirementWaitsForDelivery, Leased
    <3>2. scan.at \in Retiring => Retained(scan.phase) = {}
      BY <1>1, Numbers
         DEF ClaimInv, ScanFits, OrderlyInv, PausesFit, LeasesFit, Retiring
    <3> QED
      BY <1>1, <3>1, <3>2, Numbers, AgentEffect
  <2> QED
    BY <2>2, <2>3, <2>4 DEF HomesFit, AtFile, Leased
<1>4. CancelsFit'
  BY <1>1, Numbers, Parts, AgentEffect
     DEF PolicyInv, CancelsFit, Leased, turns
<1>5. ControlFits'
  <2>1. control.at # "none" => scan.at = "idle"
    BY DEF OrderlyInv, PausesFit
  <2> QED
    BY <1>1, <2>1, AgentEffect DEF PolicyInv, ControlFits, Retiring, turns
<1>6. DisabledFit'
  BY <1>1, <1>2, Numbers, Parts, Phases, AgentEffect
     DEF PolicyInv, DisabledFit, Reviews, Leased, Inflight, turns
<1>7. ReviewFits'
  <2>1. doc.dir = "done" =>
          /\ lease["review"].state # "none" => doc.by = "review"
          /\ ReviewRequired /\ doc.by # "review" =>
               /\ lease["implementation"].state # "none"
               /\ ~(scan.at \in Retiring /\ scan.phase = "implementation")
    BY DEF PolicyInv, ReviewFits, Leased
  <2>2. ReviewRequired' <=> ReviewRequired
    BY <1>1, AgentEffect DEF ReviewRequired, Reviews, turns
  <2>3. Leased(ph) /\ n \in Retained(ph)
    <3>1. n \in Retained(ph)
      BY <1>1, AgentEffect DEF Retained
    <3> QED
      BY <3>1 DEF OrderlyInv, RetirementWaitsForDelivery
  <2>4. scan.at \in Retiring => scan.phase # ph
    BY <1>1, <2>3, Numbers
       DEF ClaimInv, ScanFits, OrderlyInv, PausesFit, LeasesFit, Retiring
  <2>5. ph \in {"implementation", "review"} /\ ph # "spynel"
        /\ (Leased("review") => ph = "review")
    BY <2>3, Phases DEF Phase, PolicyInv, HomesFit
  <2> SUFFICES ASSUME doc'.dir = "done"
               PROVE  /\ lease'["review"].state # "none" => doc'.by = "review"
                      /\ ReviewRequired' /\ doc'.by # "review" =>
                           /\ lease'["implementation"].state # "none"
                           /\ ~(/\ scan'.at \in Retiring
                                /\ scan'.phase = "implementation")
    BY DEF ReviewFits, Leased
  <2> QED
    BY <1>1, <2>1, <2>2, Phases, Parts, AgentEffect, <2>3, <2>4, <2>5
       DEF Retiring, Leased, Claimed, Queue, turns
<1>8. CancelledStaysDown'
  BY <1>1, AgentEffect DEF PolicyInv, CancelledStaysDown, Live, turns
<1> QED
  BY <1>3, <1>4, <1>5, <1>6, <1>7, <1>8 DEF PolicyInv

\* What handles a claim leaves documents and claims where they are.
LEMMA HandlesKeepsHomes ==
  ASSUME ClaimInv, OrderlyInv, PolicyInv, Handles
  PROVE  HomesFit' /\ DisabledFit' /\ ReviewFits'
<1>1. /\ UNCHANGED <<doc, manager, scan>>
      /\ \A q \in Phase :
           /\ (lease'[q].state = "none") <=> (lease[q].state = "none")
           /\ flight'[q].at # "none" => flight[q].at # "none"
           /\ Retained(q)' \subseteq Retained(q)
  BY DEF Handles, Leased, Retained
<1>2. HomesFit'
  BY <1>1 DEF PolicyInv, HomesFit, AtFile, Leased, Retiring
<1>3. DisabledFit'
  BY <1>1, Phases DEF PolicyInv, DisabledFit, Reviews, Leased, Inflight
<1>4. ReviewFits'
  BY <1>1, Phases
     DEF PolicyInv, ReviewFits, ReviewRequired, Reviews, Leased, Retiring
<1> QED
  BY <1>2, <1>3, <1>4

\* What has nothing to do with interruptions keeps their journals.
LEMMA PlainKeepsPolicy ==
  ASSUME ClaimInv, OrderlyInv, PolicyInv, Handles, Plain
  PROVE  PolicyInv'
<1>1. /\ UNCHANGED <<used, stopped>> /\ control' \in {control, NoControl}
      /\ \A q \in Phase :
           /\ lease'[q].cancel = lease[q].cancel
           /\ lease'[q].attempt = lease[q].attempt
           /\ (lease'[q].state = "none") <=> (lease[q].state = "none")
      /\ \A q \in Phase, n \in Attempt :
           /\ exec'[q][n].cancelled => exec[q][n].cancelled
           /\ exec'[q][n].turn # "none" =>
                /\ exec'[q][n].cancelled = exec[q][n].cancelled
                /\ exec'[q][n].turn = exec[q][n].turn
  BY DEF Handles, Plain, Leased
<1>2. CancelsFit'
  BY <1>1 DEF PolicyInv, CancelsFit, Leased
<1>3. ControlFits'
  <2>1. /\ control.phase \in Phase
        /\ control.attempt # 0 => control.attempt \in Attempt
    BY TaskWorkflowAssumption DEF ClaimInv, TypeOK, Control, Attempt
  <2>2. NoControl.at = "none"
    BY DEF NoControl
  <2> QED
    BY <1>1, <2>1, <2>2 DEF PolicyInv, ControlFits
<1>4. CancelledStaysDown'
  BY <1>1 DEF PolicyInv, CancelledStaysDown, Live, ClaimInv, TypeOK
<1> QED
  BY <1>2, <1>3, <1>4, HandlesKeepsHomes DEF PolicyInv

\* A turn that ends after an accepted interruption leaves the journal of it.
LEMMA EndKeepsPolicy ==
  ASSUME ClaimInv, OrderlyInv, PolicyInv,
         NEW ph \in Phase, NEW n \in Attempt, TurnEnds(ph, n)
  PROVE  PolicyInv'
<1>1. TypeOK
  BY DEF ClaimInv
<1>2. /\ Handles /\ UNCHANGED <<lease, control, used>>
      /\ \A q \in Phase, k \in Attempt :
           /\ exec'[q][k].cancelled = exec[q][k].cancelled
           /\ exec'[q][k].turn # exec[q][k].turn => exec'[q][k].turn = "over"
           /\ exec'[q][k].turn # "none" => exec[q][k].turn # "none"
      /\ stopped' = IF exec[ph][n].cancelled THEN stopped \cup {<<ph, n>>}
                    ELSE stopped
  BY <1>1, TurnHandles DEF Handles
<1>3. exec[ph][n].turn = "live" /\ exec'[ph][n].turn = "over"
  <2>1. PICK error \in {"none", "set"} :
          exec' = [exec EXCEPT ![ph][n].turn = "over", ![ph][n].unread = TRUE,
                               ![ph][n].error = error]
    BY DEF TurnEnds
  <2> DEFINE e == [exec[ph][n] EXCEPT !.turn = "over", !.unread = TRUE,
                                      !.error = error]
  <2>2. exec[ph][n] \in Execution
    BY <1>1, Same
  <2>3. e \in Execution /\ e.turn = "over"
    BY <2>2, ExecWritten
  <2>4. exec' = [exec EXCEPT ![ph][n] = e]
    BY <2>1
  <2> HIDE DEF e
  <2> QED
    <3>1. exec \in [Phase -> [Attempt -> Execution]]
      BY <1>1, Same
    <3> QED
      BY <1>1, <2>3, <2>4, <3>1 DEF TurnEnds, Live
<1>4. CancelsFit'
  BY <1>2, <1>3 DEF PolicyInv, CancelsFit, Leased
<1>5. ControlFits'
  <2>1. /\ control.phase \in Phase
        /\ control.attempt # 0 => control.attempt \in Attempt
    BY <1>1, TaskWorkflowAssumption DEF TypeOK, Control, Attempt
  <2> QED
    BY <1>2, <2>1 DEF PolicyInv, ControlFits
<1>6. CancelledStaysDown'
  BY <1>1, <1>2, <1>3 DEF PolicyInv, CancelledStaysDown, Live, TypeOK
<1> QED
  BY <1>2, <1>4, <1>5, <1>6, HandlesKeepsHomes DEF PolicyInv

\* An interruption is journaled before it is asked for, and is taken back only
\* of a claim that it did not reach.
LEMMA ControlKeepsPolicy ==
  ASSUME ClaimInv, OrderlyInv, PolicyInv, Interrupt
  PROVE  PolicyInv'
<1>1. /\ TypeOK /\ Handles
      /\ control.phase \in Phase
      /\ control.attempt # 0 => control.attempt \in Attempt
  BY ControlHandles, TaskWorkflowAssumption
     DEF ClaimInv, TypeOK, Control, Attempt
<1>2. NoControl.at = "none"
  BY DEF NoControl
<1>3. ASSUME NEW ph \in Phase, NEW n \in Attempt, RequestCancel(ph, n)
      PROVE  CancelsFit' /\ ControlFits' /\ CancelledStaysDown'
  <2>1. /\ UNCHANGED <<exec, stopped, used>>
        /\ lease' = [lease EXCEPT ![ph].cancel = TRUE]
        /\ control'.at = "deliver" /\ control'.phase = ph
        /\ control'.attempt = n /\ control'.already = lease[ph].cancel
        /\ exec[ph][n].turn # "none"
        /\ Leased(ph) /\ lease[ph].attempt = n /\ n # 0
    BY <1>3, Parts DEF RequestCancel, turns, Retained, Cancellable, Leased
  <2>2. /\ lease'[ph].cancel
        /\ \A q \in Phase : /\ lease'[q].attempt = lease[q].attempt
                            /\ lease'[q].state = lease[q].state
                            /\ lease[q].cancel => lease'[q].cancel
    BY <1>1, <2>1, CancelWritten
  <2>3. CancelsFit'
    BY <2>1, <2>2 DEF PolicyInv, CancelsFit, Leased
  <2>4. ControlFits'
    BY <2>1, <2>2 DEF PolicyInv, CancelsFit, ControlFits
  <2>5. CancelledStaysDown'
    BY <2>1 DEF PolicyInv, CancelledStaysDown, Live
  <2> QED
    BY <2>3, <2>4, <2>5
<1>4. ASSUME DeliverCancel
      PROVE  CancelsFit' /\ ControlFits' /\ CancelledStaysDown'
  <2> DEFINE ph == control.phase
             n == control.attempt
             e == [exec[ph][n] EXCEPT !.cancelled = TRUE]
  <2>1. /\ UNCHANGED <<lease, stopped, used>> /\ control' = NoControl
        /\ control.at = "deliver" /\ exec[ph][n].turn = "live"
        /\ exec' = [exec EXCEPT ![ph][n] = e]
    BY <1>4 DEF DeliverCancel, Live
  <2>2. n \in Attempt /\ lease[ph].cancel /\ ph \in Phase
    BY <1>1, <2>1 DEF PolicyInv, ControlFits
  <2>3. e \in Execution /\ e.turn = exec[ph][n].turn
    <3>1. exec[ph][n] \in Execution
      BY <1>1, <2>2, Same
    <3> QED
      BY <3>1, ExecWritten
  <2> HIDE DEF e
  <2>4. \A q \in Phase, k \in Attempt :
          /\ exec'[q][k].turn = exec[q][k].turn
          /\ exec'[q][k].cancelled => exec[q][k].cancelled \/ (q = ph /\ k = n)
    <3>1. exec \in [Phase -> [Attempt -> Execution]]
      BY <1>1, Same
    <3> QED
      BY <1>1, <2>1, <2>2, <2>3, <3>1
  <2>5. CancelsFit'
    BY <2>1, <2>2, <2>4 DEF PolicyInv, CancelsFit, Leased
  <2>6. ControlFits'
    BY <1>2, <2>1 DEF ControlFits
  <2>7. CancelledStaysDown'
    BY <1>1, <2>1, <2>4 DEF PolicyInv, CancelledStaysDown, Live, TypeOK
  <2> QED
    BY <2>5, <2>6, <2>7
<1>5. ASSUME NothingInterrupted \/ ControlRefused
      PROVE  CancelsFit' /\ ControlFits' /\ CancelledStaysDown'
  <2>1. /\ UNCHANGED <<lease, exec, stopped, used>>
        /\ \/ control' = NoControl
           \/ /\ control.at = "deliver" /\ ~control.already
              /\ control' = [control EXCEPT !.at = "restore"]
    BY <1>5 DEF NothingInterrupted, ControlRefused, turns
  <2>2. CancelsFit' /\ CancelledStaysDown'
    BY <2>1 DEF PolicyInv, CancelsFit, CancelledStaysDown, Leased, Live
  <2>3. CASE control' = NoControl
    BY <1>2, <2>2, <2>3 DEF ControlFits
  <2>4. CASE control.at = "deliver" /\ ~control.already
             /\ control' = [control EXCEPT !.at = "restore"]
    <3>1. /\ control'.at = "restore" /\ control'.phase = control.phase
          /\ control'.attempt = control.attempt
          /\ control'.already = control.already
      BY <1>1, <2>4 DEF TypeOK, Control
    <3> QED
      BY <2>1, <2>2, <2>4, <3>1 DEF PolicyInv, ControlFits
  <2> QED
    BY <2>1, <2>3, <2>4
<1>6. ASSUME RestoreCancel
      PROVE  CancelsFit' /\ ControlFits' /\ CancelledStaysDown'
  <2> DEFINE ph == control.phase
  <2>1. /\ UNCHANGED <<exec, stopped, used>> /\ control' = NoControl
        /\ control.at = "restore" /\ ph \in Phase
        /\ \/ lease' = lease
           \/ /\ lease' = [lease EXCEPT ![ph].cancel = FALSE]
              /\ Leased(ph) /\ lease[ph].attempt = control.attempt
    BY <1>1, <1>6 DEF RestoreCancel, turns, Cancellable, Leased
  <2>2. /\ <<ph, control.attempt>> \notin stopped
        /\ ~exec[ph][control.attempt].cancelled
    BY <2>1 DEF PolicyInv, ControlFits
  <2>3. CASE lease' = lease
    BY <1>2, <2>1, <2>3
       DEF PolicyInv, CancelsFit, ControlFits, CancelledStaysDown, Leased, Live
  <2>4. CASE /\ lease' = [lease EXCEPT ![ph].cancel = FALSE]
             /\ Leased(ph) /\ lease[ph].attempt = control.attempt
    <3>1. \A q \in Phase : /\ lease'[q].attempt = lease[q].attempt
                           /\ lease'[q].state = lease[q].state
                           /\ q # ph => lease'[q] = lease[q]
      BY <1>1, <2>1, <2>4, CancelWritten
    <3>2. \A k \in Attempt : exec[ph][k].turn # "none" => k = control.attempt
      BY <2>1, <2>4 DEF OrderlyInv, RetirementWaitsForDelivery, Retained
    <3>3. CancelsFit'
      BY <2>1, <2>2, <2>4, <3>1, <3>2 DEF PolicyInv, CancelsFit, Leased
    <3>4. ControlFits' /\ CancelledStaysDown'
      BY <1>2, <2>1 DEF PolicyInv, ControlFits, CancelledStaysDown, Live
    <3> QED
      BY <3>3, <3>4
  <2> QED
    BY <2>1, <2>3, <2>4
<1> QED
  BY <1>1, <1>3, <1>4, <1>5, <1>6, HandlesKeepsHomes DEF Interrupt, PolicyInv

\* The beginnings and the ends of a manager keep every journal.
LEMMA ProcessKeepsPolicy ==
  ASSUME ClaimInv, OrderlyInv, PolicyInv, StopInScan = FALSE,
         Stop \/ Down \/ Crash \/ Restart
  PROVE  PolicyInv'
<1>1. TypeOK
  BY DEF ClaimInv
<1>2. /\ UNCHANGED <<doc, lease, elder, exec, stopped, used>>
      /\ manager'.reviews = manager.reviews
  BY <1>1 DEF Stop, Down, Crash, Restart, turns, TypeOK
<1>3. /\ control' = control \/ control' = NoControl
      /\ scan' = scan \/ scan' = Idle
      /\ flight' = flight \/ flight' = [q \in Phase |-> Grounded]
  BY DEF Stop, Down, Crash, Restart
<1>4. Grounded.at = "none" /\ Idle.at = "idle" /\ NoControl.at = "none"
  BY DEF Grounded, Idle, NoControl
<1>5. /\ \A q \in Phase : Inflight(q)' => Inflight(q)
      /\ \A q \in Phase : Retained(q)' = Retained(q)
      /\ scan'.at \in Retiring => scan' = scan
  BY <1>2, <1>3, <1>4 DEF Inflight, Retained, Retiring
<1>6. HomesFit'
  BY <1>2, <1>5 DEF PolicyInv, HomesFit, AtFile, Leased
<1>7. CancelsFit' /\ CancelledStaysDown'
  BY <1>2 DEF PolicyInv, CancelsFit, CancelledStaysDown, Leased, Live
<1>8. ControlFits'
  BY <1>2, <1>3, <1>4 DEF PolicyInv, ControlFits
<1>9. DisabledFit'
  BY <1>2, <1>5, Phases DEF PolicyInv, DisabledFit, Reviews, Leased
<1>10. ReviewFits'
  BY <1>2, <1>5 DEF PolicyInv, ReviewFits, ReviewRequired, Reviews, Leased
<1> QED
  BY <1>6, <1>7, <1>8, <1>9, <1>10 DEF PolicyInv

\* The third layer holds at the start.
LEMMA PolicyInit ==
  ASSUME Init
  PROVE  PolicyInv
<1>1. /\ scan.at = "idle" /\ control.at = "none" /\ stopped = {} /\ used = {}
      /\ \E ph \in Phase : doc.dir = Queue(ph)
      /\ \A q \in Phase : /\ lease[q].state = "none" /\ flight[q].at = "none"
                          /\ \A n \in Attempt : exec[q][n].turn = "none"
  BY Parts DEF Init, Idle, NoControl, Grounded, NoExecution
<1>2. doc.dir # "done" /\ \A q \in Phase : ~AtFile(q)
  BY <1>1, Dirs DEF Queue, AtFile
<1> QED
  BY <1>1, <1>2, Phases
     DEF PolicyInv, HomesFit, CancelsFit, ControlFits, DisabledFit, ReviewFits,
         CancelledStaysDown, Retiring, Leased, Inflight, Retained

\* Every step keeps the third layer, unless a shutdown cuts a scan.
LEMMA PolicyStep ==
  ASSUME ClaimInv, OrderlyInv, PolicyInv, WellBehaved, StopInScan = FALSE,
         [Next]_vars
  PROVE  PolicyInv'
<1>1. CASE UNCHANGED vars
  BY <1>1
     DEF vars, turns, PolicyInv, HomesFit, CancelsFit, ControlFits, DisabledFit,
         ReviewFits, CancelledStaysDown, Reviews, ReviewRequired, AtFile, Leased,
         Inflight, Retained, Live
<1>2. CASE Next
  <2>1. TypeOK /\ HomeFits /\ OrderlyInv'
    BY OrderlyStep DEF ClaimInv
  <2>2. ASSUME NEW ph \in Phase, RecoverOrphan(ph)
        PROVE  FALSE
    BY <2>1, <2>2, OrphanEffect DEF PolicyInv, HomesFit
  <2>3. ASSUME Reconcile
        PROVE  PolicyInv'
    BY <2>1, <2>3, SettleKeepsPolicy, WalkKeepsPolicy
  <2> QED
    BY <1>2, <2>1, <2>2, <2>3, Steps, PlainKeepsPolicy, EndKeepsPolicy,
       ControlKeepsPolicy, WalkKeepsPolicy, AttachKeepsPolicy,
       ResumeKeepsPolicy, RetireKeepsPolicy, StaleKeepsPolicy,
       QueueKeepsPolicy, JournalKeepsPolicy, RenameKeepsPolicy,
       RecordKeepsPolicy, StartKeepsPolicy, SendKeepsPolicy, AgentKeepsPolicy,
       ProcessKeepsPolicy
<1> QED
  BY <1>1, <1>2

\* If no shutdown comes in the middle of a scan and no agent claims the other
\* phase, all three layers are invariants together.
THEOREM PolicyInvariant ==
  ASSUME StopInScan = FALSE, WellBehaved
  PROVE  Spec => [](ClaimInv /\ OrderlyInv /\ PolicyInv)
<1>1. Init => ClaimInv /\ OrderlyInv /\ PolicyInv
  BY ClaimInit, OrderlyInit, PolicyInit
<1>2. ClaimInv /\ OrderlyInv /\ PolicyInv /\ [Next]_vars
        => (ClaimInv /\ OrderlyInv /\ PolicyInv)'
  BY ClaimStep, OrderlyStep, PolicyStep
<1> QED
  BY <1>1, <1>2, PTL DEF Spec

\* Under the same two conditions, a claim whose interrupted turn has ended is
\* never started again: the journal of its interruption stays with it through
\* crashes, recoveries and restarts of the worker.  A shutdown in the middle of a
\* scan may retire that journal, as the run stop_in_scan shows.
THEOREM InterruptedStaysDown ==
  ASSUME StopInScan = FALSE, WellBehaved
  PROVE  Spec => []CancelledStaysDown
<1>1. PolicyInv => CancelledStaysDown
  BY DEF PolicyInv
<1> QED
  BY <1>1, PolicyInvariant, PTL

\* Under the same two conditions, a task that needs independent review and has
\* settled in done was put there by a review agent, and while reviews are disabled
\* no review agent works.
THEOREM ReviewsHold ==
  ASSUME StopInScan = FALSE, WellBehaved
  PROVE  Spec => []ReviewPolicy
<1>1. PolicyInv => ReviewedBeforeDone
  BY Phases DEF PolicyInv, ReviewFits, ReviewedBeforeDone
<1>2. PolicyInv => ReviewsStayDisabled
  BY DEF PolicyInv, DisabledFit, ReviewsStayDisabled, Retained, Live
<1> QED
  BY <1>1, <1>2, PolicyInvariant, PTL DEF ReviewPolicy

=============================================================================
