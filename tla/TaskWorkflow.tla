---------------------------- MODULE TaskWorkflow ----------------------------
(***************************************************************************)
(* internal/orchestrator: one task document on its way through the status  *)
(* directories, the lease that journals each claim, the worker that runs   *)
(* the provider turns, and the manager that scans, dispatches, consumes    *)
(* and reconciles.                                                         *)
(*                                                                         *)
(* A scan is a sequence of passes under the election fence and scanMu.     *)
(* While it runs no worker request and no lease update gets in (both need  *)
(* the fence), but agents move the document whenever they like, turns end, *)
(* and the context may be cancelled.  Every pass that writes more than one *)
(* durable thing about a claim is cut where a crash would cut it.          *)
(*                                                                         *)
(* An agent moves the file and writes its status in one step.  Threads,    *)
(* notification agents, capacity and the goal route are not modelled.  A   *)
(* reviewer that shares the implementer's thread, direct completion        *)
(* without valid evidence, a queued document that is not due yet and a     *)
(* waiting one that is are nondeterministic outcomes.                      *)
(***************************************************************************)
EXTENDS Naturals, FiniteSets

CONSTANTS
  ImplementerMoves,  \* directories an implementation agent may choose
  ReviewerMoves,     \* directories a review agent may choose
  ReviewModes,       \* what harness.reviews may be set to
  Extensions,        \* whether extension hooks run
  StopInScan,        \* whether the context may be cancelled during a scan
  MaxAttempt,        \* bound: claims of one phase
  MaxFault           \* bound: crashes, stops, lost replies and worker deaths

Phase == {"implementation", "review"}

Dir == {"todo", "working", "review", "reviewing",
        "waiting", "done", "failed", "cancelled"}

ASSUME TaskWorkflowAssumption ==
  /\ ImplementerMoves \subseteq Dir
  /\ ReviewerMoves \subseteq Dir
  /\ ReviewModes \subseteq {"skip-trivial", "always", "never"}
  /\ {Extensions, StopInScan} \subseteq BOOLEAN
  /\ MaxAttempt \in Nat \ {0}
  /\ MaxFault \in Nat

VARIABLES
  doc,       \* the Markdown document
  lease,     \* lease[ph]: runtime/leases/<hash of phase and document>.json
  elder,     \* of two leases, the one that started first
  exec,      \* exec[ph][n]: the worker's execution for attempt n of phase ph
  stopped,   \* claims whose turn ended after an accepted interruption
  used,      \* claims that ever had an execution
  worker,    \* the harness worker: "up" or "down"
  manager,   \* the manager of the current primary term
  scan,      \* where its scan stands
  flight,    \* flight[ph]: the dispatch goroutine; inflight while it exists
  control,   \* Interrupt in progress
  faults     \* how many faults have happened

turns == <<exec, stopped, used, worker>>

vars == <<doc, lease, elder, turns, manager, scan, flight, control, faults>>

-----------------------------------------------------------------------------

Attempt == 1..MaxAttempt

Queue(ph) == IF ph = "implementation" THEN "todo" ELSE "review"

Claimed(ph) == IF ph = "implementation" THEN "working" ELSE "reviewing"

Other(ph) == IF ph = "implementation" THEN "review" ELSE "implementation"

Moves(ph) == IF ph = "implementation" THEN ImplementerMoves ELSE ReviewerMoves

Document == [dir : Dir, status : Dir, attempt : [Phase -> 0..MaxAttempt],
             required : BOOLEAN,              \* review_required
             by : Phase \cup {"spynel"}]      \* who put it where it is

LeaseState == {"none", "claiming", "processing", "recovering",
               "awaiting_transition", "error", "cancelled", "hook_cancelled"}

Lease == [state : LeaseState, owner : Nat, attempt : 0..MaxAttempt,
          cancel : BOOLEAN,   \* cancellation_requested
          old : BOOLEAN]      \* no heartbeat for StaleAfter

NoLease == [state |-> "none", owner |-> 0, attempt |-> 0, cancel |-> FALSE,
            old |-> FALSE]

Execution == [turn : {"none", "live", "over"},
              unread : BOOLEAN,      \* events beyond the committed cursor
              error : {"none", "set", "unsaved"},   \* Error
              cancelled : BOOLEAN]

NoExecution == [turn |-> "none", unread |-> FALSE, error |-> "none",
                cancelled |-> FALSE]

Flight == [at : {"none", "prepare", "send", "bind", "consume", "ack"},
           attempt : 0..MaxAttempt, owner : Nat]

Grounded == [at |-> "none", attempt |-> 0, owner |-> 0]

ScanAt == {"idle", "attach", "resume", "first", "retire first", "second",
           "retire second", "stale", "orphans", "wake", "queue", "rename",
           "record", "start"}

Idle == [at |-> "idle", phase |-> "implementation"]

Control == [at : {"none", "deliver", "restore"}, phase : Phase,
            attempt : 0..MaxAttempt, already : BOOLEAN]

NoControl == [at |-> "none", phase |-> "implementation", attempt |-> 0,
              already |-> FALSE]

\* Every variable has its type.
TypeOK ==
  /\ doc \in Document
  /\ lease \in [Phase -> Lease]
  /\ elder \in Phase
  /\ exec \in [Phase -> [Attempt -> Execution]]
  /\ {stopped, used} \subseteq SUBSET (Phase \X Attempt)
  /\ worker \in {"up", "down"}
  /\ manager \in [gen : Nat, state : {"running", "stopping", "down"},
                  reviews : ReviewModes]
  /\ scan \in [at : ScanAt, phase : Phase]
  /\ flight \in [Phase -> Flight]
  /\ control \in Control
  /\ faults \in 0..MaxFault

Init ==
  /\ \E ph \in Phase, required \in BOOLEAN :
       doc = [dir |-> Queue(ph), status |-> Queue(ph),
              attempt |-> [q \in Phase |-> 0], required |-> required,
              by |-> "spynel"]
  /\ lease = [ph \in Phase |-> NoLease]
  /\ elder = "implementation"
  /\ exec = [ph \in Phase |-> [n \in Attempt |-> NoExecution]]
  /\ stopped = {}
  /\ used = {}
  /\ worker = "up"
  /\ manager \in [gen : {1}, state : {"running"}, reviews : ReviewModes]
  /\ scan = Idle
  /\ flight = [ph \in Phase |-> Grounded]
  /\ control = NoControl
  /\ faults = 0

-----------------------------------------------------------------------------
(* Predicates. *)

Leased(ph) == lease[ph].state # "none"

Inflight(ph) == flight[ph].at # "none"

AtFile(ph) == doc.dir = Claimed(ph)

Live(ph, n) == exec[ph][n].turn = "live"

\* What inspect reports: everything that has not been acknowledged.
Retained(ph) == {n \in Attempt : exec[ph][n].turn # "none"}

Oldest(ph) == CHOOSE n \in Retained(ph) : \A k \in Retained(ph) : n <= k

Reviews == manager.reviews

\* EffectiveTaskReviewRequired.
ReviewRequired == \/ Reviews = "always"
                  \/ Reviews = "skip-trivial" /\ doc.required

\* RunOwned and worker calls of the manager go through: its context is alive,
\* the worker is, and no scan holds the fence.
Owned == /\ manager.state = "running"
         /\ worker = "up"
         /\ scan.at \in {"idle", "attach"}

\* ... and workerAdmissionMu is free.
Admission == Owned /\ scan.at = "idle" /\ control.at = "none"

\* updateLease's test: the execution has not been retired or replaced.
Current(ph) == /\ Leased(ph)
               /\ lease[ph].owner = flight[ph].owner
               /\ lease[ph].attempt = flight[ph].attempt

Fault == faults < MaxFault /\ faults' = faults + 1

-----------------------------------------------------------------------------
(* Updates. *)

\* moveDocumentWithProgress and redirectTransition.
MovedTo(d) == IF doc.dir = d THEN doc
              ELSE [doc EXCEPT !.dir = d, !.status = d, !.by = "spynel"]

NewLease(state, n) == [state |-> state, owner |-> manager.gen, attempt |-> n,
                       cancel |-> FALSE, old |-> FALSE]

\* dispatchExecution.
Takeoff(at, n) == [at |-> at, attempt |-> n, owner |-> manager.gen]

Fly(ph, at) == flight' = [flight EXCEPT ![ph].at = at]

Land(ph) == flight' = [flight EXCEPT ![ph] = Grounded]

ScanTo(at) == scan' = [scan EXCEPT !.at = at]

\* Which lease is older once ph has a new one.
Started(ph) == elder' = IF Leased(Other(ph)) THEN Other(ph) ELSE ph

\* updateLease with a new state, and a heartbeat.
Marked(ph, state) ==
  IF Current(ph) THEN [lease EXCEPT ![ph].state = state, ![ph].old = FALSE]
                 ELSE lease

\* recordDispatchError.
Errored(ph) == Marked(ph, "error")

-----------------------------------------------------------------------------
(* The scan: scanWorkflows and scanOnce. *)

\* A pass of the scan; no pass looks at the context.
Pass(at) == scan.at = at /\ manager.state # "down"

Inspect ==
  /\ Admission
  /\ ScanTo("attach")
  /\ UNCHANGED <<doc, lease, elder, turns, manager, flight, control, faults>>

\* The fence is refused: shutdown began, or the worker died, after the inspect.
FenceRefused ==
  /\ Pass("attach")
  /\ manager.state = "stopping" \/ worker = "down"
  /\ scan' = Idle
  /\ UNCHANGED <<doc, lease, elder, turns, manager, flight, control, faults>>

\* The retained execution still belongs to the claim its lease describes.
Attachable(ph, n) ==
  /\ lease[ph].state \notin {"none", "claiming", "hook_cancelled"}
  /\ lease[ph].attempt = n
  /\ AtFile(ph) => doc.attempt[ph] = n

UnattachedFinishedMutant ==
  {ph \in Phase : /\ \E n \in Attempt : exec[ph][n].turn = "over"
                  /\ ~Inflight(ph)}

Unattached == {ph \in Phase : Retained(ph) # {} /\ ~Inflight(ph)}

\* Attach the executions of P, of which those of L looked live to the inspect.
Attach(P, L) ==
  /\ lease' = [ph \in Phase |->
       IF ph \notin P THEN lease[ph]
       ELSE [lease[ph] EXCEPT
               !.owner = manager.gen,
               !.old = FALSE,
               !.state = IF exec[ph][Oldest(ph)].cancelled \/ lease[ph].cancel
                         THEN "cancelled"
                         ELSE IF ph \in L THEN "processing" ELSE @]]
  /\ flight' = [ph \in Phase |->
       IF ph \in P THEN Takeoff("bind", Oldest(ph)) ELSE flight[ph]]

\* attachWorkerWorkflows takes up every retained execution, or the scan ends:
\* an execution whose claim has changed refuses any replacement.
AttachRetained ==
  /\ Pass("attach")
  /\ manager.state = "running" /\ worker = "up"
  /\ LET refused == {ph \in Unattached : ~Attachable(ph, Oldest(ph))}
     IN \E P \in SUBSET (Unattached \ refused) : \E L \in SUBSET P :
          /\ \A ph \in P \ L : ~Live(ph, Oldest(ph))
          /\ Attach(P, L)
          /\ IF refused = {} THEN P = Unattached /\ ScanTo("resume")
                            ELSE scan' = Idle
  /\ UNCHANGED <<doc, elder, turns, manager, control, faults>>

\* resumeInterruptedClaims: finish the move, restore the attempt from the
\* journal, and recover; or leave a document that has moved on to reconciliation.
ResumeClaim(ph) ==
  /\ Pass("resume")
  /\ lease[ph].state = "claiming" /\ ~Inflight(ph)
  /\ IF doc.dir \in {Queue(ph), Claimed(ph)}
     THEN /\ doc' = [doc EXCEPT !.dir = Claimed(ph), !.status = Claimed(ph),
                                !.attempt[ph] = lease[ph].attempt,
                                !.by = "spynel"]
          /\ lease' = [lease EXCEPT ![ph] = NewLease("recovering", @.attempt)]
          /\ flight' = [flight EXCEPT
                          ![ph] = Takeoff("prepare", lease[ph].attempt)]
     ELSE /\ lease' = [lease EXCEPT ![ph].state = "processing"]
          /\ UNCHANGED <<doc, flight>>
  /\ UNCHANGED <<elder, turns, manager, scan, control, faults>>

Resumed ==
  /\ Pass("resume")
  /\ \A ph \in Phase : lease[ph].state = "claiming" => Inflight(ph)
  /\ scan' = [at |-> "first", phase |-> elder]
  /\ UNCHANGED <<doc, lease, elder, turns, manager, flight, control, faults>>

TransitionedAwaitingMutant(ph) ==
  /\ lease[ph].state = "awaiting_transition"
  /\ ~Inflight(ph)
  /\ ~AtFile(ph)

\* reconcileTransitions acts on a claim whose document has left its directory
\* and whose execution, if any, has been delivered and acknowledged.
Transitioned(ph) ==
  /\ lease[ph].state \notin {"none", "claiming"}
  /\ ~Inflight(ph)
  /\ ~AtFile(ph)

SettledTrustingMutant(ph, d) ==
  IF ph = "implementation"
  THEN IF d = "reviewing" THEN {"review"} ELSE {d}
  ELSE {"todo"} \cup ({"done"} \cap {d})

\* reconcileTaskTransition: where the document may end up when the agent of
\* phase ph left it in d.
Settled(ph, d) ==
  IF ph = "implementation"
  THEN IF Leased("review") THEN {d}
       ELSE LET e == IF Reviews = "never" /\ d \in {"review", "reviewing"}
                     THEN "todo" ELSE d
            IN IF e = "reviewing" \/ (e = "done" /\ ReviewRequired)
               THEN {"review"}
               ELSE IF e = "done" THEN {"done", "todo"} ELSE {e}
  ELSE {"todo"} \cup ({"done"} \cap {d})

\* completeTransition runs extension hooks; one that fails ends the scan.
Hooked(ph, d) ==
  Extensions /\ IF ph = "implementation"
                THEN ~Leased("review") /\ d \in {"done", "waiting", "failed",
                                                 "cancelled"}
                ELSE d = "done"

AfterPass == IF scan.at \in {"first", "retire first"}
             THEN [at |-> "second", phase |-> Other(scan.phase)]
             ELSE [at |-> "stale", phase |-> "implementation"]

Reconcile ==
  /\ Pass("first") \/ Pass("second")
  /\ IF Transitioned(scan.phase)
     THEN \E d \in Settled(scan.phase, doc.dir) :
            /\ doc' = MovedTo(d)
            /\ \/ ScanTo(IF scan.at = "first" THEN "retire first"
                                             ELSE "retire second")
               \/ Hooked(scan.phase, d) /\ scan' = Idle
     ELSE scan' = AfterPass /\ UNCHANGED doc
  /\ UNCHANGED <<lease, elder, turns, manager, flight, control, faults>>

RetireMarkedMutant ==
  /\ Pass("retire first") \/ Pass("retire second")
  /\ lease' = [lease EXCEPT ![scan.phase].state = "retired"]
  /\ scan' = AfterPass
  /\ UNCHANGED <<doc, elder, turns, manager, flight, control, faults>>

\* The lease goes after the document is where it belongs.
Retire ==
  /\ Pass("retire first") \/ Pass("retire second")
  /\ lease' = [lease EXCEPT ![scan.phase] = NoLease]
  /\ scan' = AfterPass
  /\ UNCHANGED <<doc, elder, turns, manager, flight, control, faults>>

\* recoverStale's condition for a new recovery turn on the same claim.
Abandoned(ph) ==
  /\ Leased(ph)
  /\ ~lease[ph].cancel
  /\ lease[ph].state \notin {"hook_cancelled", "cancelled"}
  /\ AtFile(ph)
  /\ ~Inflight(ph)
  /\ lease[ph].owner # manager.gen \/ lease[ph].old

RecoverStale ==
  /\ Pass("stale")
  /\ lease' = [ph \in Phase |->
       IF Abandoned(ph)
       THEN [lease[ph] EXCEPT !.owner = manager.gen, !.old = FALSE]
       ELSE IF lease[ph].cancel THEN [lease[ph] EXCEPT !.state = "cancelled"]
       ELSE lease[ph]]
  /\ flight' = [ph \in Phase |->
       IF Abandoned(ph) THEN Takeoff("prepare", lease[ph].attempt)
       ELSE flight[ph]]
  /\ ScanTo("orphans")
  /\ UNCHANGED <<doc, elder, turns, manager, control, faults>>

Orphaned(ph) == AtFile(ph) /\ ~Leased(ph) /\ ~Inflight(ph)

\* recoverOrphanClaims: a claimed document without a lease.  Its phase's own
\* lease is the only one looked for.
RecoverOrphan(ph) ==
  /\ Pass("orphans")
  /\ Orphaned(ph)
  /\ LET n == IF doc.attempt[ph] = 0 THEN 1 ELSE doc.attempt[ph]
     IN /\ doc' = IF n = doc.attempt[ph] THEN doc
                 ELSE [doc EXCEPT !.attempt[ph] = n, !.status = Claimed(ph)]
        /\ lease' = [lease EXCEPT ![ph] = NewLease("recovering", n)]
        /\ flight' = [flight EXCEPT ![ph] = Takeoff("prepare", n)]
  /\ Started(ph)
  /\ UNCHANGED <<turns, manager, scan, control, faults>>

OrphansRecovered ==
  /\ Pass("orphans")
  /\ \A ph \in Phase : ~Orphaned(ph)
  /\ ScanTo("wake")
  /\ UNCHANGED <<doc, lease, elder, turns, manager, flight, control, faults>>

\* wakeWaitingDocuments: due or not, leased or not.
Wake ==
  /\ Pass("wake")
  /\ \/ doc.dir = "waiting" /\ doc' = MovedTo("todo")
     \/ UNCHANGED doc
  /\ scan' = [at |-> "queue", phase |-> "implementation"]
  /\ UNCHANGED <<lease, elder, turns, manager, flight, control, faults>>

\* Implementation queues come before review queues.
NextQueue == scan' = IF scan.phase = "implementation"
                     THEN [at |-> "queue", phase |-> "review"] ELSE Idle

\* No phase of the document has a lease.
Claimable(ph) ==
  /\ doc.dir = Queue(ph)
  /\ \A q \in Phase : ~Leased(q)
  /\ ~Inflight(ph)
  /\ doc.attempt[ph] < MaxAttempt

\* harness.reviews=never sends a queued review back.
ReviewDisabled(ph) == ph = "review" /\ Reviews = "never"

\* Nothing to claim, or not due yet.
SkipQueue ==
  /\ Pass("queue")
  /\ scan.phase = "implementation" \/ ~Claimable("review")
  /\ NextQueue
  /\ UNCHANGED <<doc, lease, elder, turns, manager, flight, control, faults>>

BypassReview ==
  /\ Pass("queue")
  /\ Claimable(scan.phase) /\ ReviewDisabled(scan.phase)
  /\ doc' = MovedTo("todo")
  /\ NextQueue
  /\ UNCHANGED <<lease, elder, turns, manager, flight, control, faults>>

JournalStaleAttemptMutant ==
  /\ Pass("queue")
  /\ Claimable(scan.phase) /\ ~ReviewDisabled(scan.phase)
  /\ LET n == IF doc.attempt[scan.phase] = 0 THEN 1 ELSE doc.attempt[scan.phase]
     IN lease' = [lease EXCEPT ![scan.phase] = NewLease("claiming", n)]
  /\ Started(scan.phase)
  /\ ScanTo("rename")
  /\ UNCHANGED <<doc, turns, manager, flight, control, faults>>

\* The claim is journaled before the document moves.
Journal ==
  /\ Pass("queue")
  /\ Claimable(scan.phase) /\ ~ReviewDisabled(scan.phase)
  /\ lease' = [lease EXCEPT ![scan.phase] =
                 NewLease("claiming", doc.attempt[scan.phase] + 1)]
  /\ Started(scan.phase)
  /\ ScanTo("rename")
  /\ UNCHANGED <<doc, turns, manager, flight, control, faults>>

\* claimDocument's rename.  A document that has left the queue is not claimed,
\* and the journal entry goes unless the document already sits at the target.
Rename ==
  /\ Pass("rename")
  /\ IF doc.dir = Queue(scan.phase)
     THEN /\ doc' = [doc EXCEPT !.dir = Claimed(scan.phase), !.by = "spynel"]
          /\ ScanTo("record")
          /\ UNCHANGED lease
     ELSE /\ lease' = IF AtFile(scan.phase) THEN lease
                      ELSE [lease EXCEPT ![scan.phase] = NoLease]
          /\ NextQueue
          /\ UNCHANGED doc
  /\ UNCHANGED <<elder, turns, manager, flight, control, faults>>

RecordForgetsMutant ==
  /\ Pass("record")
  /\ \/ /\ doc' = [doc EXCEPT !.status = Claimed(scan.phase),
                              !.attempt[scan.phase] = lease[scan.phase].attempt]
        /\ ScanTo("start")
        /\ UNCHANGED <<lease, faults>>
     \/ /\ Fault
        /\ lease' = [lease EXCEPT ![scan.phase] = NoLease]
        /\ NextQueue
        /\ UNCHANGED doc
  /\ UNCHANGED <<elder, turns, manager, flight, control>>

\* ... and its rewrite of the claimed document.  If that fails, the document is
\* at the target and the journal entry stays.
Record ==
  /\ Pass("record")
  /\ \/ /\ doc' = [doc EXCEPT !.status = Claimed(scan.phase),
                              !.attempt[scan.phase] = lease[scan.phase].attempt]
        /\ ScanTo("start")
        /\ UNCHANGED faults
     \/ /\ Fault
        /\ NextQueue
        /\ UNCHANGED doc
  /\ UNCHANGED <<lease, elder, turns, manager, flight, control>>

\* The lease is dispatched, unless a task.claimed hook refuses or fails.
Start ==
  /\ Pass("start")
  /\ \/ /\ lease' = [lease EXCEPT ![scan.phase].state = "processing"]
        /\ flight' = [flight EXCEPT ![scan.phase] =
                         Takeoff("send", lease[scan.phase].attempt)]
     \/ /\ Extensions /\ scan.phase = "implementation"
        /\ \E state \in {"hook_cancelled", "error"} :
             lease' = [lease EXCEPT ![scan.phase].state = state]
        /\ UNCHANGED flight
  /\ NextQueue
  /\ UNCHANGED <<doc, elder, turns, manager, control, faults>>

Scan ==
  \/ Inspect \/ FenceRefused \/ AttachRetained
  \/ \E ph \in Phase : ResumeClaim(ph)
  \/ Resumed \/ Reconcile \/ Retire \/ RecoverStale
  \/ \E ph \in Phase : RecoverOrphan(ph)
  \/ OrphansRecovered \/ Wake
  \/ SkipQueue \/ BypassReview \/ Journal \/ Rename \/ Record \/ Start

-----------------------------------------------------------------------------
(* The dispatch goroutine: dispatchExecution and runWorkerWorkflow. *)

At(ph, at) == flight[ph].at = at

Execute(ph) == exec[ph][flight[ph].attempt]

\* A recovery marks the lease and leaves a note in the document.
Prepare(ph) ==
  /\ At(ph, "prepare") /\ Owned
  /\ lease' = IF AtFile(ph) THEN Marked(ph, "recovering") ELSE Errored(ph)
  /\ IF Current(ph) /\ AtFile(ph) THEN Fly(ph, "send") ELSE Land(ph)
  /\ UNCHANGED <<doc, elder, turns, manager, scan, control, faults>>

\* ApplyWorkerWorkflow("reserve"), under the same fence as the admission.
Reservable(ph) ==
  /\ Current(ph) /\ ~lease[ph].cancel
  /\ lease[ph].state \in {"processing", "recovering"}
  /\ AtFile(ph)
  /\ doc.status = Claimed(ph)
  /\ doc.attempt[ph] = flight[ph].attempt

\* What the worker keeps of a new admission: a refused reservation is over
\* without an event, and so is, with one, a turn the provider rejects.  The
\* terminal event of the latter does not carry the error that Send then records.
Admitted(ph) ==
  IF Reservable(ph)
  THEN {[NoExecution EXCEPT !.turn = "live"],
        [NoExecution EXCEPT !.turn = "over", !.error = "unsaved", !.unread = TRUE]}
  ELSE {[NoExecution EXCEPT !.turn = "over", !.error = "set"]}

\* The document is there, and no execution of the claim is retained.
Sendable(ph) == AtFile(ph) /\ flight[ph].attempt \notin Retained(ph)

\* A refusal is an error of the dispatch, and so is a lost reply, which the next
\* scan reconciles.
Send(ph) ==
  /\ At(ph, "send") /\ Admission
  /\ IF Sendable(ph)
     THEN /\ exec' \in {[exec EXCEPT ![ph][flight[ph].attempt] = e] :
                         e \in Admitted(ph)}
          /\ used' = used \cup {<<ph, flight[ph].attempt>>}
          /\ \/ Fly(ph, "bind") /\ UNCHANGED <<lease, faults>>
             \/ Fault /\ lease' \in {Errored(ph), lease} /\ Land(ph)
     ELSE /\ lease' = Errored(ph)
          /\ Land(ph)
          /\ UNCHANGED <<exec, used, faults>>
  /\ UNCHANGED <<doc, elder, stopped, worker, manager, scan, control>>

Bind(ph) ==
  /\ At(ph, "bind") /\ Owned
  /\ lease' = Marked(ph, IF lease[ph].state = "recovering" THEN "processing"
                         ELSE lease[ph].state)
  /\ IF Current(ph) THEN Fly(ph, "consume") ELSE Land(ph)
  /\ UNCHANGED <<doc, elder, turns, manager, scan, control, faults>>

\* Consume: the events, in order, then the cursor.  A terminal event leaves the
\* lease awaiting the agent's move.
Deliver(ph) ==
  /\ At(ph, "consume") /\ Owned
  /\ Execute(ph).unread
  /\ lease' = Marked(ph, IF Execute(ph).turn = "over"
                            /\ lease[ph].state # "cancelled"
                         THEN "awaiting_transition"
                         ELSE IF lease[ph].state = "recovering" THEN "processing"
                         ELSE lease[ph].state)
  /\ IF Current(ph) \/ ~Leased(ph)
     THEN /\ exec' = [exec EXCEPT ![ph][flight[ph].attempt].unread = FALSE]
          /\ UNCHANGED flight
     ELSE Land(ph) /\ UNCHANGED exec
  /\ UNCHANGED <<doc, elder, stopped, used, worker, manager, scan, control,
                 faults>>

\* Done and fully committed: a cancelled or failed execution marks its lease.
Finish(ph) ==
  /\ At(ph, "consume") /\ Owned
  /\ Execute(ph).turn = "over" /\ ~Execute(ph).unread
  /\ LET marks == Execute(ph).cancelled \/ Execute(ph).error # "none"
     IN /\ lease' = IF Execute(ph).cancelled THEN Marked(ph, "cancelled")
                    ELSE IF marks THEN Errored(ph) ELSE lease
        /\ IF marks /\ Leased(ph) /\ ~Current(ph) THEN Land(ph)
           ELSE Fly(ph, "ack")
  /\ UNCHANGED <<doc, elder, turns, manager, scan, control, faults>>

\* The worker forgets the execution, or the call fails.
Ack(ph) ==
  /\ At(ph, "ack") /\ Admission
  /\ \/ /\ exec' = [exec EXCEPT ![ph][flight[ph].attempt] = NoExecution]
        /\ UNCHANGED faults
     \/ Fault /\ UNCHANGED exec
  /\ Land(ph)
  /\ UNCHANGED <<doc, lease, elder, stopped, used, worker, manager, scan, control>>

\* A transient failure of a worker call, a read or a job record.
Fails(ph) ==
  /\ flight[ph].at \in {"prepare", "send", "consume"} /\ Owned /\ Fault
  /\ lease' = Errored(ph)
  /\ Land(ph)
  /\ UNCHANGED <<doc, elder, turns, manager, scan, control>>

DetachUnfencedMutant(ph) ==
  /\ Inflight(ph)
  /\ manager.state = "stopping" \/ worker = "down"
  /\ Land(ph)
  /\ UNCHANGED <<doc, lease, elder, turns, manager, scan, control, faults>>

\* The context is cancelled, which a consumer and a dispatch that waits for
\* capacity notice at once; or the worker is gone, which nobody can record.
Detach(ph) ==
  /\ Inflight(ph)
  /\ \/ manager.state = "stopping" /\ (scan.at = "idle" \/ ~At(ph, "ack"))
     \/ worker = "down" /\ scan.at \in {"idle", "attach"}
  /\ Land(ph)
  /\ UNCHANGED <<doc, lease, elder, turns, manager, scan, control, faults>>

FlightStep(ph) ==
  \/ Prepare(ph) \/ Send(ph) \/ Bind(ph) \/ Deliver(ph)
  \/ Finish(ph) \/ Ack(ph) \/ Detach(ph)

-----------------------------------------------------------------------------
(* The provider agents. *)

AgentMoves(ph, n) ==
  /\ Live(ph, n)
  /\ \E d \in Moves(ph) \ {doc.dir} :
       doc' = [doc EXCEPT !.dir = d, !.status = d, !.by = ph]
  /\ UNCHANGED <<lease, elder, turns, manager, scan, flight, control, faults>>

AgentReports(ph, n) ==
  /\ Live(ph, n) /\ ~exec[ph][n].unread
  /\ exec' = [exec EXCEPT ![ph][n].unread = TRUE]
  /\ UNCHANGED <<doc, lease, elder, stopped, used, worker, manager, scan, flight,
                 control, faults>>

TurnEnds(ph, n) ==
  /\ Live(ph, n)
  /\ \E error \in {"none", "set"} :
       exec' = [exec EXCEPT ![ph][n].turn = "over", ![ph][n].unread = TRUE,
                            ![ph][n].error = error]
  /\ stopped' = IF exec[ph][n].cancelled THEN stopped \cup {<<ph, n>>} ELSE stopped
  /\ UNCHANGED <<doc, lease, elder, used, worker, manager, scan, flight, control,
                 faults>>

\* No heartbeat for StaleAfter.
LeaseAges(ph) ==
  /\ Leased(ph) /\ ~lease[ph].old
  /\ scan.at = "idle"
  /\ lease' = [lease EXCEPT ![ph].old = TRUE]
  /\ UNCHANGED <<doc, elder, turns, manager, scan, flight, control, faults>>

-----------------------------------------------------------------------------
(* Interrupt: the intent is journaled in the lease before the worker is told, *)
(* and taken back if nothing was interrupted.  It holds workerAdmissionMu.    *)

\* ApplyWorkerWorkflow's test for "cancel" and "restore-cancellation".
Cancellable(ph, n) ==
  /\ lease[ph].owner = manager.gen
  /\ lease[ph].attempt = n
  /\ lease[ph].state \in {"processing", "recovering", "awaiting_transition",
                          "cancelled", "error"}

RequestCancelUnjournaledMutant(ph, n) ==
  /\ Admission
  /\ n \in Retained(ph) /\ Cancellable(ph, n)
  /\ control' = [at |-> "deliver", phase |-> ph, attempt |-> n,
                 already |-> lease[ph].cancel]
  /\ UNCHANGED <<doc, lease, elder, turns, manager, scan, flight, faults>>

RequestCancel(ph, n) ==
  /\ Admission
  /\ n \in Retained(ph) /\ Cancellable(ph, n)
  /\ lease' = [lease EXCEPT ![ph].cancel = TRUE]
  /\ control' = [at |-> "deliver", phase |-> ph, attempt |-> n,
                 already |-> lease[ph].cancel]
  /\ UNCHANGED <<doc, elder, turns, manager, scan, flight, faults>>

\* The turn was interrupted, or nobody knows because the call failed.
DeliverCancel ==
  /\ control.at = "deliver" /\ Owned
  /\ Live(control.phase, control.attempt)
  /\ exec' = [exec EXCEPT ![control.phase][control.attempt].cancelled = TRUE]
  /\ control' = NoControl
  /\ UNCHANGED <<doc, lease, elder, stopped, used, worker, manager, scan, flight,
                 faults>>

\* There was nothing to interrupt: the worker withdraws its own mark at once.
NothingInterrupted ==
  /\ control.at = "deliver" /\ Owned
  /\ control' = IF control.already
                   \/ exec[control.phase][control.attempt].cancelled
                THEN NoControl ELSE [control EXCEPT !.at = "restore"]
  /\ UNCHANGED <<doc, lease, elder, turns, manager, scan, flight, faults>>

RestoreCancel ==
  /\ control.at = "restore" /\ Owned
  /\ lease' = IF Cancellable(control.phase, control.attempt)
              THEN [lease EXCEPT ![control.phase].cancel = FALSE] ELSE lease
  /\ control' = NoControl
  /\ UNCHANGED <<doc, elder, turns, manager, scan, flight, faults>>

ControlRefused ==
  /\ control.at # "none"
  /\ manager.state = "stopping" \/ worker = "down"
  /\ control' = NoControl
  /\ UNCHANGED <<doc, lease, elder, turns, manager, scan, flight, faults>>

Interrupt ==
  \/ \E ph \in Phase, n \in Attempt : RequestCancel(ph, n)
  \/ DeliverCancel \/ NothingInterrupted \/ RestoreCancel \/ ControlRefused

-----------------------------------------------------------------------------
(* Processes. *)

\* Shutdown, handoff, or the end of a term whose worker has exited.
Stop ==
  /\ manager.state = "running"
  /\ StopInScan \/ scan.at \in {"idle", "attach"}
  /\ \/ Fault
     \/ worker = "down" /\ UNCHANGED faults
  /\ manager' = [manager EXCEPT !.state = "stopping"]
  /\ UNCHANGED <<doc, lease, elder, turns, scan, flight, control>>

Down ==
  /\ manager.state = "stopping"
  /\ \A ph \in Phase : ~Inflight(ph)
  /\ scan.at = "idle" /\ control.at = "none"
  /\ manager' = [manager EXCEPT !.state = "down"]
  /\ UNCHANGED <<doc, lease, elder, turns, scan, flight, control, faults>>

Crash ==
  /\ manager.state # "down" /\ Fault
  /\ manager' = [manager EXCEPT !.state = "down"]
  /\ scan' = Idle
  /\ flight' = [ph \in Phase |-> Grounded]
  /\ control' = NoControl
  /\ UNCHANGED <<doc, lease, elder, turns>>

\* The next term opens the worker, or starts one that replays the journals.
Restart ==
  /\ manager.state = "down"
  /\ manager' = [manager EXCEPT !.gen = @ + 1, !.state = "running"]
  /\ worker' = "up"
  /\ UNCHANGED <<doc, lease, elder, exec, stopped, used, scan, flight, control,
                 faults>>

\* What the journals bring back of an execution.
Replayed(e) == IF e.turn = "live" THEN NoExecution
               ELSE IF e.error = "unsaved" THEN [e EXCEPT !.error = "none"] ELSE e

\* Turns in progress die with the worker.  Completed executions are on disk,
\* unless the worker was told to stop or gave up waiting for a controller.
WorkerDies ==
  /\ worker = "up" /\ Fault
  /\ worker' = "down"
  /\ exec' \in {[ph \in Phase |-> [n \in Attempt |-> Replayed(exec[ph][n])]],
                [ph \in Phase |-> [n \in Attempt |-> NoExecution]]}
  /\ UNCHANGED <<doc, lease, elder, stopped, used, manager, scan, flight, control>>

Process == Stop \/ Down \/ Crash \/ Restart \/ WorkerDies

Next ==
  \/ Scan
  \/ \E ph \in Phase : FlightStep(ph) \/ Fails(ph) \/ LeaseAges(ph)
  \/ \E ph \in Phase, n \in Attempt :
       AgentMoves(ph, n) \/ AgentReports(ph, n) \/ TurnEnds(ph, n)
  \/ Interrupt
  \/ Process

Spec == Init /\ [][Next]_vars

\* The scan timer fires, mutexes are granted, turns end or time out, and a
\* server is started again.
Fairness ==
  /\ SF_vars(Scan)
  /\ \A ph \in Phase : SF_vars(FlightStep(ph))
  /\ \A ph \in Phase, n \in Attempt : WF_vars(TurnEnds(ph, n))
  /\ WF_vars(DeliverCancel \/ NothingInterrupted \/ RestoreCancel
             \/ ControlRefused)
  /\ WF_vars(worker = "down" /\ Stop)
  /\ WF_vars(Down)
  /\ WF_vars(Restart)

FairSpec == Spec /\ Fairness

-----------------------------------------------------------------------------
(* Properties. *)

\* Recovery never starts a second turn for a phase whose agent is still working,
\* however its replies were lost and whichever manager is in charge.
OneTurnPerPhase ==
  \A ph \in Phase : \A n, k \in Attempt : Live(ph, n) /\ Live(ph, k) => n = k

\* A claim whose interrupted turn has ended is not started again by a recovery
\* scan, before or after the journal of the interruption was read.
CancelledStaysDown == \A c \in stopped : ~Live(c[1], c[2])

\* A new claim never takes the number of an earlier one that reached the worker,
\* whatever was written of that claim before a crash.
AttemptsAreFresh ==
  [][\A ph \in Phase :
       lease'[ph].state = "claiming" /\ lease[ph].state # "claiming"
         => <<ph, lease'[ph].attempt>> \notin used]_vars

\* A document that Spynel put in a claimed directory has a lease, so a crash at
\* any point of a claim is recovered from the journal.
ClaimsAreJournaled ==
  \A ph \in Phase : AtFile(ph) /\ doc.by = "spynel" => Leased(ph)

ReviewedBeforeDone ==
  doc.dir = "done" /\ ReviewRequired /\ (\A ph \in Phase : ~Leased(ph))
    => doc.by = "review"

ReviewsStayDisabled ==
  Reviews = "never" => \A n \in Attempt : ~Live("review", n)

\* A task that needs independent review and has settled in done was put there by
\* a review agent; and while harness.reviews is "never" no review agent works,
\* whatever was queued for review before. The setting does not change in a run:
\* a claim already in reviewing when harness.reviews is switched off is left out.
ReviewPolicy == ReviewedBeforeDone /\ ReviewsStayDisabled

\* A claim is not retired before its execution has been delivered and
\* acknowledged: an execution the worker retains has the lease it belongs to.
RetirementWaitsForDelivery ==
  \A ph \in Phase : \A n \in Retained(ph) : Leased(ph) /\ lease[ph].attempt = n

\* Once its document has left the claimed directory, a claim is retired unless
\* the agent brings the document back.
MoveSettles ==
  \A ph \in Phase :
    Leased(ph) /\ ~AtFile(ph) ~> ~Leased(ph) \/ AtFile(ph)
=============================================================================
