---------------------------- MODULE WorkerJournal ----------------------------
(***************************************************************************)
(* internal/harness/worker*.go: the detached worker's books.  A controller *)
(* sends a job under the next sequence number; the worker journals the     *)
(* admission, reserves the source, calls the provider, and appends every   *)
(* event to a synced file.  Consumers read pages, deliver each event with  *)
(* a receipt, commit the cursor and acknowledge what is complete.  When a  *)
(* worker dies, its successor copies the journals and carries on.          *)
(*                                                                         *)
(* A request is applied under the operations lock and the election fence,  *)
(* and so is, under the fence alone, a consumer's callback.  Provider      *)
(* events take neither.  A request outlives its caller's patience: it may  *)
(* land after the caller has given up and has sent another one.  Requests  *)
(* and consumers of a dead worker, or of a controller that has lost its    *)
(* term, are refused.                                                      *)
(*                                                                         *)
(* Every job is one provider turn: follow-ups, multi-turn conversations,   *)
(* agents' deadlines, configuration and control are not modelled.          *)
(***************************************************************************)
EXTENDS Naturals, FiniteSets

CONSTANTS
  Job,            \* what controllers send (the digest of an admission)
  NoJob,          \* no admission
  MaxExecutions,  \* workerMaxExecutions
  MaxEvents,      \* workerMaxEvents
  PageEvents,     \* workerPageEvents
  MaxTurn,        \* bound: admissions
  MaxMail,        \* bound: requests under way
  MaxFault        \* bound: kills, stops, failed writes; lost, repeated and
                  \* given up requests; controllers replaced

ASSUME WorkerJournalAssumption ==
  /\ NoJob \notin Job
  /\ {MaxExecutions, MaxEvents, PageEvents, MaxMail} \subseteq Nat \ {0}
  /\ {MaxTurn, MaxFault} \subseteq Nat

VARIABLES
  host,        \* the worker process and what it holds in memory
  disk,        \* disk[s]: the files of s in the directory that worker.json names
  draft,       \* the same of a worker that has not published itself yet
  op,          \* the request that is being applied, between two of its writes
  mail,        \* requests on their way to the worker
  consumer,    \* consumer[s]: the page that Consume works on
  turns,       \* how many admissions there have been
  dispatched,  \* what the provider was called with
  settled,     \* jobs that have been acknowledged
  receipts,    \* downstream: what was delivered, and under which receipt
  faults       \* how many faults have happened

books == <<host, disk, draft, op>>

vars == <<books, mail, consumer, turns, dispatched, settled, receipts, faults>>

-----------------------------------------------------------------------------

Sequence == 1..MaxTurn

Cursor == 0..MaxEvents

\* <s>.jsonl, <s>.jsonl.admission, <s>.jsonl.cursor.  "turn" is not stored: it
\* numbers the admissions of all workers, and <<turn, k>> names an event.
Files == [journal : BOOLEAN, turn : 0..MaxTurn, events : Cursor,
          terminal : BOOLEAN,         \* the last event ends the turn
          terminalError : BOOLEAN,    \* ... with this error
          torn : BOOLEAN,             \* the last line is incomplete
          admission : BOOLEAN, job : Job \cup {NoJob}, by : Nat,
          done : BOOLEAN, error : BOOLEAN, saved : Cursor,
          cursor : Cursor]            \* 0 without a file

NoFiles == [journal |-> FALSE, turn |-> 0, events |-> 0, terminal |-> FALSE,
            terminalError |-> FALSE, torn |-> FALSE, admission |-> FALSE,
            job |-> NoJob, by |-> 0, done |-> FALSE, error |-> FALSE,
            saved |-> 0, cursor |-> 0]

Empty == [s \in Sequence |-> NoFiles]

Execution == [turn : 0..MaxTurn, job : Job \cup {NoJob},
              by : Nat,              \* ReceiptWorkerID
              last : Cursor, committed : Cursor,
              done : BOOLEAN, error : BOOLEAN,
              running : BOOLEAN]     \* the provider still emits events

NoExecution == [turn |-> 0, job |-> NoJob, by |-> 0, last |-> 0, committed |-> 0,
                done |-> FALSE, error |-> FALSE, running |-> FALSE]

NoExecutions == [s \in Sequence |-> NoExecution]

Host == [state : {"down",       \* no process
                  "copying",    \* recoverPrevious copies
                  "recovered",  \* ... and is done; not published yet
                  "up",
                  "failed"},    \* failJournalLocked: about to exit
         id : Nat, next : Nat \ {0}, incomplete : Nat,
         exec : [Sequence -> Execution]]

Op == [at : {"none", "checkpoint", "reserve", "dispatch", "result",
             "cursor", "admission"},
       s : 0..MaxTurn,
       outcome : {"accepted", "rejected", "unconfirmed"}]

NoOp == [at |-> "none", s |-> 0, outcome |-> "accepted"]

Request == [kind : {"send", "commit", "ack"}, s : Sequence, job : Job \cup {NoJob},
            expected : Cursor, after : Cursor]

Page == [turn : 0..MaxTurn, by : Nat, committed : Cursor, after : Cursor,
         upto : Cursor]

NoPage == [turn |-> 0, by |-> 0, committed |-> 0, after |-> 0, upto |-> 0]

NoPages == [s \in Sequence |-> NoPage]

Receipt == [by : Nat, s : Sequence, cursor : Cursor, turn : 1..MaxTurn]

\* Every variable has its type.
TypeOK ==
  /\ host \in Host
  /\ {disk, draft} \subseteq [Sequence -> Files]
  /\ op \in Op
  /\ mail \subseteq Request
  /\ consumer \in [Sequence -> Page]
  /\ turns \in 0..MaxTurn
  /\ dispatched \subseteq [worker : Nat, job : Job, turn : 1..MaxTurn]
  /\ settled \subseteq Job
  /\ receipts \subseteq Receipt
  /\ faults \in 0..MaxFault

Init ==
  /\ host = [state |-> "down", id |-> 0, next |-> 1, incomplete |-> 0,
             exec |-> NoExecutions]
  /\ disk = Empty
  /\ draft = Empty
  /\ op = NoOp
  /\ mail = {}
  /\ consumer = NoPages
  /\ turns = 0
  /\ dispatched = {}
  /\ settled = {}
  /\ receipts = {}
  /\ faults = 0

-----------------------------------------------------------------------------

Retained(s) == host.exec[s].turn # 0

Count == Cardinality({s \in Sequence : Retained(s)})

\* A request is applied: the operations lock and the fence are free.
Serving == host.state = "up" /\ op = NoOp

\* RunOwned: the fence is free, and the worker's process exists.
Owned == host.state \in {"up", "failed"} /\ op = NoOp

Fault == faults < MaxFault /\ faults' = faults + 1

Present(f) == f # NoFiles

\* The process is gone, and with it its requests and its consumers' binding.
HostGone ==
  /\ host' = [host EXCEPT !.state = "down", !.next = 1, !.incomplete = 0,
                          !.exec = NoExecutions]
  /\ draft' = Empty
  /\ op' = NoOp
  /\ mail' = {}
  /\ consumer' = NoPages

\* failJournalLocked
FailJournal ==
  /\ host' = [host EXCEPT !.state = "failed"]
  /\ op' = NoOp

-----------------------------------------------------------------------------
(* Startup: recoverPrevious, then publishWorkerRecord. *)

\* recoverPrevious accepts the files of an execution.
Replayable(f) ==
  /\ f.journal /\ f.admission
  /\ ~f.torn
  /\ f.saved <= f.cursor /\ f.cursor <= f.events

\* ... and finds that the turn is over.
Complete(f) == f.terminal \/ (f.done /\ f.error /\ f.events = 0)

Incomplete(files) == {s \in Sequence : Present(files[s]) /\ ~Complete(files[s])}

CompleteCopy(files) ==
  /\ Cardinality({s \in Sequence : Present(files[s])}) <= MaxExecutions
  /\ \A s \in Sequence : Present(files[s]) => Replayable(files[s])

ReplayError(f) == IF f.terminal THEN f.terminalError ELSE f.error

ReplayRenamedMutant(f) ==
  IF Present(f) /\ Complete(f)
  THEN [NoExecution EXCEPT !.turn = f.turn, !.job = f.job, !.by = host.id + 1,
                           !.last = f.events, !.committed = f.cursor,
                           !.done = TRUE, !.error = ReplayError(f)]
  ELSE NoExecution

ReplayRewindsMutant(f) ==
  IF Present(f) /\ Complete(f)
  THEN [NoExecution EXCEPT !.turn = f.turn, !.job = f.job, !.by = f.by,
                           !.last = f.events, !.committed = f.saved,
                           !.done = TRUE, !.error = ReplayError(f)]
  ELSE NoExecution

\* What the successor makes of it.
Replay(f) ==
  IF Present(f) /\ Complete(f)
  THEN [NoExecution EXCEPT !.turn = f.turn, !.job = f.job, !.by = f.by,
                           !.last = f.events, !.committed = f.cursor,
                           !.done = TRUE, !.error = ReplayError(f)]
  ELSE NoExecution

Start ==
  /\ host.state = "down"
  /\ host' = [host EXCEPT !.state = "copying"]
  /\ UNCHANGED <<disk, draft, op, mail, consumer, turns, dispatched, settled,
                 receipts, faults>>

Copy(s) ==
  /\ host.state = "copying"
  /\ Present(disk[s]) /\ ~Present(draft[s])
  /\ draft' = [draft EXCEPT ![s] = disk[s]]
  /\ UNCHANGED <<host, disk, op, mail, consumer, turns, dispatched, settled,
                 receipts, faults>>

RecoverEarlyMutant ==
  /\ host.state = "copying"
  /\ host' = [host EXCEPT !.state = "recovered",
                          !.incomplete = Cardinality(Incomplete(draft)),
                          !.exec = [s \in Sequence |-> Replay(draft[s])]]
  /\ UNCHANGED <<disk, draft, op, mail, consumer, turns, dispatched, settled,
                 receipts, faults>>

\* The next sequence is one more than any that is on disk, complete or not.
Recover ==
  /\ host.state = "copying" /\ draft = disk
  /\ IF CompleteCopy(draft)
     THEN /\ host' = [host EXCEPT
               !.state = "recovered",
               !.next = CHOOSE n \in 1..(MaxTurn + 1) :
                          /\ \A s \in Sequence : Present(draft[s]) => s < n
                          /\ n = 1 \/ Present(draft[n - 1]),
               !.incomplete = Cardinality(Incomplete(draft)),
               !.exec = [s \in Sequence |-> Replay(draft[s])]]
          /\ draft' = [s \in Sequence |->
               IF Present(draft[s]) /\ Complete(draft[s])
               THEN [draft[s] EXCEPT !.done = TRUE,
                                     !.error = ReplayError(draft[s]),
                                     !.saved = draft[s].cursor]
               ELSE draft[s]]
     ELSE host' = [host EXCEPT !.state = "down"] /\ draft' = Empty
  /\ UNCHANGED <<disk, op, mail, consumer, turns, dispatched, settled, receipts,
                 faults>>

\* worker.json names the copy from here on; the old directory goes.
Publish ==
  /\ host.state = "recovered"
  /\ host' = [host EXCEPT !.state = "up", !.id = @ + 1]
  /\ disk' = draft
  /\ draft' = Empty
  /\ UNCHANGED <<op, mail, consumer, turns, dispatched, settled, receipts, faults>>

-----------------------------------------------------------------------------
(* Send. *)

Post(r) ==
  /\ Cardinality(mail) < MaxMail
  /\ mail' = mail \cup {r}

\* A controller inspects and sends a job that is neither retained nor done with.
SendJob(j) ==
  /\ Serving
  /\ j \notin settled
  /\ \A s \in Sequence : Retained(s) => host.exec[s].job # j
  /\ host.next <= MaxTurn
  /\ Post([kind |-> "send", s |-> host.next, job |-> j, expected |-> 0,
           after |-> 0])
  /\ UNCHANGED <<books, consumer, turns, dispatched, settled, receipts, faults>>

AdmissibleRetiredMutant(r) ==
  /\ ~Retained(r.s)
  /\ \A s \in Sequence : Retained(s) => host.exec[s].job # r.job
  /\ Count + host.incomplete < MaxExecutions

\* A new sequence, a job that is not retained, and room for it.  A sequence that
\* is retained gets its old reply, or a refusal if the job is another one.  A
\* caller that got no reply may repeat the request.
Admissible(r) ==
  /\ r.s = host.next
  /\ \A s \in Sequence : Retained(s) => host.exec[s].job # r.job
  /\ Count + host.incomplete < MaxExecutions

ServeSend(r) ==
  /\ Serving /\ r \in mail /\ r.kind = "send"
  /\ \/ mail' = mail \ {r} /\ UNCHANGED faults
     \/ Fault /\ UNCHANGED mail
  /\ IF Admissible(r) /\ turns < MaxTurn
     THEN /\ turns' = turns + 1
          /\ host' = [host EXCEPT
               !.next = r.s + 1,
               !.exec[r.s] = [NoExecution EXCEPT !.turn = turns + 1, !.job = r.job,
                                                 !.by = host.id]]
          /\ disk' = [disk EXCEPT
               ![r.s] = [NoFiles EXCEPT !.journal = TRUE, !.turn = turns + 1]]
          /\ op' = [NoOp EXCEPT !.at = "checkpoint", !.s = r.s]
     ELSE UNCHANGED <<host, disk, op, turns>>
  /\ UNCHANGED <<draft, consumer, dispatched, settled, receipts>>

\* The admission record, before any reservation.
Checkpoint ==
  /\ op.at = "checkpoint"
  /\ \/ /\ disk' = [disk EXCEPT ![op.s].admission = TRUE,
                                ![op.s].job = host.exec[op.s].job,
                                ![op.s].by = host.exec[op.s].by]
        /\ op' = [op EXCEPT !.at = "reserve"]
        /\ UNCHANGED <<host, faults>>
     \/ Fault /\ FailJournal /\ UNCHANGED disk
  /\ UNCHANGED <<draft, mail, consumer, turns, dispatched, settled, receipts>>

\* The reservation and its record.  A refused workflow is done without an event;
\* a refused conversation gets a terminal status event, which carries the error.
Reserve ==
  /\ op.at = "reserve"
  /\ \/ op' = [op EXCEPT !.at = "dispatch"] /\ UNCHANGED <<host, disk, faults>>
     \/ \E k \in {0, 1} :
          /\ host' = [host EXCEPT !.exec[op.s].done = TRUE,
                                  !.exec[op.s].error = TRUE,
                                  !.exec[op.s].last = k]
          /\ disk' = [disk EXCEPT ![op.s].done = TRUE,
                                  ![op.s].error = TRUE,
                                  ![op.s].events = k,
                                  ![op.s].terminal = (k = 1),
                                  ![op.s].terminalError = (k = 1)]
          /\ op' = NoOp
          /\ UNCHANGED faults
     \/ Fault /\ FailJournal /\ UNCHANGED disk
  /\ UNCHANGED <<draft, mail, consumer, turns, dispatched, settled, receipts>>

\* The supervisor is called.  Whatever it answers, the provider may have started,
\* unless the answer proves that it has not.
Dispatch ==
  /\ op.at = "dispatch"
  /\ dispatched' = dispatched \cup {[worker |-> host.id, job |-> host.exec[op.s].job,
                                     turn |-> host.exec[op.s].turn]}
  /\ \E outcome \in {"accepted", "rejected", "unconfirmed"} :
       /\ op' = [op EXCEPT !.at = "result", !.outcome = outcome]
       /\ host' = [host EXCEPT !.exec[op.s].running = (outcome # "rejected")]
  /\ UNCHANGED <<disk, draft, mail, consumer, turns, settled, receipts, faults>>

\* An event of the turn reaches the journal.
Appended(s, terminal, error) ==
  /\ host' = [host EXCEPT !.exec[s].last = @ + 1,
                          !.exec[s].done = terminal,
                          !.exec[s].running = ~terminal,
                          !.exec[s].error = error]
  /\ disk' = [disk EXCEPT ![s].events = @ + 1,
                          ![s].terminal = terminal,
                          ![s].terminalError = terminal /\ error]

\* ... and the answer is recorded: a rejection as a terminal event without the
\* error, which the admission record gets; an uncertain answer as a status.
Result ==
  /\ op.at = "result"
  /\ LET e == host.exec[op.s]
         rejected == op.outcome = "rejected"
         uncertain == op.outcome = "unconfirmed" /\ ~e.done
         noted == rejected \/ uncertain
         error == e.error \/ noted
         events == IF noted THEN e.last + 1 ELSE e.last
         noting == [disk EXCEPT ![op.s].events = events,
                                ![op.s].terminal = @ \/ rejected]
     IN \/ /\ events <= MaxEvents
           /\ host' = [host EXCEPT !.exec[op.s].last = events,
                                   !.exec[op.s].done = @ \/ rejected,
                                   !.exec[op.s].error = error]
           /\ disk' = [noting EXCEPT ![op.s].done = e.done \/ rejected,
                                     ![op.s].error = error,
                                     ![op.s].saved = e.committed]
           /\ op' = NoOp
           /\ UNCHANGED faults
        \/ /\ events <= MaxEvents /\ Fault
           /\ FailJournal
           /\ disk' \in {disk, noting}
        \/ events > MaxEvents /\ FailJournal /\ UNCHANGED <<disk, faults>>
  /\ UNCHANGED <<draft, mail, consumer, turns, dispatched, settled, receipts>>

-----------------------------------------------------------------------------
(* Provider events: captureLocked. *)

CaptureUncappedMutant(s) ==
  /\ host.state = "up"
  /\ host.exec[s].running
  /\ \/ Appended(s, FALSE, host.exec[s].error)
     \/ \E error \in {FALSE, host.exec[s].error} : Appended(s, TRUE, error)
  /\ UNCHANGED <<op, draft, mail, consumer, turns, dispatched, settled, receipts,
                 faults>>

Capture(s) ==
  /\ host.state = "up"
  /\ host.exec[s].running
  /\ IF host.exec[s].last < MaxEvents
     THEN /\ \/ Appended(s, FALSE, host.exec[s].error)
             \/ \E error \in {FALSE, host.exec[s].error} : Appended(s, TRUE, error)
          /\ UNCHANGED op
     ELSE FailJournal /\ UNCHANGED disk
  /\ UNCHANGED <<draft, mail, consumer, turns, dispatched, settled, receipts, faults>>

CaptureFails(s) ==
  /\ host.state = "up"
  /\ host.exec[s].running
  /\ Fault
  /\ FailJournal
  /\ \E torn \in BOOLEAN : disk' = [disk EXCEPT ![s].torn = torn]
  /\ UNCHANGED <<draft, mail, consumer, turns, dispatched, settled, receipts>>

-----------------------------------------------------------------------------
(* Consume, commit and ack. *)

Reading(s) == consumer[s] # NoPage

\* Inspect and read the events after the committed cursor, a page of them.
Read(s) ==
  /\ Serving
  /\ Retained(s) /\ ~Reading(s)
  /\ LET e == host.exec[s]
     IN /\ e.committed < e.last
        /\ consumer' = [consumer EXCEPT
             ![s] = [turn |-> e.turn, by |-> e.by, committed |-> e.committed,
                     after |-> e.committed,
                     upto |-> IF e.last - e.committed <= PageEvents THEN e.last
                              ELSE e.committed + PageEvents]]
  /\ UNCHANGED <<books, mail, turns, dispatched, settled, receipts, faults>>

\* The callback: its effects are durable, once per receipt.
Deliver(s) ==
  /\ Owned
  /\ consumer[s].after < consumer[s].upto
  /\ receipts' = receipts \cup {[by |-> consumer[s].by, s |-> s,
                                 cursor |-> consumer[s].after + 1,
                                 turn |-> consumer[s].turn]}
  /\ consumer' = [consumer EXCEPT ![s].after = @ + 1]
  /\ UNCHANGED <<books, mail, turns, dispatched, settled, faults>>

SendCommitEarlyMutant(s) ==
  /\ Reading(s)
  /\ Post([kind |-> "commit", s |-> s, job |-> NoJob,
           expected |-> consumer[s].committed, after |-> consumer[s].upto])
  /\ consumer' = [consumer EXCEPT ![s] = NoPage]
  /\ UNCHANGED <<books, turns, dispatched, settled, receipts, faults>>

\* The whole page is delivered.  What the consumer does next it does after a
\* reply or without one.
SendCommit(s) ==
  /\ Reading(s) /\ consumer[s].after = consumer[s].upto
  /\ Post([kind |-> "commit", s |-> s, job |-> NoJob,
           expected |-> consumer[s].committed, after |-> consumer[s].upto])
  /\ consumer' = [consumer EXCEPT ![s] = NoPage]
  /\ UNCHANGED <<books, turns, dispatched, settled, receipts, faults>>

\* A callback fails, or the context ends.
StopReading(s) ==
  /\ Reading(s)
  /\ Fault
  /\ consumer' = [consumer EXCEPT ![s] = NoPage]
  /\ UNCHANGED <<books, mail, turns, dispatched, settled, receipts>>

CommittableShortMutant(r) ==
  LET e == host.exec[r.s]
  IN Retained(r.s) /\ r.after < e.last
     /\ r.expected = e.committed /\ e.committed < r.after

Committable(r) ==
  LET e == host.exec[r.s]
  IN Retained(r.s) /\ r.after <= e.last
     /\ r.expected = e.committed /\ e.committed < r.after

\* The cursor file first.
ServeCommit(r) ==
  /\ Serving /\ r \in mail /\ r.kind = "commit"
  /\ mail' = mail \ {r}
  /\ IF Committable(r)
     THEN \/ /\ disk' = [disk EXCEPT ![r.s].cursor = r.after]
             /\ host' = [host EXCEPT !.exec[r.s].committed = r.after]
             /\ UNCHANGED <<op, faults>>
          \/ Fault /\ FailJournal /\ UNCHANGED disk
     ELSE UNCHANGED <<host, disk, op, faults>>
  /\ UNCHANGED <<draft, consumer, turns, dispatched, settled, receipts>>

SendAck(s) ==
  /\ Serving
  /\ Retained(s) /\ ~Reading(s)
  /\ host.exec[s].done /\ host.exec[s].committed = host.exec[s].last
  /\ Post([kind |-> "ack", s |-> s, job |-> NoJob, expected |-> 0,
           after |-> host.exec[s].last])
  /\ UNCHANGED <<books, consumer, turns, dispatched, settled, receipts, faults>>

\* The whole stream is committed.
Ackable(r) ==
  LET e == host.exec[r.s]
  IN Retained(r.s) /\ e.done /\ r.after = e.last /\ e.committed = e.last

\* The journal goes first, the cursor second, the admission last.
ServeAck(r) ==
  /\ Serving /\ r \in mail /\ r.kind = "ack"
  /\ mail' = mail \ {r}
  /\ IF Ackable(r)
     THEN /\ disk' = [disk EXCEPT ![r.s].journal = FALSE, ![r.s].events = 0,
                                  ![r.s].terminal = FALSE,
                                  ![r.s].terminalError = FALSE]
          /\ op' = [NoOp EXCEPT !.at = "cursor", !.s = r.s]
     ELSE UNCHANGED <<disk, op>>
  /\ UNCHANGED <<host, draft, consumer, turns, dispatched, settled, receipts, faults>>

RemoveCursor ==
  /\ op.at = "cursor"
  /\ \/ /\ disk' = [disk EXCEPT ![op.s].cursor = 0]
        /\ op' = [op EXCEPT !.at = "admission"]
        /\ UNCHANGED <<host, faults>>
     \/ Fault /\ FailJournal /\ UNCHANGED disk
  /\ UNCHANGED <<draft, mail, consumer, turns, dispatched, settled, receipts>>

RemoveAdmission ==
  /\ op.at = "admission"
  /\ \/ /\ disk' = [disk EXCEPT ![op.s] = NoFiles]
        /\ settled' = settled \cup {host.exec[op.s].job}
        /\ host' = [host EXCEPT !.exec[op.s] = NoExecution]
        /\ op' = NoOp
        /\ UNCHANGED faults
     \/ Fault /\ FailJournal /\ UNCHANGED <<disk, settled>>
  /\ UNCHANGED <<draft, mail, consumer, turns, dispatched, receipts>>

-----------------------------------------------------------------------------
(* Faults. *)

\* A request is lost, or refused because its caller is gone or superseded.
Lose(r) ==
  /\ r \in mail
  /\ Fault
  /\ mail' = mail \ {r}
  /\ UNCHANGED <<books, consumer, turns, dispatched, settled, receipts>>

\* A successor controller takes over; its consumers start again.
ControllerReplaced ==
  /\ mail # {} \/ consumer # NoPages
  /\ op = NoOp
  /\ Fault
  /\ mail' = {}
  /\ consumer' = NoPages
  /\ UNCHANGED <<books, turns, dispatched, settled, receipts>>

Kill ==
  /\ host.state \in {"copying", "recovered", "up"}
  /\ Fault
  /\ HostGone
  /\ UNCHANGED <<disk, turns, dispatched, settled, receipts>>

\* A failed host keeps its directory and its record.
Exit ==
  /\ host.state = "failed"
  /\ HostGone
  /\ UNCHANGED <<disk, turns, dispatched, settled, receipts, faults>>

\* An explicit stop, or ten minutes without a controller, takes the directory
\* along; so does whoever cleans the temporary directory after a death.
Retire ==
  /\ host.state = "up" \/ (host.state = "down" /\ disk # Empty)
  /\ Fault
  /\ HostGone
  /\ disk' = Empty
  /\ UNCHANGED <<turns, dispatched, settled, receipts>>

-----------------------------------------------------------------------------

Startup == Start \/ (\E s \in Sequence : Copy(s)) \/ Recover \/ Publish

Apply ==
  \/ \E r \in mail : ServeSend(r) \/ ServeCommit(r) \/ ServeAck(r)
  \/ Checkpoint \/ Reserve \/ Dispatch \/ Result
  \/ RemoveCursor \/ RemoveAdmission

Next ==
  \/ Startup \/ Apply
  \/ \E j \in Job : SendJob(j)
  \/ \E s \in Sequence :
       \/ Capture(s) \/ CaptureFails(s)
       \/ Read(s) \/ Deliver(s) \/ SendCommit(s) \/ StopReading(s) \/ SendAck(s)
  \/ \E r \in mail : Lose(r)
  \/ ControllerReplaced \/ Kill \/ Exit \/ Retire

Spec == Init /\ [][Next]_vars

\* A server is started again, the worker's process runs and serves what waits,
\* and controllers keep consuming.
Fairness ==
  /\ WF_vars(Startup) /\ WF_vars(Exit)
  /\ WF_vars(Checkpoint \/ Reserve \/ Dispatch \/ Result
             \/ RemoveCursor \/ RemoveAdmission)
  /\ WF_vars(\E r \in mail : ServeSend(r))
  /\ \A s \in Sequence :
       /\ WF_vars(Read(s) \/ Deliver(s) \/ SendCommit(s) \/ SendAck(s))
       /\ WF_vars(\E r \in mail : r.s = s /\ ServeCommit(r))
       /\ WF_vars(\E r \in mail : r.s = s /\ ServeAck(r))

FairSpec == Spec /\ Fairness

-----------------------------------------------------------------------------
(* Properties. *)

DispatchedOnce ==
  \A d, e \in dispatched : d.worker = e.worker /\ d.job = e.job => d = e

ReplayFits == Cardinality({s \in Sequence : Present(disk[s])}) <= MaxExecutions

\* Within the life of a worker the provider is called at most once for a job,
\* whatever requests for it are late, repeated, or land after others
\* (the comment on WorkerRequest); and the executions that a worker keeps, those
\* it cannot finish included, never exceed what its successor accepts.
AdmissionsHold == DispatchedOnce /\ ReplayFits

\* A committed event has been delivered, and the cursor on disk never runs ahead
\* of the receipts.
DeliveredBeforeCommitted ==
  \A s \in Sequence : \A k \in 1..disk[s].cursor :
    disk[s].journal => \E d \in receipts : d.turn = disk[s].turn /\ d.cursor = k

\* A receipt stands for one event, and an event has one receipt, however many
\* workers delivered it: downstream deduplication neither drops an event for
\* another one nor applies one twice.
ReceiptsNameEvents ==
  \A d, e \in receipts :
    d.by = e.by /\ d.s = e.s /\ d.cursor = e.cursor
      <=> d.turn = e.turn /\ d.cursor = e.cursor

\* A completed turn stays on disk until all of its events have been delivered:
\* only the retirement of the whole directory takes it along.
Undelivered(f) ==
  f.journal /\ f.terminal /\ \E k \in 1..f.events :
    ~\E d \in receipts : d.turn = f.turn /\ d.cursor = k

CompletedTurnsSurvive ==
  [][ \A s \in Sequence :
        Undelivered(disk[s]) =>
          \/ disk'[s].terminal /\ disk'[s].turn = disk[s].turn
          \/ disk' = Empty /\ host'.state = "down" ]_vars

\* What a worker has told a controller, the committed prefix and the end of the
\* turn, is what its successor will read; a replay may lose the error of a turn
\* that was refused, but gives no error to a turn that had none.
ConfirmedIsDurable ==
  host.state = "up" =>
    \A s \in Sequence :
      Retained(s) /\ disk[s].journal =>
        /\ host.exec[s].committed = disk[s].cursor
        /\ host.exec[s].done =>
             Complete(disk[s]) /\ (ReplayError(disk[s]) => host.exec[s].error)

\* A crash leaves a complete copy behind, which a successor can read.
CrashLeavesCompleteCopy ==
  host.state = "down" => CompleteCopy(disk)

\* A completed turn is delivered and acknowledged, unless its files are damaged.
CompletedTurnsSettle ==
  \A s \in Sequence :
    Present(disk[s]) /\ Complete(disk[s]) ~> ~Present(disk[s]) \/ ~CompleteCopy(disk)
=============================================================================
