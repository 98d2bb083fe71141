------------------------ MODULE ConversationRecovery ------------------------
(***************************************************************************)
(* One conversation between its history file, the manager of the primary   *)
(* server and the harness worker (src/internal/app/recovery.go,            *)
(* worker_conversation.go, history/admission.go, cancellation.go,          *)
(* orchestrator/worker_conversation.go, worker_control.go,                 *)
(* worker_session.go, harness/worker.go, worker_followup.go): messages are *)
(* recorded, admitted to the worker as an execution of their own or as a   *)
(* follow-up of the one under way, answered, stopped, cleared, and         *)
(* recovered by a scanner when their answer was lost.                      *)
(*                                                                         *)
(* The history file is append-only; ledger[s] is what the fold of its      *)
(* records (recoveryWindowLocked) says of the message s.  The worker runs  *)
(* one operation at a time, under the lock of the election, and drops a    *)
(* request whose caller is gone before it starts; the manager has one      *)
(* admission, interruption, retirement or reset under way at a time        *)
(* (workerAdmissionMu).  A conversation has one execution in the worker at *)
(* most.  What a replacement worker can read of the journals of a dead one *)
(* is the subject of WorkerJournal: here an execution that ended may       *)
(* survive the death of its worker, and any other does not.                *)
(***************************************************************************)
EXTENDS Naturals, FiniteSets

CONSTANTS
  Source,         \* messages, by their source identity
  MaxFault,       \* bound on the faults
  MaxStop         \* bound on the user's interruptions and resets

ASSUME BoundsAssumption ==
  /\ IsFiniteSet(Source)
  /\ {MaxFault, MaxStop} \subseteq Nat

VARIABLES
  ledger,   \* what the history file says of each message
  linked,   \* messages named in the front matter of a task or goal
  host,     \* "up" or "down": the worker
  exec,     \* the execution the worker retains for the conversation
  turn,     \* "none", "running" or "unsure": the provider's turn
  ended,    \* the terminal event is buffered until the follow-up is settled
  op,       \* the operation of the worker under way
  mgr,      \* who holds workerAdmissionMu, and how far it is
  intake,   \* messages being handled (recoveryIntake)
  job,      \* the execution whose job is live for the session, or 0
  reader,   \* the consumer: "none", "reading" or "delivered"
  scan,     \* the recovery scan under way
  taken,    \* messages the provider may have acted on at their own request
  refused,  \* messages whose own request the provider refused
  retaken,  \* messages reserved for a recovery
  halted,   \* messages of executions that were interrupted
  faults,   \* faults so far
  stops     \* interruptions, with their intents, and resets so far

fate == <<taken, refused, retaken, halted>>
controller == <<mgr, intake, job, reader, scan>>
worker == <<host, exec, turn, ended, op>>
vars == <<ledger, linked, worker, controller, fate, faults, stops>>

-----------------------------------------------------------------------------
(* History. *)

NoAdmission == [x |-> 0, lead |-> {}, size |-> 0]

\* A message that is not in the file.
Unheard == [known |-> FALSE, admission |-> NoAdmission, recovered |-> FALSE,
            covered |-> "no", stop |-> 0]

Known(S) == \A s \in S : ledger[s].known

\* A message is not covered by an answer, a reservation or a cancellation.
Open(s) == ledger[s].covered = "no" /\ ledger[s].stop = 0

\* The records name a batch, and change what the file says of its messages.
Write(S, entry) ==
  ledger' = [s \in Source |-> IF s \in S THEN entry[s] ELSE ledger[s]]

\* Whether the sources may be admitted: AdmitConversation for a message and its
\* follow-ups, AdmitRecoveryConversation for a recovery.
Admissible(S, recovery) ==
  /\ Known(S)
  /\ \A s \in S : Open(s)
  /\ IF recovery THEN S \cap linked = {}
                 ELSE \A s \in S : ledger[s].admission = NoAdmission

\* The admission of a batch names its execution and its receipt.
Admission(x, lead, S) == [x |-> x, lead |-> lead, size |-> Cardinality(S)]

Admit(S, admission, recovery) ==
  Write(S, [s \in S |-> [ledger[s] EXCEPT
    !.admission = admission,
    !.recovered = @ \/ recovery,
    !.covered = IF recovery /\ @ = "no" THEN "reserved" ELSE @]])

\* A restoration names the admission it takes back, or corrupts the file.
Restorable(S, admission) ==
  /\ Known(S)
  /\ \A s \in S : ~ledger[s].recovered /\ ledger[s].admission = admission

Restore(S) ==
  Write(S, [s \in S |-> [ledger[s] EXCEPT !.admission = NoAdmission]])

Cover(S) == Write(S, [s \in S |-> [ledger[s] EXCEPT !.covered = "answered"]])

\* The first intent counts; a restoration removes no other.
Request(S, intent) ==
  Write(S, [s \in S |->
    [ledger[s] EXCEPT !.stop = IF @ = 0 THEN intent ELSE @]])

Withdraw(S, intent) ==
  Write(S, [s \in S |->
    [ledger[s] EXCEPT !.stop = IF @ = intent THEN 0 ELSE @]])

-----------------------------------------------------------------------------
(* State. *)

NoExec == [x |-> 0, sources |-> {}, recovery |-> FALSE, reserved |-> FALSE,
           refused |-> FALSE, error |-> FALSE, cancelled |-> FALSE,
           done |-> FALSE, covers |-> {}]

NoOp == [at |-> "none", kind |-> "send", batch |-> {}]

Idle == [at |-> "idle", action |-> "send", x |-> 0, sources |-> {},
         recovery |-> FALSE, again |-> FALSE]

NoScan == [at |-> "idle", sources |-> {}]

TypeOK ==
  /\ ledger \in [Source ->
       [known : BOOLEAN, recovered : BOOLEAN,
        admission : [x : 0..Cardinality(Source) + 3, lead : SUBSET Source,
                     size : 0..Cardinality(Source)],
        covered : {"no", "reserved", "answered"}, stop : 0..MaxStop]]
  /\ host \in {"up", "down"}
  /\ exec \in [x : 0..Cardinality(Source) + 3, sources : SUBSET Source,
               recovery : BOOLEAN, reserved : BOOLEAN, refused : BOOLEAN,
               error : BOOLEAN, cancelled : BOOLEAN, done : BOOLEAN,
               covers : SUBSET Source]
  /\ turn \in {"none", "running", "unsure"}
  /\ ended \in BOOLEAN
  /\ op \in [at : {"none", "reserve", "dispatch", "tell"},
             kind : {"send", "followup"}, batch : SUBSET Source]
  /\ mgr \in [at : {"idle", "begin", "request", "waiting", "record",
                    "interrupt", "restore", "clear"},
              action : {"send", "followup"}, x : 0..Cardinality(Source) + 3,
              sources : SUBSET Source, recovery : BOOLEAN, again : BOOLEAN]
  /\ scan \in [at : {"idle", "read", "checked"}, sources : SUBSET Source]
  /\ job \in 0..Cardinality(Source) + 3
  /\ reader \in {"none", "reading", "delivered"}
  /\ faults \in 0..MaxFault /\ stops \in 0..MaxStop
  /\ \A S \in {linked, intake, taken, refused, retaken, halted} :
       S \subseteq Source
  \* A turn belongs to a retained execution, and a job to the session alone.
  /\ turn # "none" => exec.x # 0 /\ ~exec.done
  /\ ended => op.kind = "followup" /\ op.at # "none"
  /\ exec.done => exec.covers = exec.sources

Init ==
  /\ ledger = [s \in Source |-> Unheard]
  /\ linked = {}
  /\ host = "up" /\ exec = NoExec /\ turn = "none" /\ ended = FALSE /\ op = NoOp
  /\ mgr = Idle /\ intake = {} /\ job = 0 /\ reader = "none" /\ scan = NoScan
  /\ taken = {} /\ refused = {} /\ retaken = {} /\ halted = {}
  /\ faults = 0 /\ stops = 0

Fault == faults < MaxFault /\ faults' = faults + 1

\* The worker answers, with no operation under way.
Answering == host = "up" /\ op.at = "none"

\* The identity of a new execution is one that nothing refers to.
Fresh ==
  CHOOSE x \in 1..(Cardinality(Source) + 3) :
    x \notin {exec.x, job} \cup {ledger[s].admission.x : s \in Source}

Attachable == exec.reserved \/ exec.refused

\* Harness.IsActive is the controller's own harness, which runs no conversation.
InFlight == job # 0 \/ intake # {}

-----------------------------------------------------------------------------
(* Messages. *)

\* The message is recorded in history; a known identity is a duplicate.
Accept(s) ==
  /\ mgr.at # "clear"
  /\ ~ledger[s].known
  /\ ledger' = [ledger EXCEPT ![s].known = TRUE]
  /\ intake' = intake \cup {s}
  /\ UNCHANGED <<linked, worker, mgr, job, reader, scan, fate, faults,
                 stops>>

\* A hook, the prompt or the worker's inspection fails: the sender is told so.
IntakeFails(s) ==
  /\ s \in intake \ mgr.sources
  /\ intake' = intake \ {s}
  /\ UNCHANGED <<ledger, linked, worker, mgr, job, reader, scan, fate,
                 faults, stops>>

\* The admission of a message of its own, or as a follow-up of the execution
\* under way; any other retained execution has to be reconciled first.
IntakeInspect(s) ==
  /\ mgr.at = "idle" /\ Answering
  /\ s \in intake
  /\ \/ /\ exec.x = 0
        /\ mgr' = [Idle EXCEPT !.at = "begin", !.x = Fresh, !.sources = {s}]
        /\ UNCHANGED intake
     \/ /\ exec.x # 0
        /\ exec.reserved /\ ~exec.done /\ ~exec.cancelled /\ ~exec.error
        /\ mgr' = [Idle EXCEPT !.at = "begin", !.action = "followup",
                               !.x = exec.x, !.sources = {s}]
        /\ UNCHANGED intake
     \/ /\ exec.x # 0
        /\ ~exec.reserved \/ exec.done \/ exec.cancelled \/ exec.error
        /\ intake' = intake \ {s}
        /\ UNCHANGED mgr
  /\ UNCHANGED <<ledger, linked, worker, job, reader, scan, fate, faults,
                 stops>>

\* The holder of the lock returns to its caller.
Leave ==
  /\ mgr' = Idle
  /\ intake' = intake \ mgr.sources
  /\ scan' = IF mgr.recovery THEN NoScan ELSE scan

\* The job of the execution is begun, unless the session has that of another.
BeginJob ==
  /\ mgr.at = "begin"
  /\ IF job \in {0, mgr.x}
     THEN /\ job' = mgr.x
          /\ mgr' = [mgr EXCEPT !.at = "request"]
          /\ UNCHANGED <<intake, scan>>
     ELSE Leave /\ UNCHANGED job
  /\ UNCHANGED <<ledger, linked, worker, reader, fate, faults, stops>>

\* The worker refuses a sequence or a session it retains, and may be full.
SendStarts ==
  /\ mgr.at = "request" /\ mgr.action = "send" /\ Answering
  /\ IF exec.x = 0
     THEN \/ /\ exec' = [NoExec EXCEPT !.x = mgr.x, !.sources = mgr.sources,
                                       !.recovery = mgr.recovery]
             /\ op' = [at |-> "reserve", kind |-> "send",
                       batch |-> mgr.sources]
             /\ UNCHANGED faults
          \/ Fault /\ UNCHANGED <<exec, op>>
     ELSE UNCHANGED <<exec, op, faults>>
  /\ mgr' = [mgr EXCEPT !.at = "waiting"]
  /\ UNCHANGED <<ledger, linked, host, turn, ended, intake, job, reader, scan,
                 fate, stops>>

\* A follow-up needs the very execution, still under way.
FollowupStarts ==
  /\ mgr.at = "request" /\ mgr.action = "followup" /\ Answering
  /\ op' = IF exec.x = mgr.x /\ exec.reserved /\ ~exec.done
              /\ ~exec.cancelled /\ ~exec.error
           THEN [at |-> "reserve", kind |-> "followup", batch |-> mgr.sources]
           ELSE op
  /\ mgr' = [mgr EXCEPT !.at = "waiting"]
  /\ UNCHANGED <<ledger, linked, host, exec, turn, ended, intake, job, reader,
                 scan, fate, faults, stops>>

\* The reply arrives, or the connection breaks with the worker.
Reply ==
  /\ mgr.at \in {"request", "waiting"}
  /\ \/ mgr.at = "waiting" /\ op.at = "none"
     \/ host = "down"
  /\ Leave
  /\ UNCHANGED <<ledger, linked, worker, job, reader, fate, faults, stops>>

\* The caller gives up while the worker is at it, or before it begins.
GiveUp ==
  /\ mgr.at \in {"request", "waiting"}
  /\ Fault
  /\ Leave
  /\ UNCHANGED <<ledger, linked, worker, job, reader, fate, stops>>

-----------------------------------------------------------------------------
(* The worker: send and followup. *)

Receipt ==
  Admission(exec.x, IF op.kind = "send" THEN {} ELSE op.batch, op.batch)

\* A follow-up is an ordinary batch, whatever it follows.
Recovering == exec.recovery /\ op.kind = "send"

\* The worker is gone; the execution is what a replacement would replay.
Gone(e) ==
  /\ host' = "down" /\ exec' = e
  /\ turn' = "none" /\ ended' = FALSE /\ op' = NoOp

\* The turn ends for the worker: its terminal event names the sources of now.
Settled(e) == [e EXCEPT !.done = TRUE, !.error = FALSE, !.covers = e.sources]

\* Mutant: a recorded end stays buffered.
FollowupSettlesKeepsEndMutant(e) ==
  /\ exec' = IF ended THEN Settled(e) ELSE e
  /\ ended' = ended
  /\ op' = NoOp

\* The follow-up is settled, and an end that waited for it is recorded.
FollowupSettles(e) ==
  /\ exec' = IF ended THEN Settled(e) ELSE e
  /\ ended' = FALSE
  /\ op' = NoOp

\* The sources are admitted in one synced record before anything is sent; a
\* refused execution is done, with an event that is no answer.
Reserve ==
  /\ op.at = "reserve"
  /\ \/ /\ Admissible(op.batch, Recovering)
        /\ Admit(op.batch, Receipt, Recovering)
        /\ exec' = [exec EXCEPT !.reserved = TRUE, !.sources = @ \cup op.batch]
        /\ op' = [op EXCEPT !.at = "dispatch"]
        /\ IF Recovering
           THEN retaken' = retaken \cup op.batch /\ UNCHANGED taken
           ELSE taken' = taken \cup op.batch /\ UNCHANGED retaken
        /\ UNCHANGED <<ended, faults>>
     \/ /\ \/ ~Admissible(op.batch, Recovering) /\ UNCHANGED faults
           \/ Fault
        /\ IF op.kind = "send"
           THEN /\ exec' = [exec EXCEPT !.refused = TRUE, !.done = TRUE,
                                        !.covers = exec.sources]
                /\ op' = NoOp
                /\ UNCHANGED ended
           ELSE FollowupSettles(exec)
        /\ UNCHANGED <<ledger, taken, retaken>>
  /\ UNCHANGED <<linked, host, turn, controller, refused, halted, stops>>

\* The provider takes the request, or may have.
Dispatch ==
  /\ op.at = "dispatch"
  /\ \/ /\ op.kind = "send" \/ turn # "none"
        /\ turn' = IF op.kind = "send" THEN "running" ELSE turn
        /\ IF op.kind = "send"
           THEN op' = NoOp /\ UNCHANGED <<exec, ended>>
           ELSE FollowupSettles(exec)
        /\ UNCHANGED faults
     \/ /\ Fault
        /\ turn' = IF op.kind = "send" THEN "unsure" ELSE turn
        /\ IF op.kind = "send"
           THEN /\ exec' = [exec EXCEPT !.error = TRUE]
                /\ op' = NoOp
                /\ UNCHANGED ended
           ELSE FollowupSettles([exec EXCEPT !.error = TRUE])
  /\ UNCHANGED <<ledger, linked, host, controller, fate, stops>>

\* The provider proves that it has not taken the request.  An ordinary batch is
\* given back in history; the worker stops if history disagrees.
Rejected ==
  /\ op.at = "dispatch"
  /\ IF Recovering
     THEN /\ op' = [op EXCEPT !.at = "tell"]
          /\ UNCHANGED <<ledger, exec, ended, host, turn, taken, refused>>
     ELSE IF ~Restorable(op.batch, Receipt)
     THEN Gone(NoExec) /\ UNCHANGED <<ledger, taken, refused>>
     ELSE /\ Restore(op.batch)
          /\ taken' = taken \ op.batch
          /\ refused' = IF op.kind = "send" THEN refused \cup op.batch
                                            ELSE refused
          /\ IF op.kind = "send"
             THEN op' = [op EXCEPT !.at = "tell"] /\ UNCHANGED <<exec, ended>>
             ELSE FollowupSettles([exec EXCEPT !.sources = @ \ op.batch])
          /\ UNCHANGED <<host, turn>>
  /\ UNCHANGED <<linked, controller, retaken, halted, faults, stops>>

\* The terminal error of a refused request.
Tell ==
  /\ op.at = "tell"
  /\ exec' = Settled(exec)
  /\ op' = NoOp
  /\ UNCHANGED <<ledger, linked, host, turn, ended, controller, fate, faults,
                 stops>>

\* Mutant: the end is recorded while a follow-up is under way.
TurnEndsAtOnceMutant ==
  /\ turn # "none"
  /\ turn' = "none"
  /\ exec' = Settled(exec)
  /\ UNCHANGED <<ledger, linked, host, op, ended, controller, fate, faults,
                 stops>>

\* The provider's turn ends.  The end waits while a follow-up is under way, so
\* that the event covers the follow-up just when it was not given back.
TurnEnds ==
  /\ turn # "none"
  /\ turn' = "none"
  /\ IF op.at # "none"
     THEN ended' = TRUE /\ UNCHANGED exec
     ELSE exec' = Settled(exec) /\ UNCHANGED ended
  /\ UNCHANGED <<ledger, linked, host, op, controller, fate, faults, stops>>

\* The agent leaves a task or a goal that names the message.
Link(s) ==
  /\ turn # "none"
  /\ s \in exec.sources \ linked
  /\ linked' = linked \cup {s}
  /\ UNCHANGED <<ledger, worker, controller, fate, faults, stops>>

WorkerLost ==
  /\ host = "up" /\ Fault
  /\ \/ Gone(NoExec)
     \/ exec.done /\ Gone(exec)
  /\ UNCHANGED <<ledger, linked, controller, fate, stops>>

\* A new primary, with the worker that survived the old one or with another.
ServerReplaced ==
  /\ \/ host = "down" /\ UNCHANGED faults
     \/ host = "up" /\ Fault
  /\ host' = "up"
  /\ mgr' = Idle /\ intake' = {} /\ job' = 0 /\ reader' = "none"
  /\ scan' = NoScan
  /\ UNCHANGED <<ledger, linked, exec, turn, ended, op, fate, stops>>

-----------------------------------------------------------------------------
(* The manager: attachment, delivery, retirement. *)

\* Mutant: the job of an execution the worker does not have stays.
ReconcileKeepsJobMutant ==
  /\ mgr.at = "idle" /\ Answering
  /\ job' = IF Attachable THEN exec.x ELSE job
  /\ reader' = IF Attachable /\ reader = "none" THEN "reading" ELSE reader
  /\ UNCHANGED <<ledger, linked, worker, mgr, intake, scan, fate, faults,
                 stops>>

\* The scan ends the job of an execution the worker does not have, and attaches
\* a consumer to the one it has.
Reconcile ==
  /\ mgr.at = "idle" /\ Answering
  /\ job' = IF Attachable THEN exec.x ELSE 0
  /\ reader' = IF Attachable /\ reader = "none" THEN "reading" ELSE reader
  /\ UNCHANGED <<ledger, linked, worker, mgr, intake, scan, fate, faults,
                 stops>>

\* The terminal event reaches the conversation: history gets the answer with its
\* coverage before the cursor is committed.  A refusal is archived with the job.
Deliver ==
  /\ reader = "reading" /\ exec.done /\ Answering
  /\ IF exec.refused THEN UNCHANGED ledger
                     ELSE Known(exec.covers) /\ Cover(exec.covers)
  /\ reader' = "delivered"
  /\ UNCHANGED <<linked, worker, mgr, intake, job, scan, fate, faults, stops>>

\* A delivery, its commit or the retirement fails; a later scan begins again.
ReaderFails ==
  /\ reader # "none" /\ mgr.at = "idle"
  /\ Fault
  /\ reader' = "none"
  /\ job' \in IF reader = "delivered" THEN {job, 0} ELSE {job}
  /\ UNCHANGED <<ledger, linked, worker, mgr, intake, scan, fate, stops>>

\* The job ends and the worker lets go of the journal.
Retire ==
  /\ reader = "delivered" /\ mgr.at = "idle" /\ Answering
  /\ job' = 0 /\ exec' = NoExec /\ reader' = "none"
  /\ UNCHANGED <<ledger, linked, host, turn, ended, op, mgr, intake, scan,
                 fate,
                 faults, stops>>

-----------------------------------------------------------------------------
(* The recovery scanner. *)

Candidates == {s \in Source : ledger[s].known /\ Open(s) /\ s \notin linked}

ScanRead ==
  /\ scan.at = "idle"
  /\ Candidates # {}
  /\ scan' = [at |-> "read", sources |-> Candidates]
  /\ UNCHANGED <<ledger, linked, worker, mgr, intake, job, reader, fate,
                 faults,
                 stops>>

\* Nothing may be under way by now: scanRecovery looks, dispatchRecovery again.
ScanCheck ==
  /\ scan.at = "read"
  /\ scan' = IF InFlight THEN NoScan ELSE [scan EXCEPT !.at = "checked"]
  /\ UNCHANGED <<ledger, linked, worker, mgr, intake, job, reader, fate,
                 faults,
                 stops>>

\* The admission of the recovery; any retained execution has to be reconciled.
ScanInspect ==
  /\ scan.at = "checked" /\ mgr.at = "idle"
  /\ \/ /\ Answering /\ exec.x = 0
        /\ mgr' = [Idle EXCEPT !.at = "begin", !.x = Fresh,
                               !.sources = scan.sources, !.recovery = TRUE]
        /\ UNCHANGED scan
     \/ /\ host = "down" \/ (Answering /\ exec.x # 0)
        /\ scan' = NoScan /\ UNCHANGED mgr
  /\ UNCHANGED <<ledger, linked, worker, intake, job, reader, fate, faults,
                 stops>>

-----------------------------------------------------------------------------
(* The user's stop and reset. *)

\* An execution that is not done; for any other the stop has nothing to record.
StopInspect ==
  /\ mgr.at = "idle" /\ Answering
  /\ exec.reserved /\ ~exec.done
  /\ stops < MaxStop /\ stops' = stops + 1
  /\ mgr' = [Idle EXCEPT !.at = "record", !.x = exec.x,
                         !.sources = exec.sources, !.again = exec.cancelled]
  /\ UNCHANGED <<ledger, linked, worker, intake, job, reader, scan, fate,
                 faults>>

\* An intent names messages the execution was admitted with.
Cancellable(S, x) == Known(S) /\ \A s \in S : ledger[s].admission.x = x

\* The intent is in history before the worker is asked.
StopRecord ==
  /\ mgr.at = "record"
  /\ IF Cancellable(mgr.sources, mgr.x)
     THEN \/ /\ Request(mgr.sources, stops)
             /\ mgr' = [mgr EXCEPT !.at = "interrupt"]
             /\ UNCHANGED faults
          \/ Fault /\ mgr' = Idle /\ UNCHANGED ledger
     ELSE mgr' = Idle /\ UNCHANGED <<ledger, faults>>
  /\ UNCHANGED <<linked, worker, intake, job, reader, scan, fate, stops>>

\* The worker marks the execution and interrupts the provider.  Only a clean
\* answer that nothing was interrupted takes the mark back, and then the intent.
SendInterrupt ==
  /\ mgr.at = "interrupt"
  /\ \/ /\ Answering /\ turn # "none"
        /\ exec' = [exec EXCEPT !.cancelled = TRUE]
        /\ halted' = halted \cup exec.sources
        /\ mgr' = Idle /\ UNCHANGED faults
     \/ /\ Answering /\ turn # "running"
        /\ mgr' = IF mgr.again THEN Idle ELSE [mgr EXCEPT !.at = "restore"]
        /\ UNCHANGED <<exec, halted, faults>>
     \/ /\ Answering /\ Fault
        /\ exec' = [exec EXCEPT !.cancelled = @ \/ (exec.x # 0 /\ ~exec.done)]
        /\ halted' \in {halted} \cup
             (IF turn = "none" THEN {} ELSE {halted \cup exec.sources})
        /\ mgr' = Idle
     \/ /\ host = "down"
        /\ mgr' = Idle /\ UNCHANGED <<exec, halted, faults>>
  /\ UNCHANGED <<ledger, linked, host, turn, ended, op, intake, job, reader,
                 scan,
                 taken, refused, retaken, stops>>

StopRestore ==
  /\ mgr.at = "restore"
  /\ IF Cancellable(mgr.sources, mgr.x)
     THEN \/ Withdraw(mgr.sources, stops) /\ UNCHANGED faults
          \/ Fault /\ UNCHANGED ledger
     ELSE UNCHANGED <<ledger, faults>>
  /\ mgr' = Idle
  /\ UNCHANGED <<linked, worker, intake, job, reader, scan, fate, stops>>

\* Mutant: what the worker retains does not keep a session from its reset.
ClearResetRetainedMutant ==
  /\ mgr.at = "idle" /\ Answering
  /\ intake = {}
  /\ \E s \in Source : ledger[s].known
  /\ stops < MaxStop /\ stops' = stops + 1
  /\ mgr' = [Idle EXCEPT !.at = "clear"]
  /\ UNCHANGED <<ledger, linked, worker, intake, job, reader, scan, fate,
                 faults>>

\* The worker resets a session it retains nothing for; meanwhile no message is
\* taken (the empty-source slot of admitMessage).
ClearReset ==
  /\ mgr.at = "idle" /\ Answering
  /\ intake = {} /\ exec.x = 0
  /\ \E s \in Source : ledger[s].known
  /\ stops < MaxStop /\ stops' = stops + 1
  /\ mgr' = [Idle EXCEPT !.at = "clear"]
  /\ UNCHANGED <<ledger, linked, worker, intake, job, reader, scan, fate,
                 faults>>

\* The file goes, and with it everything it said.
ClearDone ==
  /\ mgr.at = "clear"
  /\ \/ /\ ledger' = [s \in Source |-> Unheard]
        /\ taken' = {} /\ refused' = {} /\ retaken' = {} /\ halted' = {}
        /\ UNCHANGED faults
     \/ Fault /\ UNCHANGED <<ledger, fate>>
  /\ mgr' = Idle
  /\ UNCHANGED <<linked, worker, intake, job, reader, scan, stops>>

-----------------------------------------------------------------------------
(* The specification. *)

Intake == \E s \in Source : Accept(s) \/ IntakeFails(s) \/ IntakeInspect(s)

Admitting == BeginJob \/ SendStarts \/ FollowupStarts \/ Reply

Working == Reserve \/ Dispatch \/ Rejected \/ Tell

Stopping == StopRecord \/ SendInterrupt \/ StopRestore \/ ClearDone

Next ==
  \/ Intake \/ Admitting \/ GiveUp
  \/ Working \/ TurnEnds \/ WorkerLost \/ ServerReplaced
  \/ \E s \in Source : Link(s)
  \/ Reconcile \/ Deliver \/ ReaderFails \/ Retire
  \/ ScanRead \/ ScanCheck \/ ScanInspect
  \/ StopInspect \/ Stopping \/ ClearReset

Spec == Init /\ [][Next]_vars

\* The processes go on, a turn the provider is known to have taken ends (or the
\* worker is lost), the scans come back, and a primary follows the last one.
\* Nothing is assumed of the users, the faults, or a turn nobody confirmed.
Fairness ==
  /\ \A s \in Source : WF_vars(IntakeInspect(s) \/ IntakeFails(s))
  /\ WF_vars(Admitting) /\ WF_vars(Working) /\ WF_vars(Stopping)
  /\ WF_vars(turn = "running" /\ TurnEnds)
  /\ WF_vars(host = "down" /\ ServerReplaced)
  /\ WF_vars(Reconcile) /\ WF_vars(Deliver) /\ WF_vars(Retire)
  /\ WF_vars(ScanRead) /\ WF_vars(ScanCheck) /\ WF_vars(ScanInspect)

FairSpec == Spec /\ Fairness

-----------------------------------------------------------------------------
(* Properties. *)

Promise == INSTANCE SourcePromise WITH
  known <- {s \in Source : ledger[s].known},
  answered <- {s \in Source : ledger[s].covered = "answered"}

\* A message is given to the provider once, and once more at most by a recovery;
\* never after it was answered or its turn stopped; and an answer covers only
\* what the provider was given, or refused at the sender's own request: the
\* coverage, reservations and intents of the history file do as SourcePromise.
KeepsPromise == Promise!Spec

\* What is about to be written fits what history says by then: the answer of a
\* retained execution, the restoration of a batch at the provider, the intent of
\* a stop and its withdrawal.  Otherwise an answer could never be recorded, the
\* worker would give up its journals, or a stop would be refused.
RecordsFit ==
  /\ exec.reserved => Known(exec.sources)
  /\ op.at = "dispatch" /\ ~Recovering => Restorable(op.batch, Receipt)
  /\ mgr.at \in {"record", "interrupt", "restore"}
       => Cancellable(mgr.sources, mgr.x)

\* A message has an answer, a reservation, a stop on record or a task.
Handled(s) ==
  \/ ~ledger[s].known \/ ~Open(s)
  \/ s \in linked

\* Unless a turn nobody confirmed stays open, every accepted message is handled,
\* whatever crash, refusal or lost reply it meets.
EventuallyHandled ==
  <>[](turn # "unsure") =>
    \A s \in Source : ledger[s].known ~> Handled(s)

=============================================================================
