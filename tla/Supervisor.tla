----------------------------- MODULE Supervisor -----------------------------
(***************************************************************************)
(* internal/harness/supervisor.go: the provider supervisor, for one        *)
(* session key, with the provider adapter behind it.                       *)
(*                                                                         *)
(* A turn runs in the adapter; its end is two steps: the adapter forgets   *)
(* the turn under its own lock, and then calls the emitter of the turn,    *)
(* whose wrapper (executionEmit) decides under the lock of the supervisor  *)
(* what the key does next.  Sends, controls, interruptions and the start   *)
(* of queued work hold the operation gate of the key; terminal events,     *)
(* reconfiguration and close do not.                                       *)
(*                                                                         *)
(* The key is that of a conversation (ordinary messages only) or of a job  *)
(* (one message, then operator controls), as the worker admits them.       *)
(* Prompts, thread identifiers, inference selections, callbacks that only  *)
(* report status and the one-minute lapse of control identifiers are left  *)
(* out; what callbacks and the provider answer is nondeterministic.        *)
(***************************************************************************)
EXTENDS Naturals, Sequences, FiniteSetsExt, SequencesExt

CONSTANTS
  Messages,       \* ordinary messages, numbered as they arrive
  Controls,       \* identifiers of operator controls
  NoControl,      \* no control
  MaxPending,     \* maxPendingControls
  MaxInterrupts,  \* bound: interruptions
  MaxTurns,       \* bound: turns after which no control is sent
  MaxProviders    \* bound: providers started

None == 0   \* no message

ASSUME SupervisorAssumption ==
  /\ Messages \subseteq Nat \ {0} /\ 1 \in Messages
  /\ NoControl \notin Controls
  /\ Messages \cap Controls = {}
  /\ {MaxPending, MaxProviders} \subseteq Nat \ {0}
  /\ {MaxInterrupts, MaxTurns} \subseteq Nat

VARIABLES
  session,     \* "chat" or "job"
  mode,        \* FollowUpMode of the configured harness
  provider,    \* current, closing and startErr of the supervisor
  epoch,       \* which provider was started last
  closed,      \* s.closed
  gate,        \* who holds controlOps[key], and how far it is
  active,      \* s.active[key] > 0
  pending,     \* s.pending[key]
  emitter,     \* s.controlEmit[key]: the message whose emitter it wraps
  control,     \* s.controls[key]
  seen,        \* s.seenControl[key]
  generation,  \* s.controlGeneration[key]
  scheduled,   \* startQueued goroutines that wait for the gate
  turn,        \* the adapter's active turn for the key
  ended,       \* terminal events whose wrapper has not finished
  turns,       \* turns started so far
  status,      \* status[m]: what became of message m, as its sender knows it
  born,        \* born[m]: the generation m was accepted in
  settled,     \* settled[m]: closing events its emitter received
  handed,      \* messages and controls handed to the provider, in order
  crossed,     \* a turn began beside an undelivered end, or unaccounted
  stolen       \* messages whose end went to a follow-up that was refused

admission == <<active, pending, emitter, control, seen, generation, scheduled>>
adapter   == <<turn, ended, turns, handed, crossed>>
harness   == <<mode, provider, epoch, closed>>
senders   == <<status, born, settled>>

vars == <<session, harness, gate, admission, adapter, senders, stolen>>

-----------------------------------------------------------------------------
NoTurn == [owner |-> None, number |-> 0, live |-> FALSE]
Idle   == [id |-> NoControl, again |-> FALSE]

\* pendingSend.  A batch holds its messages in arrival order; the last of
\* them owns the emitter, the others are in next.release.
Entry ==
  [messages   : Seq(Messages),
   owner      : Messages,
   control    : Controls \cup {NoControl},
   again      : BOOLEAN,     \* the continuation of the control
   generation : Nat,
   terminal   : BOOLEAN,     \* next.terminal # nil
   epoch      : Nat]         \* the target the goroutine captured

Queued(m) ==
  [messages |-> <<m>>, owner |-> m, control |-> NoControl, again |-> FALSE,
   generation |-> 0, terminal |-> FALSE, epoch |-> 0]

QueuedControl(k, m) == [Queued(m) EXCEPT !.messages = <<>>, !.control = k]

\* mergeQueuedConversationPrompts: how many entries of a queue go with the one
\* before it.  A control stays alone, and ends the ordinary prefix.
Ordinary(queue) ==
  Min({n \in 0..Len(queue) :
         n = Len(queue) \/ queue[n + 1].control # NoControl})

Joining(first, queue) == IF first.control = NoControl THEN Ordinary(queue) ELSE 0

\* An entry that is still in the queue has one message, its owner's.
Owners(queue, n) == [i \in 1..n |-> queue[i].owner]

\* Mutant: a batch is only its newest message.
MergedNewestMutant(first, queue) ==
  LET n == Joining(first, queue) IN IF n = 0 THEN first ELSE queue[n]

\* Mutant: what queued up meanwhile goes first.
MergedLateFirstMutant(first, queue) ==
  LET n == Joining(first, queue) IN
  IF n = 0 THEN first
  ELSE [queue[n] EXCEPT !.messages = Owners(queue, n) \o first.messages]

\* The merged entry is the newest of them, with every message in order.
Merged(first, queue) ==
  LET n == Joining(first, queue) IN
  IF n = 0 THEN first
  ELSE [queue[n] EXCEPT !.messages = first.messages \o Owners(queue, n)]

Rest(first, queue) == SubSeq(queue, Joining(first, queue) + 1, Len(queue))

Free == [op |-> "free"]

Held(op) == gate.op = op

\* The provider a caller captured as target still takes prompts.
Serving(e) == epoch = e /\ provider \in {"up", "detached"}

Settle(M) ==
  settled' = [m \in Messages |-> IF m \in M THEN settled[m] + 1 ELSE settled[m]]

Answer(M, s) == status' = [m \in Messages |-> IF m \in M THEN s ELSE status[m]]

\* A batch is given up.  Those that hear of it are told by an event, now or
\* through the wrapper; nothing ever tells the others.
GiveUp(M, hear) ==
  status' = [m \in Messages |->
    IF m \notin M THEN status[m] ELSE IF m \in hear THEN "dropped" ELSE "lost"]

Forget ==
  /\ active' = FALSE
  /\ control' = Idle
  /\ emitter' = None

\* A provider turn for the key begins.  One whose start failed late is not
\* live: its process is gone or being killed, only its end is to come.
Begin(owner, live) ==
  /\ turn' = [owner |-> owner, number |-> turns + 1, live |-> live]
  /\ turns' = turns + 1
  /\ crossed' = \/ crossed \/ ~active \/ ended # {}
                \/ \E e \in scheduled : e.generation = generation

NoBegin == UNCHANGED <<turn, turns, crossed>>

-----------------------------------------------------------------------------
Init ==
  /\ session \in {"chat", "job"}
  /\ mode \in {"queue", "steer"}
  /\ provider \in {"up", "busy"}
  /\ epoch = 1
  /\ closed = FALSE
  /\ gate = Free
  /\ active = FALSE
  /\ pending = <<>>
  /\ emitter = None
  /\ control = Idle
  /\ seen = {}
  /\ generation = 0
  /\ scheduled = {}
  /\ turn = NoTurn
  /\ ended = {}
  /\ turns = 0
  /\ status = [m \in Messages |-> "new"]
  /\ born = [m \in Messages |-> 0]
  /\ settled = [m \in Messages |-> 0]
  /\ handed = <<>>
  /\ crossed = FALSE
  /\ stolen = {}

-----------------------------------------------------------------------------
(* Send *)

\* The worker refuses a second admission for a retained job.
Admissible(m) ==
  /\ status[m] = "new"
  /\ \A n \in Messages : n < m => status[n] # "new"
  /\ session = "job" => m = 1

\* sendReserved up to the adapter call: refuse, queue behind the turn, or
\* take the key.  A strict follow-up must find the conversation active.
SendAdmit(m, strict) ==
  LET was == turn # NoTurn
      refused == \/ provider # "up"
                 \/ strict /\ ~was /\ (~active \/ mode = "steer")
      queues == (~was /\ active) \/ (was /\ mode = "queue")
  IN /\ gate = Free
     /\ Admissible(m)
     /\ born' = [born EXCEPT ![m] = generation]
     /\ \/ /\ refused
           /\ Answer({m}, "turned away")
           /\ UNCHANGED <<gate, active, pending, emitter>>
        \/ /\ ~refused /\ queues
           /\ pending' = Append(pending, Queued(m))
           /\ Answer({m}, "accepted")
           /\ UNCHANGED <<gate, active, emitter>>
        \/ /\ ~refused /\ ~queues
           /\ active' = (active \/ ~was)
           /\ emitter' = m
           /\ gate' = [op |-> "send", message |-> m, strict |-> strict,
                       was |-> was, previous |-> emitter, epoch |-> epoch]
           /\ Answer({m}, "accepted")
           /\ UNCHANGED pending
     /\ UNCHANGED <<session, harness, control, seen, generation, scheduled,
                    adapter, settled, stolen>>

\* Mutant: only the emitter is cleaned up.
SendFailedKeepsKeyMutant ==
  /\ emitter' = IF gate.was THEN gate.previous ELSE None
  /\ UNCHANGED active

\* The cleanup after a failed adapter call.
SendFailed ==
  IF gate.was
  THEN /\ emitter' = IF active /\ turn # NoTurn THEN gate.previous ELSE emitter
       /\ UNCHANGED active
  ELSE active' = FALSE /\ emitter' = None

\* Steering puts the emitter of the message in the place of that of the turn,
\* and waits for the answer of the provider.
SendSteer ==
  /\ Held("send") /\ gate.was
  /\ turn # NoTurn /\ Serving(gate.epoch)
  /\ handed' = Append(handed, gate.message)
  /\ turn' = [turn EXCEPT !.owner = gate.message]
  /\ gate' = [op |-> "steering", message |-> gate.message, was |-> TRUE,
              previous |-> gate.previous, replaced |-> turn.owner,
              number |-> turn.number]
  /\ UNCHANGED <<session, harness, admission, ended, turns, crossed,
                 senders, stolen>>

\* Accepted: the replaced emitter is closed.  An error puts it back, unless
\* the turn has ended meanwhile: then its end went to the message refused.
SteerReply ==
  LET same == turn # NoTurn /\ turn.number = gate.number IN
  /\ Held("steering")
  /\ \/ /\ Settle({gate.replaced})
        /\ UNCHANGED <<turn, active, emitter, status, stolen>>
     \/ /\ SendFailed
        /\ Answer({gate.message}, "unconfirmed")
        /\ turn' = IF same THEN [turn EXCEPT !.owner = gate.replaced] ELSE turn
        /\ stolen' = IF same THEN stolen ELSE stolen \cup {gate.replaced}
        /\ UNCHANGED settled
  /\ gate' = Free
  /\ UNCHANGED <<session, harness, pending, control, seen, generation,
                 scheduled, ended, turns, handed, crossed, born>>

\* A send that finds no turn starts one, unless it is strict.

\* "late" is a turn that began although the call reports an error: its end
\* still reaches the emitter.
SendStart ==
  LET m == gate.message IN
  /\ Held("send") /\ ~gate.strict
  /\ turn = NoTurn /\ Serving(gate.epoch)
  /\ handed' = Append(handed, m)
  /\ \E outcome \in {"started", "late", "failed"} :
       /\ IF outcome = "failed" THEN NoBegin ELSE Begin(m, outcome = "started")
       /\ IF outcome = "started"
          THEN UNCHANGED <<active, emitter, status>>
          ELSE SendFailed /\ Answer({m}, "unconfirmed")
  /\ gate' = Free
  /\ UNCHANGED <<session, harness, pending, control, seen, generation,
                 scheduled, ended, born, settled, stolen>>

\* The reservation of the turn fails, the adapter is closed or refuses, or
\* a strict follow-up finds the turn over.
SendRefused ==
  /\ Held("send")
  /\ SendFailed
  /\ Answer({gate.message}, "refused")
  /\ gate' = Free
  /\ UNCHANGED <<session, harness, pending, control, seen, generation,
                 scheduled, adapter, born, settled, stolen>>

-----------------------------------------------------------------------------
(* The adapter ends a turn, and the wrapper decides what follows *)

Ended(owner, number, by) ==
  [owner |-> owner, number |-> number, by |-> by, held |-> NoControl]

TurnEnds ==
  /\ turn # NoTurn
  /\ turn' = NoTurn
  /\ ended' = ended \cup {Ended(turn.owner, turn.number, "provider")}
  /\ UNCHANGED <<session, harness, gate, admission, turns, handed,
                 crossed, senders, stolen>>

\* A terminal event emitted by startQueued itself holds the gate until then.
Done(e) ==
  /\ ended' = ended \ {e}
  /\ gate' = IF e.by = "start" THEN Free ELSE gate

\* Mutant: the emitter of the ended turn only hears that the turn continues.
HandoverContinuesMutant(e, next) == {}

\* Whose stream the next entry closes: that of the ended turn, unless a
\* control keeps it.
Handover(e, next) == IF next.control = NoControl THEN {e.owner} ELSE {}

\* Queued work waits: the oldest entry or batch leaves the queue.
TakeNext(e) ==
  LET next == [Merged(Head(pending), Tail(pending)) EXCEPT
                 !.generation = generation, !.terminal = TRUE, !.epoch = epoch]
  IN /\ pending # <<>>
     /\ pending' = Rest(Head(pending), Tail(pending))
     /\ scheduled' = scheduled \cup {next}
     /\ Settle(Handover(e, next))
     /\ Done(e)
     /\ UNCHANGED <<active, emitter, control, seen>>

\* A control owns the turn: the emitter hears that the turn continues, and
\* only then the supervisor looks at the control again.
HoldForControl(e) ==
  /\ pending = <<>>
  /\ control.id # NoControl /\ ~control.again
  /\ ended' = (ended \ {e}) \cup {[e EXCEPT !.held = control.id]}
  /\ UNCHANGED <<gate, active, pending, emitter, control, seen, scheduled,
                 settled>>

Release(e) ==
  /\ pending = <<>>
  /\ control.id = NoControl \/ control.again
  /\ Forget
  /\ seen' = {}
  /\ Settle({e.owner})
  /\ Done(e)
  /\ UNCHANGED <<pending, scheduled>>

TerminalEvent(e) ==
  /\ e \in ended /\ e.held = NoControl
  /\ TakeNext(e) \/ HoldForControl(e) \/ Release(e)
  /\ UNCHANGED <<session, harness, generation, turn, turns, handed,
                 crossed, status, born, stolen>>

\* The second half of HoldForControl.
Continuation(e) ==
  /\ e \in ended /\ e.held # NoControl
  /\ IF control.id = e.held
     THEN /\ control' = [control EXCEPT !.again = TRUE]
          /\ scheduled' = scheduled \cup
               {[QueuedControl(e.held, emitter) EXCEPT !.again = TRUE,
                   !.generation = generation, !.terminal = TRUE,
                   !.epoch = epoch]}
          /\ UNCHANGED <<active, emitter>>
     ELSE Forget /\ UNCHANGED scheduled
  /\ Done(e)
  /\ UNCHANGED <<session, harness, pending, seen, generation, turn, turns,
                 handed, crossed, senders, stolen>>

-----------------------------------------------------------------------------
(* startQueued *)

\* Mutant: no fence against an interruption.
ValidUnfencedMutant(e) == ~closed /\ active

Valid(e) == ~closed /\ active /\ generation = e.generation

\* cancelQueuedRequests; the emitter a control keeps is not its own.
Cancel(entries) ==
  LET M == UNION {ToSet(e.messages) : e \in entries} IN
  /\ Settle(M)
  /\ Answer(M, "cancelled")

\* Mutant: the emitter is not told either.
FinishQueuedSilentMutant(e) ==
  IF generation # e.generation
  THEN UNCHANGED <<pending, active, control, emitter, seen, status, settled>>
  ELSE /\ pending' = <<>>
       /\ Forget
       /\ seen' = {}
       /\ GiveUp(ToSet(e.messages), {})
       /\ UNCHANGED settled

\* finishQueuedControl: a refused start releases the key, and hands the end of
\* the turn before it to the emitter, if the entry still has it: one that was
\* merged into a newer one does not.  The emitters in next.release hear nothing.
FinishQueued(e) ==
  LET hear == IF e.terminal THEN {e.owner} ELSE {} IN
  IF generation # e.generation
  THEN UNCHANGED <<pending, active, control, emitter, seen, status, settled>>
  ELSE /\ pending' = <<>>
       /\ Forget
       /\ seen' = {}
       /\ GiveUp(ToSet(e.messages), hear)
       /\ Settle(hear)

\* runContinuation refuses before the gate is taken: another controller, or
\* a cancelled execution.
ContinuationRefused(e) ==
  /\ e \in scheduled /\ e.control # NoControl
  /\ scheduled' = scheduled \ {e}
  /\ FinishQueued(e)
  /\ UNCHANGED <<session, harness, gate, generation, adapter, born, stolen>>

\* The goroutine takes the gate; a batch absorbs what queued up meanwhile, for
\* the target and the generation it was scheduled for.
QueuedAcquire(e) ==
  /\ gate = Free
  /\ e \in scheduled
  /\ scheduled' = scheduled \ {e}
  /\ IF Valid(e)
     THEN /\ gate' = [op |-> "queued",
                      entry |-> [Merged(e, pending) EXCEPT
                                   !.generation = e.generation,
                                   !.epoch = e.epoch]]
          /\ pending' = Rest(e, pending)
          /\ UNCHANGED <<status, settled>>
     ELSE /\ Cancel({e})
          /\ UNCHANGED <<gate, pending>>
  /\ UNCHANGED <<session, harness, active, emitter, control, seen, generation,
                 adapter, born, stolen>>

\* The callbacks of a control, and the second look at the fence.
QueuedPrepare ==
  LET e == gate.entry IN
  /\ Held("queued")
  /\ \/ /\ e.control # NoControl
        /\ FinishQueued(e)
        /\ gate' = Free
     \/ /\ ~Valid(e)
        /\ Cancel({e})
        /\ gate' = Free
        /\ UNCHANGED <<pending, active, control, emitter, seen>>
     \/ /\ Valid(e)
        /\ emitter' = IF e.control = NoControl THEN e.owner ELSE emitter
        /\ control' = IF e.control = NoControl THEN control
                      ELSE [id |-> e.control, again |-> e.again]
        /\ gate' = [op |-> "ready", entry |-> e]
        /\ UNCHANGED <<pending, active, seen, status, settled>>
  /\ UNCHANGED <<session, harness, generation, scheduled, adapter, born,
                 stolen>>

\* The error goes through the wrapper while the gate is held.
QueuedError(e) ==
  /\ ended' = ended \cup {Ended(e.owner, turns', "start")}
  /\ gate' = [op |-> "failing"]

\* reserveTurn refuses a batch.
QueuedUnreserved ==
  /\ Held("ready") /\ gate.entry.control = NoControl
  /\ ~closed
  /\ FinishQueued(gate.entry)
  /\ gate' = Free
  /\ UNCHANGED <<session, harness, generation, scheduled, adapter, born,
                 stolen>>

\* The supervisor closed meanwhile: only the owner of the batch hears of it.
QueuedClosed ==
  /\ Held("ready") /\ closed
  /\ NoBegin
  /\ QueuedError(gate.entry)
  /\ GiveUp(ToSet(gate.entry.messages), {gate.entry.owner})
  /\ UNCHANGED <<session, harness, admission, handed, born, settled,
                 stolen>>

\* The prompt reaches the adapter; the other emitters of a batch are
\* released first, whatever the adapter answers.  A turn that runs already, and
\* can be steered, takes the prompt, and its emitter is released too.
QueuedSend ==
  LET e == gate.entry
      items == IF e.control = NoControl THEN e.messages
               ELSE IF e.again THEN <<>> ELSE <<e.control>>
      others == ToSet(e.messages) \ {e.owner}
      idle == turn = NoTurn /\ Serving(e.epoch)
      steers == turn # NoTurn /\ Serving(e.epoch) /\ mode = "steer"
  IN /\ Held("ready") /\ ~closed
     /\ \E outcome \in {"started", "late", "steered", "failed", "refused"} :
          /\ outcome \in {"started", "late"} => idle
          /\ outcome = "steered" => steers
          /\ outcome = "failed" => idle \/ steers
          /\ Settle(IF outcome = "steered" THEN others \cup {turn.owner}
                    ELSE others)
          /\ IF outcome = "refused"
             THEN /\ GiveUp(ToSet(e.messages), ToSet(e.messages))
                  /\ UNCHANGED handed
             ELSE /\ handed' = handed \o items
                  /\ UNCHANGED status
          /\ IF outcome \in {"started", "late"}
             THEN Begin(e.owner, outcome = "started")
             ELSE /\ turn' = IF outcome = "steered"
                             THEN [turn EXCEPT !.owner = e.owner] ELSE turn
                  /\ UNCHANGED <<turns, crossed>>
          /\ IF outcome \in {"started", "steered"}
             THEN gate' = Free /\ UNCHANGED ended
             ELSE QueuedError(e)
     /\ UNCHANGED <<session, harness, admission, born, stolen>>

-----------------------------------------------------------------------------
(* Interrupt *)

\* Under the lock: a new generation, and nothing queued survives it.
InterruptFence ==
  /\ gate = Free
  /\ provider = "up"
  /\ generation < MaxInterrupts
  /\ generation' = generation + 1
  /\ pending' = <<>>
  /\ control' = Idle
  /\ seen' = {}
  /\ emitter' = None
  /\ Cancel(ToSet(pending))
  /\ gate' = [op |-> "interrupt"]
  /\ UNCHANGED <<session, harness, active, scheduled, adapter, born, stolen>>

\* The adapter has no turn to stop.
InterruptIdle ==
  /\ Held("interrupt") /\ turn = NoTurn
  /\ active' = FALSE
  /\ gate' = Free
  /\ UNCHANGED <<session, harness, pending, emitter, control, seen, generation,
                 scheduled, adapter, senders, stolen>>

\* The adapter signals the turn, or fails to; the turn may end before the
\* supervisor looks again.
InterruptSignal ==
  /\ Held("interrupt") /\ turn # NoTurn
  /\ gate' = [op |-> "stopping"]
  /\ UNCHANGED <<session, harness, admission, adapter, senders, stolen>>

InterruptReturn ==
  /\ Held("stopping")
  /\ active' = (active /\ turn # NoTurn)
  /\ gate' = Free
  /\ UNCHANGED <<session, harness, pending, emitter, control, seen, generation,
                 scheduled, adapter, senders, stolen>>

-----------------------------------------------------------------------------
(* SendControl *)

\* The worker refuses a control for a cancelled execution, hence the
\* generation; the supervisor refuses one without a turn or an emitter.
Steerable ==
  /\ gate = Free
  /\ session = "job"
  /\ generation = 0
  /\ provider = "up"
  /\ active /\ turn # NoTurn
  /\ emitter # None
  /\ turns < MaxTurns

\* Mutant: the capacity test is off by one.
ControlQueueOverMutant(k) ==
  /\ Steerable /\ mode = "queue"
  /\ k \notin seen
  /\ Len(pending) <= MaxPending
  /\ seen' = seen \cup {k}
  /\ pending' = Append(pending, QueuedControl(k, emitter))
  /\ UNCHANGED <<session, harness, gate, active, emitter, control, generation,
                 scheduled, adapter, senders, stolen>>

ControlQueue(k) ==
  /\ Steerable /\ mode = "queue"
  /\ k \notin seen
  /\ Len(pending) < MaxPending
  /\ seen' = seen \cup {k}
  /\ pending' = Append(pending, QueuedControl(k, emitter))
  /\ UNCHANGED <<session, harness, gate, active, emitter, control, generation,
                 scheduled, adapter, senders, stolen>>

\* Native steering records the control before it is validated.
ControlPropose(k) ==
  /\ Steerable /\ mode = "steer"
  /\ k \notin seen
  /\ seen' = seen \cup {k}
  /\ control' = [id |-> k, again |-> FALSE]
  /\ gate' = [op |-> "control", id |-> k, previous |-> control,
              generation |-> generation, epoch |-> epoch]
  /\ UNCHANGED <<session, harness, active, pending, emitter, generation,
                 scheduled, adapter, senders, stolen>>

Restored == IF control.id = gate.id THEN gate.previous ELSE control

\* Delivered; refused before delivery (not validated, not reserved, turn
\* over), which forgets the identifier; ambiguous, which keeps it; or the
\* job was cancelled or completed, which leaves both.
ControlDeliver ==
  LET delivery == ~closed /\ active /\ generation = gate.generation
      steers == delivery /\ turn # NoTurn /\ Serving(gate.epoch)
  IN /\ Held("control")
     /\ gate' = Free
     /\ \/ /\ steers
           /\ handed' = Append(handed, gate.id)
           /\ control' \in {control, Restored}
           /\ UNCHANGED seen
        \/ /\ control' = Restored
           /\ seen' = seen \ {gate.id}
           /\ UNCHANGED handed
        \/ /\ ~delivery
           /\ UNCHANGED <<control, seen, handed>>
     /\ UNCHANGED <<session, harness, active, pending, emitter, generation,
                    scheduled, turn, ended, turns, crossed, senders,
                    stolen>>

-----------------------------------------------------------------------------
(* Reconfigure, Close and recovery, serialized by operationMu *)

\* Mutant: no look at the active keys.
ReconfigureBusyMutant ==
  /\ ~closed
  /\ provider # "detached"
  /\ epoch < MaxProviders
  /\ provider' = "detached"
  /\ UNCHANGED <<session, mode, epoch, closed, gate, admission, adapter,
                 senders, stolen>>

\* Reconfigure takes the provider away from dispatch only when idle.
Reconfigure ==
  /\ ~closed /\ ~active
  /\ provider # "detached"
  /\ epoch < MaxProviders
  /\ provider' = "detached"
  /\ UNCHANGED <<session, mode, epoch, closed, gate, admission, adapter,
                 senders, stolen>>

Close ==
  /\ ~closed
  /\ provider # "detached"
  /\ closed' = TRUE
  /\ provider' = IF provider = "up" THEN "detached" ELSE provider
  /\ UNCHANGED <<session, mode, epoch, gate, admission, adapter, senders,
                 stolen>>

\* The adapter closes, which ends its turn, and the successor starts; each
\* may fail.
Replace ==
  /\ provider = "detached"
  /\ \/ provider' \in {"down", "closing"} /\ UNCHANGED <<mode, epoch>>
     \/ /\ ~closed
        /\ provider' = "up"
        /\ epoch' = epoch + 1
        /\ mode' \in {"queue", "steer"}
  /\ turn' = NoTurn
  /\ ended' = ended \cup (IF turn = NoTurn THEN {}
                          ELSE {Ended(turn.owner, turn.number, "provider")})
  /\ UNCHANGED <<session, closed, gate, admission, turns, handed,
                 crossed, senders, stolen>>

\* recoverOwnership confirms a close that failed, or acquires the workspace
\* marker, and starts the saved selection.
Recover ==
  /\ ~closed
  /\ provider \in {"closing", "busy"}
  /\ provider' = "up"
  /\ epoch' = epoch + 1
  /\ UNCHANGED <<session, mode, closed, gate, admission, adapter, senders,
                 stolen>>

-----------------------------------------------------------------------------
Send == \/ \E m \in Messages, strict \in BOOLEAN : SendAdmit(m, strict)
        \/ SendSteer \/ SteerReply \/ SendStart \/ SendRefused

Emit == \E e \in ended : TerminalEvent(e) \/ Continuation(e)

StartQueued ==
  \/ \E e \in scheduled : QueuedAcquire(e) \/ ContinuationRefused(e)
  \/ QueuedPrepare \/ QueuedUnreserved \/ QueuedClosed \/ QueuedSend

Interrupt ==
  InterruptFence \/ InterruptIdle \/ InterruptSignal \/ InterruptReturn

SendControl == \/ \E k \in Controls : ControlQueue(k) \/ ControlPropose(k)
               \/ ControlDeliver

Next ==
  \/ Send \/ TurnEnds \/ Emit \/ StartQueued \/ Interrupt \/ SendControl
  \/ Reconfigure \/ Close \/ Replace \/ Recover

Spec == Init /\ [][Next]_vars

\* Goroutines run, the holder of the gate goes on, terminal events are
\* delivered, and a provider turn ends.
Fairness ==
  /\ WF_vars(SendSteer \/ SteerReply \/ SendStart \/ SendRefused)
  /\ WF_vars(TurnEnds)
  /\ WF_vars(Emit)
  /\ WF_vars(StartQueued)
  /\ WF_vars(InterruptIdle \/ InterruptSignal \/ InterruptReturn)
  /\ WF_vars(ControlDeliver)
  /\ WF_vars(Replace)

FairSpec == Spec /\ Fairness

-----------------------------------------------------------------------------
(* Properties *)

\* The type of every variable; the queue of a job, which holds controls alone,
\* never grows past maxPendingControls (SendControl).
TypeOK ==
  /\ session \in {"chat", "job"}
  /\ mode \in {"queue", "steer"}
  /\ provider \in {"up", "detached", "closing", "busy", "down"}
  /\ {epoch, generation, turns} \subseteq Nat
  /\ {closed, active, crossed} \subseteq BOOLEAN
  /\ gate.op \in {"free", "send", "steering", "queued", "ready", "failing",
                  "interrupt", "stopping", "control"}
  /\ pending \in Seq(Entry) /\ (session = "job" => Len(pending) <= MaxPending)
  /\ scheduled \subseteq Entry
  /\ emitter \in Messages \cup {None}
  /\ control \in [id : Controls \cup {NoControl}, again : BOOLEAN]
  /\ seen \subseteq Controls
  /\ turn \in [owner : Messages \cup {None}, number : Nat, live : BOOLEAN]
  /\ ended \subseteq [owner : Messages, number : Nat,
                     by : {"provider", "start"},
                     held : Controls \cup {NoControl}]
  /\ status \in [Messages -> {"new", "turned away", "accepted", "refused",
                              "cancelled", "unconfirmed", "dropped", "lost"}]
  /\ born \in [Messages -> Nat]
  /\ stolen \subseteq Messages
  /\ settled \in [Messages -> Nat]
  /\ handed \in Seq(Messages \cup Controls)

\* Messages that have not reached the provider, and of which no sender was
\* told anything after their acceptance.
Untold == {m \in Messages : status[m] \in {"accepted", "lost"}} \ ToSet(handed)

InHand ==
  IF Held("send") THEN {gate.message}
  ELSE IF Held("queued") \/ Held("ready") THEN ToSet(gate.entry.messages)
  ELSE {}

Somewhere ==
  InHand \cup UNION {ToSet(e.messages) : e \in scheduled \cup ToSet(pending)}

\* A batch that could not be started drops all its messages, and tells the
\* sender of the newest at most.
LostInBatch(m) ==
  /\ status[m] = "lost"
  /\ \E n \in Messages \ {m} :
       born[n] = born[m] /\ status[n] \in {"dropped", "lost"}

\* An accepted message that has not reached the provider, and whose sender was
\* told nothing since, is somewhere: queued, in a batch that waits for the gate,
\* or in the hands of its holder (sendReserved, executionEmit, startQueuedOwned).
\* The exception is the code's: a batch of several messages whose turn is not
\* reserved, or that finds the supervisor closed, takes messages with it whose
\* senders hear nothing (finishQueuedControl).  A message that waits alone is
\* never dropped in silence.
NothingForgotten == \A m \in Untold : m \in Somewhere \/ LostInBatch(m)

\* However queued messages, batches and the queue behind them are merged, split
\* and started by whichever goroutine, no message and no control reaches the
\* provider twice, and messages reach it in the order in which they were
\* accepted as long as no turn overtook the end of another
\* (mergeQueuedConversationPrompts, startQueuedOwned, SendControl).
OnceInOrder ==
  /\ IsInjective(handed)
  /\ crossed \/ \A i, j \in DOMAIN handed :
       i < j /\ {handed[i], handed[j]} \subseteq Messages
         => handed[i] < handed[j]

\* The provider is taken away only when it runs no turn, as the comment on
\* Supervisor says; the holder of the gate may be anywhere (Reconfigure).
OnlyIdleIsSwapped == provider = "detached" /\ ~closed => ~turn.live

\* The same, as long as no turn overtook the end of another.
SwapsIdle == crossed \/ OnlyIdleIsSwapped

\* Whoever was told that a message of a conversation is accepted hears of its
\* end: by a closing event, or because Send returns an error (executionEmit,
\* cancelQueuedRequests, startQueuedOwned, sendReserved).  A batch that was told
\* of its refusal, or cancelled, has to receive the event.  Three senders are
\* excepted, because the code leaves them waiting: those of a closed supervisor,
\* those whose end a refused follow-up stole, and those that a refused batch
\* lost (NothingForgotten bounds the last).
Answered ==
  \A m \in Messages :
    (session = "chat" /\ status[m] = "accepted")
      ~> \/ settled[m] > 0
         \/ status[m] \in {"refused", "unconfirmed"}
         \/ closed \/ m \in stolen \/ status[m] = "lost"

\* A key does not stay taken: every start, failed start, refusal, interruption
\* and end of a turn leads to the next turn or frees it (s.active).
KeyFreed == active ~> (~active \/ closed)

fate ==
  [m \in Messages |->
    LET sent == m \in ToSet(handed)
        dropped == status[m] \in {"refused", "cancelled", "dropped", "lost"}
    IN IF sent /\ dropped THEN "torn"
       ELSE IF sent THEN "sent"
       ELSE IF dropped THEN "dropped"
       ELSE IF status[m] = "accepted" THEN "waiting" ELSE "new"]

Promise == INSTANCE FollowupQueue
  WITH fate <- fate,
       fenced <- {m \in Messages : fate[m] # "new" /\ born[m] < generation}

\* The supervisor implements FollowupQueue: no message is both handed over and
\* dropped, told or not, a dropped one never comes back, and after an
\* interruption nothing accepted before it reaches the provider.
KeepsPromise == Promise!Spec

=============================================================================
