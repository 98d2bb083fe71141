# Spynel: a verification of the workspace server

Spynel runs AI agents for a workspace. One process at a time owns the workspace
(the *primary*), scans a directory tree of Markdown task and goal documents,
claims them for an implementation or a review phase, and has a detached *harness
worker* run the provider turns. People talk to it in conversations, whose messages become turns of
the same worker. Everything that matters survives the death of
either process: the ownership lease, the claim leases, the documents,
the histories of the conversations, the worker's execution journals. This directory holds TLA+ models of that machinery,
TLC configurations that check them on small instances, and TLAPS proofs for any
instance. All paths below are relative to the repository; `election.go` alone
means the file of that name in the package under discussion.

## 1. Inventory

### 1.1 The parts and their state

| Part | Package | Durable or shared state | Operations |
|---|---|---|---|
| Ownership election | `internal/instance` | `primary.json` (lease), `primary-release.json` (fence), `primary.lock` (OS lock) | TryAcquire, Renew, Handoff, Release, RunForOwner, RunWhileOwner, RunWhileNoPrimaryLease |
| Primary server | `internal/cli/server_runtime.go` | one term's token, its loops | poll, start, renew, hand over, stop, crash |
| Orchestrator | `internal/orchestrator` | documents, `runtime/leases/*.json`, in-memory `inflight`, jobs, sessions | scan (attach, resume, reconcile, recover, orphans, wake, claim), dispatch, interrupt |
| Harness worker | `internal/harness/worker*.go` | admission records, event journals, cursors, one process record | Send, Events, Commit, Ack, Control, replay |
| Supervisor and adapters | `internal/harness/supervisor.go`, `codex.go`, `claude.go`, ... | per session key: queue, active flag, control records, gate; provider processes | send, steer, batch, continue, control, interrupt, reconfigure, close, recover |
| Process ownership | `internal/harness/process_ownership*.go` | pid files, guardian processes, exclusive lock | own, confirm dead, terminate |
| History and recovery | `internal/history`, `internal/app` | one append-only log per conversation: messages, admissions, answers, cancellations | admit, restore, answer, cancel, clear, scan, re-dispatch |
| Channels | `internal/channel` | supervision state of Telegram, WhatsApp, TUI | start, retry, stop, deliver |
| Local API | `internal/localapi` | Unix socket, event stream | subscribe, reconnect, forward |
| Updater | `internal/updater` | registered processes, update lock | drain, install, restart |
| Configuration, extensions, instructions, media, themes, CLI | the rest | YAML, hook receipts, caches | validation, presentation, I/O |

`PROJECT.json` lists every component with what is, and is not, modelled of it.

### 1.2 How they interact

```
 process A (primary)                          process B (secondary)
   runOwnerElection --- primary.json/.lock ---- runOwnerElection
        | term
        v
   orchestrator scan --- documents <--- agents move files at any time
        | claim lease, dispatch goroutine
        v   (request carries owner id + token)
   WorkerClient ==== socket ====> worker host -- RunForOwner(fence) --> apply
        ^                              |
        +------- events, cursor -------+ supervisor -> provider process
```

* Every durable action of a primary, and every request a worker applies, runs
  inside `RunForOwner` (or `RunWhileOwner`): under `primary.lock`, with the exact
  term rechecked and its heartbeat renewed when the action ends.
* The scan runs inside one such admission, so no worker request and no lease
  update of a dispatch goroutine interleaves with it. The agents do: they rename
  documents whenever they like.
* A message of a conversation is written to history first, then admitted to the
  worker as an execution or as a follow-up of the running one; the worker reserves
  its sources in history before it calls the supervisor, and the answer covers them
  in history when the journal's consumer delivers it. A scanner looks for messages
  that nothing covers and sends them again, once.
* A dispatch goroutine sends, consumes events in order, commits a cursor after
  each page and acknowledges a completed execution, each step its own admission.

### 1.3 What is hard, and what makes each part correct

* **Election**: processes of different speeds, crash inside the lock, an old owner
  waking up, a reservation nobody uses. *Correct*: one exact term at a time, no
  write by a former owner, admissions indivisible, ownerless work fenced.
* **Primary server**: order of drain and release, startup slower than the lease,
  requests that outlive their sender. *Correct*: the successor is reserved only
  once the old loops are gone; durable work follows the order of terms; ownership
  comes back.
* **Orchestrator**: crash between journal, rename and rewrite; lost replies; agents
  that move documents in the middle of a scan; an interruption taken back; a
  shutdown in the middle of a scan. *Correct*: one turn per phase, no claim without
  a journal, cancelled claims stay down, no completion without review, every move
  is reconciled.
* **Worker journal**: replies and acknowledgements lost, cursor behind the
  callback, a host that dies anywhere in replay. *Correct*: an admission runs once,
  no event is skipped or lost, terminal records are forgotten only once delivered.
* **Supervisor**: the end of a turn, a send, a control, an interruption and a change of
  provider meet on one key, under three different locks. *Correct*: messages reach the
  provider once and in order, nothing accepted before an interruption reaches it
  afterwards, every stream is closed and every key freed, no running turn loses its
  provider.
* **Conversations**: four records of one message (history, task front matter, worker,
  job) are written at different times by processes that die, and by a user who stops
  and clears. *Correct*: a message is given to the provider once, and once more at
  most; a stopped or answered one never again; an answer covers only what the provider
  was given; no accepted message is forgotten.
* **Channels, local API, updater**: retry loops, reconnects, drain of registered
  processes. *Correct*: every loop ends on stop, nothing is delivered to the wrong
  requester.

The hazards, each at the line where it bites, are in `PROJECT.json` under
`hazards`, with the properties that guard them.

## 2. Plan

Modules, in the order of their importance to the system.

| Module | Models | Uses |
|---|---|---|
| `OwnershipTerm` | what the election promises, without files, clocks or locks | |
| `Election` | `internal/instance/election.go` | implements `OwnershipTerm` |
| `PrimaryTerm` | `internal/cli/server_runtime.go`, fenced worker requests | EXTENDS `Election`, implements its `Spec` |
| `TaskWorkflow` | the task route of `internal/orchestrator` | the worker at the level of its executions |
| `WorkerJournal` | `internal/harness/worker*.go`, admission to acknowledgement | the provider as a source of events |
| `FollowupQueue` | what the supervisor promises to the messages of one key | |
| `Supervisor` | `internal/harness/supervisor.go` with the adapter behind it | implements `FollowupQueue` |
| `SourcePromise` | what history, manager and worker together promise to a message | |
| `ConversationRecovery` | one conversation in `internal/app`, `history`, `orchestrator`, `harness` | implements `SourcePromise`; the provider as what a send may answer |
| `ElectionProofs`, `PrimaryTermProofs`, `TaskWorkflowProofs`, `WorkerJournalProofs`, `SupervisorProofs`, `ConversationRecoveryProofs` | theorems for any constants | EXTEND the module they are about |

What is left, in this order:

1. **Capacity and threads of the orchestrator**: `canAdmitClaim` against attached and
   recovered executions, `completeTransition`'s stale lease copy, hook receipts; the
   two-path merge of a document that is renamed under a rewrite; a document whose
   status does not fit its directory.
2. **Outbox and channels** (`orchestrator/notification*.go`, `channel/supervisor.go`):
   notification decisions, at-least-once delivery, start/retry/stop.
3. **Updater** (`internal/updater`): drain of registered processes before an install.

## 3. The modules

`PROJECT.json` maps every definition to its lines. This section says what the
definitions stand for.

### 3.1 `Election` and `OwnershipTerm`

State: `lease` is `primary.json`, `fence` is `primary-release.json`, `section` is the
holder of `primary.lock` when it is held across two steps. `nextTerm` and `tokens`
stand for the random tokens: a term's number is its token, and a process may use any
token it was ever given, in any operation, at any time, so the module is the most
general client of the type `Election`. `admitted` remembers the term of the latest
fenced action.

* A mutation that begins and ends in one `withLock` and whose inside nobody can see
  (`TryAcquire`, `Renew`, `Handoff`) is one step guarded by `section = Unlocked`.
* `Release` writes the fence, then removes the lease: `ReleaseFence`, `ReleaseRemove`.
  `RunForOwner` and `RunWhileOwner` are `BeginAdmission` and `EndAdmission`, because
  their action takes time, and the clock moves meanwhile; the end renews the
  heartbeat whatever the action returned. `RunWhileNoPrimaryLease` is
  `BeginOwnerless` and `EndOwnerless`. `Abandon` is the death of the holder, or the
  failure of its last write: the kernel drops the lock.
* Time is the *age* of the three stored instants, saturated at the age where the
  code's comparisons stop telling a difference. The clock is shared and monotonic.
* A file that exists and does not decode (`"bad"`) is possible initially, since no
  operation leaves one behind (files are replaced atomically).

`OwnershipTerm` has a holder, a counter of terms and a piece of fenced work. The
refinement maps a reserved lease to "nobody may admit": that is why
`BeginAdmission` must refuse one.

### 3.2 `PrimaryTerm`

`server[p]` is where `runOwnerElection` of process `p` stands; `requests` are calls
to the detached worker that have not reached `RunForOwner` yet, each with the term it
was sent under. `Attempt`..`Shutdown` are the branches of the election loop and of
`startPrimaryTerm`; `Drained`..`Closed` are `stopFor`. The order of the code is the
order of the phases: `stopping` (wait for scanner, API, channels, orchestrator and
dispatches), `releasing` (hand over, or release), `closing` (the deferred
`service.Close`). A failed startup takes `aborting`, whose service is closed already.
`Crash` happens anywhere, in the middle of a release or an admission included.
Nothing bounds the time a process takes between two steps: a heartbeat may go stale
during startup, work and drain.

`Serve` applies a request under the term it carries, `Drop` discards one; `Admit` is
the same in the server process. Loops, providers and documents are not in this
module: `Works` is where they may be running.

### 3.3 `TaskWorkflow`

One document, its two phases and, per phase, the lease (the journal of a claim), the
dispatch goroutine (`flight`) and the worker's executions by attempt. The manager of
the current term scans: each pass of `scanWorkflows` and `scanOnce` is a value of
`scan.at`, in the code's order, and a pass that writes two durable things about a
claim is cut between them (`Journal`, `Rename`, `Record`, `Start`; `Reconcile`,
`Retire`).

* *What excludes what.* A scan runs inside one admission, so worker calls and lease
  updates of goroutines (`Owned`) wait for it. `workerAdmissionMu` excludes sending,
  acknowledging and interrupting each other (`Admission`). Agents are excluded by
  nothing: `AgentMoves` may happen between any two passes.
* *Dispatch*: `Prepare`, `Send`, `Bind`, `Deliver`, `Finish`, `Ack`, with `Fails` for
  a transient failure and `Detach` for a cancelled context or a dead worker.
  `Admitted` is the outcome of a send in the worker: a live turn, a refused
  reservation, or a refusal by the provider whose error is not yet durable.
* *Interrupt*: the intent is journaled, the worker is told, and the intent is taken
  back if there was nothing to interrupt.
* *Processes*: the manager stops, crashes and is replaced by a new generation; the
  worker dies with its completed executions replayed, or without them.
* *Agents*: `ImplementerMoves` and `ReviewerMoves` are the directories they may
  choose. They write directory and status together.

Reviewer threads, hook receipts, due dates and direct-completion evidence are
nondeterministic outcomes (`Settled`, `Hooked`, `SkipQueue`, `Wake`).

### 3.4 `WorkerJournal`

`disk[s]` is what the directory named by `worker.json` holds of sequence `s`: the
event journal, its admission record and its cursor, `draft` the copy that a successor
makes before it publishes itself, `host` the process and its memory. `op` is the
request in progress between two of its writes; `mail` are requests under way, which
outlive their callers' patience; `consumer[s]` is the page that `Consume` works on;
`receipts` is what was delivered downstream under which receipt (worker that admitted
the execution, sequence, cursor).

`ServeSend`, `Checkpoint`, `Reserve`, `Dispatch`, `Result` are `send`, write by
write; `Capture` is `captureLocked`; `Read`, `Deliver`, `SendCommit`, `SendAck` are
`Consume`; `ServeCommit` and `ServeAck` with `RemoveCursor`, `RemoveAdmission` are the
worker's side; `Start`, `Copy`, `Recover`, `Publish` are the startup of a successor.
`FailJournal` is `failJournalLocked`: the host stops serving and exits. `turn` in
`Files` and `Execution` is a name for what an admission is about, kept so that
properties can say "this very turn" across workers and reused sequences; nothing in
the code's behaviour reads it.

### 3.5 `Supervisor` and `FollowupQueue`

One session key. It is that of a conversation (ordinary messages) or of a job (one
message, then operator controls), chosen initially, as is the follow-up mode
(`queue` or `steer`) of the configured harness.

* *Who excludes whom.* `gate` is `controlOps[key]`: a send, a control, an interruption
  or the start of queued work holds it, and the value of `gate` is how far its holder
  has come. The wrapper around an emitter (`executionEmit`), `Reconfigure` and `Close`
  do not take it. Everything a holder does between two looks at `s.mu` or two calls to
  the adapter is one step.
* *Turns.* `turn` is the adapter's active turn; its end is two steps, because the
  adapter forgets it under its own lock (`TurnEnds`) and calls the emitter afterwards
  (`TerminalEvent`), with anything in between. `TerminalEvent` hands the key on to
  the queue, to a recorded control (`HoldForControl`, `Continuation`), or frees it.
* *Queue.* `pending` and `scheduled` are the queue and the goroutines that were started
  for its head; `QueuedAcquire`, `QueuedPrepare` and `QueuedSend` are `startQueued` and
  `startQueuedOwned`, with every way out of them; `Merged` and `Rest` are
  `mergeQueuedConversationPrompts`.
* *What senders know.* `status[m]` is what the sender of `m` was told, and `settled[m]`
  how many closing events its emitter received. A batch that cannot be started is given
  up message by message (`GiveUp`): those whose emitter hears of it are `dropped`, the
  others `lost`. A failed `finishQueuedControl` (`FinishQueued`) tells the owner of the
  batch, and only if the entry still has the end of the turn before it, which a merge at
  the gate takes away; a closed supervisor tells the owner alone (`QueuedClosed`); a
  failed dispatch releases all others first (`QueuedSend`). `refused` is kept for the
  error that `Send` itself returns.
* *Steering.* `SendSteer` replaces the emitter of the running turn before the provider
  has answered; `SteerReply` is the answer. A turn may end in between. Queued work that
  finds a turn running is steered into it too (`QueuedSend`), in one step.
* *Interruption*: `InterruptFence` raises the generation and cancels the queue;
  `InterruptSignal` and `InterruptReturn` are the call of the adapter.
* *Provider*: `Reconfigure` detaches an idle one, `Replace` starts the next, `Close`
  ends all, `Recover` is `recoverOwnership` after a close or a start that failed.

`crossed` records that a turn began beside another whose end was not yet delivered, or
which the supervisor does not account for, and `stolen` that an end went to a refused
follow-up: two races of the code (section 9) that the remaining properties are
stated beside. The third thing they have to except is what a batch loses: `NothingForgotten`
allows it for a message only when another of the same batch was given up with it
(`LostInBatch`), so that a message that waits alone is never dropped in silence. `FollowupQueue` knows only where a message stands (waiting, sent,
dropped) and which messages an interruption has fenced.

### 3.6 `ConversationRecovery` and `SourcePromise`

One conversation, from the moment a message is accepted. `ledger[s]` is what the fold
of the append-only history (`recoveryWindowLocked`) says of message `s`: its
admission, whether it is covered by an answer or a recovery's reservation, and the
intent of a stop. `linked` are messages named by a task or goal, which the scanner
leaves alone. `exec`, `turn`, `ended` and `op` are the worker: the execution it
retains for the conversation, the provider's turn, a terminal event that is held back
while a follow-up is being admitted, and the operation between two of its writes.
`mgr` is who holds `workerAdmissionMu`, `job` and `reader` are the manager's live job
and journal consumer, `scan` the recovery scan.

* *Admission*: `Accept`, `IntakeInspect`, `BeginJob`, `SendStarts` or
  `FollowupStarts`, `Reserve`, `Dispatch`, `Tell`, `Reply` follow a message from
  `Service.Handle` through `admitConversation` and the worker's `send` or `followup`.
  `GiveUp` is a caller whose reply was lost: the operation goes on. `Rejected` is a
  follow-up that the supervisor proves not to have taken: its admission is restored.
* *Answer*: `TurnEnds` is the terminal event (`captureSource`), `FollowupSettles` what
  a buffered one becomes; `Deliver` writes the coverage to history, `Retire`
  acknowledges the execution. `Reconcile` is what a new server does with jobs whose
  execution is gone.
* *Recovery*: `ScanRead`, `ScanCheck`, `ScanInspect` are the three looks of the
  scanner, at history, at the requests in flight and at the worker, each of which may
  be stale when the next one happens.
* *User*: `StopInspect`, `StopRecord`, `SendInterrupt`, `StopRestore` are
  `Manager.Interrupt`; `ClearReset`, `ClearDone` a reset.
* *Faults*: the worker is lost with or without its completed execution
  (`WorkerLost`), the server replaced (`ServerReplaced`), a reply or a write lost.

`SourcePromise` keeps, per message, whether it is known, was given to the provider, was
refused, was given once more, was stopped, is answered. That the provider *may* have
acted on a message is enough to be "taken".

A turn whose start nobody confirmed is `"unsure"`: it may end at any time or never.
The execution of such a turn is retained, which is why `EventuallyHandled` has that
premise.

### 3.7 MC modules

They only define values of constants (`MCEnv`, `OneEnv`, the directories agents
choose) and symmetry sets. `MCElection` gives the third contender another
environment.

## 4. The runs

| Run | What it shows |
|---|---|
| `election` | All operations by three contenders in two environments and a worker: terms stay ordered (`LeaseIsNewestTerm`), the lock protects what its holder relies on, an ownerless workspace is fenced, reservations and fresh terms are honoured, and the election implements `OwnershipTerm`. |
| `primary_term` | The servers' use of it: the lease is reserved only after the drain, no way out of a term leaves the process waiting for itself, a working owner loses only a stale lease, admissions follow the order of terms although requests outlive their sender, and every step is one that `Election` allows. A superseded primary stops; a lost ownership is taken up again. |
| `task_workflow` | Any one fault, hooks that fail and a shutdown at any point of a scan: one turn per phase, no claim without a journal, no reused attempt number. |
| `task_workflow_orderly` | Two faults and failing hooks, but no shutdown past the fence of a scan: no completion without the review it needs and no review while `harness.reviews` is `never` (`ReviewPolicy`), no claim retired under a retained execution, no cancelled claim started again. |
| `task_workflow_live` | Every move by an agent is reconciled. |
| `worker_journal` | Two jobs, three admissions, room for two, any two faults: the provider is called once per job and worker and replay always fits (`AdmissionsHold`), cursors never run ahead of receipts, receipts name events one to one across workers. |
| `worker_journal_live` | Two pages of events, any three faults: what was confirmed is durable, completed turns survive until delivered, and are delivered and acknowledged in the end. |
| `supervisor` | One key in both modes and both kinds of session: no message is forgotten between queue, batch and holder (one that is dropped without a word was in a batch of several that could not be started), none reaches the provider twice or out of order, only idle providers are swapped, the supervisor implements `FollowupQueue` (after an interruption nothing accepted before it is sent), and keys are freed. Streams end, except those of a closed supervisor, those whose end a refused follow-up took, and those a refused batch lost: `Answered` names the three. |
| `conversation_recovery` | Two messages through admission, follow-up, rejection, answer, stop, reset and recovery, under any two faults: what the worker is about to write always fits history, the conversation implements `SourcePromise`, and every accepted message is answered, reserved, stopped or made a task. |
| `stop_in_scan`, `crash_copy`, `supervisor_swap` | Violations, see section 9. |

Every property of a passing run has a mutant in `PROJECT.json`: a definition in the
module that changes one operation the way a plausible bug would, and under which the
run fails. The mutants stand beside the operations they are mutants of and are used
by nothing else.

## 5. Bounds

* `election`: three processes (an owner, a target, a third contender), one worker,
  `MaxTerm = 3` (owner, successor, and the old owner again). One tick is 10 s, so
  `StaleAfter = 3`, `HandoffTimeout = 1` and `CleanupGrace = 6` keep the code's
  ratios of 30 s, 10 s and 60 s. Ages saturate, so the clock needs no bound.
* `primary_term`: two processes, since the phases multiply; `StaleAfter = 2` still
  lets a handoff expire before the lease is stale. One request in flight is
  enough to survive its sender and meet the successor's term; only `p2` has
  `--socket`. Two terms, a predecessor's and a successor's, are what each property
  speaks of; section 7 proves the safety properties for any number.
* `TaskWorkflow`: one document, since leases, claims and transitions are per document
  and capacity, the one thing documents share, is not modelled. `MaxAttempt` bounds
  claims of a phase: two are needed for a second turn to exist beside the first.
  `MaxFault` counts crashes, stops, worker deaths, lost replies and failed writes
  together; one fault at every possible point reaches all recoveries, two reach a
  recovery interrupted by another fault.
* `WorkerJournal`: `MaxExecutions = 2` is below `MaxTurn = 3`, so that capacity
  refuses an admission while three admissions fit the run; `MaxMail = 2` lets an old
  request overtake or follow a newer one; `MaxEvents = 2` with one event per page
  gives a turn two pages in the liveness run, and `MaxEvents = 1` makes the journal's
  own limit reachable in the safety run. `MaxFault` counts kills, retirements, failed
  writes, lost or repeated requests, given up pages and replaced controllers.
* `Supervisor`: three messages are the fewest of which two can be batched behind a
  running turn; `MaxPending = 1` makes the queue of controls full with two of them. One
  interruption, three turns and two providers give every race a before and an after.
* `ConversationRecovery`: two messages are what a follow-up, a batch and a partial
  recovery need; an identity for each execution is a fresh number, and one that
  nothing refers to any more is used again. `MaxFault = 2` lets a recovery be hit by a
  second fault, `MaxStop = 2` lets a stop be followed by a reset, or by another stop.
* `CHECK_DEADLOCK FALSE` is set where the system may really stop: all server processes
  have exited or the terms are used up; all jobs are settled, all messages handled, and the faults are used up.

## 6. Fairness

* `PrimaryTerm`: the clock advances and a fenced action ends (weak fairness). Polling,
  startup, renewal and stopping need `primary.lock`, which others may take and
  release over and over; the loops are timers that retry, and the kernel grants the
  lock to one who waits, which is strong fairness. Nothing is fair about crashes,
  shutdowns, handoffs and requests.
* `TaskWorkflow`: the scan timer and the dispatch goroutines are strongly fair, since
  they wait for mutexes and for the fence while others take them. A turn ends or is
  ended by its provider's timeout (weak). A worker that has died ends the term, a
  stopping manager goes down once its goroutines have returned, and a server is
  started again (weak).
* `WorkerJournal`: weak fairness of startup, exit, the steps of a request, serving and
  consuming. Loss and repetition of requests are faults, bounded by `MaxFault`, so
  that retries succeed in the end. Agents need not move documents, and turns need not
  end, for the properties stated.
* `Supervisor`: weak fairness of the holder of the gate, of the goroutines of queued
  work, of terminal events, of the replacement of a detached provider, and of turns:
  that a provider ends its turns, or dies, is an assumption about the provider, whose
  only remedy otherwise is an interruption. Nothing is fair about messages, controls, interruptions,
  reconfiguration and close.
* `ConversationRecovery`: weak fairness of the manager's, worker's and scanner's steps,
  of a turn that the provider is known to have taken, and of the next server after a
  worker was lost. Nothing is fair about the user, the faults, the arrival of messages,
  or a turn that nobody confirmed.

## 7. What is proved

TLAPS checks the following for every value of the constants that the assumption named
in each module allows: disjoint sets of processes and workers and positive timeouts for
the election, finite sets of messages for a conversation, positive numbers for the
messages of a key (1 among them; a number is the order of acceptance), natural numbers
for bounds on turns, faults and terms. The sets of processes may be infinite, and no proof uses the
values that the runs give to bounds. A theorem with a hypothesis of its own says so.

**`ElectionProofs`.** The invariants are proved together as `IInv`, which is
inductive: type correctness, `LeaseIsNewestTerm`, `LockProtects`,
`OwnerlessIsFenced`, and two facts they need. `UnlockedIsBlank` says that a section of kind
"none" is the record `Unlocked`, so that a guard `section = Unlocked` is a comparison
of kinds. `PublishedHasOwner` gives a published record an owner, without which
`lease.term \in tokens[lease.owner]` says nothing. `LockProtects` is what makes the split
operations safe: between `ReleaseFence` and `ReleaseRemove` no step can replace the
record, because everything that could requires `section = Unlocked`. The action
properties follow from `TermChange`: only an acquisition and the second half of a
release change the term on record. `ElectionImplementsOwnershipTerm` maps every
step to a step of `OwnershipTerm` or to a stutter.

**`PrimaryTermProofs`.** `TokensHeld` (a term in progress, and a request under way, carry
a token that their process was given) makes every step of the servers a step of
`Election` (`ServerStepRefines`); with it, `IInv` carries over, and
`ServerImplementsElection` is the refinement. `AdmissionsInOrder` adds that
`admitted < nextTerm` and that an admission runs under the newest term.
The remaining theorems rest on `LeaseInv`, three conjuncts that are inductive only
together: the lease is reserved only after the drain (`ReservedMeansDrained`), a process in a
term that owns the lease owns it under that term (`OwnTerm`), and a process that is
about to poll again owns no unreserved lease (`LeavingOwnsNothing`). The second is what
lets `NothingToRelease` conclude, from "this exact term is not on record", that no
lease of the process is. `LeaseSteps` and `ServerSteps` state once what a step can do to
the lease and to a process; the invariants are then proved from these two.

**`WorkerJournalProofs`.** The five invariants are consequences of one, `IInv`, with
these parts: what the host remembers is what the files it has read say (`HostFits`,
`Backed`; `Held(s)` is the copy while a successor starts and the directory afterwards);
files are complete up to the write in progress (`FilesFit`); what has no terminal event
fits the successor's capacity together with what is still to come (`RoomFits`); the
request between two writes belongs to the record it works on (`OpFits`); a request under
way, a page being consumed and a receipt were made for something that still is what it
was (`MailFits`, `PagesFit`, `NamesFit`); each dispatch is accounted for
(`DispatchedFits`). None of them is inductive alone: `DeliveredBeforeCommitted` needs
that a commit under way names a page that was delivered, that needs
`NamesFit` to know that the sequence was not reused, and that needs `AdmissionsHold` to
know that no second send of the job is admitted. `TurnsSurvive` is the action property
over the same invariant, one step at a time (`StepSurvives`).

**`ConversationRecoveryProofs`.** `IInv` puts beside the types what each record of a
message says of the others: `WorkerFits` and `ManagerFits` for the two processes,
`LedgerFits` for history, `StopsFit` for stops, `DispatchFits` and `ExecFits` for the
operation and the execution of the worker. The identity of an execution counts up to
`Cardinality(Source) + 3`, which is enough for every one that something refers to, so
types need facts on finite sets (`BatchSize`). `RecordsAlwaysFit` follows.
`PromiseIsKept` maps every step to a step of `SourcePromise` or to a stutter: most leave
alone what the promise speaks of (`SameWords`); `Reserve`, `Rejected`, `Deliver`, an
interruption, the arrival of a message and the intent of a stop do not, and use
`DispatchFits`, `ExecFits` and `LedgerFits` to show that the message was not stopped,
answered or given twice before.

**`SupervisorProofs`.** `IInv` has five parts. `Types` adds to `TypeOK` what the holder
of the gate carries. `Books` says where a message or a control is: it waits in one
place at most, the queue (`QueueFits`), a scheduled entry (`ScheduledFits`) or the hands of
the holder (`Apart`, `GateFits`), with the generation under which it was accepted, and
what was handed over or given up is in none of them (`FateFits`). `ChatFits` and `JobFits`
tell the two kinds of keys apart: a conversation queues messages, a job queues controls,
and `seen` remembers each of them while the job can take another, without which a
repeated control would be handed over twice. `SwapFits` makes a running turn the only
user of an active key. `SupervisorTypeOK` and `SupervisorSwapsIdle` are immediate, as is
the first half of `SupervisorOnceInOrder`. The others need one more layer each:

* `SupervisorNothingForgotten` goes step by step over what waits (`Kept`). It needs
  `StartFits`: the error of a start that failed is told by the goroutine that holds the
  gate, once, so nobody else can take the queue between the error and the release. For
  what is lost it needs `BatchFits`: a scheduled batch has its owner and the end of the
  turn before it, and one at the gate has both or at least two messages; and
  `StatusStays`: what a sender was told is never revised. Then a batch that loses a
  message gives up another with it (`LosingStep`), and both stay so (`LostStep`).
* `SupervisorKeepsPromise`: `EveryFate` maps each step to one of the steps of
  `FollowupQueue` or to a stutter (`FateSteps`). That an interrupted message is never
  sent rests on the generations in `Books`; that a dropped one never comes back on
  `FateFits`.
* The order of messages in `SupervisorOnceInOrder` needs `ChatOrder`, for a
  conversation in which no turn overtook the end of another: a turn, the delivery of its
  end and the start of the next one do not overlap (`OneTurn`), an active key and its
  queue are looked after by someone who will take all of it (`Tended`), and what was
  handed over, scheduled and queued is in the order of acceptance (`QueueOrder`,
  `OrderFits`).

**`TaskWorkflowProofs`.** Three layers, each with its assumption.

* `ClaimInv` needs none: types, the number of a claim, what a scan, a claim and a
  dispatch between two writes have to do with the lease (`ScanFits`, `ClaimFits`,
  `FlightFits`, `RetireFits`) and that the worker retains at most one execution of a
  phase (`OneRetained`). `OneTurnPerPhase` and `ClaimsAreJournaled` follow for every
  schedule, every shutdown and whatever agents do.
* `OrderlyInv` assumes `StopInScan = FALSE`: an execution that the worker retains, and
  a dispatch that has not ended, have their lease (`LeasesFit`), so reconciliation and
  the search for orphans are right about what they find. It gives
  `RetirementWaitsForDelivery` and `AttemptsAreFresh`. The hypothesis is needed for the
  first: `stop_in_scan` refutes it without. For the second the run `task_workflow`
  finds no violation with such shutdowns, but the proof has no invariant for them.
* `PolicyInv` assumes in addition `WellBehaved`, that no agent moves its document into
  the claimed directory of the other phase: an interrupted claim keeps the journal of
  its interruption until it is retired (`CancelsFit`, `ControlFits`), and a review that
  is needed stays recorded (`ReviewFits`, `DisabledFit`). It gives `CancelledStaysDown`
  and `ReviewPolicy`. The first layer's theorems do not depend on it.

Each step of a module has a lemma that says what it changes, with types (`...Effect`,
`...Step`); the preservation of an invariant has one lemma per group of steps, and the
theorem puts them together.

## 8. What is only model-checked

Liveness (`SupersededStops`, `OwnershipReturns`, `MoveSettles`,
`CompletedTurnsSettle`, `Answered`, `KeyFreed`, `EventuallyHandled`) is out of the
prover's reach: it has no rules for ENABLED. Every invariant, action property and
refinement that a passing run checks is stated by a theorem; only `AttemptsAreFresh` is
checked for more schedules (a shutdown within a scan) than it is proved for. With such a
shutdown `RetirementWaitsForDelivery` and `CancelledStaysDown` are false (section 9), and
`ReviewPolicy` is neither proved nor checked.

## 9. Disagreements between the code and what it says

Each is a run that TLC ends with a counterexample; `PROJECT.json` quotes the lines.

* `stop_in_scan`: `docs/architecture.md` says that retirement waits for retained
  delivery. Reconciliation trusts the in-memory `inflight` map, which a cancelled
  context clears without an acknowledgement. A shutdown between a scan's fence and its
  reconciliation retires a claim whose execution the worker retains, and every later
  scan refuses to go on. `task_workflow_orderly` shows that this window is the only
  way: `RetirementWaits` proves the property for all schedules without such a shutdown.
  The same window lets an interrupted turn start again: the claim that holds the record
  of the interruption is retired as an orphan, the worker dies with its executions, and
  the document is claimed anew. That takes a second fault and 49 steps, so
  `CancelledStaysDown` is stated in `task_workflow_orderly` and proved
  (`InterruptedStaysDown`) without such shutdowns.
* `crash_copy`: a comment says that a crash always leaves a complete copy. A kill
  between the journal file and its admission record, or between the removals of an
  acknowledgement, leaves a directory that no successor accepts, so that the other
  executions in it are unreachable too. `worker_journal_live` therefore promises
  delivery only of directories that are intact.
* `supervisor_swap`: a comment says that only an idle harness is swapped. A follow-up
  that was to be steered and finds the turn over starts a turn of its own, for which
  the key is no longer marked active, and `Reconfigure` closes its provider.
  `SupervisorSwapsIdle` proves that it takes such a turn, or one that began beside an
  undelivered end (`crossed`).

Further observations made while modelling, without a run of their own:

* *Task workflow.* `docs/architecture.md:61` says that the successor phase waits for the
  predecessor's lease. The queue pass does; `recoverOrphanClaims` (`manager.go:1346`)
  looks for a lease of the claimed path alone, so an agent that moves its document
  straight to `reviewing` in the middle of a scan is reviewed while it works.
* *Worker.* `worker.go:925` says that the result of a turn is synced with its terminal
  event. For a turn the provider refuses, the event has no error and only the later
  checkpoint does (`worker.go:798`); a replay believes the event, so the controller
  sees the refused turn without an error. `ConfirmedIsDurable` says that the converse, an
  error out of nothing, does not happen.
* *Supervisor.* A control is recorded before it is delivered (`supervisor.go:589`): if
  its turn ends first, the control is refused and its continuation is started all the
  same, against the comment on `NativeSteerer`. A refused control may be repeated, and
  be continued each time. A follow-up steered into a turn takes the place of the
  previous emitter before the provider answers (`codex.go:455`): if the turn ends
  first and the follow-up is refused, the end goes to the follow-up and the previous
  message is never told (`stolen`). An interruption racing the hand-over to a control
  and `Close` leave waiting streams open.
* *Batches that cannot be started.* `finishQueuedControl` (`supervisor.go:844-848`) tells
  `next.emit` and never `next.release`, and only when `next.terminal` is set; a batch
  that is merged once more at the gate (`supervisor.go:864-877`) has the terminal of its
  newest entry, which is nil. So when the turn of a batch is not reserved
  (`supervisor.go:925-927`), the senders of all but its newest message hear nothing, and
  of a merged batch nobody does, although the messages are gone; a supervisor that
  closed meanwhile (`supervisor.go:921-923`) tells the newest only. No comment or test of
  the repository says otherwise, so there is no run that refutes a claim; the state is
  `lost` in the model, and `NothingForgotten` says how far it goes.
* *Conversations.* A message the worker refuses, or fails to admit, is told as failed
  without being covered, so a later scan may answer it after all. One that arrives
  between the end of a turn and the retirement of its execution waits for the
  periodic scan. A stop whose request to the worker failed keeps its intent, so its
  messages are never recovered. A follow-up that was not confirmed in five seconds is
  covered by the answer of its turn although nobody knows whether it was part of it. A
  recovery whose worker is lost is not tried again, by design.

## 10. What is not modelled

* *Outside the models by nature*: provider programs and their protocols, Telegram and
  WhatsApp, rendering, themes, speech, downloads. Their effects on modelled parts
  are nondeterministic choices (a turn emits any events and ends with or without an
  error; a document is moved anywhere an agent may move it).
* *Not yet*: what section 2 lists as left, and the components that `PROJECT.json` gives
  as not modelled: process ownership, notifications, channels, local API, updater,
  extensions, configuration.
* *In `Supervisor`*: more than one key (they share only the provider), model catalogue,
  session reset, the lapse of control identifiers after a minute. When queued work is
  steered into a running turn, the wait for the answer is left out, so the end of that
  turn cannot fall into it (for a follow-up that is sent, it can: `SendSteer` and
  `SteerReply`).
* *In `TaskWorkflow`*: `harness.reviews` is chosen once for a run, restarts included,
  although it may be changed at any time. `ReviewPolicy` therefore speaks of documents
  that are queued for review while the setting is `never`, not of a review that was
  under way when it was set.
* *In `ConversationRecovery`*: a server without a worker, one-shot and ownerless
  requests, follow-up-only requests, disabled transports, groups, commands, batch
  limits, the activation window of the scanner, the journal's pages and cursors
  (`WorkerJournal`), branches and retention of history.
* *C code*: the program is written in Go. The C files are the vendored audio library
  `miniaudio.h`, a thin sequential decoder over it and a filter for one warning of a
  native library; none of them takes part in what is modelled, so a measure that
  counts lines of C alone sees no coverage.
* *Abstracted on purpose*: tokens and digests are identities; an atomic file
  replacement (`fsx.WriteFileAtomic`) is one step; JSON and Markdown encodings, job
  numbering, logging and notifications are left out; in `WorkerJournal` sequences are
  bounded by the number of admissions in a run.
* *Clock*: a wall clock that jumps back between machines sharing a directory would
  delay expiry; the models have one monotonic clock.
