------------------------ MODULE WorkerJournalProofs ------------------------
(***************************************************************************)
(* The worker's books, for any jobs and any bounds: the types, one         *)
(* dispatch per job and worker, room for a successor's replay, delivery    *)
(* before commitment, one receipt per event, that what a controller was    *)
(* told is durable, and that completed turns stay until they are           *)
(* delivered.                                                              *)
(***************************************************************************)
EXTENDS WorkerJournal, FiniteSetTheorems, WellFoundedInduction, TLAPS

-----------------------------------------------------------------------------
(* The inductive invariant. *)

\* The worker has read its predecessor's files.
Alive == host.state \in {"recovered", "up"}

\* The files that the worker's memory stands for.
Held(s) == IF host.state = "recovered" THEN draft[s] ELSE disk[s]

Delivered(t, k) == \E d \in receipts : d.turn = t /\ d.cursor = k

Early == {"checkpoint", "reserve", "dispatch"}

\* What recoverPrevious writes for a file that it copied.
Completed(f) ==
  IF Present(f) /\ Complete(f)
  THEN [f EXCEPT !.done = TRUE, !.error = ReplayError(f), !.saved = f.cursor]
  ELSE f

\* Memory starts empty, and requests and consumers need a process.
HostFits ==
  /\ host.state \in {"down", "copying"} => host.exec = NoExecutions
  /\ host.state = "recovered" =>
       draft = [s \in Sequence |-> Completed(disk[s])]
  /\ host.state \notin {"up", "failed"} => mail = {} /\ consumer = NoPages
  /\ \A s \in Sequence : host.exec[s].running => Retained(s)

FilesFit ==
  \A s \in Sequence : /\ Present(disk[s]) => disk[s].turn # 0
                      /\ disk[s].admission => disk[s].job \in Job

\* The execution e is what its files f say.
Stands(e, f) ==
  /\ f.turn = e.turn /\ e.job \in Job
  /\ e.running => ~e.done
  /\ ~f.journal => e.done
  /\ f.journal =>
       /\ f.events = e.last /\ f.cursor = e.committed
       /\ f.terminal => e.done
       /\ e.done => Complete(f) /\ (ReplayError(f) => e.error)

Backed ==
  Alive => \A s \in Sequence : Retained(s) => Stands(host.exec[s], Held(s))

\* Executions that a predecessor left and that nobody can finish.
Unfinished == {s \in Sequence : Present(Held(s)) /\ ~Retained(s)}

RoomFits ==
  Alive => /\ host.incomplete = Cardinality(Unfinished)
           /\ \A s \in Sequence : Present(Held(s)) => s < host.next

\* The request that is being applied is about a retained execution, which nobody
\* else writes to before the provider is called and after it is done.
OpFits ==
  op.at # "none" =>
    /\ host.state = "up" /\ op.s \in Sequence /\ Retained(op.s)
    /\ op.at \in Early =>
         /\ ~host.exec[op.s].done /\ ~host.exec[op.s].running
         /\ host.exec[op.s].job \notin settled
         /\ \A s \in Sequence :
              Retained(s) /\ host.exec[s].job = host.exec[op.s].job => s = op.s
    /\ op.at \in Early \cup {"result"} => ~disk[op.s].done
    /\ op.at = "result" /\ op.outcome = "rejected" =>
         ~host.exec[op.s].done /\ ~host.exec[op.s].running
    /\ op.at \in {"cursor", "admission"} =>
         ~disk[op.s].journal /\ host.exec[op.s].done

\* A send that may still be admitted is for a job that is neither retained nor
\* settled; a commit is for events that have been delivered.
Due(r) ==
  /\ r.kind = "send" =>
       /\ r.s <= host.next /\ r.job \in Job
       /\ r.s = host.next =>
            /\ r.job \notin settled
            /\ \A s \in Sequence : Retained(s) => host.exec[s].job # r.job
  /\ r.kind # "send" => r.s < host.next
  /\ r.kind = "commit" /\ Retained(r.s) =>
       \A k \in (r.expected + 1)..r.after : Delivered(host.exec[r.s].turn, k)

MailFits == host.state = "up" => \A r \in mail : Due(r)

\* What a consumer has passed of its page has been delivered.
PageFits(s) ==
  /\ consumer[s].turn # 0 /\ consumer[s].after <= consumer[s].upto
  /\ \A k \in (consumer[s].committed + 1)..consumer[s].after :
       Delivered(consumer[s].turn, k)
  /\ host.state = "up" =>
       /\ s < host.next
       /\ Retained(s) => consumer[s].turn = host.exec[s].turn

PagesFit == \A s \in Sequence : Reading(s) => PageFits(s)

\* Turn t goes by the name of worker b and sequence s, somewhere.
Named(t, b, s) ==
  \/ \E d \in receipts : d.turn = t /\ d.by = b /\ d.s = s
  \/ Retained(s) /\ host.exec[s].turn = t /\ host.exec[s].by = b
  \/ Reading(s) /\ consumer[s].turn = t /\ consumer[s].by = b
  \/ disk[s].admission /\ disk[s].turn = t /\ disk[s].by = b

OldName(t, b, s) ==
  /\ t <= turns /\ b <= host.id
  /\ host.state = "up" /\ b = host.id => s < host.next

NamesFit ==
  /\ \A t, u \in 0..MaxTurn, b, c \in Nat, r, s \in Sequence :
       Named(t, b, r) /\ Named(u, c, s) => (t = u <=> b = c /\ r = s)
  /\ \A t \in 0..MaxTurn, b \in Nat, s \in Sequence :
       Named(t, b, s) => OldName(t, b, s)

\* What this worker has dispatched is settled or retained.
Accounted(d) ==
  /\ d.worker <= host.id
  /\ host.state = "up" /\ d.worker = host.id =>
       \/ d.job \in settled
       \/ \E s \in Sequence : /\ Retained(s) /\ host.exec[s].job = d.job
                              /\ host.exec[s].turn = d.turn

DispatchedFits == \A d \in dispatched : Accounted(d)

IInv ==
  /\ TypeOK /\ HostFits /\ FilesFit /\ Backed /\ RoomFits /\ OpFits /\ MailFits
  /\ PagesFit /\ NamesFit /\ DispatchedFits /\ DispatchedOnce /\ ReplayFits
  /\ DeliveredBeforeCommitted

-----------------------------------------------------------------------------
(* Types. *)

\* The types of the fields that the proofs below read.
LEMMA TypeParts ==
  ASSUME TypeOK
  PROVE  /\ host \in Host
         /\ host.exec \in [Sequence -> Execution]
         /\ disk \in [Sequence -> Files] /\ draft \in [Sequence -> Files]
         /\ consumer \in [Sequence -> Page]
         /\ host.id \in Nat /\ host.next \in Nat \ {0} /\ host.incomplete \in Nat
         /\ turns \in Nat /\ turns <= MaxTurn
         /\ MaxTurn \in Nat /\ MaxEvents \in Nat \ {0} /\ MaxFault \in Nat
         /\ MaxExecutions \in Nat \ {0} /\ PageEvents \in Nat \ {0}
         /\ op \in Op /\ mail \subseteq Request /\ settled \subseteq Job
         /\ faults \in 0..MaxFault
BY WorkerJournalAssumption DEF TypeOK, Host, Execution

\* ... of an execution,
LEMMA ExecutionParts ==
  ASSUME NEW e \in Execution
  PROVE  /\ e.turn \in 0..MaxTurn /\ e.job \in Job \cup {NoJob} /\ e.by \in Nat
         /\ e.last \in Cursor /\ e.committed \in Cursor
         /\ e.done \in BOOLEAN /\ e.error \in BOOLEAN /\ e.running \in BOOLEAN
BY DEF Execution

\* ... and of the files of a sequence.
LEMMA FilesParts ==
  ASSUME NEW f \in Files
  PROVE  /\ f.turn \in 0..MaxTurn /\ f.job \in Job \cup {NoJob} /\ f.by \in Nat
         /\ f.events \in Cursor /\ f.saved \in Cursor /\ f.cursor \in Cursor
         /\ f.journal \in BOOLEAN /\ f.terminal \in BOOLEAN
         /\ f.terminalError \in BOOLEAN /\ f.torn \in BOOLEAN
         /\ f.admission \in BOOLEAN /\ f.done \in BOOLEAN /\ f.error \in BOOLEAN
BY DEF Files

\* The empty records have their types.
LEMMA EmptyTypes ==
  /\ NoFiles \in Files /\ Empty \in [Sequence -> Files]
  /\ NoExecution \in Execution /\ NoExecutions \in [Sequence -> Execution]
  /\ NoPage \in Page /\ NoPages \in [Sequence -> Page]
  /\ NoOp \in Op /\ NoOp.at = "none"
BY WorkerJournalAssumption
   DEF NoFiles, Files, Empty, NoExecution, Execution, NoExecutions, NoPage, Page,
       NoPages, NoOp, Op, Cursor

\* What a journal or a number shows of the files.
LEMMA PresentFacts ==
  /\ \A f : f.turn # 0 => Present(f)
  /\ \A f : f.journal => Present(f)
  /\ ~Present(NoFiles)
BY DEF Present, NoFiles

\* A set of naturals has a least element.
LEMMA Least ==
  ASSUME NEW S \in SUBSET Nat, S # {}
  PROVE  \E n \in S : \A m \in S : n <= m
<1> DEFINE R == OpToRel(<, Nat)
<1>1. IsWellFoundedOn(R, Nat)
  BY NatLessThanWellFounded
<1>2. \A m \in S, n \in S : <<m, n>> \in R <=> m < n
  BY DEF OpToRel
<1> HIDE DEF R
<1>3. \E n \in S : \A m \in S : ~ (<<m, n>> \in R)
  BY <1>1, WFMin
<1>4. PICK n \in S : \A m \in S : ~ (<<m, n>> \in R)
  BY <1>3
<1>5. \A m \in S : ~ (m < n)
  BY <1>2, <1>4
<1> QED
  BY <1>5

-----------------------------------------------------------------------------
(* What a kind of step keeps. *)

\* A step that writes to one retained execution, in memory and on disk.
Touch(s) ==
  /\ s \in Sequence /\ host.state = "up" /\ Retained(s)
  /\ host' \in Host /\ host'.state \in {"up", "failed"}
  /\ host'.id = host.id /\ host'.next = host.next
  /\ host'.incomplete = host.incomplete
  /\ host'.exec[s].turn = host.exec[s].turn
  /\ host'.exec[s].job = host.exec[s].job
  /\ host'.exec[s].by = host.exec[s].by
  /\ disk' \in [Sequence -> Files] /\ disk'[s].turn = disk[s].turn
  /\ disk'[s].admission =>
       \/ /\ disk[s].admission
          /\ disk'[s].job = disk[s].job /\ disk'[s].by = disk[s].by
       \/ disk'[s].job = host.exec[s].job /\ disk'[s].by = host.exec[s].by
  /\ \A t \in Sequence \ {s} :
       host'.exec[t] = host.exec[t] /\ disk'[t] = disk[t]
  /\ mail' \subseteq mail
  /\ dispatched' \subseteq
       dispatched \cup {[worker |-> host.id, job |-> host.exec[s].job,
                         turn |-> host.exec[s].turn]}
  /\ UNCHANGED <<draft, consumer, turns, settled, receipts>>

\* The parts of the invariant that such a step keeps whatever it writes.
Apart ==
  /\ HostFits /\ FilesFit /\ RoomFits /\ MailFits /\ PagesFit /\ NamesFit
  /\ DispatchedFits /\ ReplayFits


\* What is retained is on disk, under a sequence that has been given out.
LEMMA RetainedIsPresent ==
  ASSUME IInv, host.state = "up", NEW s \in Sequence, Retained(s)
  PROVE  Present(disk[s]) /\ s < host.next /\ Stands(host.exec[s], disk[s])
BY PresentFacts DEF IInv, Backed, RoomFits, Alive, Held, Stands, Retained

\* A set of sequences is finite.
LEMMA FiniteSequences ==
  ASSUME TypeOK, NEW S \in SUBSET Sequence
  PROVE  IsFiniteSet(S) /\ Cardinality(S) \in Nat
<1>1. IsFiniteSet(Sequence)
  BY TypeParts, FS_Interval DEF Sequence
<1> QED
  BY <1>1, FS_Subset, FS_CardinalityType

\* A step under which no sequence becomes present leaves room for the replay.
LEMMA RoomForReplay ==
  ASSUME TypeOK, ReplayFits,
         \A s \in Sequence : Present(disk'[s]) => Present(disk[s])
  PROVE  ReplayFits'
<1> DEFINE S == {s \in Sequence : Present(disk[s])}
           T == {s \in Sequence : Present(disk'[s])}
<1>1. T \in SUBSET S /\ IsFiniteSet(S)
  BY FiniteSequences
<1>2. Cardinality(T) <= Cardinality(S)
  BY <1>1, FS_Subset
<1>3. Cardinality(T) \in Nat /\ Cardinality(S) \in Nat
  BY <1>1, FiniteSequences
<1> QED
  BY <1>2, <1>3, TypeParts DEF ReplayFits

\* A step that names nothing anew keeps the names apart.
LEMMA NamesStay ==
  ASSUME NamesFit, host.id \in Nat, host'.id \in Nat,
         turns' = turns, host'.id >= host.id,
         host'.state = "up" =>
           \/ host.state = "up" /\ host'.id = host.id /\ host'.next = host.next
           \/ host'.id > host.id,
         \A t \in 0..MaxTurn, b \in Nat, s \in Sequence :
           Named(t, b, s)' => Named(t, b, s)
  PROVE  NamesFit'
<1>1. \A t \in 0..MaxTurn, b \in Nat, s \in Sequence :
        OldName(t, b, s) => OldName(t, b, s)'
  BY DEF OldName
<1>2. \A t, u \in 0..MaxTurn, b, c \in Nat, r, s \in Sequence :
        Named(t, b, r)' /\ Named(u, c, s)' => (t = u <=> b = c /\ r = s)
  BY DEF NamesFit
<1>3. \A t \in 0..MaxTurn, b \in Nat, s \in Sequence :
        Named(t, b, s)' => OldName(t, b, s)'
  BY <1>1 DEF NamesFit
<1> QED
  BY <1>2, <1>3 DEF NamesFit

\* Such a step keeps what is retained.
LEMMA TouchKeepsRetained ==
  ASSUME IInv, NEW s \in Sequence, Touch(s)
  PROVE  /\ \A t \in Sequence : Retained(t)' <=> Retained(t)
         /\ \A t \in Sequence :
              /\ host'.exec[t].turn = host.exec[t].turn
              /\ host'.exec[t].job = host.exec[t].job
              /\ host'.exec[t].by = host.exec[t].by
              /\ disk'[t].turn = disk[t].turn
BY DEF Touch, Retained

\* ... and everything that the invariant says of the rest.
LEMMA TouchKeepsApart ==
  ASSUME IInv, NEW s \in Sequence, Touch(s)
  PROVE  Apart'
<1>1. TypeOK /\ Present(disk[s]) /\ Stands(host.exec[s], disk[s])
  BY RetainedIsPresent DEF Touch, IInv
<1>2. disk[s].turn # 0 /\ host.exec[s].job \in Job
  BY <1>1 DEF Stands, Touch, Retained
<1>3. \A t \in Sequence : Present(disk'[t]) <=> Present(disk[t])
  BY <1>1, <1>2, PresentFacts DEF Touch
<1>4. HostFits'
  BY TouchKeepsRetained DEF Touch, HostFits, IInv
<1>5. FilesFit'
  BY <1>2 DEF Touch, FilesFit, IInv
<1>6. RoomFits'
  <2> SUFFICES ASSUME Alive' PROVE RoomFits'
    BY DEF RoomFits
  <2>1. /\ host'.state = "up" /\ host.state = "up"
        /\ host'.next = host.next /\ host'.incomplete = host.incomplete
    BY DEF Alive, Touch
  <2>2. \A t \in Sequence : Present(Held(t)') <=> Present(Held(t))
    BY <2>1, <1>3 DEF Held
  <2>3. Unfinished' = Unfinished
    BY <2>2, TouchKeepsRetained DEF Unfinished
  <2> QED
    BY <2>1, <2>2, <2>3 DEF RoomFits, IInv, Alive
<1>7. MailFits'
  <2> SUFFICES ASSUME host'.state = "up", NEW r \in mail'
               PROVE  Due(r)'
    BY DEF MailFits
  <2>1. r \in mail /\ r \in Request /\ Due(r)
    BY <1>1, TypeParts DEF Touch, IInv, MailFits
  <2>2. r.s \in Sequence
    BY <2>1 DEF Request
  <2> QED
    BY <2>1, <2>2, TouchKeepsRetained DEF Touch, Due, Delivered
<1>8. PagesFit'
  BY TouchKeepsRetained DEF Touch, PagesFit, PageFits, Reading, Delivered, IInv
<1>9. NamesFit'
  <2>1. \A t \in 0..MaxTurn, b \in Nat, r \in Sequence :
          Named(t, b, r)' => Named(t, b, r)
    <3> SUFFICES ASSUME NEW t \in 0..MaxTurn, NEW b \in Nat, NEW r \in Sequence,
                        Named(t, b, r)'
                 PROVE  Named(t, b, r)
      OBVIOUS
    <3>1. CASE r # s
      BY <3>1 DEF Touch, Named, Retained, Reading
    <3>2. CASE r = s
      BY <3>2, <1>1 DEF Touch, Named, Retained, Reading, Stands
    <3> QED
      BY <3>1, <3>2
  <2> QED
    BY <2>1, <1>1, TypeParts, NamesStay DEF Touch, IInv
<1>10. DispatchedFits'
  <2> SUFFICES ASSUME NEW d \in dispatched' PROVE Accounted(d)'
    BY DEF DispatchedFits
  <2>1. CASE d \in dispatched
    <3>1. Accounted(d)
      BY <2>1 DEF DispatchedFits, IInv
    <3> QED
      BY <3>1, TouchKeepsRetained DEF Accounted, Touch
  <2>2. CASE d \notin dispatched
    <3>1. d = [worker |-> host.id, job |-> host.exec[s].job,
               turn |-> host.exec[s].turn]
      BY <2>2 DEF Touch
    <3>2. d.worker = host.id /\ d.job = host.exec[s].job
          /\ d.turn = host.exec[s].turn
      BY <3>1
    <3> QED
      BY <3>2, <1>1, TypeParts, TouchKeepsRetained DEF Accounted, Touch
  <2> QED
    BY <2>1, <2>2
<1>11. ReplayFits'
  BY <1>1, <1>3, RoomForReplay DEF IInv
<1> QED
  BY <1>4, <1>5, <1>6, <1>7, <1>8, <1>9, <1>10, <1>11 DEF Apart

\* What is left to show of such a step.
LEMMA TouchStep ==
  ASSUME IInv, NEW s \in Sequence, Touch(s),
         op' \in Op, faults' \in 0..MaxFault,
         host'.state = "up" => Stands(host'.exec[s], disk'[s]),
         OpFits', DispatchedOnce',
         disk'[s].journal =>
           /\ disk[s].journal
           /\ \A k \in 1..disk'[s].cursor :
                k <= disk[s].cursor \/ Delivered(disk[s].turn, k)
  PROVE  IInv'
<1>1. TypeOK /\ Stands(host.exec[s], disk[s]) /\ host.state = "up"
      /\ host.exec[s] \in Execution
  BY RetainedIsPresent, TypeParts DEF Touch, IInv
<1>2. [worker |-> host.id, job |-> host.exec[s].job, turn |-> host.exec[s].turn]
        \in [worker : Nat, job : Job, turn : 1..MaxTurn]
  <2>1. host.exec[s].turn \in 1..MaxTurn
    BY <1>1, TypeParts, ExecutionParts DEF Touch, Retained
  <2> QED
    BY <1>1, <2>1, TypeParts DEF Stands
<1>3. TypeOK'
  BY <1>1, <1>2 DEF TypeOK, Touch
<1>4. Backed'
  <2> SUFFICES ASSUME Alive', NEW t \in Sequence, Retained(t)'
               PROVE  Stands(host.exec[t], Held(t))'
    BY DEF Backed
  <2>1. host'.state = "up"
    BY DEF Alive, Touch
  <2>2. CASE t = s
    BY <2>1, <2>2 DEF Held
  <2>3. CASE t # s
    <3>1. Retained(t) /\ Stands(host.exec[t], disk[t])
      BY TouchKeepsRetained, RetainedIsPresent, <1>1
    <3>2. host'.exec[t] = host.exec[t] /\ disk'[t] = disk[t]
      BY <2>3 DEF Touch
    <3> QED
      BY <2>1, <3>1, <3>2 DEF Held
  <2> QED
    BY <2>2, <2>3
<1>5. DeliveredBeforeCommitted'
  <2> SUFFICES ASSUME NEW t \in Sequence, NEW k \in 1..disk'[t].cursor,
                      disk'[t].journal
               PROVE  \E d \in receipts' : d.turn = disk'[t].turn /\ d.cursor = k
    BY DEF DeliveredBeforeCommitted
  <2>1. receipts' = receipts /\ disk'[t].turn = disk[t].turn
    BY TouchKeepsRetained DEF Touch
  <2>2. disk[t].journal /\ (k <= disk[t].cursor \/ Delivered(disk[t].turn, k))
    <3>1. CASE t = s
      BY <3>1
    <3>2. CASE t # s
      <4>1. disk'[t] = disk[t]
        BY <3>2 DEF Touch
      <4>2. disk[t].cursor \in Nat
        BY <1>1, TypeParts, FilesParts DEF Cursor
      <4> QED
        BY <4>1, <4>2
    <3> QED
      BY <3>1, <3>2
  <2>3. disk[t].cursor \in Nat /\ disk'[t].cursor \in Nat
    BY <1>1, <1>3, TypeParts, FilesParts DEF Cursor, TypeOK
  <2> QED
    BY <2>1, <2>2, <2>3 DEF DeliveredBeforeCommitted, Delivered, IInv
<1> QED
  BY <1>3, <1>4, <1>5, TouchKeepsApart DEF IInv, Apart

\* A step that fails the journal leaves nothing to show of the execution.
LEMMA FailedStep ==
  ASSUME IInv, NEW s \in Sequence, Touch(s),
         op' = NoOp, faults' \in 0..MaxFault,
         host'.state = "failed", dispatched' = dispatched,
         disk'[s].cursor = disk[s].cursor,
         disk'[s].journal = disk[s].journal
  PROVE  IInv'
<1>1. disk[s].cursor \in Nat /\ \A k \in 1..disk[s].cursor : k <= disk[s].cursor
  BY TypeParts, FilesParts DEF IInv, Cursor
<1>2. OpFits' /\ DispatchedOnce' /\ op' \in Op
  BY EmptyTypes DEF OpFits, DispatchedOnce, IInv
<1> QED
  BY <1>1, <1>2, TouchStep

\* The operation that follows is apart from the executions it is not about.
LEMMA SameJobs ==
  ASSUME IInv, NEW s \in Sequence, Touch(s), op' = op, op.at # "none", op.s # s,
         host'.state = "up"
  PROVE  OpFits'
BY TouchKeepsRetained DEF Touch, OpFits, IInv

-----------------------------------------------------------------------------
(* The steps that write to one execution. *)

\* The request that is being applied has an execution and its files.
LEMMA Applying ==
  ASSUME IInv, op.at # "none"
  PROVE  /\ op.s \in Sequence /\ Retained(op.s) /\ host.state = "up"
         /\ host.exec[op.s] \in Execution /\ disk[op.s] \in Files
         /\ Stands(host.exec[op.s], disk[op.s])
BY TypeParts, RetainedIsPresent DEF IInv, OpFits

\* FailJournal with the files as they are.
LEMMA FailsHere ==
  ASSUME IInv, NEW s \in Sequence, Retained(s), host.state = "up",
         FailJournal, Fault \/ UNCHANGED faults, UNCHANGED disk,
         mail' \subseteq mail,
         UNCHANGED <<draft, consumer, turns, dispatched, settled, receipts>>
  PROVE  IInv'
<1>1. /\ host'.state = "failed" /\ host' \in Host
      /\ host'.id = host.id /\ host'.next = host.next
      /\ host'.incomplete = host.incomplete /\ host'.exec = host.exec
  BY TypeParts DEF IInv, FailJournal, Host
<1>2. faults' \in 0..MaxFault
  BY TypeParts DEF IInv, Fault
<1>3. disk[s].admission \in BOOLEAN
  BY TypeParts, FilesParts DEF IInv
<1>4. Touch(s)
  BY <1>1, TypeParts, RetainedIsPresent DEF IInv, Touch
<1> QED
  BY <1>1, <1>2, <1>4, FailedStep DEF FailJournal

\* The worker after a change of execution s.
LEMMA ExecWritten ==
  ASSUME TypeOK, NEW s \in Sequence, NEW e \in Execution,
         host' = [host EXCEPT !.exec[s] = e]
  PROVE  /\ host' \in Host /\ host'.state = host.state
         /\ host'.id = host.id /\ host'.next = host.next
         /\ host'.incomplete = host.incomplete
         /\ host'.exec[s] = e
         /\ \A t \in Sequence \ {s} : host'.exec[t] = host.exec[t]
BY TypeParts DEF Host

\* ... and the disk after a change of its files.
LEMMA FilesWritten ==
  ASSUME TypeOK, NEW s \in Sequence, NEW f \in Files,
         disk' = [disk EXCEPT ![s] = f]
  PROVE  /\ disk' \in [Sequence -> Files] /\ disk'[s] = f
         /\ \A t \in Sequence \ {s} : disk'[t] = disk[t]
BY TypeParts

\* The admission record.
LEMMA CheckpointStep ==
  ASSUME IInv, Checkpoint
  PROVE  IInv'
<1> DEFINE s == op.s
           e == host.exec[s]
           f == disk[s]
<1>1. /\ s \in Sequence /\ Retained(s) /\ host.state = "up"
      /\ e \in Execution /\ f \in Files /\ Stands(e, f) /\ TypeOK
      /\ op.at = "checkpoint" /\ op \in Op
  BY Applying, TypeParts DEF Checkpoint, IInv
<1>2. CASE /\ disk' = [disk EXCEPT ![op.s].admission = TRUE,
                                   ![op.s].job = host.exec[op.s].job,
                                   ![op.s].by = host.exec[op.s].by]
           /\ op' = [op EXCEPT !.at = "reserve"]
           /\ UNCHANGED <<host, faults>>
  <2> DEFINE g == [f EXCEPT !.admission = TRUE, !.job = e.job, !.by = e.by]
  <2>1. g \in Files /\ disk' = [disk EXCEPT ![s] = g]
    BY <1>1, <1>2, TypeParts, ExecutionParts DEF Files
  <2>2. /\ g.turn = f.turn /\ g.job = e.job /\ g.by = e.by
        /\ g.journal = f.journal /\ g.cursor = f.cursor /\ g.events = f.events
        /\ g.terminal = f.terminal /\ g.terminalError = f.terminalError
        /\ g.done = f.done /\ g.error = f.error
    BY <1>1 DEF Files
  <2> HIDE DEF g
  <2>3. /\ disk' \in [Sequence -> Files] /\ disk'[s] = g
        /\ \A t \in Sequence \ {s} : disk'[t] = disk[t]
    BY <1>1, <2>1, FilesWritten
  <2>4. Touch(s)
    BY <1>1, <1>2, <2>2, <2>3, TypeParts DEF Checkpoint, Touch
  <2>5. Stands(host'.exec[s], disk'[s])
    <3>1. host'.exec[s] = e /\ e.job \in Job
      BY <1>1, <1>2 DEF Stands
    <3>2. Complete(g) <=> Complete(f)
      BY <2>2 DEF Complete
    <3>3. ReplayError(g) = ReplayError(f)
      BY <2>2 DEF ReplayError
    <3> QED
      BY <1>1, <2>2, <2>3, <3>1, <3>2, <3>3 DEF Stands
  <2>6. op' \in Op /\ op'.at = "reserve" /\ op'.s = s
    BY <1>1, <1>2 DEF Op
  <2>7. OpFits'
    BY <1>1, <1>2, <2>2, <2>3, <2>6, TouchKeepsRetained, <2>4
       DEF OpFits, IInv, Early, Checkpoint
  <2>8. DispatchedOnce' /\ faults' \in 0..MaxFault
    BY <1>1, <1>2, TypeParts DEF DispatchedOnce, Checkpoint, IInv
  <2>9. \A k \in 1..g.cursor : k <= f.cursor
    BY <1>1, <2>2, FilesParts DEF Cursor
  <2> QED
    BY <1>1, <2>2, <2>3, <2>4, <2>5, <2>6, <2>7, <2>8, <2>9, TouchStep
<1>3. CASE Fault /\ FailJournal /\ UNCHANGED disk
  BY <1>1, <1>3, FailsHere DEF Checkpoint
<1> QED
  BY <1>2, <1>3 DEF Checkpoint

\* No operation is left.
LEMMA NothingApplied ==
  ASSUME op' = NoOp
  PROVE  OpFits' /\ op' \in Op /\ op'.at = "none"
BY EmptyTypes DEF OpFits

\* An operation that begins with its first write done.
LEMMA StartsApplying ==
  ASSUME NEW s \in Sequence, NEW a \in {"checkpoint", "cursor"},
         op' = [NoOp EXCEPT !.at = a, !.s = s]
  PROVE  op' \in Op /\ op'.at = a /\ op'.s = s
<1>1. op' = [at |-> a, s |-> s, outcome |-> "accepted"]
  BY DEF NoOp
<1>2. s \in 0..MaxTurn
  BY WorkerJournalAssumption DEF Sequence
<1> QED
  BY <1>1, <1>2 DEF Op

\* The reservation, refused or not.
LEMMA ReserveStep ==
  ASSUME IInv, Reserve
  PROVE  IInv'
<1> DEFINE s == op.s
           e == host.exec[s]
           f == disk[s]
<1>1. /\ s \in Sequence /\ Retained(s) /\ host.state = "up"
      /\ e \in Execution /\ f \in Files /\ Stands(e, f) /\ TypeOK
      /\ op.at = "reserve" /\ op \in Op
  BY Applying, TypeParts DEF Reserve, IInv
<1>2. CASE op' = [op EXCEPT !.at = "dispatch"] /\ UNCHANGED <<host, disk, faults>>
  <2>1. Touch(s)
    BY <1>1, <1>2, TypeParts, FilesParts DEF Reserve, Touch
  <2>2. op' \in Op /\ op'.at = "dispatch" /\ op'.s = s
    BY <1>1, <1>2 DEF Op
  <2>3. OpFits'
    BY <1>1, <1>2, <2>1, <2>2, TouchKeepsRetained DEF OpFits, IInv, Early, Reserve
  <2>4. DispatchedOnce' /\ faults' \in 0..MaxFault
    BY <1>1, <1>2, TypeParts DEF DispatchedOnce, Reserve, IInv
  <2>5. \A k \in 1..f.cursor : k <= f.cursor
    BY <1>1, FilesParts DEF Cursor
  <2> QED
    BY <1>1, <1>2, <2>1, <2>2, <2>3, <2>4, <2>5, TouchStep
<1>3. ASSUME NEW k \in {0, 1},
             host' = [host EXCEPT !.exec[op.s].done = TRUE,
                                  !.exec[op.s].error = TRUE,
                                  !.exec[op.s].last = k],
             disk' = [disk EXCEPT ![op.s].done = TRUE,
                                  ![op.s].error = TRUE,
                                  ![op.s].events = k,
                                  ![op.s].terminal = (k = 1),
                                  ![op.s].terminalError = (k = 1)],
             op' = NoOp, UNCHANGED faults
      PROVE  IInv'
  <2> DEFINE d == [e EXCEPT !.done = TRUE, !.error = TRUE, !.last = k]
             g == [f EXCEPT !.done = TRUE, !.error = TRUE, !.events = k,
                            !.terminal = (k = 1), !.terminalError = (k = 1)]
  <2>1. k \in Cursor
    BY <1>1, TypeParts DEF Cursor
  <2>2. d \in Execution /\ host' = [host EXCEPT !.exec[s] = d]
    <3>1. d \in Execution
      BY <1>1, <2>1 DEF Execution
    <3>2. host' = [host EXCEPT !.exec[s] = d]
      BY <1>1, <1>3, TypeParts DEF Host
    <3> QED
      BY <3>1, <3>2
  <2>3. g \in Files /\ disk' = [disk EXCEPT ![s] = g]
    BY <1>1, <1>3, <2>1, TypeParts DEF Files
  <2>4. /\ d.turn = e.turn /\ d.job = e.job /\ d.by = e.by
        /\ d.committed = e.committed /\ d.last = k
        /\ d.running = e.running /\ d.done /\ d.error
    BY <1>1 DEF Execution
  <2>5. /\ g.turn = f.turn /\ g.job = f.job /\ g.by = f.by
        /\ g.admission = f.admission /\ g.journal = f.journal
        /\ g.cursor = f.cursor /\ g.events = k /\ g.done /\ g.error
        /\ g.terminal <=> k = 1
    BY <1>1 DEF Files
  <2> HIDE DEF d, g
  <2>6. /\ host' \in Host /\ host'.state = host.state
        /\ host'.id = host.id /\ host'.next = host.next
        /\ host'.incomplete = host.incomplete /\ host'.exec[s] = d
        /\ \A t \in Sequence \ {s} : host'.exec[t] = host.exec[t]
    BY <1>1, <2>2, ExecWritten
  <2>7. /\ disk' \in [Sequence -> Files] /\ disk'[s] = g
        /\ \A t \in Sequence \ {s} : disk'[t] = disk[t]
    BY <1>1, <2>3, FilesWritten
  <2>8. Touch(s)
    BY <1>1, <2>4, <2>5, <2>6, <2>7 DEF Reserve, Touch
  <2>9. Stands(d, g)
    <3>1. ~e.running
      BY <1>1 DEF OpFits, IInv, Early
    <3>2. Complete(g)
      BY <2>5 DEF Complete
    <3> QED
      BY <1>1, <2>4, <2>5, <3>1, <3>2 DEF Stands
  <2>10. DispatchedOnce' /\ faults' \in 0..MaxFault
    BY <1>1, <1>3, TypeParts DEF DispatchedOnce, Reserve, IInv
  <2>11. \A i \in 1..g.cursor : i <= f.cursor
    BY <1>1, <2>5, FilesParts DEF Cursor
  <2>12. OpFits' /\ op' \in Op
    BY <1>3, NothingApplied
  <2> QED
    BY <1>1, <2>5, <2>6, <2>7, <2>8, <2>9, <2>10, <2>11, <2>12, TouchStep
<1>4. CASE Fault /\ FailJournal /\ UNCHANGED disk
  BY <1>1, <1>4, FailsHere DEF Reserve
<1> QED
  BY <1>2, <1>3, <1>4 DEF Reserve

\* The provider is called, for a job that this worker has not called it for.
LEMMA DispatchStep ==
  ASSUME IInv, Dispatch
  PROVE  IInv'
<1> DEFINE s == op.s
           e == host.exec[s]
           f == disk[s]
           call == [worker |-> host.id, job |-> e.job, turn |-> e.turn]
<1>1. /\ s \in Sequence /\ Retained(s) /\ host.state = "up"
      /\ e \in Execution /\ f \in Files /\ Stands(e, f) /\ TypeOK
      /\ op.at = "dispatch" /\ op \in Op
  BY Applying, TypeParts DEF Dispatch, IInv
<1>2. PICK outcome \in {"accepted", "rejected", "unconfirmed"} :
        /\ op' = [op EXCEPT !.at = "result", !.outcome = outcome]
        /\ host' = [host EXCEPT !.exec[op.s].running = (outcome # "rejected")]
  BY DEF Dispatch
<1>3. disk' = disk /\ dispatched' = dispatched \cup {call}
      /\ UNCHANGED <<draft, mail, consumer, turns, settled, receipts, faults>>
  BY DEF Dispatch
<1> DEFINE d == [e EXCEPT !.running = (outcome # "rejected")]
<1>4. d \in Execution /\ host' = [host EXCEPT !.exec[s] = d]
  BY <1>1, <1>2, TypeParts DEF Execution, Host
<1>5. /\ d.turn = e.turn /\ d.job = e.job /\ d.by = e.by
      /\ d.committed = e.committed /\ d.last = e.last
      /\ d.done = e.done /\ d.error = e.error
      /\ d.running <=> outcome # "rejected"
  BY <1>1 DEF Execution
<1> HIDE DEF d
<1>6. /\ host' \in Host /\ host'.state = host.state
      /\ host'.id = host.id /\ host'.next = host.next
      /\ host'.incomplete = host.incomplete /\ host'.exec[s] = d
      /\ \A t \in Sequence \ {s} : host'.exec[t] = host.exec[t]
  BY <1>1, <1>4, ExecWritten
<1>7. Touch(s)
  BY <1>1, <1>3, <1>5, <1>6, TypeParts, FilesParts DEF Touch
<1>8. /\ ~e.done /\ ~f.done /\ e.job \notin settled
      /\ \A t \in Sequence : Retained(t) /\ host.exec[t].job = e.job => t = s
  BY <1>1 DEF OpFits, IInv, Early
<1>9. Stands(d, f)
  BY <1>1, <1>5, <1>8 DEF Stands
<1>10. op' \in Op /\ op'.at = "result" /\ op'.s = s /\ op'.outcome = outcome
  BY <1>1, <1>2 DEF Op
<1>11. OpFits'
  BY <1>1, <1>3, <1>5, <1>6, <1>7, <1>8, <1>10, TouchKeepsRetained
     DEF OpFits, Early
<1>12. DispatchedOnce'
  <2>1. call.worker = host.id /\ call.job = e.job /\ call.turn = e.turn
    OBVIOUS
  <2>2. ASSUME NEW c \in dispatched, c.worker = host.id, c.job = e.job
        PROVE  c = call
    <3>1. Accounted(c)
      BY DEF IInv, DispatchedFits
    <3>2. c.turn = e.turn
      BY <1>1, <1>8, <2>2, <3>1 DEF Accounted
    <3>3. c \in [worker : Nat, job : Job, turn : 1..MaxTurn]
      BY <1>1 DEF TypeOK
    <3> QED
      BY <2>1, <2>2, <3>2, <3>3
  <2> HIDE DEF call
  <2> QED
    BY <1>3, <2>1, <2>2 DEF DispatchedOnce, IInv
<1>13. faults' \in 0..MaxFault
  BY <1>1, <1>3, TypeParts
<1>14. \A i \in 1..f.cursor : i <= f.cursor
  BY <1>1, FilesParts DEF Cursor
<1> QED
  BY <1>1, <1>3, <1>6, <1>7, <1>9, <1>10, <1>11, <1>12, <1>13, <1>14, TouchStep

\* The answer of the provider is recorded.
LEMMA ResultStep ==
  ASSUME IInv, Result
  PROVE  IInv'
<1> DEFINE s == op.s
           e == host.exec[s]
           f == disk[s]
           rejected == op.outcome = "rejected"
           uncertain == op.outcome = "unconfirmed" /\ ~e.done
           noted == rejected \/ uncertain
           error == e.error \/ noted
           events == IF noted THEN e.last + 1 ELSE e.last
           noting == [disk EXCEPT ![s].events = events,
                                  ![s].terminal = @ \/ rejected]
           d == [e EXCEPT !.last = events, !.done = @ \/ rejected,
                          !.error = error]
           n == [f EXCEPT !.events = events, !.terminal = @ \/ rejected]
           g == [n EXCEPT !.done = e.done \/ rejected, !.error = error,
                          !.saved = e.committed]
<1>1. /\ s \in Sequence /\ Retained(s) /\ host.state = "up"
      /\ e \in Execution /\ f \in Files /\ Stands(e, f) /\ TypeOK
      /\ op.at = "result" /\ op \in Op
  BY Applying, TypeParts DEF Result, IInv
<1>2. /\ UNCHANGED <<draft, mail, consumer, turns, dispatched, settled, receipts>>
      /\ \/ /\ events <= MaxEvents
            /\ host' = [host EXCEPT !.exec[s].last = events,
                                    !.exec[s].done = @ \/ rejected,
                                    !.exec[s].error = error]
            /\ disk' = [noting EXCEPT ![s].done = e.done \/ rejected,
                                      ![s].error = error,
                                      ![s].saved = e.committed]
            /\ op' = NoOp
            /\ UNCHANGED faults
         \/ /\ events <= MaxEvents /\ Fault
            /\ FailJournal
            /\ disk' \in {disk, noting}
         \/ events > MaxEvents /\ FailJournal /\ UNCHANGED <<disk, faults>>
  BY DEF Result
<1>3. /\ e.last \in Nat /\ events \in Nat /\ MaxEvents \in Nat
      /\ rejected \in BOOLEAN /\ noted \in BOOLEAN /\ error \in BOOLEAN
      /\ e.done \in BOOLEAN /\ e.error \in BOOLEAN /\ f.terminal \in BOOLEAN
      /\ f.cursor \in Nat
  BY <1>1, TypeParts, ExecutionParts, FilesParts DEF Cursor
<1>4. events <= MaxEvents => events \in Cursor
  BY <1>3 DEF Cursor
<1>5. ASSUME events <= MaxEvents
      PROVE  /\ n \in Files /\ n.turn = f.turn /\ n.admission = f.admission
             /\ n.job = f.job /\ n.by = f.by /\ n.journal = f.journal
             /\ n.cursor = f.cursor /\ n.events = events
             /\ (n.terminal <=> f.terminal \/ rejected)
             /\ n.terminalError = f.terminalError
  <2> HIDE DEF events, rejected
  <2> QED
    BY <1>1, <1>3, <1>4, <1>5 DEF Files
<1>6. /\ ~f.done
      /\ rejected => ~e.done /\ ~e.running
  BY <1>1 DEF OpFits, IInv, Early
<1>7. ASSUME events <= MaxEvents,
             host' = [host EXCEPT !.exec[s].last = events,
                                  !.exec[s].done = @ \/ rejected,
                                  !.exec[s].error = error],
             disk' = [noting EXCEPT ![s].done = e.done \/ rejected,
                                    ![s].error = error,
                                    ![s].saved = e.committed],
             op' = NoOp, UNCHANGED faults
      PROVE  IInv'
  <2> HIDE DEF rejected, error, events
  <2>1. d \in Execution
    BY <1>1, <1>3, <1>4, <1>7 DEF Execution
  <2>2. host' = [host EXCEPT !.exec[s] = d]
    BY <1>1, <1>7, TypeParts DEF Host
  <2>3. g \in Files
    <3> HIDE DEF n
    <3>1. /\ n \in Files /\ e.committed \in Cursor
          /\ (e.done \/ rejected) \in BOOLEAN
      BY <1>1, <1>3, <1>5, <1>7, ExecutionParts
    <3> QED
      BY <1>3, <3>1 DEF Files
  <2>4. disk' = [disk EXCEPT ![s] = g]
    BY <1>1, <1>7, TypeParts
  <2>5. /\ d.turn = e.turn /\ d.job = e.job /\ d.by = e.by
        /\ d.committed = e.committed /\ d.last = events
        /\ d.running = e.running /\ (d.done <=> e.done \/ rejected)
        /\ (d.error <=> error)
    BY <1>1, <1>3 DEF Execution
  <2>6. /\ g.turn = f.turn /\ g.job = f.job /\ g.by = f.by
        /\ g.admission = f.admission /\ g.journal = f.journal
        /\ g.cursor = f.cursor /\ g.events = events
        /\ (g.terminal <=> f.terminal \/ rejected)
        /\ g.terminalError = f.terminalError
        /\ (g.done <=> e.done \/ rejected) /\ (g.error <=> error)
    <3> HIDE DEF n
    <3>1. /\ g.turn = n.turn /\ g.job = n.job /\ g.by = n.by
          /\ g.admission = n.admission /\ g.journal = n.journal
          /\ g.cursor = n.cursor /\ g.events = n.events
          /\ g.terminal = n.terminal /\ g.terminalError = n.terminalError
          /\ (g.done <=> e.done \/ rejected) /\ (g.error <=> error)
      BY <1>3, <1>5, <1>7 DEF Files
    <3> QED
      BY <1>5, <1>7, <3>1
  <2> HIDE DEF d, g
  <2>7. /\ host' \in Host /\ host'.state = host.state
        /\ host'.id = host.id /\ host'.next = host.next
        /\ host'.incomplete = host.incomplete /\ host'.exec[s] = d
        /\ \A t \in Sequence \ {s} : host'.exec[t] = host.exec[t]
    BY <1>1, <2>1, <2>2, ExecWritten
  <2>8. /\ disk' \in [Sequence -> Files] /\ disk'[s] = g
        /\ \A t \in Sequence \ {s} : disk'[t] = disk[t]
    BY <1>1, <2>3, <2>4, FilesWritten
  <2>9. Touch(s)
    BY <1>1, <1>2, <2>5, <2>6, <2>7, <2>8 DEF Touch
  <2>10. Stands(d, g)
    <3>1. error <=> e.error \/ rejected \/ uncertain
      BY DEF error
    <3>2. CASE ~rejected
      <4>1. e.done => (Complete(f) /\ f.terminal) \/ ~f.journal
        BY <1>1, <1>6 DEF Stands, Complete
      <4>2. events = e.last \/ ~e.done
        BY <3>2 DEF events
      <4>3. f.journal => f.events = e.last
        BY <1>1 DEF Stands
      <4> QED
        BY <1>1, <1>6, <2>5, <2>6, <3>1, <3>2, <4>1, <4>2, <4>3
           DEF Stands, Complete, ReplayError
    <3>3. CASE rejected
      BY <1>1, <1>6, <2>5, <2>6, <3>1, <3>3 DEF Stands, Complete, ReplayError
    <3> QED
      BY <3>2, <3>3
  <2>11. DispatchedOnce' /\ faults' \in 0..MaxFault
    BY <1>1, <1>2, <1>7, TypeParts DEF DispatchedOnce, IInv
  <2>12. OpFits' /\ op' \in Op
    BY <1>7, NothingApplied
  <2>13. \A i \in 1..g.cursor : i <= f.cursor
    BY <1>3, <2>6
  <2> QED
    BY <1>1, <2>6, <2>7, <2>8, <2>9, <2>10, <2>11, <2>12, <2>13, TouchStep
<1>8. CASE events <= MaxEvents /\ Fault /\ FailJournal /\ disk' = noting
  <2> HIDE DEF rejected, error, events
  <2>1. disk' = [disk EXCEPT ![s] = n]
    BY <1>1, <1>8, TypeParts
  <2> HIDE DEF n
  <2>2. /\ disk' \in [Sequence -> Files] /\ disk'[s] = n
        /\ \A t \in Sequence \ {s} : disk'[t] = disk[t]
    BY <1>1, <1>5, <1>8, <2>1, FilesWritten
  <2>3. /\ host'.state = "failed" /\ host' \in Host
        /\ host'.id = host.id /\ host'.next = host.next
        /\ host'.incomplete = host.incomplete /\ host'.exec = host.exec
    BY <1>1, <1>8, TypeParts DEF FailJournal, Host
  <2>4. Touch(s)
    BY <1>1, <1>2, <1>5, <1>8, <2>2, <2>3 DEF Touch
  <2>5. faults' \in 0..MaxFault /\ op' = NoOp
    BY <1>1, <1>8, TypeParts DEF Fault, FailJournal
  <2> QED
    BY <1>1, <1>2, <1>5, <1>8, <2>2, <2>3, <2>4, <2>5, FailedStep
<1>9. CASE /\ FailJournal /\ UNCHANGED disk
           /\ Fault \/ UNCHANGED faults
  BY <1>1, <1>2, <1>9, FailsHere
<1> QED
  BY <1>2, <1>7, <1>8, <1>9

\* An event of the turn is appended.
LEMMA AppendedStep ==
  ASSUME IInv, NEW s \in Sequence, host.state = "up", host.exec[s].running,
         host.exec[s].last < MaxEvents,
         NEW terminal \in BOOLEAN, NEW error \in BOOLEAN,
         error => host.exec[s].error,
         ~terminal => error = host.exec[s].error,
         Appended(s, terminal, error),
         UNCHANGED <<op, draft, mail, consumer, turns, dispatched, settled,
                     receipts, faults>>
  PROVE  IInv'
<1> DEFINE e == host.exec[s]
           f == disk[s]
           d == [e EXCEPT !.last = @ + 1, !.done = terminal,
                          !.running = ~terminal, !.error = error]
           g == [f EXCEPT !.events = @ + 1, !.terminal = terminal,
                          !.terminalError = terminal /\ error]
<1>1. Retained(s) /\ e \in Execution /\ f \in Files /\ TypeOK
  BY TypeParts DEF IInv, HostFits
<1>2. Stands(e, f) /\ f.journal /\ f.events = e.last /\ ~e.done /\ ~f.terminal
      /\ f.turn # 0
  <2>1. Stands(e, f)
    BY <1>1, RetainedIsPresent
  <2> QED
    BY <1>1, <2>1, FilesParts, ExecutionParts DEF Stands, Retained
<1>3. /\ e.last \in Nat /\ e.last + 1 \in Cursor /\ MaxEvents \in Nat
      /\ f.cursor \in Nat /\ f.events + 1 \in Cursor
  <2>1. MaxEvents \in Nat
    BY <1>1, TypeParts
  <2>2. e.last \in Nat /\ e.last + 1 \in Cursor
    BY <1>1, <1>2, <2>1, ExecutionParts DEF Cursor
  <2>3. f.cursor \in Nat /\ f.events + 1 \in Cursor
    BY <1>1, <1>2, <2>1, FilesParts DEF Cursor
  <2> QED
    BY <2>1, <2>2, <2>3
<1>4. d \in Execution /\ g \in Files
  <2>1. d \in Execution
    BY <1>1, <1>3 DEF Execution
  <2>2. g \in Files
    BY <1>1, <1>3 DEF Files
  <2> QED
    BY <2>1, <2>2
<1>5. /\ host' = [host EXCEPT !.exec[s] = d]
      /\ disk' = [disk EXCEPT ![s] = g]
  <2>1. host \in Host /\ host.exec \in [Sequence -> Execution]
        /\ disk \in [Sequence -> Files]
    BY <1>1, TypeParts
  <2>2. host' = [host EXCEPT !.exec[s] = d]
    BY <2>1 DEF Appended, Host
  <2>3. disk' = [disk EXCEPT ![s] = g]
    BY <2>1 DEF Appended
  <2> QED
    BY <2>2, <2>3
<1>6. /\ d.turn = e.turn /\ d.job = e.job /\ d.by = e.by
      /\ d.committed = e.committed /\ d.last = e.last + 1
      /\ (d.done <=> terminal) /\ (d.running <=> ~terminal)
      /\ (d.error <=> error)
  BY <1>1 DEF Execution
<1>7. /\ g.turn = f.turn /\ g.job = f.job /\ g.by = f.by
      /\ g.admission = f.admission /\ g.journal = f.journal
      /\ g.cursor = f.cursor /\ g.events = f.events + 1
      /\ (g.terminal <=> terminal) /\ (g.terminalError <=> terminal /\ error)
      /\ g.done = f.done /\ g.error = f.error
  BY <1>1 DEF Files
<1> HIDE DEF d, g
<1>8. /\ host' \in Host /\ host'.state = host.state
      /\ host'.id = host.id /\ host'.next = host.next
      /\ host'.incomplete = host.incomplete /\ host'.exec[s] = d
      /\ \A t \in Sequence \ {s} : host'.exec[t] = host.exec[t]
  BY <1>1, <1>4, <1>5, ExecWritten
<1>9. /\ disk' \in [Sequence -> Files] /\ disk'[s] = g
      /\ \A t \in Sequence \ {s} : disk'[t] = disk[t]
  BY <1>1, <1>4, <1>5, FilesWritten
<1>10. Touch(s)
  BY <1>1, <1>6, <1>7, <1>8, <1>9 DEF Touch
<1>11. Stands(d, g)
  BY <1>2, <1>6, <1>7 DEF Stands, Complete, ReplayError
<1>12. OpFits'
  <2>1. CASE op.at = "none"
    BY <2>1 DEF OpFits
  <2>2. CASE op.at # "none" /\ op.s # s
    BY <2>2, <1>8, <1>10, SameJobs
  <2>3. CASE op.at # "none" /\ op.s = s
    <3>1. /\ op.at \notin Early \cup {"cursor", "admission"}
          /\ ~(op.at = "result" /\ op.outcome = "rejected")
      BY <1>2, <2>3 DEF OpFits, IInv, Early
    <3>2. op.at = "result" => ~f.done
      BY <2>3 DEF OpFits, IInv
    <3> QED
      BY <1>1, <1>7, <1>8, <1>9, <1>10, <2>3, <3>1, <3>2, TouchKeepsRetained
         DEF OpFits, Early
  <2> QED
    BY <2>1, <2>2, <2>3
<1>13. DispatchedOnce' /\ faults' \in 0..MaxFault /\ op' \in Op
  BY <1>1, TypeParts DEF DispatchedOnce, IInv
<1>14. \A i \in 1..g.cursor : i <= f.cursor
  BY <1>3, <1>7
<1> QED
  BY <1>7, <1>8, <1>9, <1>10, <1>11, <1>12, <1>13, <1>14, TouchStep

\* captureLocked, of an event that fits and of one that does not.
LEMMA CaptureStep ==
  ASSUME IInv, NEW s \in Sequence, Capture(s)
  PROVE  IInv'
<1>1. /\ host.state = "up" /\ host.exec[s].running /\ Retained(s) /\ TypeOK
      /\ UNCHANGED <<draft, mail, consumer, turns, dispatched, settled, receipts,
                     faults>>
  BY DEF Capture, IInv, HostFits
<1>2. host.exec[s].error \in BOOLEAN
  BY <1>1, TypeParts, ExecutionParts
<1>3. CASE /\ host.exec[s].last < MaxEvents /\ UNCHANGED op
           /\ Appended(s, FALSE, host.exec[s].error)
  BY <1>1, <1>2, <1>3, AppendedStep
<1>4. CASE /\ host.exec[s].last < MaxEvents /\ UNCHANGED op
           /\ \E error \in {FALSE, host.exec[s].error} : Appended(s, TRUE, error)
  <2>1. PICK error \in {FALSE, host.exec[s].error} : Appended(s, TRUE, error)
    BY <1>4
  <2>2. error \in BOOLEAN /\ (error => host.exec[s].error)
    BY <1>2, <2>1
  <2> QED
    BY <1>1, <1>4, <2>1, <2>2, AppendedStep
<1>5. CASE FailJournal /\ UNCHANGED disk
  BY <1>1, <1>5, FailsHere
<1> QED
  BY <1>3, <1>4, <1>5 DEF Capture

\* The write fails, and may leave an incomplete line.
LEMMA CaptureFailsStep ==
  ASSUME IInv, NEW s \in Sequence, CaptureFails(s)
  PROVE  IInv'
<1> DEFINE f == disk[s]
<1>1. /\ host.state = "up" /\ Retained(s) /\ TypeOK /\ f \in Files
      /\ Stands(host.exec[s], f)
      /\ Fault /\ FailJournal
      /\ UNCHANGED <<draft, mail, consumer, turns, dispatched, settled, receipts>>
  BY TypeParts, RetainedIsPresent DEF CaptureFails, IInv, HostFits
<1>2. PICK torn \in BOOLEAN : disk' = [disk EXCEPT ![s].torn = torn]
  BY DEF CaptureFails
<1> DEFINE g == [f EXCEPT !.torn = torn]
<1>3. /\ g \in Files /\ disk' = [disk EXCEPT ![s] = g]
      /\ g.turn = f.turn /\ g.job = f.job /\ g.by = f.by
      /\ g.admission = f.admission /\ g.journal = f.journal
      /\ g.cursor = f.cursor
  BY <1>1, <1>2, TypeParts DEF Files
<1> HIDE DEF g
<1>4. /\ disk' \in [Sequence -> Files] /\ disk'[s] = g
      /\ \A t \in Sequence \ {s} : disk'[t] = disk[t]
  BY <1>1, <1>3, FilesWritten
<1>5. /\ host'.state = "failed" /\ host' \in Host
      /\ host'.id = host.id /\ host'.next = host.next
      /\ host'.incomplete = host.incomplete /\ host'.exec = host.exec
  BY <1>1, TypeParts DEF FailJournal, Host
<1>6. Touch(s)
  BY <1>1, <1>3, <1>4, <1>5 DEF Touch
<1>7. faults' \in 0..MaxFault /\ op' = NoOp
  BY <1>1, TypeParts DEF Fault, FailJournal
<1> QED
  BY <1>1, <1>3, <1>4, <1>5, <1>6, <1>7, FailedStep

-----------------------------------------------------------------------------
(* Requests and consumers. *)

\* A step that leaves the books alone.
Quiet ==
  /\ UNCHANGED <<books, turns, dispatched, settled>>
  /\ mail' \subseteq Request /\ consumer' \in [Sequence -> Page]
  /\ receipts \subseteq receipts' /\ receipts' \subseteq Receipt
  /\ faults' \in 0..MaxFault
  /\ host.state \notin {"up", "failed"} => mail' = {} /\ consumer' = NoPages

\* It has to show what it says anew in requests, in pages and in names.
LEMMA QuietStep ==
  ASSUME IInv, Quiet,
         \A r \in mail' : r \in mail \/ (host.state = "up" => Due(r)),
         \A s \in Sequence : \/ consumer'[s] = consumer[s]
                             \/ consumer'[s] = NoPage
                             \/ PageFits(s)',
         \A t \in 0..MaxTurn, b \in Nat, s \in Sequence :
           Named(t, b, s)' => Named(t, b, s)
  PROVE  IInv'
<1>1. /\ UNCHANGED <<host, disk, draft, op, turns, dispatched, settled>>
      /\ receipts \subseteq receipts'
  BY DEF Quiet, books
<1>2. \A t, k : Delivered(t, k) => Delivered(t, k)'
  BY <1>1 DEF Delivered
<1>3. TypeOK'
  BY <1>1 DEF IInv, TypeOK, Quiet
<1>4. HostFits' /\ FilesFit' /\ OpFits'
  BY <1>1 DEF IInv, HostFits, FilesFit, OpFits, Retained, Quiet
<1>5. Backed' /\ RoomFits'
  <2>1. Unfinished' = Unfinished
    BY <1>1 DEF Unfinished, Held, Retained
  <2> QED
    BY <1>1, <2>1 DEF IInv, Backed, RoomFits, Alive, Retained, Held
<1>6. MailFits'
  <2> SUFFICES ASSUME host'.state = "up", NEW r \in mail'
               PROVE  Due(r)'
    BY DEF MailFits
  <2>1. Due(r)
    BY <1>1 DEF IInv, MailFits
  <2> QED
    BY <1>1, <1>2, <2>1 DEF Due, Retained
<1>7. PagesFit'
  <2> SUFFICES ASSUME NEW s \in Sequence, Reading(s)'
               PROVE  PageFits(s)'
    BY DEF PagesFit
  <2>1. CASE consumer'[s] = consumer[s]
    <3>1. PageFits(s)
      BY <2>1 DEF IInv, PagesFit, Reading
    <3> QED
      BY <1>1, <1>2, <2>1, <3>1 DEF PageFits, Retained
  <2>2. consumer'[s] # NoPage
    BY DEF Reading
  <2> QED
    BY <2>1, <2>2
<1>8. NamesFit'
  BY <1>1, TypeParts, NamesStay DEF IInv
<1>9. DispatchedFits' /\ DispatchedOnce' /\ ReplayFits'
  BY <1>1 DEF IInv, DispatchedFits, Accounted, DispatchedOnce, ReplayFits, Retained
<1>10. DeliveredBeforeCommitted'
  BY <1>1 DEF IInv, DeliveredBeforeCommitted
<1> QED
  BY <1>3, <1>4, <1>5, <1>6, <1>7, <1>8, <1>9, <1>10 DEF IInv

\* A step that only drops or adds requests.
LEMMA MailStep ==
  ASSUME IInv, UNCHANGED <<books, turns, dispatched, settled, consumer, receipts>>,
         mail' \subseteq Request, faults' \in 0..MaxFault,
         \A r \in mail' : r \in mail \/ (host.state \in {"up", "failed"} /\ Due(r))
  PROVE  IInv'
<1>1. Quiet
  BY TypeParts DEF IInv, TypeOK, HostFits, Quiet
<1>2. \A t \in 0..MaxTurn, b \in Nat, s \in Sequence :
        Named(t, b, s)' => Named(t, b, s)
  BY DEF Named, Retained, Reading, books
<1> QED
  BY <1>1, <1>2, QuietStep

\* A controller sends a job that is neither retained nor settled.
LEMMA SendJobStep ==
  ASSUME IInv, NEW j \in Job, SendJob(j)
  PROVE  IInv'
<1> DEFINE r == [kind |-> "send", s |-> host.next, job |-> j, expected |-> 0,
                 after |-> 0]
<1>1. /\ host.state = "up" /\ host.next \in Nat /\ MaxTurn \in Nat /\ TypeOK
      /\ host.next <= MaxTurn /\ mail' = mail \cup {r}
      /\ UNCHANGED <<books, consumer, turns, dispatched, settled, receipts, faults>>
  BY TypeParts DEF SendJob, Serving, Post, IInv
<1>2. host.next \in Sequence
  BY <1>1, TypeParts DEF Sequence
<1>3. r \in Request
  BY <1>1, <1>2, TypeParts DEF Request, Cursor
<1>4. Due(r)
  BY <1>1 DEF SendJob, Due
<1>5. mail' \subseteq Request /\ faults' \in 0..MaxFault
  BY <1>1, <1>3, TypeParts
<1> HIDE DEF r
<1>6. \A q \in mail' : q \in mail \/ (host.state \in {"up", "failed"} /\ Due(q))
  BY <1>1, <1>4
<1>7. UNCHANGED <<books, turns, dispatched, settled, consumer, receipts>>
  BY <1>1
<1> QED
  BY <1>5, <1>6, <1>7, MailStep
\* A step that only turns pages.
LEMMA PageStep ==
  ASSUME IInv, NEW s \in Sequence, host.state \in {"up", "failed"},
         UNCHANGED <<books, turns, dispatched, settled, receipts>>,
         NEW p \in Page, consumer' = [consumer EXCEPT ![s] = p],
         faults' \in 0..MaxFault, mail' \subseteq Request,
         \A r \in mail' : r \in mail \/ (host.state = "up" => Due(r)),
         p = NoPage \/ PageFits(s)',
         p = NoPage \/ (Retained(s) /\ p.turn = host.exec[s].turn
                                    /\ p.by = host.exec[s].by)
  PROVE  IInv'
<1>1. consumer \in [Sequence -> Page]
  BY TypeParts DEF IInv
<1>2. /\ consumer' \in [Sequence -> Page] /\ consumer'[s] = p
      /\ \A t \in Sequence \ {s} : consumer'[t] = consumer[t]
  BY <1>1
<1>3. receipts' \subseteq Receipt /\ receipts' = receipts
  BY DEF IInv, TypeOK
<1>4. Quiet
  BY <1>2, <1>3 DEF Quiet
<1>5. \A t \in Sequence : \/ consumer'[t] = consumer[t]
                          \/ consumer'[t] = NoPage
                          \/ PageFits(t)'
  BY <1>2
<1>6. ASSUME NEW t \in 0..MaxTurn, NEW b \in Nat, NEW u \in Sequence,
             Named(t, b, u)'
      PROVE  Named(t, b, u)
  <2>1. UNCHANGED <<host, disk, receipts>>
    BY DEF books
  <2>2. CASE u = s
    BY <1>2, <1>6, <2>1, <2>2 DEF Named, Retained, Reading
  <2>3. CASE u # s
    BY <1>2, <1>6, <2>1, <2>3 DEF Named, Retained, Reading
  <2> QED
    BY <2>2, <2>3
<1> QED
  BY <1>4, <1>5, <1>6, QuietStep

\* A page is read.
LEMMA ReadStep ==
  ASSUME IInv, NEW s \in Sequence, Read(s)
  PROVE  IInv'
<1> DEFINE e == host.exec[s]
           upto == IF e.last - e.committed <= PageEvents THEN e.last
                   ELSE e.committed + PageEvents
           p == [turn |-> e.turn, by |-> e.by, committed |-> e.committed,
                 after |-> e.committed, upto |-> upto]
<1>1. /\ host.state = "up" /\ Retained(s) /\ e \in Execution /\ TypeOK
      /\ e.committed < e.last
      /\ consumer' = [consumer EXCEPT ![s] = p]
      /\ UNCHANGED <<books, mail, turns, dispatched, settled, receipts, faults>>
  BY TypeParts DEF Read, Serving, IInv
<1>2. /\ e.last \in Cursor /\ e.committed \in Cursor /\ PageEvents \in Nat
      /\ MaxEvents \in Nat /\ e.turn \in 0..MaxTurn /\ e.by \in Nat
  BY <1>1, TypeParts, ExecutionParts
<1>3. upto \in Cursor /\ e.committed <= upto
  BY <1>1, <1>2 DEF Cursor
<1>4. /\ p \in Page /\ p.turn = e.turn /\ p.by = e.by
      /\ p.committed = e.committed /\ p.after = e.committed /\ p.upto = upto
  <2> HIDE DEF upto, e
  <2> QED
    BY <1>2, <1>3 DEF Page
<1> HIDE DEF p, upto
<1>5. consumer'[s] = p
  BY <1>1, TypeParts
<1>6. PageFits(s)'
  <2>1. e.committed \in Nat /\ (e.committed + 1)..e.committed = {}
    BY <1>2 DEF Cursor
  <2>2. s < host.next /\ e.turn # 0
    BY <1>1, RetainedIsPresent DEF Retained
  <2>3. host' = host
    BY <1>1 DEF books
  <2> QED
    BY <1>3, <1>4, <1>5, <2>1, <2>2, <2>3 DEF PageFits, Retained
<1>7. mail' \subseteq Request /\ faults' \in 0..MaxFault /\ mail' = mail
  BY <1>1, TypeParts
<1> QED
  BY <1>1, <1>4, <1>6, <1>7, PageStep

\* The callback of one event.
LEMMA DeliverStep ==
  ASSUME IInv, NEW s \in Sequence, Deliver(s)
  PROVE  IInv'
<1> DEFINE p == consumer[s]
           q == [p EXCEPT !.after = @ + 1]
           d == [by |-> p.by, s |-> s, cursor |-> p.after + 1, turn |-> p.turn]
<1>1. /\ host.state \in {"up", "failed"} /\ p \in Page /\ TypeOK
      /\ p.after < p.upto
      /\ receipts' = receipts \cup {d}
      /\ consumer' = [consumer EXCEPT ![s] = q]
      /\ UNCHANGED <<books, mail, turns, dispatched, settled, faults>>
  BY TypeParts DEF Deliver, Owned, IInv
<1>2. /\ p.turn \in 0..MaxTurn /\ p.by \in Nat /\ p.committed \in Nat
      /\ p.after \in Nat /\ p.upto \in Nat /\ p.upto <= MaxEvents
      /\ p.after + 1 \in Cursor /\ MaxTurn \in Nat /\ MaxEvents \in Nat
  <2>1. p.turn \in 0..MaxTurn /\ p.by \in Nat /\ p.committed \in Cursor
        /\ p.after \in Cursor /\ p.upto \in Cursor
    BY <1>1 DEF Page
  <2> QED
    BY <1>1, <2>1, TypeParts DEF Cursor
<1>3. Reading(s) /\ PageFits(s)
  <2>1. p # NoPage
    BY <1>1 DEF NoPage
  <2> QED
    BY <2>1 DEF Reading, IInv, PagesFit
<1>4. q \in Page /\ q.turn = p.turn /\ q.by = p.by /\ q.committed = p.committed
      /\ q.after = p.after + 1 /\ q.upto = p.upto
  BY <1>1, <1>2 DEF Page
<1>5. d \in Receipt /\ d.turn = p.turn /\ d.by = p.by /\ d.s = s
      /\ d.cursor = p.after + 1
  BY <1>2, <1>3 DEF Receipt, PageFits
<1> HIDE DEF q, d
<1>6. /\ consumer' \in [Sequence -> Page] /\ consumer'[s] = q
      /\ \A t \in Sequence \ {s} : consumer'[t] = consumer[t]
  BY <1>1, <1>4, TypeParts
<1>7. Quiet
  <2>1. receipts' \subseteq Receipt /\ receipts \subseteq receipts'
    BY <1>1, <1>5 DEF TypeOK
  <2> QED
    BY <1>1, <1>6, <2>1, TypeParts DEF Quiet
<1>8. PageFits(s)'
  <2>1. ASSUME NEW k \in (q.committed + 1)..q.after
        PROVE  \E c \in receipts' : c.turn = q.turn /\ c.cursor = k
    <3>1. CASE k <= p.after
      <4>1. Delivered(p.turn, k)
        BY <1>2, <1>3, <1>4, <3>1 DEF PageFits
      <4> QED
        BY <1>1, <1>4, <4>1 DEF Delivered
    <3>2. CASE k = p.after + 1
      BY <1>1, <1>4, <1>5, <3>2 DEF Delivered
    <3> QED
      BY <1>2, <1>4, <3>1, <3>2
  <2>2. host' = host
    BY <1>1 DEF books
  <2> QED
    BY <1>1, <1>2, <1>3, <1>4, <1>6, <2>1, <2>2 DEF PageFits, Retained, Delivered
<1>9. \A t \in Sequence : \/ consumer'[t] = consumer[t]
                          \/ consumer'[t] = NoPage
                          \/ PageFits(t)'
  BY <1>6, <1>8
<1>10. ASSUME NEW t \in 0..MaxTurn, NEW b \in Nat, NEW u \in Sequence,
              Named(t, b, u)'
       PROVE  Named(t, b, u)
  <2>1. UNCHANGED <<host, disk>>
    BY <1>1 DEF books
  <2>2. CASE u = s
    <3>1. CASE p.turn = t /\ p.by = b
      BY <1>3, <2>2, <3>1 DEF Named
    <3>2. CASE ~(p.turn = t /\ p.by = b)
      BY <1>1, <1>4, <1>5, <1>6, <1>10, <2>1, <2>2, <3>2
         DEF Named, Retained, Reading
    <3> QED
      BY <3>1, <3>2
  <2>3. CASE u # s
    BY <1>1, <1>5, <1>6, <1>10, <2>1, <2>3 DEF Named, Retained, Reading
  <2> QED
    BY <2>2, <2>3
<1>11. \A r \in mail' : r \in mail
  BY <1>1
<1> QED
  BY <1>7, <1>9, <1>10, <1>11, QuietStep

\* The whole page is delivered, and its last event is what is to be committed.
LEMMA SendCommitStep ==
  ASSUME IInv, NEW s \in Sequence, SendCommit(s)
  PROVE  IInv'
<1> DEFINE p == consumer[s]
           r == [kind |-> "commit", s |-> s, job |-> NoJob,
                 expected |-> p.committed, after |-> p.upto]
<1>1. /\ Reading(s) /\ p.after = p.upto /\ PageFits(s) /\ TypeOK /\ p \in Page
      /\ mail' = mail \cup {r} /\ consumer' = [consumer EXCEPT ![s] = NoPage]
      /\ UNCHANGED <<books, turns, dispatched, settled, receipts, faults>>
  BY TypeParts DEF SendCommit, Post, IInv, PagesFit
<1>2. host.state \in {"up", "failed"}
  <2>1. consumer # NoPages
    BY <1>1 DEF Reading, NoPages
  <2> QED
    BY <2>1 DEF IInv, HostFits
<1>3. /\ r \in Request /\ r.kind = "commit" /\ r.s = s
      /\ r.expected = p.committed /\ r.after = p.after
  BY <1>1 DEF Request, Page
<1> HIDE DEF r
<1>4. host.state = "up" => Due(r)
  BY <1>1, <1>3 DEF Due, PageFits
<1>5. /\ \A q \in mail' : q \in mail \/ (host.state = "up" => Due(q))
      /\ mail' \subseteq Request /\ faults' \in 0..MaxFault
  BY <1>1, <1>3, <1>4, TypeParts
<1> QED
  BY <1>1, <1>2, <1>5, EmptyTypes, PageStep

\* The consumer gives up.
LEMMA StopReadingStep ==
  ASSUME IInv, NEW s \in Sequence, StopReading(s)
  PROVE  IInv'
<1>1. /\ Reading(s) /\ TypeOK /\ consumer' = [consumer EXCEPT ![s] = NoPage]
      /\ UNCHANGED <<books, mail, turns, dispatched, settled, receipts>>
      /\ faults' \in 0..MaxFault
  BY TypeParts DEF StopReading, Fault, IInv
<1>2. host.state \in {"up", "failed"}
  <2>1. consumer # NoPages
    BY <1>1 DEF Reading, NoPages
  <2> QED
    BY <2>1 DEF IInv, HostFits
<1>3. mail' \subseteq Request /\ mail' = mail
  BY <1>1, TypeParts
<1> QED
  BY <1>1, <1>2, <1>3, EmptyTypes, PageStep

\* An acknowledgement is sent.
LEMMA SendAckStep ==
  ASSUME IInv, NEW s \in Sequence, SendAck(s)
  PROVE  IInv'
<1> DEFINE r == [kind |-> "ack", s |-> s, job |-> NoJob, expected |-> 0,
                 after |-> host.exec[s].last]
<1>1. /\ host.state = "up" /\ Retained(s) /\ TypeOK /\ mail' = mail \cup {r}
      /\ UNCHANGED <<books, consumer, turns, dispatched, settled, receipts,
                     faults>>
  BY DEF SendAck, Serving, Post, IInv
<1>2. host.exec[s].last \in Cursor /\ 0 \in Cursor /\ s < host.next
  BY <1>1, TypeParts, ExecutionParts, RetainedIsPresent DEF Cursor
<1>3. r \in Request /\ r.kind = "ack" /\ r.s = s
  BY <1>2 DEF Request
<1> HIDE DEF r
<1>4. Due(r)
  BY <1>2, <1>3 DEF Due
<1>5. /\ \A q \in mail' : q \in mail \/ (host.state \in {"up", "failed"} /\ Due(q))
      /\ mail' \subseteq Request /\ faults' \in 0..MaxFault
  BY <1>1, <1>3, <1>4, TypeParts
<1> QED
  BY <1>1, <1>5, MailStep

\* A request is lost.
LEMMA LoseStep ==
  ASSUME IInv, NEW r \in mail, Lose(r)
  PROVE  IInv'
<1>1. /\ \A q \in mail' : q \in mail
      /\ mail' \subseteq Request /\ faults' \in 0..MaxFault
  BY TypeParts DEF Lose, Fault, IInv
<1> QED
  BY <1>1, MailStep DEF Lose

\* A successor controller takes over.
LEMMA ControllerReplacedStep ==
  ASSUME IInv, ControllerReplaced
  PROVE  IInv'
<1>1. /\ mail' = {} /\ consumer' = NoPages /\ TypeOK
      /\ UNCHANGED <<books, turns, dispatched, settled, receipts>>
      /\ faults' \in 0..MaxFault
  BY TypeParts DEF ControllerReplaced, Fault, IInv
<1>2. receipts \subseteq receipts' /\ receipts' \subseteq Receipt
  BY <1>1 DEF TypeOK
<1>3. Quiet
  BY <1>1, <1>2, EmptyTypes DEF Quiet
<1>4. \A s \in Sequence : consumer'[s] = NoPage
  BY <1>1 DEF NoPages
<1>5. \A t \in 0..MaxTurn, b \in Nat, s \in Sequence :
        Named(t, b, s)' => Named(t, b, s)
  BY <1>1, <1>4 DEF Named, Retained, Reading, books
<1> QED
  BY <1>1, <1>3, <1>4, <1>5, QuietStep

\* The cursor file, then the cursor, of events that have been delivered.
LEMMA ServeCommitStep ==
  ASSUME IInv, NEW r \in mail, ServeCommit(r)
  PROVE  IInv'
<1> DEFINE s == r.s
           e == host.exec[s]
           f == disk[s]
<1>1. /\ host.state = "up" /\ op = NoOp /\ r.kind = "commit" /\ Due(r)
      /\ r \in Request /\ s \in Sequence /\ TypeOK /\ mail' \subseteq mail
      /\ r.after \in Cursor /\ r.expected \in Cursor
      /\ UNCHANGED <<draft, consumer, turns, dispatched, settled, receipts>>
  BY TypeParts DEF ServeCommit, Serving, IInv, MailFits, Request
<1>2. CASE UNCHANGED <<host, disk, op, faults>>
  <2>1. /\ \A q \in mail' : q \in mail
        /\ mail' \subseteq Request /\ faults' \in 0..MaxFault
    BY <1>1, <1>2, TypeParts
  <2>2. UNCHANGED <<books, turns, dispatched, settled, consumer, receipts>>
    BY <1>1, <1>2 DEF books
  <2> QED
    BY <2>1, <2>2, MailStep
<1>3. CASE Committable(r) /\ Fault /\ FailJournal /\ UNCHANGED disk
  BY <1>1, <1>3, FailsHere DEF Committable
<1>4. ASSUME Committable(r),
             disk' = [disk EXCEPT ![r.s].cursor = r.after],
             host' = [host EXCEPT !.exec[r.s].committed = r.after],
             UNCHANGED <<op, faults>>
      PROVE  IInv'
  <2> DEFINE d == [e EXCEPT !.committed = r.after]
             g == [f EXCEPT !.cursor = r.after]
  <2>1. /\ Retained(s) /\ e \in Execution /\ f \in Files /\ Stands(e, f)
        /\ r.expected = e.committed
    BY <1>1, <1>4, RetainedIsPresent, TypeParts DEF Committable
  <2>2. /\ d \in Execution /\ d.turn = e.turn /\ d.job = e.job /\ d.by = e.by
        /\ d.last = e.last /\ d.committed = r.after /\ d.done = e.done
        /\ d.running = e.running /\ d.error = e.error
    BY <1>1, <2>1 DEF Execution
  <2>3. /\ g \in Files /\ g.turn = f.turn /\ g.job = f.job /\ g.by = f.by
        /\ g.admission = f.admission /\ g.journal = f.journal
        /\ g.cursor = r.after /\ g.events = f.events /\ g.terminal = f.terminal
        /\ g.terminalError = f.terminalError /\ g.done = f.done
        /\ g.error = f.error
    BY <1>1, <2>1 DEF Files
  <2>4. host' = [host EXCEPT !.exec[s] = d]
    BY <1>1, <1>4, TypeParts DEF Host
  <2>5. disk' = [disk EXCEPT ![s] = g]
    BY <1>1, <1>4, TypeParts
  <2> HIDE DEF d, g
  <2>6. /\ host' \in Host /\ host'.state = host.state
        /\ host'.id = host.id /\ host'.next = host.next
        /\ host'.incomplete = host.incomplete /\ host'.exec[s] = d
        /\ \A t \in Sequence \ {s} : host'.exec[t] = host.exec[t]
    BY <1>1, <2>2, <2>4, ExecWritten
  <2>7. /\ disk' \in [Sequence -> Files] /\ disk'[s] = g
        /\ \A t \in Sequence \ {s} : disk'[t] = disk[t]
    BY <1>1, <2>3, <2>5, FilesWritten
  <2>8. Touch(s)
    BY <1>1, <2>1, <2>2, <2>3, <2>6, <2>7 DEF Touch
  <2>9. Stands(d, g)
    BY <2>1, <2>2, <2>3 DEF Stands, Complete, ReplayError
  <2>10. op' \in Op /\ OpFits' /\ DispatchedOnce' /\ faults' \in 0..MaxFault
    BY <1>1, <1>4, NothingApplied, TypeParts DEF DispatchedOnce, IInv
  <2>11. g.journal => \A k \in 1..g.cursor :
                        k <= f.cursor \/ Delivered(f.turn, k)
    <3> SUFFICES ASSUME f.journal, NEW k \in 1..r.after, ~(k <= f.cursor)
                 PROVE  Delivered(f.turn, k)
      BY <2>3
    <3>1. f.cursor = r.expected /\ f.turn = e.turn
      BY <2>1 DEF Stands
    <3>2. r.after \in Nat /\ r.expected \in Nat
      BY <1>1 DEF Cursor
    <3>3. k \in (r.expected + 1)..r.after
      BY <3>1, <3>2
    <3> QED
      BY <1>1, <2>1, <3>1, <3>3 DEF Due
  <2> QED
    BY <1>1, <2>3, <2>6, <2>7, <2>8, <2>9, <2>10, <2>11, TouchStep
<1> QED
  BY <1>2, <1>3, <1>4 DEF ServeCommit

\* The journal of a turn that is over and committed is removed.
LEMMA ServeAckStep ==
  ASSUME IInv, NEW r \in mail, ServeAck(r)
  PROVE  IInv'
<1> DEFINE s == r.s
           e == host.exec[s]
           f == disk[s]
<1>1. /\ host.state = "up" /\ op = NoOp /\ r \in Request /\ s \in Sequence
      /\ TypeOK /\ mail' \subseteq mail
      /\ UNCHANGED <<host, draft, consumer, turns, dispatched, settled, receipts,
                     faults>>
  BY TypeParts DEF ServeAck, Serving, IInv, Request
<1>2. CASE UNCHANGED <<disk, op>>
  <2>1. /\ \A q \in mail' : q \in mail
        /\ mail' \subseteq Request /\ faults' \in 0..MaxFault
    BY <1>1, TypeParts
  <2>2. UNCHANGED <<books, turns, dispatched, settled, consumer, receipts>>
    BY <1>1, <1>2 DEF books
  <2> QED
    BY <2>1, <2>2, MailStep
<1>3. ASSUME Ackable(r),
             disk' = [disk EXCEPT ![r.s].journal = FALSE, ![r.s].events = 0,
                                  ![r.s].terminal = FALSE,
                                  ![r.s].terminalError = FALSE],
             op' = [NoOp EXCEPT !.at = "cursor", !.s = r.s]
      PROVE  IInv'
  <2> DEFINE g == [f EXCEPT !.journal = FALSE, !.events = 0, !.terminal = FALSE,
                            !.terminalError = FALSE]
  <2>1. /\ Retained(s) /\ e \in Execution /\ f \in Files /\ Stands(e, f)
        /\ e.done /\ 0 \in Cursor
    BY <1>1, <1>3, RetainedIsPresent, TypeParts DEF Ackable, Cursor
  <2>2. /\ g \in Files /\ g.turn = f.turn /\ g.job = f.job /\ g.by = f.by
        /\ g.admission = f.admission /\ ~g.journal
    BY <2>1 DEF Files
  <2>3. disk' = [disk EXCEPT ![s] = g]
    BY <1>1, <1>3, TypeParts
  <2> HIDE DEF g
  <2>4. /\ disk' \in [Sequence -> Files] /\ disk'[s] = g
        /\ \A t \in Sequence \ {s} : disk'[t] = disk[t]
    BY <1>1, <2>2, <2>3, FilesWritten
  <2>5. Touch(s)
    BY <1>1, <2>1, <2>2, <2>4, TypeParts DEF Touch
  <2>6. Stands(e, g)
    BY <2>1, <2>2 DEF Stands
  <2>7. op' \in Op /\ op'.at = "cursor" /\ op'.s = s
    <3>1. s \in Sequence
      BY <1>1
    <3> QED
      BY <1>3, <3>1, StartsApplying
  <2>8. OpFits'
    BY <1>1, <2>1, <2>2, <2>4, <2>5, <2>7, TouchKeepsRetained DEF OpFits, Early
  <2>9. DispatchedOnce' /\ faults' \in 0..MaxFault
    BY <1>1, TypeParts DEF DispatchedOnce, IInv
  <2> QED
    BY <1>1, <2>2, <2>4, <2>5, <2>6, <2>7, <2>8, <2>9, TouchStep
<1> QED
  BY <1>2, <1>3 DEF ServeAck

\* ... then its cursor,
LEMMA RemoveCursorStep ==
  ASSUME IInv, RemoveCursor
  PROVE  IInv'
<1> DEFINE s == op.s
           e == host.exec[s]
           f == disk[s]
<1>1. /\ s \in Sequence /\ Retained(s) /\ host.state = "up"
      /\ e \in Execution /\ f \in Files /\ Stands(e, f) /\ TypeOK
      /\ op.at = "cursor" /\ op \in Op
      /\ UNCHANGED <<draft, mail, consumer, turns, dispatched, settled, receipts>>
  BY Applying, TypeParts DEF RemoveCursor, IInv
<1>2. CASE Fault /\ FailJournal /\ UNCHANGED disk
  BY <1>1, <1>2, FailsHere
<1>3. ASSUME disk' = [disk EXCEPT ![op.s].cursor = 0],
             op' = [op EXCEPT !.at = "admission"],
             UNCHANGED <<host, faults>>
      PROVE  IInv'
  <2> DEFINE g == [f EXCEPT !.cursor = 0]
  <2>1. e.done /\ ~f.journal /\ 0 \in Cursor
    BY <1>1, TypeParts DEF OpFits, IInv, Cursor
  <2>2. /\ g \in Files /\ g.turn = f.turn /\ g.job = f.job /\ g.by = f.by
        /\ g.admission = f.admission /\ g.journal = f.journal
    BY <1>1, <2>1 DEF Files
  <2>3. disk' = [disk EXCEPT ![s] = g]
    BY <1>1, <1>3, TypeParts
  <2> HIDE DEF g
  <2>4. /\ disk' \in [Sequence -> Files] /\ disk'[s] = g
        /\ \A t \in Sequence \ {s} : disk'[t] = disk[t]
    BY <1>1, <2>2, <2>3, FilesWritten
  <2>5. Touch(s)
    BY <1>1, <1>3, <2>1, <2>2, <2>4, TypeParts DEF Touch
  <2>6. Stands(e, g)
    BY <1>1, <2>1, <2>2 DEF Stands
  <2>7. op' \in Op /\ op'.at = "admission" /\ op'.s = s
    BY <1>1, <1>3 DEF Op
  <2>8. OpFits'
    BY <1>1, <1>3, <2>1, <2>2, <2>4, <2>5, <2>7, TouchKeepsRetained
       DEF OpFits, Early
  <2>9. DispatchedOnce' /\ faults' \in 0..MaxFault
    BY <1>1, <1>3, TypeParts DEF DispatchedOnce, IInv
  <2> QED
    BY <1>1, <1>3, <2>1, <2>2, <2>4, <2>5, <2>6, <2>7, <2>8, <2>9, TouchStep
<1> QED
  BY <1>1, <1>2, <1>3 DEF RemoveCursor

\* ... and its admission last.
LEMMA RemoveAdmissionStep ==
  ASSUME IInv, RemoveAdmission
  PROVE  IInv'
<1> DEFINE s == op.s
           e == host.exec[s]
<1>1. /\ s \in Sequence /\ Retained(s) /\ host.state = "up"
      /\ e \in Execution /\ Stands(e, disk[s]) /\ TypeOK
      /\ op.at = "admission" /\ op \in Op
      /\ UNCHANGED <<draft, mail, consumer, turns, dispatched, receipts>>
  BY Applying, TypeParts DEF RemoveAdmission, IInv
<1>2. CASE Fault /\ FailJournal /\ UNCHANGED <<disk, settled>>
  BY <1>1, <1>2, FailsHere
<1>3. ASSUME disk' = [disk EXCEPT ![op.s] = NoFiles],
             settled' = settled \cup {host.exec[op.s].job},
             host' = [host EXCEPT !.exec[op.s] = NoExecution],
             op' = NoOp, UNCHANGED faults
      PROVE  IInv'
  <2>1. /\ host' \in Host /\ host'.state = host.state
        /\ host'.id = host.id /\ host'.next = host.next
        /\ host'.incomplete = host.incomplete /\ host'.exec[s] = NoExecution
        /\ \A t \in Sequence \ {s} : host'.exec[t] = host.exec[t]
    BY <1>1, <1>3, EmptyTypes, ExecWritten
  <2>2. /\ disk' \in [Sequence -> Files] /\ disk'[s] = NoFiles
        /\ \A t \in Sequence \ {s} : disk'[t] = disk[t]
    BY <1>1, <1>3, EmptyTypes, FilesWritten
  <2>3. \A t \in Sequence : Retained(t)' <=> Retained(t) /\ t # s
    BY <2>1 DEF Retained, NoExecution
  <2>4. \A t \in Sequence : Present(disk'[t]) <=> Present(disk[t]) /\ t # s
    BY <2>2, PresentFacts
  <2>5. settled' \subseteq Job /\ e.job \in settled' /\ settled \subseteq settled'
    BY <1>1, <1>3, TypeParts DEF Stands
  <2>6. TypeOK' /\ OpFits'
    BY <1>1, <1>3, <2>1, <2>2, <2>5, NothingApplied, TypeParts DEF TypeOK
  <2>7. HostFits' /\ FilesFit'
    <3>1. HostFits /\ FilesFit /\ NoExecution.running = FALSE
          /\ NoFiles.admission = FALSE
      BY DEF IInv, NoExecution, NoFiles
    <3>2. HostFits'
      BY <1>1, <2>1, <2>3, <3>1 DEF HostFits
    <3>3. FilesFit'
      BY <2>2, <2>4, <3>1 DEF FilesFit
    <3> QED
      BY <3>2, <3>3
  <2>8. host'.state = "up"
    BY <1>1, <2>1
  <2>9. Backed'
    <3> SUFFICES ASSUME NEW t \in Sequence, Retained(t)'
                 PROVE  Stands(host'.exec[t], disk'[t])
      BY <2>8 DEF Backed, Held
    <3>1. Stands(host.exec[t], disk[t]) /\ t # s
      BY <1>1, <2>3, RetainedIsPresent
    <3> QED
      BY <2>1, <2>2, <3>1
  <2>10. RoomFits'
    <3>1. Unfinished' = Unfinished
      BY <1>1, <2>1, <2>3, <2>4 DEF Unfinished, Held
    <3>2. RoomFits /\ Alive
      BY <1>1 DEF IInv, Alive
    <3> QED
      BY <1>1, <2>1, <2>4, <3>1, <3>2 DEF RoomFits, Alive, Held
  <2>11. MailFits'
    <3> SUFFICES ASSUME NEW r \in mail PROVE Due(r)'
      BY <1>1 DEF MailFits
    <3>1. Due(r) /\ r.s \in Sequence
      BY <1>1, TypeParts DEF IInv, MailFits, Request
    <3>2. r.kind = "send" => Due(r)'
      BY <1>1, <1>3, <2>1, <2>3, <3>1 DEF Due
    <3>3. r.kind # "send" => Due(r)'
      BY <1>1, <2>1, <2>3, <3>1 DEF Due, Delivered
    <3> QED
      BY <3>2, <3>3
  <2>12. PagesFit'
    <3> SUFFICES ASSUME NEW t \in Sequence, Reading(t) PROVE PageFits(t)'
      BY <1>1 DEF PagesFit, Reading
    <3>1. PageFits(t)
      BY DEF IInv, PagesFit
    <3> QED
      BY <1>1, <2>1, <2>3, <3>1 DEF PageFits, Delivered
  <2>13. NamesFit'
    <3>1. ASSUME NEW t \in 0..MaxTurn, NEW b \in Nat, NEW u \in Sequence,
                 Named(t, b, u)'
          PROVE  Named(t, b, u)
      <4>1. CASE u = s
        BY <1>1, <2>1, <2>2, <2>3, <3>1, <4>1 DEF Named, Reading, NoFiles
      <4>2. CASE u # s
        BY <1>1, <2>1, <2>2, <2>3, <3>1, <4>2 DEF Named, Reading
      <4> QED
        BY <4>1, <4>2
    <3> QED
      BY <1>1, <2>1, <3>1, TypeParts, NamesStay DEF IInv
  <2>14. DispatchedFits'
    <3> SUFFICES ASSUME NEW d \in dispatched PROVE Accounted(d)'
      BY <1>1 DEF DispatchedFits
    <3>1. Accounted(d)
      BY DEF IInv, DispatchedFits
    <3> QED
      BY <1>1, <2>1, <2>3, <2>5, <3>1 DEF Accounted
  <2>15. DispatchedOnce' /\ ReplayFits'
    BY <1>1, <2>4, RoomForReplay DEF IInv, DispatchedOnce
  <2>16. DeliveredBeforeCommitted'
    <3>1. NoFiles.journal = FALSE
      BY DEF NoFiles
    <3> QED
      BY <1>1, <2>2, <3>1 DEF IInv, DeliveredBeforeCommitted
  <2> QED
    BY <2>6, <2>7, <2>9, <2>10, <2>11, <2>12, <2>13, <2>14, <2>15, <2>16
       DEF IInv
<1> QED
  BY <1>1, <1>2, <1>3 DEF RemoveAdmission

-----------------------------------------------------------------------------
(* Admission. *)

\* The sets of executions that are kept and that nobody finishes are what room is
\* counted by.
LEMMA RoomForOneMore ==
  ASSUME IInv, host.state = "up", Count + host.incomplete < MaxExecutions,
         NEW s \in Sequence,
         \A t \in Sequence \ {s} : disk'[t] = disk[t]
  PROVE  ReplayFits'
<1> DEFINE kept == {t \in Sequence : Retained(t)}
           held == {t \in Sequence : Present(disk[t])}
           next == {t \in Sequence : Present(disk'[t])}
<1>1. /\ TypeOK /\ kept \in SUBSET Sequence /\ Unfinished \in SUBSET Sequence
      /\ held \in SUBSET Sequence /\ next \in SUBSET Sequence
  BY DEF IInv, Unfinished
<1>2. /\ IsFiniteSet(kept) /\ IsFiniteSet(Unfinished)
      /\ IsFiniteSet(held) /\ IsFiniteSet(next)
      /\ Cardinality(kept) \in Nat /\ Cardinality(Unfinished) \in Nat
      /\ Cardinality(held) \in Nat /\ Cardinality(next) \in Nat
      /\ Cardinality(kept \cap Unfinished) \in Nat
  BY <1>1, FiniteSequences
<1>3. next \subseteq (kept \cup Unfinished) \cup {s}
  BY DEF Unfinished, Held
<1>4. /\ IsFiniteSet(kept \cup Unfinished)
      /\ Cardinality(kept \cup Unfinished) =
           Cardinality(kept) + Cardinality(Unfinished)
             - Cardinality(kept \cap Unfinished)
  BY <1>2, FS_Union
<1>5. Count = Cardinality(kept) /\ host.incomplete = Cardinality(Unfinished)
  BY DEF Count, IInv, RoomFits, Alive
<1> HIDE DEF kept, held, next
<1>6. /\ Cardinality(kept \cup Unfinished) \in Nat
      /\ Cardinality(kept \cup Unfinished) < MaxExecutions
  <2>1. Cardinality(kept \cup Unfinished) \in Nat
    BY <1>4, FS_CardinalityType
  <2> QED
    BY <1>1, <1>2, <1>4, <1>5, <2>1, TypeParts
<1>7. /\ IsFiniteSet((kept \cup Unfinished) \cup {s})
      /\ Cardinality((kept \cup Unfinished) \cup {s})
           \in {Cardinality(kept \cup Unfinished),
                Cardinality(kept \cup Unfinished) + 1}
  BY <1>4, FS_AddElement
<1>8. Cardinality(next) <= Cardinality((kept \cup Unfinished) \cup {s})
  BY <1>3, <1>7, FS_Subset
<1>9. Cardinality(next) <= MaxExecutions
  BY <1>1, <1>2, <1>6, <1>7, <1>8, TypeParts
<1> QED
  BY <1>9 DEF ReplayFits, next

\* A send is answered: with an admission, or without one.
LEMMA ServeSendStep ==
  ASSUME IInv, NEW r \in mail, ServeSend(r)
  PROVE  IInv'
<1> DEFINE s == r.s
           e == [NoExecution EXCEPT !.turn = turns + 1, !.job = r.job,
                                    !.by = host.id]
           f == [NoFiles EXCEPT !.journal = TRUE, !.turn = turns + 1]
<1>1. /\ host.state = "up" /\ op = NoOp /\ r.kind = "send" /\ Due(r)
      /\ r \in Request /\ s \in Sequence /\ TypeOK /\ mail' \subseteq mail
      /\ faults' \in 0..MaxFault
      /\ UNCHANGED <<draft, consumer, dispatched, settled, receipts>>
  BY TypeParts DEF ServeSend, Serving, Fault, IInv, MailFits, Request
<1>2. CASE UNCHANGED <<host, disk, op, turns>>
  <2>1. /\ \A q \in mail' : q \in mail
        /\ mail' \subseteq Request
    BY <1>1, <1>2, TypeParts
  <2>2. UNCHANGED <<books, turns, dispatched, settled, consumer, receipts>>
    BY <1>1, <1>2 DEF books
  <2> QED
    BY <1>1, <2>1, <2>2, MailStep
<1>3. ASSUME Admissible(r), turns < MaxTurn, turns' = turns + 1,
             host' = [host EXCEPT !.next = r.s + 1, !.exec[r.s] = e],
             disk' = [disk EXCEPT ![r.s] = f],
             op' = [NoOp EXCEPT !.at = "checkpoint", !.s = r.s]
      PROVE  IInv'
  <2>1. /\ r.job \in Job /\ s = host.next /\ r.job \notin settled
        /\ \A t \in Sequence : Retained(t) => host.exec[t].job # r.job
        /\ Count + host.incomplete < MaxExecutions
    BY <1>1, <1>3 DEF Due, Admissible
  <2>2. turns \in Nat /\ MaxTurn \in Nat /\ host.id \in Nat
        /\ turns + 1 \in 0..MaxTurn /\ turns + 1 # 0
    BY <1>1, <1>3, TypeParts
  <2>3. /\ e \in Execution /\ e.turn = turns + 1 /\ e.job = r.job
        /\ e.by = host.id /\ e.last = 0 /\ e.committed = 0
        /\ ~e.done /\ ~e.error /\ ~e.running
    BY <2>1, <2>2, EmptyTypes DEF NoExecution, Execution
  <2>4. /\ f \in Files /\ f.turn = turns + 1 /\ f.journal /\ f.events = 0
        /\ f.cursor = 0 /\ ~f.terminal /\ ~f.terminalError /\ ~f.admission
        /\ ~f.done
    BY <2>2, EmptyTypes DEF NoFiles, Files
  <2> HIDE DEF e, f
  <2>5. /\ host' \in Host /\ host'.state = "up"
        /\ host'.id = host.id /\ host'.next = s + 1
        /\ host'.incomplete = host.incomplete /\ host'.exec[s] = e
        /\ \A t \in Sequence \ {s} : host'.exec[t] = host.exec[t]
    <3>1. s + 1 \in Nat \ {0}
      BY <1>1 DEF Sequence
    <3> QED
      BY <1>1, <1>3, <2>3, <3>1, TypeParts DEF Host
  <2>6. /\ disk' \in [Sequence -> Files] /\ disk'[s] = f
        /\ \A t \in Sequence \ {s} : disk'[t] = disk[t]
    BY <1>1, <1>3, <2>4, FilesWritten
  <2>7. op' \in Op /\ op'.at = "checkpoint" /\ op'.s = s
    <3>1. s \in Sequence
      BY <1>1
    <3> QED
      BY <1>3, <3>1, StartsApplying
  <2>8. ~Retained(s) /\ ~Present(disk[s]) /\ host.next \in Nat
    BY <1>1, <2>1, RetainedIsPresent, TypeParts
       DEF IInv, RoomFits, Alive, Held
  <2>9. \A t \in Sequence : Retained(t)' <=> Retained(t) \/ t = s
    BY <2>2, <2>3, <2>5, <2>8 DEF Retained
  <2>10. TypeOK'
    BY <1>1, <1>3, <2>2, <2>5, <2>6, <2>7 DEF TypeOK
  <2>11. HostFits' /\ FilesFit'
    <3>1. HostFits'
      BY <1>1, <2>3, <2>5, <2>9 DEF IInv, HostFits
    <3>2. FilesFit'
      BY <2>2, <2>4, <2>6 DEF IInv, FilesFit
    <3> QED
      BY <3>1, <3>2
  <2>12. Backed'
    <3> SUFFICES ASSUME NEW t \in Sequence, Retained(t)'
                 PROVE  Stands(host'.exec[t], disk'[t])
      BY <2>5 DEF Backed, Held
    <3>1. CASE t = s
      BY <2>1, <2>3, <2>4, <2>5, <2>6, <3>1 DEF Stands
    <3>2. CASE t # s
      BY <1>1, <2>5, <2>6, <2>9, <3>2, RetainedIsPresent
    <3> QED
      BY <3>1, <3>2
  <2>13. RoomFits'
    <3>1. \A t \in Sequence : t # s => Present(disk'[t]) = Present(disk[t])
      BY <2>6
    <3>2. Unfinished' = Unfinished
      BY <1>1, <2>5, <2>8, <2>9, <3>1 DEF Unfinished, Held
    <3>3. RoomFits /\ Alive
      BY <1>1 DEF IInv, Alive
    <3>4. \A t \in Sequence : Present(disk'[t]) => t < s + 1
      <4> SUFFICES ASSUME NEW t \in Sequence, Present(disk'[t]) PROVE t < s + 1
        OBVIOUS
      <4>1. t = s \/ t < host.next
        BY <1>1, <3>1, <3>3 DEF RoomFits, Held
      <4>2. t \in Nat
        BY <2>2 DEF Sequence
      <4> QED
        BY <2>1, <2>8, <4>1, <4>2
    <3> QED
      BY <2>5, <3>2, <3>3, <3>4 DEF RoomFits, Alive, Held
  <2>14. OpFits'
    BY <1>1, <2>1, <2>3, <2>4, <2>5, <2>6, <2>7, <2>9 DEF OpFits, Early
  <2>15. MailFits'
    <3> SUFFICES ASSUME NEW q \in mail PROVE Due(q)'
      BY <1>1 DEF MailFits
    <3>1. Due(q) /\ q.s \in Sequence /\ q.s \in Nat
      BY <1>1, <2>2, TypeParts DEF IInv, MailFits, Request, Sequence
    <3>2. q.kind = "send" => Due(q)'
      BY <1>1, <2>1, <2>5, <2>8, <3>1 DEF Due
    <3>3. q.kind # "send" => Due(q)'
      BY <1>1, <2>1, <2>5, <2>8, <2>9, <3>1 DEF Due, Delivered
    <3> QED
      BY <3>2, <3>3
  <2>16. PagesFit'
    <3> SUFFICES ASSUME NEW t \in Sequence, Reading(t) PROVE PageFits(t)'
      BY <1>1 DEF PagesFit, Reading
    <3>1. PageFits(t) /\ t \in Nat /\ t # s
      BY <1>1, <2>1, <2>2, <2>8 DEF IInv, PagesFit, PageFits, Sequence
    <3> QED
      BY <1>1, <2>1, <2>5, <2>8, <2>9, <3>1 DEF PageFits, Delivered
  <2>17. NamesFit'
    <3>1. ASSUME NEW t \in 0..MaxTurn, NEW b \in Nat, NEW u \in Sequence,
                 Named(t, b, u)'
          PROVE  Named(t, b, u) \/ (t = turns + 1 /\ b = host.id /\ u = s)
      <4>1. CASE u = s
        BY <1>1, <2>3, <2>4, <2>5, <2>6, <3>1, <4>1 DEF Named, Reading
      <4>2. CASE u # s
        BY <1>1, <2>5, <2>6, <2>9, <3>1, <4>2 DEF Named, Reading
      <4> QED
        BY <4>1, <4>2
    <3>2. \A t \in 0..MaxTurn, b \in Nat, u \in Sequence :
            Named(t, b, u) => /\ OldName(t, b, u)
                              /\ t # turns + 1 /\ ~(b = host.id /\ u = s)
      BY <1>1, <2>1, <2>2, <2>8 DEF IInv, NamesFit, OldName
    <3>3. \A t \in 0..MaxTurn, b \in Nat, u \in Sequence :
            OldName(t, b, u) => OldName(t, b, u)'
      <4> SUFFICES ASSUME NEW t \in 0..MaxTurn, NEW b \in Nat,
                          NEW u \in Sequence, OldName(t, b, u)
                   PROVE  OldName(t, b, u)'
        OBVIOUS
      <4>1. u \in Nat
        BY <2>2 DEF Sequence
      <4> QED
        BY <1>1, <1>3, <2>1, <2>2, <2>5, <2>8, <4>1 DEF OldName
    <3>4. \A t, u \in 0..MaxTurn, b, c \in Nat, v, w \in Sequence :
            Named(t, b, v)' /\ Named(u, c, w)' => (t = u <=> b = c /\ v = w)
      <4> SUFFICES ASSUME NEW t \in 0..MaxTurn, NEW u \in 0..MaxTurn,
                          NEW b \in Nat, NEW c \in Nat,
                          NEW v \in Sequence, NEW w \in Sequence,
                          Named(t, b, v)', Named(u, c, w)'
                   PROVE  t = u <=> b = c /\ v = w
        OBVIOUS
      <4>1. CASE Named(t, b, v) /\ Named(u, c, w)
        BY <4>1 DEF IInv, NamesFit
      <4>2. CASE ~Named(t, b, v)
        <5>1. t = turns + 1 /\ b = host.id /\ v = s
          BY <3>1, <4>2
        <5>2. Named(u, c, w) \/ (u = turns + 1 /\ c = host.id /\ w = s)
          BY <3>1
        <5> QED
          BY <3>2, <5>1, <5>2
      <4>3. CASE ~Named(u, c, w)
        <5>1. u = turns + 1 /\ c = host.id /\ w = s
          BY <3>1, <4>3
        <5>2. Named(t, b, v) \/ (t = turns + 1 /\ b = host.id /\ v = s)
          BY <3>1
        <5> QED
          BY <3>2, <5>1, <5>2
      <4> QED
        BY <4>1, <4>2, <4>3
    <3>5. \A t \in 0..MaxTurn, b \in Nat, u \in Sequence :
            Named(t, b, u)' => OldName(t, b, u)'
      <4> SUFFICES ASSUME NEW t \in 0..MaxTurn, NEW b \in Nat,
                          NEW u \in Sequence, Named(t, b, u)'
                   PROVE  OldName(t, b, u)'
        OBVIOUS
      <4>1. CASE Named(t, b, u)
        BY <3>2, <3>3, <4>1
      <4>2. CASE ~Named(t, b, u)
        <5>1. t = turns + 1 /\ b = host.id /\ u = s
          BY <3>1, <4>2
        <5> QED
          BY <1>3, <2>1, <2>2, <2>5, <2>8, <5>1 DEF OldName
      <4> QED
        BY <4>1, <4>2
    <3> QED
      BY <3>4, <3>5 DEF NamesFit
  <2>18. DispatchedFits' /\ DispatchedOnce'
    <3>1. DispatchedOnce'
      BY <1>1 DEF IInv, DispatchedOnce
    <3>2. ASSUME NEW d \in dispatched PROVE Accounted(d)'
      <4>1. Accounted(d)
        BY DEF IInv, DispatchedFits
      <4> QED
        BY <1>1, <2>5, <2>8, <2>9, <4>1 DEF Accounted
    <3> QED
      BY <1>1, <3>1, <3>2 DEF DispatchedFits
  <2>19. ReplayFits'
    BY <1>1, <2>1, <2>6, RoomForOneMore
  <2>20. DeliveredBeforeCommitted'
    <3> SUFFICES ASSUME NEW t \in Sequence, NEW k \in 1..disk'[t].cursor,
                        disk'[t].journal
                 PROVE  \E d \in receipts : d.turn = disk'[t].turn /\ d.cursor = k
      BY <1>1 DEF DeliveredBeforeCommitted
    <3>1. t # s
      BY <2>4, <2>6
    <3> QED
      BY <2>6, <3>1 DEF IInv, DeliveredBeforeCommitted
  <2> QED
    BY <2>10, <2>11, <2>12, <2>13, <2>14, <2>15, <2>16, <2>17, <2>18, <2>19,
       <2>20 DEF IInv
<1> QED
  BY <1>2, <1>3 DEF ServeSend

-----------------------------------------------------------------------------
(* The life of the process. *)

\* A step after which no worker knows anything: its predecessor's files stay, or
\* the whole directory goes.
LEMMA UnbornStep ==
  ASSUME IInv, host' \in Host, host'.state \in {"down", "copying"},
         host'.id = host.id, host'.exec = NoExecutions,
         draft' \in [Sequence -> Files], op' \in Op, op'.at = "none",
         mail' = {}, consumer' = NoPages, disk' = disk \/ disk' = Empty,
         UNCHANGED <<turns, dispatched, settled, receipts>>,
         faults' \in 0..MaxFault
  PROVE  IInv'
<1>1. TypeOK /\ NoFiles.admission = FALSE /\ NoFiles.journal = FALSE
      /\ NoExecution.turn = 0 /\ NoExecution.running = FALSE
  BY DEF IInv, NoFiles, NoExecution
<1>2. \A s \in Sequence :
        /\ host'.exec[s] = NoExecution /\ ~Retained(s)'
        /\ consumer'[s] = NoPage /\ ~Reading(s)'
        /\ disk'[s] = disk[s] \/ disk'[s] = NoFiles
  BY <1>1 DEF NoExecutions, Retained, NoPages, Reading, Empty
<1>3. TypeOK'
  BY <1>1, EmptyTypes, TypeParts DEF TypeOK
<1>4. HostFits' /\ OpFits' /\ Backed' /\ RoomFits' /\ MailFits' /\ PagesFit'
  BY <1>1, <1>2
     DEF HostFits, OpFits, Backed, RoomFits, MailFits, PagesFit, Alive
<1>5. FilesFit'
  BY <1>1, <1>2, PresentFacts DEF IInv, FilesFit
<1>6. NamesFit'
  <2>1. \A t \in 0..MaxTurn, b \in Nat, s \in Sequence :
          Named(t, b, s)' => Named(t, b, s)
    BY <1>1, <1>2 DEF Named
  <2> QED
    BY <1>1, <2>1, TypeParts, NamesStay DEF IInv
<1>7. DispatchedFits' /\ DispatchedOnce'
  BY DEF IInv, DispatchedFits, Accounted, DispatchedOnce
<1>8. ReplayFits'
  BY <1>1, <1>2, PresentFacts, RoomForReplay DEF IInv
<1>9. DeliveredBeforeCommitted'
  BY <1>1, <1>2 DEF IInv, DeliveredBeforeCommitted
<1> QED
  BY <1>3, <1>4, <1>5, <1>6, <1>7, <1>8, <1>9 DEF IInv

\* The process is gone, in one way or another.
LEMMA HostGoneStep ==
  ASSUME IInv, HostGone, disk' = disk \/ disk' = Empty,
         UNCHANGED <<turns, dispatched, settled, receipts>>,
         faults' \in 0..MaxFault
  PROVE  IInv'
<1>1. /\ host' \in Host /\ host'.state = "down" /\ host'.id = host.id
      /\ host'.exec = NoExecutions
  <2>1. host \in Host /\ NoExecutions \in [Sequence -> Execution]
    BY TypeParts, EmptyTypes DEF IInv
  <2>2. host' = [host EXCEPT !.state = "down", !.next = 1, !.incomplete = 0,
                             !.exec = NoExecutions]
    BY DEF HostGone
  <2>3. host' = [state |-> "down", id |-> host.id, next |-> 1,
                 incomplete |-> 0, exec |-> NoExecutions]
    BY <2>1, <2>2 DEF Host
  <2>4. host.id \in Nat
    BY <2>1 DEF Host
  <2> QED
    BY <2>1, <2>3, <2>4 DEF Host
<1> QED
  BY <1>1, EmptyTypes, UnbornStep DEF HostGone

\* A successor starts, and copies its predecessor's files.
LEMMA CopyingStep ==
  ASSUME IInv, Start \/ \E s \in Sequence : Copy(s)
  PROVE  IInv'
<1>1. /\ TypeOK /\ host \in Host /\ host.state \in {"down", "copying"}
      /\ host.exec = NoExecutions
      /\ mail = {} /\ consumer = NoPages /\ op \in Op /\ op.at = "none"
      /\ UNCHANGED <<disk, op, mail, consumer, turns, dispatched, settled,
                     receipts, faults>>
  BY TypeParts DEF Start, Copy, IInv, HostFits, OpFits
<1>2. /\ host' \in Host /\ host'.state = "copying" /\ host'.id = host.id
      /\ host'.exec = host.exec
  BY <1>1 DEF Start, Copy, Host
<1>3. draft' \in [Sequence -> Files]
  BY <1>1, TypeParts DEF Start, Copy
<1> QED
  BY <1>1, <1>2, <1>3, TypeParts, UnbornStep

\* There is a next sequence: one more than any that is on disk.
LEMMA NextSequence ==
  ASSUME TypeOK, NEW P \in SUBSET Sequence
  PROVE  \E n \in 1..(MaxTurn + 1) : /\ \A s \in P : s < n
                                     /\ n = 1 \/ (n - 1) \in P
<1> DEFINE bounds == {n \in 1..(MaxTurn + 1) : \A s \in P : s < n}
<1>1. MaxTurn \in Nat /\ bounds \in SUBSET Nat
  BY TypeParts
<1>2. MaxTurn + 1 \in bounds
  BY <1>1 DEF Sequence
<1>3. PICK n \in bounds : \A m \in bounds : n <= m
  BY <1>1, <1>2, Least
<1>4. n \in 1..(MaxTurn + 1) /\ \A s \in P : s < n
  OBVIOUS
<1>5. ASSUME n # 1
      PROVE  (n - 1) \in P
  <2>1. n - 1 \in 1..(MaxTurn + 1) /\ n - 1 < n
    BY <1>1, <1>4, <1>5
  <2>2. n - 1 \notin bounds
    BY <1>1, <1>3, <1>4, <2>1
  <2>3. PICK s \in P : ~(s < n - 1)
    BY <2>1, <2>2
  <2>4. s \in Nat /\ s < n
    BY <1>1, <1>4 DEF Sequence
  <2>5. s = n - 1
    BY <1>1, <1>4, <2>3, <2>4
  <2> QED
    BY <2>5
<1> QED
  BY <1>4, <1>5

\* What recoverPrevious writes has the copy's turn, cursor and name.
LEMMA CompletedParts ==
  ASSUME NEW f \in Files
  PROVE  /\ Completed(f) \in Files
         /\ Completed(f).turn = f.turn /\ Completed(f).job = f.job
         /\ Completed(f).by = f.by /\ Completed(f).admission = f.admission
         /\ Completed(f).journal = f.journal /\ Completed(f).cursor = f.cursor
         /\ Completed(f).events = f.events
         /\ Completed(f).terminal = f.terminal
         /\ Completed(f).terminalError = f.terminalError
         /\ Present(f) /\ Complete(f) =>
              /\ Completed(f).done
              /\ Completed(f).error = ReplayError(f)
         /\ ~(Present(f) /\ Complete(f)) => Completed(f) = f
BY FilesParts DEF Completed, ReplayError, Files

\* What a successor makes of files that it accepts stands for them.
LEMMA ReplayStands ==
  ASSUME NEW f \in Files
  PROVE  /\ Replay(f) \in Execution /\ ~Replay(f).running
         /\ Replay(f).turn = IF Present(f) /\ Complete(f) THEN f.turn ELSE 0
         /\ Present(f) /\ Complete(f) /\ f.journal /\ f.job \in Job =>
              Stands(Replay(f), Completed(f)) /\ Replay(f).by = f.by
<1>1. CASE ~(Present(f) /\ Complete(f))
  BY <1>1, EmptyTypes DEF Replay, NoExecution
<1>2. CASE Present(f) /\ Complete(f)
  <2> DEFINE e == [NoExecution EXCEPT !.turn = f.turn, !.job = f.job, !.by = f.by,
                                      !.last = f.events, !.committed = f.cursor,
                                      !.done = TRUE, !.error = ReplayError(f)]
  <2>1. Replay(f) = e
    BY <1>2 DEF Replay
  <2>2. ReplayError(f) \in BOOLEAN
    BY FilesParts DEF ReplayError
  <2>3. /\ e \in Execution /\ e.turn = f.turn /\ e.job = f.job /\ e.by = f.by
        /\ e.last = f.events /\ e.committed = f.cursor /\ e.done
        /\ e.error = ReplayError(f) /\ ~e.running
    BY <2>2, FilesParts, EmptyTypes DEF Execution, NoExecution
  <2> HIDE DEF e
  <2>4. Complete(Completed(f))
    BY <1>2, CompletedParts, FilesParts DEF Complete, ReplayError
  <2>5. ReplayError(Completed(f)) = ReplayError(f)
    BY <1>2, CompletedParts DEF ReplayError
  <2> QED
    BY <1>2, <2>1, <2>3, <2>4, <2>5, CompletedParts DEF Stands
<1> QED
  BY <1>1, <1>2

\* The copy is read, and the worker has what its predecessor left.
LEMMA RecoverStep ==
  ASSUME IInv, Recover
  PROVE  IInv'
<1> DEFINE left == {s \in Sequence : Present(draft[s])}
           next == CHOOSE n \in 1..(MaxTurn + 1) :
                     /\ \A s \in Sequence : Present(draft[s]) => s < n
                     /\ n = 1 \/ Present(draft[n - 1])
           room == Cardinality(Incomplete(draft))
           exec == [s \in Sequence |-> Replay(draft[s])]
           copy == [s \in Sequence |-> Completed(draft[s])]
<1>1. /\ TypeOK /\ host \in Host /\ host.state = "copying"
      /\ host.exec = NoExecutions /\ draft = disk
      /\ mail = {} /\ consumer = NoPages /\ op \in Op /\ op.at = "none"
      /\ UNCHANGED <<disk, op, mail, consumer, turns, dispatched, settled,
                     receipts, faults>>
  BY TypeParts DEF Recover, IInv, HostFits, OpFits
<1>2. CASE host' = [host EXCEPT !.state = "down"] /\ draft' = Empty
  <2>1. /\ host' \in Host /\ host'.state = "down" /\ host'.id = host.id
        /\ host'.exec = host.exec
    BY <1>1, <1>2 DEF Host
  <2> QED
    BY <1>1, <1>2, <2>1, EmptyTypes, TypeParts, UnbornStep
<1>3. ASSUME CompleteCopy(draft),
             host' = [host EXCEPT !.state = "recovered", !.next = next,
                                  !.incomplete = room, !.exec = exec],
             draft' = copy
      PROVE  IInv'
  <2>1. \A s \in Sequence : draft[s] \in Files /\ disk[s] \in Files
    BY <1>1, TypeParts
  <2>2. /\ next \in Nat \ {0}
        /\ \A s \in Sequence : Present(draft[s]) => s < next
    <3>1. \E n \in 1..(MaxTurn + 1) :
            /\ \A s \in Sequence : Present(draft[s]) => s < n
            /\ n = 1 \/ Present(draft[n - 1])
      <4>1. left \in SUBSET Sequence
        OBVIOUS
      <4>2. PICK n \in 1..(MaxTurn + 1) : /\ \A s \in left : s < n
                                          /\ n = 1 \/ (n - 1) \in left
        BY <1>1, <4>1, NextSequence
      <4> QED
        BY <4>2
    <3>2. /\ next \in 1..(MaxTurn + 1)
          /\ \A s \in Sequence : Present(draft[s]) => s < next
      BY <3>1
    <3> HIDE DEF next
    <3> QED
      BY <1>1, <3>2, TypeParts
  <2>3. room \in Nat
    BY <1>1, FiniteSequences DEF Incomplete
  <2>4. exec \in [Sequence -> Execution] /\ copy \in [Sequence -> Files]
    BY <2>1, ReplayStands, CompletedParts
  <2> HIDE DEF next, room
  <2>5. /\ host' \in Host /\ host'.state = "recovered" /\ host'.id = host.id
        /\ host'.next = next /\ host'.incomplete = room /\ host'.exec = exec
    <3> HIDE DEF exec
    <3> QED
      BY <1>1, <1>3, <2>2, <2>3, <2>4 DEF Host
  <2>6. \A s \in Sequence :
          /\ draft'[s] = Completed(disk[s])
          /\ host'.exec[s] = Replay(disk[s])
    BY <1>1, <1>3, <2>5
  <2>7. \A s \in Sequence :
          /\ Present(disk[s]) => disk[s].turn # 0 /\ disk[s].journal
                                 /\ disk[s].admission /\ disk[s].job \in Job
          /\ Present(draft'[s]) <=> Present(disk[s])
    <3> SUFFICES ASSUME NEW s \in Sequence
                 PROVE  /\ Present(disk[s]) => /\ disk[s].turn # 0
                                               /\ disk[s].journal
                                               /\ disk[s].admission
                                               /\ disk[s].job \in Job
                        /\ Present(draft'[s]) <=> Present(disk[s])
      OBVIOUS
    <3>1. Present(disk[s]) => /\ disk[s].turn # 0 /\ disk[s].journal
                              /\ disk[s].admission /\ disk[s].job \in Job
      BY <1>1, <1>3 DEF CompleteCopy, Replayable, IInv, FilesFit
    <3>2. Present(draft'[s]) <=> Present(disk[s])
      BY <2>1, <2>6, <3>1, CompletedParts, PresentFacts
    <3> QED
      BY <3>1, <3>2
  <2>8. \A s \in Sequence :
          Retained(s)' <=> Present(disk[s]) /\ Complete(disk[s])
    BY <2>1, <2>6, <2>7, ReplayStands DEF Retained
  <2>9. TypeOK'
    BY <1>1, <1>3, <2>4, <2>5 DEF TypeOK
  <2>10. HostFits'
    <3>1. \A s \in Sequence : ~host'.exec[s].running
      BY <2>1, <2>6, ReplayStands
    <3> QED
      BY <1>1, <1>3, <2>5, <3>1 DEF HostFits
  <2>11. FilesFit' /\ OpFits' /\ MailFits'
    BY <1>1, <2>5 DEF IInv, FilesFit, OpFits, MailFits
  <2>12. Backed'
    <3> SUFFICES ASSUME NEW s \in Sequence, Retained(s)'
                 PROVE  Stands(host'.exec[s], draft'[s])
      BY <2>5 DEF Backed, Held
    <3> QED
      BY <2>1, <2>6, <2>7, <2>8, ReplayStands
  <2>13. RoomFits'
    <3>1. Unfinished' = Incomplete(draft)
      BY <1>1, <2>5, <2>7, <2>8 DEF Unfinished, Held, Incomplete
    <3> QED
      BY <1>1, <2>2, <2>5, <2>7, <3>1 DEF RoomFits, Held, room
  <2>14. PagesFit'
    BY <1>1 DEF PagesFit, Reading, NoPages
  <2>15. NamesFit'
    <3>1. ASSUME NEW t \in 0..MaxTurn, NEW b \in Nat, NEW s \in Sequence,
                 Named(t, b, s)'
          PROVE  Named(t, b, s)
      <4>1. CASE Retained(s)' /\ host'.exec[s].turn = t /\ host'.exec[s].by = b
        <5>1. disk[s].admission /\ host'.exec[s].turn = disk[s].turn
              /\ host'.exec[s].by = disk[s].by
          BY <2>1, <2>6, <2>7, <2>8, <4>1, ReplayStands
        <5> QED
          BY <4>1, <5>1 DEF Named
      <4>2. CASE ~(Retained(s)' /\ host'.exec[s].turn = t
                   /\ host'.exec[s].by = b)
        BY <1>1, <3>1, <4>2 DEF Named, Reading
      <4> QED
        BY <4>1, <4>2
    <3> QED
      BY <1>1, <2>5, <3>1, TypeParts, NamesStay DEF IInv
  <2>16. DispatchedFits' /\ DispatchedOnce' /\ ReplayFits'
         /\ DeliveredBeforeCommitted'
    BY <1>1, <2>5 DEF IInv, DispatchedFits, Accounted, DispatchedOnce, ReplayFits,
       DeliveredBeforeCommitted
  <2> QED
    BY <2>9, <2>10, <2>11, <2>12, <2>13, <2>14, <2>15, <2>16 DEF IInv
<1> QED
  BY <1>2, <1>3 DEF Recover, Completed

\* worker.json names the copy.
LEMMA PublishStep ==
  ASSUME IInv, Publish
  PROVE  IInv'
<1>1. /\ TypeOK /\ host \in Host /\ host.state = "recovered"
      /\ draft = [s \in Sequence |-> Completed(disk[s])]
      /\ mail = {} /\ consumer = NoPages /\ op \in Op /\ op.at = "none"
      /\ disk' = draft /\ draft' = Empty
      /\ host' = [host EXCEPT !.state = "up", !.id = @ + 1]
      /\ UNCHANGED <<op, mail, consumer, turns, dispatched, settled, receipts,
                     faults>>
  BY TypeParts DEF Publish, IInv, HostFits, OpFits
<1>2. /\ host' \in Host /\ host'.state = "up" /\ host'.id = host.id + 1
      /\ host'.next = host.next /\ host'.incomplete = host.incomplete
      /\ host'.exec = host.exec
  <2>1. host' = [state |-> "up", id |-> host.id + 1, next |-> host.next,
                 incomplete |-> host.incomplete, exec |-> host.exec]
    BY <1>1 DEF Host
  <2>2. /\ host.id + 1 \in Nat /\ host.next \in Nat \ {0}
        /\ host.incomplete \in Nat /\ host.exec \in [Sequence -> Execution]
    BY <1>1, TypeParts
  <2> QED
    BY <2>1, <2>2 DEF Host
<1>3. host.id \in Nat /\ host'.id > host.id
  BY <1>1, <1>2, TypeParts
<1>4. \A s \in Sequence : Retained(s)' <=> Retained(s)
  BY <1>2 DEF Retained
<1>5. ASSUME NEW s \in Sequence
      PROVE  /\ disk[s] \in Files
             /\ disk'[s] = draft[s] /\ disk'[s] = Completed(disk[s])
             /\ disk'[s].turn = disk[s].turn /\ disk'[s].job = disk[s].job
             /\ disk'[s].by = disk[s].by
             /\ disk'[s].admission = disk[s].admission
             /\ disk'[s].journal = disk[s].journal
             /\ disk'[s].cursor = disk[s].cursor
             /\ Present(disk'[s]) => Present(disk[s])
  <2>1. disk[s] \in Files /\ disk'[s] = Completed(disk[s]) /\ disk'[s] = draft[s]
    BY <1>1, TypeParts
  <2>2. Present(Completed(disk[s])) => Present(disk[s])
    BY DEF Completed
  <2>3. /\ Completed(disk[s]).turn = disk[s].turn
        /\ Completed(disk[s]).job = disk[s].job
        /\ Completed(disk[s]).by = disk[s].by
        /\ Completed(disk[s]).admission = disk[s].admission
        /\ Completed(disk[s]).journal = disk[s].journal
        /\ Completed(disk[s]).cursor = disk[s].cursor
    BY <2>1, CompletedParts
  <2> QED
    BY <2>1, <2>2, <2>3
<1>6. TypeOK'
  BY <1>1, <1>2, EmptyTypes, TypeParts DEF TypeOK
<1>7. HostFits' /\ OpFits' /\ MailFits' /\ PagesFit'
  BY <1>1, <1>2, <1>4
     DEF IInv, HostFits, OpFits, MailFits, PagesFit, Reading, NoPages
<1>8. FilesFit'
  BY <1>5 DEF IInv, FilesFit
<1>9. \A s \in Sequence : Held(s)' = Held(s)
  BY <1>1, <1>2 DEF Held
<1>10. Backed' /\ RoomFits'
  <2>1. Unfinished' = Unfinished
    BY <1>4, <1>9 DEF Unfinished
  <2>2. Backed /\ RoomFits /\ Alive
    BY <1>1 DEF IInv, Alive
  <2>3. Backed'
    BY <1>2, <1>4, <1>9, <2>2 DEF Backed
  <2>4. RoomFits'
    BY <1>2, <1>9, <2>1, <2>2 DEF RoomFits
  <2> QED
    BY <2>3, <2>4
<1>11. NamesFit'
  <2>1. \A t \in 0..MaxTurn, b \in Nat, s \in Sequence :
          Named(t, b, s)' => Named(t, b, s)
    BY <1>1, <1>2, <1>4, <1>5 DEF Named, Reading
  <2>2. host'.id \in Nat
    BY <1>2, <1>3
  <2> QED
    BY <1>1, <1>3, <2>1, <2>2, NamesStay DEF IInv
<1>12. DispatchedFits' /\ DispatchedOnce'
  <2>1. DispatchedOnce'
    BY <1>1 DEF IInv, DispatchedOnce
  <2>2. ASSUME NEW d \in dispatched
        PROVE  Accounted(d)'
    <3>1. Accounted(d) /\ d.worker \in Nat
      BY <1>1 DEF IInv, DispatchedFits, TypeOK
    <3>2. d.worker <= host'.id /\ d.worker # host'.id
      BY <1>3, <1>2, <3>1 DEF Accounted
    <3> QED
      BY <3>2 DEF Accounted
  <2> QED
    BY <1>1, <2>1, <2>2 DEF DispatchedFits
<1>13. ReplayFits'
  BY <1>1, <1>5, RoomForReplay DEF IInv
<1>14. DeliveredBeforeCommitted'
  BY <1>1, <1>5 DEF IInv, DeliveredBeforeCommitted
<1> QED
  BY <1>6, <1>7, <1>8, <1>10, <1>11, <1>12, <1>13, <1>14 DEF IInv

-----------------------------------------------------------------------------
(* Theorems. *)

\* The books start in order.
LEMMA InitFits ==
  ASSUME Init
  PROVE  IInv
<1>1. \A s \in Sequence :
        /\ host.exec[s] = NoExecution /\ ~Retained(s)
        /\ consumer[s] = NoPage /\ ~Reading(s) /\ disk[s] = NoFiles
  BY DEF Init, NoExecutions, NoExecution, Retained, NoPages, Reading, Empty
<1>2. NoFiles.admission = FALSE /\ NoFiles.journal = FALSE
      /\ NoExecution.running = FALSE
  BY DEF NoFiles, NoExecution
<1>3. host.state = "down" /\ op.at = "none"
  BY EmptyTypes DEF Init
<1>4. TypeOK
  <2>1. host \in Host
    BY EmptyTypes DEF Init, Host
  <2> QED
    BY <2>1, EmptyTypes, WorkerJournalAssumption DEF Init, TypeOK
<1>5. HostFits /\ FilesFit /\ Backed /\ RoomFits /\ OpFits /\ MailFits /\ PagesFit
  BY <1>1, <1>2, <1>3, PresentFacts
     DEF Init, HostFits, FilesFit, Backed, RoomFits, OpFits, MailFits, PagesFit,
         Alive
<1>6. NamesFit
  BY <1>1, <1>2 DEF Init, NamesFit, Named
<1>7. DispatchedFits /\ DispatchedOnce
  BY DEF Init, DispatchedFits, DispatchedOnce
<1>8. ReplayFits
  <2>1. {s \in Sequence : Present(disk[s])} = {}
    BY <1>1, PresentFacts
  <2> QED
    BY <2>1, FS_EmptySet, WorkerJournalAssumption DEF ReplayFits
<1>9. DeliveredBeforeCommitted
  BY <1>1, <1>2 DEF DeliveredBeforeCommitted
<1> QED
  BY <1>4, <1>5, <1>6, <1>7, <1>8, <1>9 DEF IInv

\* Nothing happens.
LEMMA StutterKeeps ==
  ASSUME IInv, UNCHANGED vars
  PROVE  IInv'
<1>1. UNCHANGED <<books, turns, dispatched, settled, consumer, receipts>>
      /\ mail' = mail /\ faults' = faults
  BY DEF vars
<1> QED
  BY <1>1, TypeParts, MailStep DEF IInv

\* The inductive invariant: what the worker's memory, its files, the requests
\* and pages under way and the receipts downstream have to do with each other.
THEOREM JournalInvariant == Spec => []IInv
<1>1. Init => IInv
  BY InitFits
<1>2. IInv /\ [Next]_vars => IInv'
  <2> SUFFICES ASSUME IInv, [Next]_vars
               PROVE  IInv'
    OBVIOUS
  <2>1. CASE Startup
    BY <2>1, CopyingStep, RecoverStep, PublishStep DEF Startup
  <2>2. CASE Apply
    BY <2>2, ServeSendStep, ServeCommitStep, ServeAckStep, CheckpointStep,
       ReserveStep, DispatchStep, ResultStep, RemoveCursorStep,
       RemoveAdmissionStep
       DEF Apply
  <2>3. CASE \E j \in Job : SendJob(j)
    BY <2>3, SendJobStep
  <2>4. ASSUME NEW s \in Sequence,
               \/ Capture(s) \/ CaptureFails(s) \/ Read(s) \/ Deliver(s)
               \/ SendCommit(s) \/ StopReading(s) \/ SendAck(s)
        PROVE  IInv'
    BY <2>4, CaptureStep, CaptureFailsStep, ReadStep, DeliverStep,
       SendCommitStep, StopReadingStep, SendAckStep
  <2>5. CASE \E r \in mail : Lose(r)
    BY <2>5, LoseStep
  <2>6. CASE ControllerReplaced
    BY <2>6, ControllerReplacedStep
  <2>7. CASE Kill \/ Exit \/ Retire
    <3>1. faults' \in 0..MaxFault
      BY <2>7, TypeParts DEF Kill, Exit, Retire, Fault, IInv
    <3> QED
      BY <2>7, <3>1, HostGoneStep DEF Kill, Exit, Retire
  <2>8. CASE UNCHANGED vars
    BY <2>8, StutterKeeps
  <2> QED
    BY <2>1, <2>2, <2>3, <2>4, <2>5, <2>6, <2>7, <2>8 DEF Next
<1> QED
  BY <1>1, <1>2, PTL DEF Spec

\* Every variable of the worker's books has its type.
THEOREM JournalTypeOK == Spec => []TypeOK
<1>1. IInv => TypeOK
  BY DEF IInv
<1> QED
  BY <1>1, JournalInvariant, PTL

\* ReceiptsNameEvents: turns are named by worker and sequence, wherever they are.
THEOREM OneReceiptPerEvent == Spec => []ReceiptsNameEvents
<1>1. IInv => ReceiptsNameEvents
  <2> SUFFICES ASSUME IInv, NEW d \in receipts, NEW e \in receipts
               PROVE  d.by = e.by /\ d.s = e.s /\ d.cursor = e.cursor
                        <=> d.turn = e.turn /\ d.cursor = e.cursor
    BY DEF ReceiptsNameEvents
  <2>1. d \in Receipt /\ e \in Receipt
    BY DEF IInv, TypeOK
  <2>2. /\ d.turn \in 0..MaxTurn /\ d.by \in Nat /\ d.s \in Sequence
        /\ e.turn \in 0..MaxTurn /\ e.by \in Nat /\ e.s \in Sequence
    BY <2>1 DEF Receipt
  <2>3. Named(d.turn, d.by, d.s) /\ Named(e.turn, e.by, e.s)
    BY DEF Named
  <2>4. d.turn = e.turn <=> d.by = e.by /\ d.s = e.s
    BY <2>2, <2>3 DEF IInv, NamesFit
  <2> QED
    BY <2>4
<1> QED
  BY <1>1, JournalInvariant, PTL

\* AdmissionsHold: a worker dispatches a job once, because a send that may still
\* be admitted is for a job that it neither keeps nor has settled; and what it
\* keeps and cannot finish fits into a successor's replay.
THEOREM OneDispatchPerJob == Spec => []AdmissionsHold
<1>1. IInv => AdmissionsHold
  BY DEF IInv, AdmissionsHold
<1> QED
  BY <1>1, JournalInvariant, PTL

\* DeliveredBeforeCommitted: the cursor never runs ahead of the receipts.
THEOREM CursorsFollowDelivery == Spec => []DeliveredBeforeCommitted
<1>1. IInv => DeliveredBeforeCommitted
  BY DEF IInv
<1> QED
  BY <1>1, JournalInvariant, PTL

\* ConfirmedIsDurable: what a controller was told is what the files say.
THEOREM RepliesAreDurable == Spec => []ConfirmedIsDurable
<1>1. IInv => ConfirmedIsDurable
  BY DEF IInv, ConfirmedIsDurable, Backed, Alive, Held, Stands
<1> QED
  BY <1>1, JournalInvariant, PTL

\* The files of a completed turn that has not been delivered are still there.
Survives(s) ==
  \/ disk'[s].terminal /\ disk'[s].turn = disk[s].turn
  \/ disk' = Empty /\ host'.state = "down"

\* What is at stake: the turn is journalled, it is over, and it is not delivered.
LEMMA UndeliveredParts ==
  ASSUME IInv, NEW s \in Sequence, Undelivered(disk[s])
  PROVE  /\ disk[s] \in Files /\ disk[s].journal /\ disk[s].terminal
         /\ disk \in [Sequence -> Files]
         /\ host.state = "up" /\ Retained(s) =>
              /\ host.exec[s].done /\ ~host.exec[s].running
              /\ host.exec[s].committed # host.exec[s].last
<1>1. /\ disk[s] \in Files /\ disk[s].journal /\ disk[s].terminal
      /\ disk \in [Sequence -> Files]
  BY TypeParts DEF Undelivered, IInv
<1>2. ASSUME host.state = "up", Retained(s)
      PROVE  /\ host.exec[s].done /\ ~host.exec[s].running
             /\ host.exec[s].committed # host.exec[s].last
  <2>1. Stands(host.exec[s], disk[s])
    BY <1>2, RetainedIsPresent
  <2>2. disk[s].events # disk[s].cursor
    BY <1>1 DEF Undelivered, IInv, DeliveredBeforeCommitted
  <2> QED
    BY <1>1, <2>1, <2>2 DEF Stands
<1> QED
  BY <1>1, <1>2

\* The steps of the request that is being applied.
LEMMA ApplySurvives ==
  ASSUME IInv, NEW s \in Sequence, Undelivered(disk[s]), Apply
  PROVE  Survives(s)
<1>1. /\ disk[s] \in Files /\ disk[s].journal /\ disk[s].terminal
      /\ disk \in [Sequence -> Files]
  BY UndeliveredParts
<1>2. ASSUME NEW r \in mail, ServeSend(r)
      PROVE  Survives(s)
  <2>1. r \in Request /\ r.s \in Sequence /\ host.state = "up"
    BY <1>2, TypeParts DEF IInv, Request, ServeSend, Serving
  <2>2. CASE disk' = disk
    BY <1>1, <2>2 DEF Survives
  <2>3. CASE /\ Admissible(r)
             /\ disk' = [disk EXCEPT
                  ![r.s] = [NoFiles EXCEPT !.journal = TRUE, !.turn = turns + 1]]
    <3>1. s < host.next /\ s \in Nat /\ r.s = host.next
      BY <1>1, <2>1, <2>3, PresentFacts, WorkerJournalAssumption
         DEF IInv, RoomFits, Alive, Held, Admissible, Sequence
    <3>2. r.s # s
      BY <3>1
    <3> QED
      BY <1>1, <2>1, <2>3, <3>2 DEF Survives
  <2> QED
    BY <1>2, <2>2, <2>3 DEF ServeSend
<1>3. ASSUME NEW r \in mail, ServeCommit(r)
      PROVE  Survives(s)
  BY <1>1, <1>3 DEF ServeCommit, Survives, Files
<1>4. ASSUME NEW r \in mail, ServeAck(r)
      PROVE  Survives(s)
  <2>1. CASE UNCHANGED <<disk, op>>
    BY <1>1, <2>1 DEF Survives
  <2>2. CASE /\ Ackable(r)
             /\ disk' = [disk EXCEPT ![r.s].journal = FALSE, ![r.s].events = 0,
                                     ![r.s].terminal = FALSE,
                                     ![r.s].terminalError = FALSE]
    <3>1. r.s # s
      BY <1>4, <2>2, UndeliveredParts DEF Ackable, ServeAck, Serving
    <3> QED
      BY <1>1, <2>2, <3>1 DEF Survives
  <2> QED
    BY <1>4, <2>1, <2>2 DEF ServeAck
<1>5. CASE Checkpoint
  BY <1>1, <1>5, Applying DEF Checkpoint, Survives, Files
<1>6. CASE Reserve
  <2>1. op.s # s
    BY <1>6, Applying, UndeliveredParts DEF Reserve, IInv, OpFits, Early
  <2> QED
    BY <1>1, <1>6, <2>1 DEF Reserve, Survives
<1>7. CASE Dispatch
  BY <1>1, <1>7 DEF Dispatch, Survives
<1>8. CASE Result
  <2> DEFINE e == host.exec[op.s]
             rejected == op.outcome = "rejected"
             uncertain == op.outcome = "unconfirmed" /\ ~e.done
             noted == rejected \/ uncertain
             error == e.error \/ noted
             events == IF noted THEN e.last + 1 ELSE e.last
             noting == [disk EXCEPT ![op.s].events = events,
                                    ![op.s].terminal = @ \/ rejected]
  <2>1. \/ disk' = disk \/ disk' = noting
        \/ disk' = [noting EXCEPT ![op.s].done = e.done \/ rejected,
                                  ![op.s].error = error,
                                  ![op.s].saved = e.committed]
    BY <1>8 DEF Result
  <2> HIDE DEF rejected, events, error
  <2> DEFINE f == disk[s]
             n == [f EXCEPT !.events = events, !.terminal = @ \/ rejected]
             g == [n EXCEPT !.done = e.done \/ rejected, !.error = error,
                            !.saved = e.committed]
  <2>2. n.terminal /\ n.turn = f.turn
    BY <1>1 DEF Files
  <2>3. g.terminal = n.terminal /\ g.turn = n.turn
    <3> HIDE DEF f, e
    <3>1. f \in Files
      BY <1>1 DEF f
    <3> QED
      BY <3>1 DEF Files
  <2>4. disk'[s] \in {f, n, g}
    <3>1. CASE op.s # s
      BY <1>1, <2>1, <3>1
    <3>2. CASE op.s = s
      BY <1>1, <2>1, <3>2
    <3> QED
      BY <3>1, <3>2
  <2> HIDE DEF noting, e, f, n, g
  <2>5. f.terminal /\ f.turn = disk[s].turn
    BY <1>1 DEF f
  <2> QED
    BY <2>2, <2>3, <2>4, <2>5 DEF Survives
<1>9. CASE RemoveCursor
  BY <1>1, <1>9 DEF RemoveCursor, Survives, Files
<1>10. CASE RemoveAdmission
  <2>1. op.s # s
    BY <1>1, <1>10 DEF RemoveAdmission, IInv, OpFits
  <2> QED
    BY <1>1, <1>10, <2>1 DEF RemoveAdmission, Survives
<1> QED
  BY <1>2, <1>3, <1>4, <1>5, <1>6, <1>7, <1>8, <1>9, <1>10 DEF Apply

\* ... and every other step.
LEMMA StepSurvives ==
  ASSUME IInv, [Next]_vars, NEW s \in Sequence, Undelivered(disk[s])
  PROVE  Survives(s)
<1>1. /\ disk[s] \in Files /\ disk[s].journal /\ disk[s].terminal
      /\ disk \in [Sequence -> Files]
  BY UndeliveredParts
<1>2. CASE disk' = disk
  BY <1>1, <1>2 DEF Survives
<1>3. CASE Apply
  BY <1>3, ApplySurvives
<1>4. CASE Publish
  <2>1. disk'[s] = Completed(disk[s])
    BY <1>4 DEF Publish, IInv, HostFits
  <2> QED
    BY <1>1, <2>1, CompletedParts DEF Survives
<1>5. ASSUME NEW t \in Sequence, Capture(t)
      PROVE  Survives(s)
  <2>1. CASE disk' = disk
    BY <1>2, <2>1
  <2>2. CASE t # s
    BY <1>1, <1>5, <2>2 DEF Capture, Appended, Survives
  <2>3. t = s => FALSE
    BY <1>5, UndeliveredParts DEF Capture, IInv, HostFits
  <2> QED
    BY <2>2, <2>3
<1>6. ASSUME NEW t \in Sequence, CaptureFails(t)
      PROVE  Survives(s)
  BY <1>1, <1>6 DEF CaptureFails, Survives, Files
<1>7. CASE Kill \/ Exit \/ Retire
  <2>1. CASE disk' = Empty /\ HostGone
    <3>1. host \in Host
      BY TypeParts DEF IInv
    <3>2. host'.state = "down"
      BY <2>1, <3>1 DEF HostGone, Host
    <3> QED
      BY <2>1, <3>2 DEF Survives
  <2> QED
    BY <1>2, <1>7, <2>1 DEF Kill, Exit, Retire
<1>8. CASE Start \/ (\E t \in Sequence : Copy(t)) \/ Recover
           \/ (\E j \in Job : SendJob(j))
           \/ (\E t \in Sequence : Read(t) \/ Deliver(t) \/ SendCommit(t)
                                   \/ StopReading(t) \/ SendAck(t))
           \/ (\E r \in mail : Lose(r)) \/ ControllerReplaced \/ UNCHANGED vars
  <2>1. disk' = disk
    BY <1>8 DEF Start, Copy, Recover, SendJob, Read, Deliver, SendCommit,
       StopReading, SendAck, Lose, ControllerReplaced, books, vars
  <2> QED
    BY <1>2, <2>1
<1> QED
  BY <1>3, <1>4, <1>5, <1>6, <1>7, <1>8 DEF Next, Startup

\* CompletedTurnsSurvive: a completed turn stays on disk until it is delivered.
THEOREM TurnsSurvive == Spec => CompletedTurnsSurvive
<1>1. IInv /\ [Next]_vars =>
        [\A s \in Sequence :
           Undelivered(disk[s]) =>
             \/ disk'[s].terminal /\ disk'[s].turn = disk[s].turn
             \/ disk' = Empty /\ host'.state = "down"]_vars
  BY StepSurvives DEF Survives
<1> QED
  BY <1>1, JournalInvariant, PTL DEF Spec, CompletedTurnsSurvive

============================================================================
