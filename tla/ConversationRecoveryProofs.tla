--------------------- MODULE ConversationRecoveryProofs ---------------------
(***************************************************************************)
(* One conversation's recovery, for any number of messages and any bounds  *)
(* on faults and stops: its types, that what is about to be written fits   *)
(* the history file, and that it implements SourcePromise.                 *)
(***************************************************************************)
EXTENDS ConversationRecovery, FiniteSetTheorems, TLAPS

N == Cardinality(Source) + 3

Entry ==
  [known : BOOLEAN, recovered : BOOLEAN,
   admission : [x : 0..N, lead : SUBSET Source, size : 0..Cardinality(Source)],
   covered : {"no", "reserved", "answered"}, stop : 0..MaxStop]

\* A batch counts at most as many messages as there are.
LEMMA BatchSize ==
  /\ Cardinality(Source) \in Nat
  /\ \A S \in SUBSET Source : Cardinality(S) \in 0..Cardinality(Source)
<1>1. /\ Cardinality(Source) \in Nat
      /\ \A S \in SUBSET Source :
           IsFiniteSet(S) /\ Cardinality(S) <= Cardinality(Source)
  BY BoundsAssumption, FS_CardinalityType, FS_Subset
<1>2. \A S \in SUBSET Source : Cardinality(S) \in Nat
  BY <1>1, FS_CardinalityType
<1> QED
  BY <1>1, <1>2

OneMore(T, a) ==
  /\ IsFiniteSet(T \cup {a})
  /\ Cardinality(T) \in Nat /\ Cardinality(T \cup {a}) \in Nat
  /\ Cardinality(T \cup {a}) <= Cardinality(T) + 1

\* An element more makes a finite set larger by one at most.
LEMMA AddOne ==
  ASSUME NEW T, IsFiniteSet(T), NEW a
  PROVE  OneMore(T, a)
<1>1. /\ IsFiniteSet(T \cup {a})
      /\ Cardinality(T \cup {a}) =
           IF a \in T THEN Cardinality(T) ELSE Cardinality(T) + 1
  BY FS_AddElement
<1>2. Cardinality(T) \in Nat /\ Cardinality(T \cup {a}) \in Nat
  BY <1>1, FS_CardinalityType
<1> QED
  BY <1>1, <1>2 DEF OneMore

\* There is always an identity that nothing refers to: the messages, the retained
\* execution and the job hold three fewer than there are.
LEMMA FreshInRange ==
  ASSUME TypeOK
  PROVE  Fresh \in 1..N
<1> DEFINE named == [s \in Source |-> ledger[s].admission.x]
           used == {named[s] : s \in Source}
           held == (used \cup {exec.x}) \cup {job}
<1>1. IsFiniteSet(used) /\ Cardinality(used) <= Cardinality(Source)
  <2>1. named \in Surjection(Source, used)
    BY DEF Surjection
  <2> HIDE DEF named, used
  <2> QED
    BY <2>1, BoundsAssumption, FS_Surjection
<1>2. IsFiniteSet(held) /\ Cardinality(held) <= Cardinality(Source) + 2
  <2> HIDE DEF used
  <2>1. OneMore(used, exec.x)
    BY <1>1, AddOne
  <2>2. OneMore(used \cup {exec.x}, job)
    BY <2>1, AddOne DEF OneMore
  <2> QED
    BY <1>1, <2>1, <2>2, BatchSize DEF OneMore
<1>3. \E x \in 1..N : x \notin held
  <2> HIDE DEF held
  <2>1. Cardinality(1..N) = Cardinality(Source) + 3
    BY BatchSize, FS_Interval DEF N
  <2>2. ~(1..N \subseteq held)
    <3> SUFFICES ASSUME 1..N \subseteq held PROVE FALSE
      OBVIOUS
    <3>1. Cardinality(1..N) <= Cardinality(held)
      BY <1>2, FS_Subset
    <3>2. Cardinality(held) \in Nat
      BY <1>2, FS_CardinalityType
    <3> QED
      BY <1>2, <2>1, <3>1, <3>2, BatchSize
  <2> QED
    BY <2>2
<1>4. held = {exec.x, job} \cup {ledger[s].admission.x : s \in Source}
  OBVIOUS
<1> HIDE DEF held
<1> QED
  BY <1>3, <1>4 DEF Fresh, N

-----------------------------------------------------------------------------
(* The inductive invariant. *)

Execution ==
  [x : 0..N, sources : SUBSET Source, recovery : BOOLEAN, reserved : BOOLEAN,
   refused : BOOLEAN, error : BOOLEAN, cancelled : BOOLEAN, done : BOOLEAN,
   covers : SUBSET Source]

Operation ==
  [at : {"none", "reserve", "dispatch", "tell"}, kind : {"send", "followup"},
   batch : SUBSET Source]

Holder ==
  [at : {"idle", "begin", "request", "waiting", "record", "interrupt",
         "restore", "clear"},
   action : {"send", "followup"}, x : 0..N, sources : SUBSET Source,
   recovery : BOOLEAN, again : BOOLEAN]

\* The types of what only the controller changes.
ControllerTypes ==
  /\ mgr \in Holder
  /\ scan \in [at : {"idle", "read", "checked"}, sources : SUBSET Source]
  /\ job \in 0..N
  /\ reader \in {"none", "reading", "delivered"}
  /\ intake \subseteq Source

\* The types of what the worker changes, with what ties them together.
WorkerTypes ==
  /\ host \in {"up", "down"}
  /\ exec \in Execution
  /\ turn \in {"none", "running", "unsure"}
  /\ ended \in BOOLEAN
  /\ op \in Operation
  /\ turn # "none" => exec.x # 0 /\ ~exec.done
  /\ ended => op.kind = "followup" /\ op.at # "none"
  /\ exec.done => exec.covers = exec.sources

FateTypes ==
  /\ linked \subseteq Source
  /\ taken \subseteq Source /\ refused \subseteq Source
  /\ retaken \subseteq Source /\ halted \subseteq Source

CounterTypes == faults \in 0..MaxFault /\ stops \in 0..MaxStop

\* The type invariant, by who changes what.
LEMMA TypeParts ==
  TypeOK <=> /\ ledger \in [Source -> Entry]
             /\ ControllerTypes /\ WorkerTypes /\ FateTypes /\ CounterTypes
  BY DEF TypeOK, Entry, ControllerTypes, WorkerTypes, FateTypes, CounterTypes,
         Execution, Operation, Holder, N

\* The same of the next state.
LEMMA TypePartsNext ==
  /\ ledger' \in [Source -> Entry]
  /\ ControllerTypes' /\ WorkerTypes' /\ FateTypes' /\ CounterTypes'
  => TypeOK'
  BY DEF TypeOK, Entry, ControllerTypes, WorkerTypes, FateTypes, CounterTypes,
         Execution, Operation, Holder, N

\* Messages the provider was given, or refused.
Given == taken \cup refused \cup retaken

\* An operation is under way for a retained execution that has not ended; a turn
\* is one of a reserved execution.
WorkerFits ==
  /\ exec.x = 0 => exec = NoExec
  /\ turn # "none" => exec.reserved
  /\ ended => turn = "none"
  /\ op.at # "none" =>
       /\ exec.x # 0 /\ ~exec.done
       /\ op.kind = "send" => turn = "none" /\ op.batch = exec.sources
       /\ op.kind = "followup" \/ op.at # "reserve" => exec.reserved
       /\ op.at = "tell" => op.kind = "send"

StopUnderWay == {"record", "interrupt", "restore"}

\* While a stop or a reset is under way the worker has no other operation, and
\* retains what the stop is about or nothing.  What was delivered has ended, or
\* its worker is gone.
ManagerFits ==
  /\ reader = "delivered" => host = "down" \/ exec.done
  /\ mgr.at \in {"begin", "request", "waiting"} /\ mgr.action = "send"
       => mgr.x # 0
  /\ mgr.at = "clear" => exec.x = 0
  /\ mgr.at \in StopUnderWay =>
       /\ op.at = "none" /\ stops # 0
       /\ Cancellable(mgr.sources, mgr.x)
       /\ exec.x # 0 => exec.sources = mgr.sources

\* History tells of every message that was given, retaken or stopped.
LedgerFits ==
  \A s \in Source :
    /\ ledger[s].recovered => ledger[s].admission.x # 0
    /\ s \in taken => ledger[s].admission.x # 0
    /\ s \in retaken => ledger[s].covered # "no"
    /\ s \in halted => s \in taken \cup retaken /\ ledger[s].stop # 0

\* The intent a stop may withdraw is that of no message that was halted.
StopsFit ==
  \A s \in Source :
    /\ ledger[s].stop <= stops
    /\ mgr.at = "record" => ledger[s].stop # stops
    /\ mgr.at \in {"interrupt", "restore"} =>
         /\ s \in mgr.sources => ledger[s].stop # 0
         /\ s \in halted => ledger[s].stop # stops

\* What an operation is about to send, give back or answer for.
DispatchFits ==
  op.at = "dispatch" /\ ~Recovering =>
    /\ Restorable(op.batch, Receipt)
    /\ op.batch \subseteq taken \ halted
    /\ \A s \in op.batch : ledger[s].covered # "answered"

ExecFits ==
  /\ exec.reserved => Known(exec.sources)
  /\ exec.reserved /\ ~exec.done /\ op.at # "tell" =>
       \A s \in exec.sources :
         ledger[s].admission.x = exec.x /\ s \in taken \cup retaken
  /\ op.at = "tell" => exec.sources \subseteq Given
  /\ exec.done /\ ~exec.refused => exec.covers \subseteq Given

IInv ==
  /\ TypeOK
  /\ WorkerFits
  /\ ManagerFits
  /\ LedgerFits
  /\ StopsFit
  /\ DispatchFits
  /\ ExecFits

\* The inductive invariant holds at the start.
LEMMA InitIInv == Init => IInv
<1> SUFFICES ASSUME Init PROVE IInv
  OBVIOUS
<1>1. 0 \in 0..MaxFault /\ 0 \in 0..MaxStop /\ 0 \in 0..N
      /\ 0 \in 0..Cardinality(Source)
  BY BoundsAssumption, BatchSize DEF N
<1>2. Unheard \in Entry
  BY <1>1 DEF Unheard, Entry, NoAdmission
<1>3. TypeOK
  BY <1>1, <1>2, TypeParts
  DEF Init, ControllerTypes, WorkerTypes, FateTypes, CounterTypes, NoExec, NoOp,
      Idle, NoScan, Execution, Operation, Holder
<1>4. WorkerFits /\ ManagerFits /\ DispatchFits /\ ExecFits
  BY DEF Init, NoExec, NoOp, Idle, WorkerFits, ManagerFits, DispatchFits,
         ExecFits, StopUnderWay, Known
<1>5. LedgerFits /\ StopsFit
  BY <1>1 DEF Init, Idle, LedgerFits, StopsFit, Unheard, NoAdmission
<1> QED
  BY <1>3, <1>4, <1>5 DEF IInv

-----------------------------------------------------------------------------
(* Steps of the controller that leave history, worker and fate alone. *)

\* Such a step keeps the invariant if the lock is then held for an admission at
\* most.
LEMMA QuietStep ==
  ASSUME IInv,
         UNCHANGED <<ledger, linked, exec, turn, ended, op, fate, stops>>,
         host' \in {"up", "down"}, ControllerTypes', faults' \in 0..MaxFault,
         reader' \in {"none", "reading"} \/ UNCHANGED <<host, reader>>,
         \/ mgr' = mgr
         \/ /\ mgr'.at \in {"idle", "begin", "request", "waiting"}
            /\ mgr'.at # "idle" /\ mgr'.action = "send" => mgr'.x # 0
  PROVE  IInv'
<1>1. TypeOK'
  BY TypeParts, TypePartsNext
  DEF IInv, WorkerTypes, FateTypes, CounterTypes, fate
<1>2. WorkerFits' /\ LedgerFits' /\ DispatchFits' /\ ExecFits'
  BY DEF IInv, WorkerFits, LedgerFits, DispatchFits, ExecFits, fate, Known,
         Restorable, Receipt, Recovering, Given
<1>3. ManagerFits' /\ StopsFit'
  BY DEF IInv, ManagerFits, StopsFit, StopUnderWay, fate, Cancellable, Known
<1> QED
  BY <1>1, <1>2, <1>3 DEF IInv

\* The holder of the lock at the start of an admission of its own.
LEMMA BeginTypes ==
  ASSUME TypeOK, NEW S \in SUBSET Source, NEW recovery \in BOOLEAN,
         mgr' = [at |-> "begin", action |-> "send", x |-> Fresh, sources |-> S,
                 recovery |-> recovery, again |-> FALSE]
  PROVE  mgr' \in Holder /\ mgr'.at = "begin" /\ mgr'.x # 0
<1>1. PICK x \in 1..N : x = Fresh
  BY FreshInRange
<1>2. mgr' = [at |-> "begin", action |-> "send", x |-> x, sources |-> S,
              recovery |-> recovery, again |-> FALSE]
  BY <1>1
<1>3. x \in 0..N /\ x # 0
  BY BatchSize DEF N
<1>4. mgr' \in Holder
  BY <1>2, <1>3 DEF Holder
<1>5. mgr'.at = "begin" /\ mgr'.x = x
  BY <1>2
<1> QED
  BY <1>3, <1>4, <1>5

\* A fault is counted up to the bound.
LEMMA FaultTypes == TypeOK /\ Fault => faults' \in 0..MaxFault
  BY BoundsAssumption, TypeParts DEF CounterTypes, Fault

\* A stop or a reset that leaves lets its lock go.
LEMMA LeaveTypes ==
  ASSUME ControllerTypes, Leave, UNCHANGED <<job, reader>>
  PROVE  ControllerTypes' /\ mgr'.at = "idle"
<1>1. Idle \in Holder
  BY BatchSize DEF Idle, Holder, N
<1> QED
  BY <1>1 DEF Leave, ControllerTypes, NoScan, Idle

\* A message that is not recorded, or is looked for, changes no entry.
LEMMA IntakeIInv ==
  ASSUME IInv, NEW s \in Source, IntakeFails(s) \/ IntakeInspect(s)
  PROVE  IInv'
<1> USE DEF IInv
<1>1. ControllerTypes /\ CounterTypes /\ host \in {"up", "down"}
      /\ exec \in Execution
  BY TypeParts DEF WorkerTypes
<1>3. CASE IntakeFails(s)
  BY <1>1, <1>3, QuietStep
  DEF IntakeFails, worker, fate, ControllerTypes, CounterTypes
<1>4. CASE IntakeInspect(s)
  <2>1. /\ UNCHANGED <<ledger, linked, worker, job, reader, scan, fate, faults,
                       stops>>
        /\ intake' \subseteq Source
    BY <1>1, <1>4 DEF IntakeInspect, ControllerTypes
  <2>2. CASE mgr' = [Idle EXCEPT !.at = "begin", !.x = Fresh, !.sources = {s}]
    <3>1. mgr' \in Holder /\ mgr'.at = "begin" /\ mgr'.x # 0
      <4>1. mgr' = [at |-> "begin", action |-> "send", x |-> Fresh,
                    sources |-> {s}, recovery |-> FALSE, again |-> FALSE]
        BY <2>2 DEF Idle
      <4> QED
        BY <4>1, BeginTypes
    <3> QED
      BY <1>1, <2>1, <3>1, QuietStep DEF worker, ControllerTypes, CounterTypes
  <2>3. CASE mgr' = [Idle EXCEPT !.at = "begin", !.action = "followup",
                                 !.x = exec.x, !.sources = {s}]
    <3>1. /\ mgr' \in Holder /\ mgr'.at = "begin"
          /\ mgr'.action = "followup"
      BY <1>1, <2>3, BatchSize DEF Idle, Holder, Execution, N
    <3> QED
      BY <1>1, <2>1, <3>1, QuietStep DEF worker, ControllerTypes, CounterTypes
  <2>4. CASE mgr' = mgr
    BY <1>1, <2>1, <2>4, QuietStep DEF worker, ControllerTypes, CounterTypes
  <2> QED
    BY <1>4, <2>2, <2>3, <2>4 DEF IntakeInspect
<1> QED
  BY <1>3, <1>4

\* The admission up to the request, and its end.
LEMMA AdmissionIInv ==
  ASSUME IInv, BeginJob \/ Reply \/ GiveUp
  PROVE  IInv'
<1> USE DEF IInv
<1>1. ControllerTypes /\ CounterTypes /\ host \in {"up", "down"}
  BY TypeParts DEF WorkerTypes
<1>2. CASE BeginJob
  <2>1. CASE job \in {0, mgr.x}
    <3>1. /\ job' = mgr.x /\ mgr' = [mgr EXCEPT !.at = "request"]
          /\ UNCHANGED <<intake, scan>> /\ mgr.at = "begin"
          /\ UNCHANGED <<ledger, linked, worker, reader, fate, faults, stops>>
      BY <1>2, <2>1 DEF BeginJob
    <3>2. /\ ControllerTypes' /\ mgr'.at = "request" /\ mgr'.action = mgr.action
          /\ mgr'.x = mgr.x
      BY <1>1, <3>1 DEF ControllerTypes, Holder
    <3> QED
      BY <1>1, <3>1, <3>2, QuietStep DEF ManagerFits, worker, CounterTypes
  <2>2. CASE job \notin {0, mgr.x}
    <3>1. Leave /\ UNCHANGED <<job, ledger, linked, worker, reader, fate, faults,
                              stops>>
      BY <1>2, <2>2 DEF BeginJob
    <3> QED
      BY <1>1, <3>1, LeaveTypes, QuietStep DEF worker, CounterTypes
  <2> QED
    BY <2>1, <2>2
<1>3. CASE Reply \/ GiveUp
  <2>1. /\ Leave /\ UNCHANGED <<ledger, linked, worker, job, reader, fate, stops>>
        /\ faults' \in 0..MaxFault
    BY <1>1, <1>3, FaultTypes DEF Reply, GiveUp, CounterTypes
  <2> QED
    BY <1>1, <2>1, LeaveTypes, QuietStep DEF worker
<1> QED
  BY <1>2, <1>3

\* The manager's scan, and the next primary.
LEMMA ReconcileIInv ==
  ASSUME IInv, Reconcile \/ ReaderFails \/ ServerReplaced
  PROVE  IInv'
<1> USE DEF IInv
<1>1. /\ ControllerTypes /\ CounterTypes /\ host \in {"up", "down"}
      /\ exec \in Execution
  BY TypeParts DEF WorkerTypes
<1>2. CASE Reconcile
  BY <1>1, <1>2, QuietStep, BatchSize
  DEF Reconcile, ControllerTypes, CounterTypes, worker, Execution, N
<1>3. CASE ReaderFails
  <2>1. faults' \in 0..MaxFault
    BY <1>3, FaultTypes DEF ReaderFails
  <2> QED
    BY <1>1, <1>3, <2>1, QuietStep, BatchSize
    DEF ReaderFails, ControllerTypes, worker, N
<1>4. CASE ServerReplaced
  <2>1. faults' \in 0..MaxFault
    BY <1>1, <1>4, FaultTypes DEF ServerReplaced, CounterTypes
  <2>2. Idle \in Holder /\ Idle.at = "idle"
    BY BatchSize DEF Idle, Holder, N
  <2> QED
    BY <1>1, <1>4, <2>1, <2>2, QuietStep, BatchSize
    DEF ServerReplaced, ControllerTypes, NoScan, N
<1> QED
  BY <1>2, <1>3, <1>4

\* The recovery scanner.
LEMMA ScanIInv ==
  ASSUME IInv, ScanRead \/ ScanCheck \/ ScanInspect
  PROVE  IInv'
<1> USE DEF IInv
<1>1. ControllerTypes /\ CounterTypes /\ host \in {"up", "down"}
  BY TypeParts DEF WorkerTypes
<1>2. CASE ScanRead \/ ScanCheck
  BY <1>1, <1>2, QuietStep
  DEF ScanRead, ScanCheck, Candidates, ControllerTypes, CounterTypes, worker,
      NoScan
<1>3. CASE ScanInspect
  <2>1. /\ UNCHANGED <<ledger, linked, worker, intake, job, reader, fate, faults,
                       stops>>
        /\ scan' \in [at : {"idle", "read", "checked"}, sources : SUBSET Source]
    BY <1>1, <1>3 DEF ScanInspect, ControllerTypes, NoScan
  <2>2. CASE mgr' = [Idle EXCEPT !.at = "begin", !.x = Fresh,
                                 !.sources = scan.sources, !.recovery = TRUE]
    <3>1. mgr' \in Holder /\ mgr'.at = "begin" /\ mgr'.x # 0
      <4>1. mgr' = [at |-> "begin", action |-> "send", x |-> Fresh,
                    sources |-> scan.sources, recovery |-> TRUE,
                    again |-> FALSE]
        BY <2>2 DEF Idle
      <4> QED
        BY <1>1, <4>1, BeginTypes DEF ControllerTypes
    <3> QED
      BY <1>1, <2>1, <3>1, QuietStep DEF worker, ControllerTypes, CounterTypes
  <2>3. CASE mgr' = mgr
    BY <1>1, <2>1, <2>3, QuietStep DEF worker, ControllerTypes, CounterTypes
  <2> QED
    BY <1>3, <2>2, <2>3 DEF ScanInspect
<1> QED
  BY <1>2, <1>3

-----------------------------------------------------------------------------
(* What the records of the history file change. *)

Admissions ==
  [x : 0..N, lead : SUBSET Source, size : 0..Cardinality(Source)]

Others(S) == \A s \in Source \ S : ledger'[s] = ledger[s]

\* Restoring takes the admission back from every message of the set.
LEMMA RestoreEffect ==
  ASSUME ledger \in [Source -> Entry], NEW S \in SUBSET Source, Restore(S)
  PROVE  /\ ledger' \in [Source -> Entry]
         /\ Others(S)
         /\ \A s \in S : ledger'[s] = [ledger[s] EXCEPT !.admission = NoAdmission]
<1>1. NoAdmission \in Admissions
  BY BatchSize DEF NoAdmission, Admissions, N
<1> QED
  BY <1>1 DEF Restore, Write, Entry, Others, Admissions

\* Covering marks every message of the set answered and no other one.
LEMMA CoverEffect ==
  ASSUME ledger \in [Source -> Entry], NEW S \in SUBSET Source, Cover(S)
  PROVE  /\ ledger' \in [Source -> Entry]
         /\ Others(S)
         /\ \A s \in S : ledger'[s] = [ledger[s] EXCEPT !.covered = "answered"]
  BY DEF Cover, Write, Entry, Others

\* Only intents change, and an intent that is there stays.
LEMMA RequestEffect ==
  ASSUME ledger \in [Source -> Entry], NEW S \in SUBSET Source,
         NEW intent \in 0..MaxStop, Request(S, intent)
  PROVE  /\ ledger' \in [Source -> Entry]
         /\ Others(S)
         /\ \A s \in S :
              ledger'[s] = [ledger[s] EXCEPT
                !.stop = IF ledger[s].stop = 0 THEN intent ELSE ledger[s].stop]
  BY DEF Request, Write, Entry, Others

\* Withdrawing takes back the intent of one stop, and no other.
LEMMA WithdrawEffect ==
  ASSUME ledger \in [Source -> Entry], NEW S \in SUBSET Source,
         NEW intent \in 0..MaxStop, Withdraw(S, intent)
  PROVE  /\ ledger' \in [Source -> Entry]
         /\ Others(S)
         /\ \A s \in S :
              ledger'[s] = [ledger[s] EXCEPT
                !.stop = IF ledger[s].stop = intent THEN 0 ELSE ledger[s].stop]
<1>1. 0 \in 0..MaxStop
  BY BoundsAssumption
<1> QED
  BY <1>1 DEF Withdraw, Write, Entry, Others

-----------------------------------------------------------------------------
(* Steps of the worker. *)

\* A send or a follow-up begins.
LEMMA StartIInv ==
  ASSUME IInv, SendStarts \/ FollowupStarts
  PROVE  IInv'
<1> USE DEF IInv
<1>1. /\ ControllerTypes /\ CounterTypes /\ WorkerTypes /\ FateTypes
      /\ ledger \in [Source -> Entry]
  BY TypeParts
<1>2. /\ mgr.at = "request" /\ op.at = "none"
      /\ UNCHANGED <<ledger, linked, host, turn, ended, intake, job, reader, scan,
                     fate, stops>>
  BY DEF SendStarts, FollowupStarts, Answering
<1>3. /\ ControllerTypes' /\ mgr'.at = "waiting" /\ mgr'.x = mgr.x
      /\ mgr'.action = mgr.action
  <2>1. mgr' = [mgr EXCEPT !.at = "waiting"]
    BY DEF SendStarts, FollowupStarts
  <2> QED
    BY <1>1, <1>2, <2>1 DEF ControllerTypes, Holder
<1>4. faults' \in 0..MaxFault
  BY <1>1, FaultTypes DEF SendStarts, FollowupStarts, CounterTypes
<1>5. LedgerFits' /\ StopsFit'
  BY <1>2, <1>3 DEF LedgerFits, StopsFit, fate
<1>6. CASE UNCHANGED <<exec, op>>
  <2>1. mgr'.action = "send" => mgr'.x # 0
    BY <1>2, <1>3 DEF ManagerFits
  <2>2. host' \in {"up", "down"}
    BY <1>1, <1>2 DEF WorkerTypes
  <2> QED
    BY <1>2, <1>3, <1>4, <1>6, <2>1, <2>2, QuietStep
<1>7. ASSUME SendStarts, exec.x = 0,
             exec' = [x |-> mgr.x, sources |-> mgr.sources,
                      recovery |-> mgr.recovery, reserved |-> FALSE,
                      refused |-> FALSE, error |-> FALSE, cancelled |-> FALSE,
                      done |-> FALSE, covers |-> {}],
             op' = [at |-> "reserve", kind |-> "send", batch |-> mgr.sources]
      PROVE  IInv'
  <2>1. /\ mgr.x # 0 /\ turn = "none"
        /\ reader # "delivered"
    BY <1>1, <1>2, <1>7
    DEF SendStarts, Answering, ManagerFits, WorkerTypes, WorkerFits, NoExec
  <2>3. exec' \in Execution /\ op' \in Operation
    BY <1>1, <1>7 DEF Execution, Operation, ControllerTypes, Holder
  <2>4. TypeOK'
    BY <1>1, <1>2, <1>3, <1>4, <1>7, <2>1, <2>3, TypePartsNext
    DEF WorkerTypes, FateTypes, CounterTypes, fate
  <2>5. WorkerFits' /\ ManagerFits' /\ DispatchFits' /\ ExecFits'
    BY <1>1, <1>2, <1>3, <1>7, <2>1
    DEF WorkerFits, ManagerFits, DispatchFits, ExecFits, StopUnderWay, WorkerTypes
  <2> QED
    BY <1>5, <2>4, <2>5
<1>8. ASSUME FollowupStarts, exec.reserved, ~exec.done, UNCHANGED exec,
             op' = [at |-> "reserve", kind |-> "followup",
                    batch |-> mgr.sources]
      PROVE  IInv'
  <2>1. exec.x # 0
    BY <1>8 DEF WorkerFits, NoExec
  <2>2. op' \in Operation
    BY <1>1, <1>8 DEF Operation, ControllerTypes, Holder
  <2>3. TypeOK'
    BY <1>1, <1>2, <1>3, <1>4, <1>8, <2>1, <2>2, TypePartsNext
    DEF WorkerTypes, FateTypes, CounterTypes, fate
  <2>4. WorkerFits' /\ ManagerFits' /\ DispatchFits'
    BY <1>1, <1>2, <1>3, <1>8, <2>1
    DEF WorkerFits, ManagerFits, DispatchFits, StopUnderWay, WorkerTypes
  <2>5. ExecFits'
    BY <1>2, <1>8 DEF ExecFits, Known, Given, fate
  <2> QED
    BY <1>5, <2>3, <2>4, <2>5
<1> QED
  BY <1>6, <1>7, <1>8 DEF SendStarts, FollowupStarts, NoExec

\* Nobody who holds the lock for a stop or a reset sees a worker at an operation.
LEMMA OperationAlone ==
  ASSUME IInv, op.at # "none"
  PROVE  mgr.at \notin StopUnderWay \cup {"clear"}
  BY DEF IInv, ManagerFits, WorkerFits

\* What the end of a follow-up leaves, whatever execution it leaves.
LEMMA SettleEffect ==
  ASSUME NEW e \in Execution, FollowupSettles(e), ended \in BOOLEAN, ~e.done
  PROVE  /\ exec' \in Execution /\ op' = NoOp /\ ended' = FALSE
         /\ exec'.x = e.x /\ exec'.sources = e.sources
         /\ exec'.reserved = e.reserved /\ exec'.refused = e.refused
         /\ exec'.done = ended
         /\ exec'.done => exec'.covers = exec'.sources
<1>1. /\ Settled(e) \in Execution
      /\ Settled(e).x = e.x /\ Settled(e).sources = e.sources
      /\ Settled(e).reserved = e.reserved /\ Settled(e).refused = e.refused
      /\ Settled(e).done /\ Settled(e).covers = e.sources
  BY DEF Settled, Execution
<1>2. op' = NoOp /\ ended' = FALSE /\ exec' = IF ended THEN Settled(e) ELSE e
  BY DEF FollowupSettles
<1>3. CASE ended
  BY <1>1, <1>2, <1>3 DEF Execution
<1>4. CASE ~ended
  BY <1>2, <1>4 DEF Execution
<1> QED
  BY <1>3, <1>4

\* An operation ends: what remains to be shown is what history and the execution
\* say then.
LEMMA OperationEnds ==
  ASSUME IInv, op.at # "none", op' = NoOp, ended' = FALSE,
         exec' \in Execution, exec'.x = exec.x,
         exec'.done => exec'.covers = exec'.sources,
         turn' \in {"none", "running", "unsure"},
         turn' # "none" => exec'.reserved /\ ~exec'.done,
         UNCHANGED <<host, controller>>,
         ledger' \in [Source -> Entry], FateTypes', CounterTypes',
         LedgerFits', StopsFit', ExecFits'
  PROVE  IInv'
<1> USE DEF IInv
<1>1. ControllerTypes /\ WorkerTypes
  BY TypeParts
<1>2. NoOp \in Operation /\ NoOp.at = "none"
  BY DEF NoOp, Operation
<1>3. exec.x # 0 /\ ~exec.done
  BY DEF WorkerFits
<1>4. TypeOK'
  BY <1>1, <1>2, <1>3, TypePartsNext DEF ControllerTypes, WorkerTypes, controller
<1>5. WorkerFits' /\ DispatchFits'
  BY <1>2, <1>3 DEF WorkerFits, DispatchFits
<1>6. ManagerFits'
  BY <1>2, <1>3, OperationAlone DEF ManagerFits, controller
<1> QED
  BY <1>4, <1>5, <1>6

\* The records of a reservation.
LEMMA AdmitEffect ==
  ASSUME ledger \in [Source -> Entry], exec \in Execution, op \in Operation,
         Admit(op.batch, Receipt, Recovering)
  PROVE  /\ ledger' \in [Source -> Entry]
         /\ Others(op.batch)
         /\ \A s \in op.batch :
              /\ ledger'[s].known = ledger[s].known
              /\ ledger'[s].stop = ledger[s].stop
              /\ ledger'[s].admission = Receipt
              /\ ledger'[s].recovered <=> ledger[s].recovered \/ Recovering
              /\ ledger'[s].covered = IF Recovering /\ ledger[s].covered = "no"
                                      THEN "reserved" ELSE ledger[s].covered
<1> DEFINE e(s) == [ledger[s] EXCEPT
              !.admission = Receipt,
              !.recovered = ledger[s].recovered \/ Recovering,
              !.covered = IF Recovering /\ ledger[s].covered = "no"
                          THEN "reserved" ELSE ledger[s].covered]
<1>1. ledger' = [s \in Source |-> IF s \in op.batch THEN e(s) ELSE ledger[s]]
  BY DEF Admit, Write
<1>2. /\ \A s \in op.batch : s \in Source /\ ledger[s] \in Entry
      /\ op.batch \subseteq Source
  BY DEF Operation
<1>3. Receipt \in Admissions
  <2>1. Cardinality(op.batch) \in 0..Cardinality(Source)
    BY <1>2, BatchSize
  <2> QED
    BY <1>2, <2>1 DEF Receipt, Admission, Admissions, Execution
<1>4. \A s \in op.batch :
        /\ e(s) \in Entry
        /\ e(s).known = ledger[s].known
        /\ e(s).stop = ledger[s].stop
        /\ e(s).admission = Receipt
        /\ e(s).recovered <=> ledger[s].recovered \/ Recovering
        /\ e(s).covered = IF Recovering /\ ledger[s].covered = "no"
                          THEN "reserved" ELSE ledger[s].covered
  BY <1>2, <1>3 DEF Entry, Admissions
<1> HIDE DEF e
<1> QED
  BY <1>1, <1>2, <1>4 DEF Others

\* The batch is reserved in history.
LEMMA ReservedIInv ==
  ASSUME IInv, op.at = "reserve",
         Admissible(op.batch, Recovering), Admit(op.batch, Receipt, Recovering),
         exec' = [exec EXCEPT !.reserved = TRUE,
                              !.sources = exec.sources \cup op.batch],
         op' = [op EXCEPT !.at = "dispatch"],
         IF Recovering THEN retaken' = retaken \cup op.batch /\ UNCHANGED taken
                       ELSE taken' = taken \cup op.batch /\ UNCHANGED retaken,
         UNCHANGED <<ended, faults, linked, host, turn, controller, refused,
                     halted, stops>>
  PROVE  IInv'
<1> USE DEF IInv
<1>1. /\ ControllerTypes /\ CounterTypes /\ WorkerTypes /\ FateTypes
      /\ ledger \in [Source -> Entry] /\ exec \in Execution /\ op \in Operation
  BY TypeParts DEF WorkerTypes
<1> DEFINE B == op.batch
           R == Recovering
<1>2. B \in SUBSET Source /\ R \in BOOLEAN /\ exec.x # 0 /\ ~exec.done
  BY <1>1 DEF Operation, Execution, Recovering, WorkerFits
<1>3. Receipt.x = exec.x
  BY DEF Receipt, Admission
<1>4. /\ exec' \in Execution /\ exec'.x = exec.x /\ exec'.reserved
      /\ exec'.sources = exec.sources \cup B /\ ~exec'.done
      /\ exec'.recovery = exec.recovery
  BY <1>1, <1>2 DEF Execution
<1>5. /\ op' \in Operation /\ op'.at = "dispatch" /\ op'.kind = op.kind
      /\ op'.batch = B
  BY <1>1 DEF Operation
<1>6. /\ ledger' \in [Source -> Entry]
      /\ Others(B)
      /\ \A s \in B :
           /\ ledger'[s].known = ledger[s].known
           /\ ledger'[s].stop = ledger[s].stop
           /\ ledger'[s].admission = Receipt
           /\ ledger'[s].recovered <=> ledger[s].recovered \/ R
           /\ ledger'[s].covered = IF R /\ ledger[s].covered = "no"
                                   THEN "reserved" ELSE ledger[s].covered
  BY <1>1, AdmitEffect
<1>7. \A s \in B : /\ ledger[s].known /\ ledger[s].covered = "no"
                   /\ ledger[s].stop = 0
                   /\ ~R => ledger[s].admission = NoAdmission
  BY DEF Admissible, Known, Open
<1> HIDE DEF B, R
<1>8. TypeOK'
  BY <1>1, <1>2, <1>4, <1>5, <1>6, TypePartsNext
  DEF WorkerTypes, FateTypes, CounterTypes, ControllerTypes, controller
<1>9. WorkerFits' /\ ManagerFits'
  BY <1>1, <1>2, <1>4, <1>5, OperationAlone
  DEF WorkerFits, ManagerFits, controller, B
<1>10. /\ taken' = IF R THEN taken ELSE taken \cup B
       /\ retaken' = IF R THEN retaken \cup B ELSE retaken
       /\ UNCHANGED <<halted, refused>>
  BY DEF B, R
<1>11. LedgerFits'
  <2> SUFFICES ASSUME NEW s \in Source
               PROVE  /\ ledger'[s].recovered => ledger'[s].admission.x # 0
                      /\ s \in taken' => ledger'[s].admission.x # 0
                      /\ s \in retaken' => ledger'[s].covered # "no"
                      /\ s \in halted' => /\ s \in taken' \cup retaken'
                                          /\ ledger'[s].stop # 0
    BY DEF LedgerFits
  <2>1. CASE s \in B
    BY <1>2, <1>3, <1>6, <1>7, <1>10, <2>1 DEF LedgerFits
  <2>2. CASE s \notin B
    BY <1>6, <1>10, <2>2 DEF LedgerFits, Others
  <2> QED
    BY <2>1, <2>2
<1>12. StopsFit'
  <2>1. \A s \in Source : ledger'[s].stop = ledger[s].stop
    BY <1>6 DEF Others
  <2> QED
    BY <2>1 DEF StopsFit, controller
<1>13. B \cap halted = {} \/ R
  BY <1>2, <1>7 DEF LedgerFits, NoAdmission
<1>14. Receipt' = Receipt /\ (Recovering' <=> R)
  BY <1>4, <1>5 DEF Receipt, Recovering, R, B
<1>15. DispatchFits'
  <2> SUFFICES ASSUME ~R
               PROVE  /\ Restorable(op.batch, Receipt)'
                      /\ B \subseteq taken' \ halted'
                      /\ \A s \in B : ledger'[s].covered # "answered"
    BY <1>5, <1>14 DEF DispatchFits
  <2>1. \A s \in B : ~ledger[s].recovered
    BY <1>2, <1>7 DEF LedgerFits, NoAdmission
  <2>2. \A s \in B : /\ ledger'[s].known /\ ~ledger'[s].recovered
                     /\ ledger'[s].admission = Receipt'
                     /\ ledger'[s].covered = "no"
    BY <1>6, <1>7, <1>14, <2>1
  <2> QED
    BY <1>5, <1>10, <1>13, <2>2 DEF Restorable, Known
<1>16. ExecFits'
  <2>1. exec.sources \subseteq Source /\ (~exec.reserved => exec.sources \subseteq B)
    BY <1>1 DEF Execution, WorkerFits, Operation, B
  <2>2. Known(exec.sources)'
    BY <1>2, <1>4, <1>6, <1>7, <2>1 DEF Known, ExecFits, Others
  <2>3. \A s \in exec'.sources :
          ledger'[s].admission.x = exec'.x /\ s \in (taken \cup retaken)'
    BY <1>2, <1>3, <1>4, <1>6, <1>10, <2>1 DEF ExecFits, Others
  <2> QED
    BY <1>4, <1>5, <2>2, <2>3 DEF ExecFits
<1> QED
  BY <1>8, <1>9, <1>11, <1>12, <1>15, <1>16

\* The reservation, or the refusal of the worker.
LEMMA ReserveIInv ==
  ASSUME IInv, Reserve
  PROVE  IInv'
<1> USE DEF IInv
<1>1. /\ ControllerTypes /\ CounterTypes /\ WorkerTypes /\ FateTypes
      /\ ledger \in [Source -> Entry] /\ exec \in Execution /\ ended \in BOOLEAN
      /\ op.at = "reserve"
      /\ UNCHANGED <<linked, host, turn, controller, refused, halted, stops>>
  BY TypeParts DEF WorkerTypes, Reserve
<1>2. CASE UNCHANGED <<ledger, taken, retaken>>
           /\ (\/ ~Admissible(op.batch, Recovering) /\ UNCHANGED faults
               \/ Fault)
           /\ IF op.kind = "send"
              THEN /\ exec' = [exec EXCEPT !.refused = TRUE, !.done = TRUE,
                                           !.covers = exec.sources]
                   /\ op' = NoOp
                   /\ UNCHANGED ended
              ELSE FollowupSettles(exec)
  <2>1. CounterTypes'
    BY <1>1, <1>2, FaultTypes DEF CounterTypes
  <2>2. LedgerFits' /\ StopsFit' /\ FateTypes'
    BY <1>1, <1>2 DEF LedgerFits, StopsFit, FateTypes, controller
  <2>3. exec.x # 0 /\ ~exec.done /\ (turn # "none" => exec.reserved)
        /\ (ended => turn = "none")
    BY <1>1 DEF WorkerFits
  <2>4. CASE op.kind = "send"
    <3>1. /\ exec' \in Execution /\ exec'.x = exec.x /\ exec'.done
          /\ exec'.covers = exec'.sources /\ exec'.refused
          /\ exec'.reserved = exec.reserved /\ exec'.sources = exec.sources
      BY <1>1, <1>2, <2>4 DEF Execution
    <3>2. turn = "none" /\ ~ended
      BY <1>1, <2>4 DEF WorkerFits, WorkerTypes
    <3>3. ExecFits'
      BY <1>2, <2>4, <3>1 DEF ExecFits, Known, NoOp
    <3> QED
      BY <1>1, <1>2, <2>1, <2>2, <2>4, <3>1, <3>2, <3>3, OperationEnds
  <2>5. CASE op.kind # "send"
    <3>1. /\ exec' \in Execution /\ op' = NoOp /\ ended' = FALSE
          /\ exec'.x = exec.x /\ exec'.sources = exec.sources
          /\ exec'.reserved = exec.reserved /\ exec'.refused = exec.refused
          /\ exec'.done = ended
          /\ exec'.done => exec'.covers = exec'.sources
      BY <1>1, <1>2, <2>3, <2>5, SettleEffect
    <3>2. exec.reserved
      BY <1>1, <2>5 DEF WorkerFits, WorkerTypes, Operation
    <3>3. ExecFits'
      BY <1>1, <1>2, <2>3, <3>1, <3>2 DEF ExecFits, Known, NoOp, Given
    <3> QED
      BY <1>1, <1>2, <2>1, <2>2, <2>3, <3>1, <3>2, <3>3, OperationEnds
      DEF WorkerTypes
  <2> QED
    BY <2>4, <2>5
<1> QED
  BY <1>1, <1>2, ReservedIInv DEF Reserve

\* The provider takes the request, or may have; the terminal error of one it has
\* refused.
LEMMA DispatchIInv ==
  ASSUME IInv, Dispatch \/ Tell
  PROVE  IInv'
<1> USE DEF IInv
<1>1. /\ CounterTypes /\ WorkerTypes /\ FateTypes
      /\ ledger \in [Source -> Entry] /\ exec \in Execution /\ ended \in BOOLEAN
      /\ UNCHANGED <<ledger, linked, host, controller, fate, stops>>
      /\ op.at \in {"dispatch", "tell"} /\ (Tell => op.at = "tell")
      /\ (Dispatch => op.at = "dispatch")
  BY TypeParts DEF WorkerTypes, Dispatch, Tell
<1>2. /\ exec.x # 0 /\ ~exec.done /\ exec.reserved
      /\ (op.kind = "send" => turn = "none" /\ ~ended)
      /\ (op.kind # "send" => op.at = "dispatch")
      /\ (ended => turn = "none")
  BY <1>1 DEF WorkerFits, WorkerTypes, Operation
<1>3. CounterTypes'
  BY <1>1, FaultTypes DEF CounterTypes, Dispatch, Tell
<1>4. LedgerFits' /\ StopsFit' /\ FateTypes'
  BY <1>1 DEF LedgerFits, StopsFit, FateTypes, controller, fate
<1>5. CASE Dispatch /\ op.kind = "send"
  <2>1. /\ exec' = exec \/ exec' = [exec EXCEPT !.error = TRUE]
        /\ op' = NoOp /\ UNCHANGED ended
        /\ turn' \in {"running", "unsure"}
    BY <1>5 DEF Dispatch
  <2>2. /\ exec' \in Execution /\ exec'.x = exec.x /\ exec'.done = exec.done
        /\ exec'.covers = exec.covers /\ exec'.refused = exec.refused
        /\ exec'.reserved = exec.reserved /\ exec'.sources = exec.sources
    BY <1>1, <2>1 DEF Execution
  <2>3. ExecFits'
    BY <1>1, <1>2, <1>5, <2>1, <2>2 DEF ExecFits, Known, NoOp, Given, fate
  <2> QED
    BY <1>1, <1>2, <1>3, <1>4, <1>5, <2>1, <2>2, <2>3, OperationEnds
<1>6. CASE Dispatch /\ op.kind # "send"
  <2>1. /\ UNCHANGED turn
        /\ \E e \in {exec, [exec EXCEPT !.error = TRUE]} : FollowupSettles(e)
    BY <1>6 DEF Dispatch
  <2>2. PICK e \in {exec, [exec EXCEPT !.error = TRUE]} : FollowupSettles(e)
    BY <2>1
  <2>3. /\ e \in Execution /\ e.x = exec.x /\ e.sources = exec.sources
        /\ e.reserved = exec.reserved /\ e.refused = exec.refused
        /\ e.done = exec.done
    BY <1>1, <2>2 DEF Execution
  <2>4. /\ exec' \in Execution /\ op' = NoOp /\ ended' = FALSE
        /\ exec'.x = exec.x /\ exec'.sources = exec.sources
        /\ exec'.reserved = exec.reserved /\ exec'.refused = exec.refused
        /\ exec'.done = ended
        /\ exec'.done => exec'.covers = exec'.sources
    BY <1>1, <1>2, <2>2, <2>3, SettleEffect
  <2>5. ExecFits'
    BY <1>1, <1>2, <1>6, <2>4 DEF ExecFits, Known, NoOp, Given, fate
  <2> QED
    BY <1>1, <1>2, <1>3, <1>4, <1>6, <2>1, <2>4, <2>5, OperationEnds
    DEF WorkerTypes
<1>7. CASE Tell
  <2>1. exec' = Settled(exec) /\ op' = NoOp /\ UNCHANGED <<turn, ended>>
    BY <1>7 DEF Tell
  <2>2. /\ exec' \in Execution /\ exec'.x = exec.x
        /\ exec'.sources = exec.sources /\ exec'.covers = exec.sources
        /\ exec'.reserved = exec.reserved /\ exec'.done
    BY <1>1, <2>1 DEF Settled, Execution
  <2>3. turn = "none" /\ ~ended
    BY <1>1, <1>2, <1>7
  <2>4. ExecFits'
    BY <1>1, <1>2, <1>7, <2>1, <2>2 DEF ExecFits, Known, NoOp, Given, fate
  <2> QED
    BY <1>1, <1>3, <1>4, <2>1, <2>2, <2>3, <2>4, OperationEnds
<1> QED
  BY <1>5, <1>6, <1>7

\* A worker that is gone left the execution that has ended, or nothing.
LEMMA GoneIInv ==
  ASSUME IInv, NEW e \in {exec, NoExec}, Gone(e), e = exec => exec.done \/ e = NoExec,
         faults' \in 0..MaxFault,
         UNCHANGED <<ledger, linked, controller, fate, stops>>
  PROVE  IInv'
<1> USE DEF IInv
<1>1. /\ ControllerTypes /\ CounterTypes /\ WorkerTypes /\ FateTypes
      /\ ledger \in [Source -> Entry]
  BY TypeParts
<1>2. /\ host' = "down" /\ exec' = e /\ turn' = "none" /\ ended' = FALSE
      /\ op' = NoOp
  BY DEF Gone
<1>3. NoOp \in Operation /\ NoOp.at = "none"
  BY DEF NoOp, Operation
<1>4. /\ NoExec \in Execution /\ NoExec.x = 0 /\ ~NoExec.done
      /\ ~NoExec.reserved
  BY BatchSize DEF NoExec, Execution, N
<1>5. TypeOK'
  BY <1>1, <1>2, <1>3, <1>4, TypePartsNext
  DEF ControllerTypes, WorkerTypes, FateTypes, CounterTypes, controller, fate
<1>6. WorkerFits' /\ DispatchFits'
  BY <1>2, <1>3, <1>4 DEF WorkerFits, DispatchFits
<1>7. ManagerFits'
  BY <1>2, <1>3, <1>4
  DEF ManagerFits, controller, Cancellable, Known, StopUnderWay
<1>8. LedgerFits' /\ StopsFit'
  BY DEF LedgerFits, StopsFit, controller, fate
<1>9. ExecFits'
  BY <1>2, <1>3, <1>4 DEF ExecFits, Known, fate, Given
<1> QED
  BY <1>5, <1>6, <1>7, <1>8, <1>9

\* A worker that is lost leaves a finished execution behind, or nothing.
LEMMA WorkerLostIInv ==
  ASSUME IInv, WorkerLost
  PROVE  IInv'
<1>1. faults' \in 0..MaxFault
  BY FaultTypes DEF WorkerLost, IInv
<1> QED
  BY <1>1, GoneIInv DEF WorkerLost

\* The provider proves that it has not taken the request.
LEMMA RejectedIInv ==
  ASSUME IInv, Rejected
  PROVE  IInv'
<1> USE DEF IInv
<1>1. /\ ControllerTypes /\ CounterTypes /\ WorkerTypes /\ FateTypes
      /\ ledger \in [Source -> Entry] /\ exec \in Execution /\ ended \in BOOLEAN
      /\ op \in Operation /\ op.batch \in SUBSET Source
      /\ op.at = "dispatch"
      /\ UNCHANGED <<linked, controller, retaken, halted, faults, stops>>
  BY TypeParts DEF WorkerTypes, Rejected, Operation
<1>2. /\ exec.x # 0 /\ ~exec.done /\ exec.reserved
      /\ (op.kind = "send" => turn = "none" /\ op.batch = exec.sources)
      /\ (ended => turn = "none")
      /\ (ended => op.kind # "send")
  BY <1>1 DEF WorkerFits, WorkerTypes, Operation
<1>3. CounterTypes'
  BY <1>1 DEF CounterTypes
<1>4. CASE op' = [op EXCEPT !.at = "tell"] /\ op.kind = "send"
           /\ UNCHANGED <<exec, ended, host, turn>>
           /\ ledger' \in [Source -> Entry] /\ FateTypes'
           /\ LedgerFits' /\ StopsFit'
           /\ Known(exec.sources)' /\ exec.sources \subseteq Given'
  <2>1. /\ op' \in Operation /\ op'.at = "tell" /\ op'.kind = op.kind
        /\ op'.batch = op.batch
    BY <1>1, <1>4 DEF Operation
  <2>2. TypeOK'
    BY <1>1, <1>2, <1>3, <1>4, <2>1, TypePartsNext
    DEF WorkerTypes, ControllerTypes, controller
  <2>3. WorkerFits' /\ ManagerFits' /\ DispatchFits'
    BY <1>1, <1>2, <1>4, <2>1, OperationAlone
    DEF WorkerFits, ManagerFits, DispatchFits, controller
  <2>4. ExecFits'
    BY <1>2, <1>4, <2>1 DEF ExecFits
  <2> QED
    BY <1>4, <2>2, <2>3, <2>4
<1>5. CASE Recovering
  <2>1. /\ op' = [op EXCEPT !.at = "tell"] /\ op.kind = "send"
        /\ UNCHANGED <<ledger, exec, ended, host, turn, taken, refused>>
    BY <1>1, <1>5 DEF Rejected, Recovering
  <2>2. LedgerFits' /\ StopsFit' /\ FateTypes'
    BY <1>1, <2>1 DEF LedgerFits, StopsFit, FateTypes, controller
  <2>3. Known(exec.sources)' /\ exec.sources \subseteq Given'
    BY <1>1, <1>2, <2>1 DEF ExecFits, Known, Given
  <2> QED
    BY <1>1, <1>4, <2>1, <2>2, <2>3
<1>6. CASE ~Recovering
  <2>1. /\ Restorable(op.batch, Receipt) /\ Restore(op.batch)
        /\ taken' = taken \ op.batch
        /\ refused' = IF op.kind = "send" THEN refused \cup op.batch ELSE refused
        /\ UNCHANGED <<host, turn>>
        /\ IF op.kind = "send"
           THEN op' = [op EXCEPT !.at = "tell"] /\ UNCHANGED <<exec, ended>>
           ELSE FollowupSettles([exec EXCEPT !.sources = exec.sources \ op.batch])
    BY <1>1, <1>6 DEF Rejected, DispatchFits
  <2>2. /\ ledger' \in [Source -> Entry] /\ Others(op.batch)
        /\ \A s \in op.batch :
             ledger'[s] = [ledger[s] EXCEPT !.admission = NoAdmission]
    BY <1>1, <2>1, RestoreEffect
  <2>3. \A s \in Source :
          /\ ledger'[s].known = ledger[s].known
          /\ ledger'[s].recovered = ledger[s].recovered
          /\ ledger'[s].covered = ledger[s].covered
          /\ ledger'[s].stop = ledger[s].stop
          /\ s \notin op.batch => ledger'[s].admission = ledger[s].admission
    <3> TAKE s \in Source
    <3>1. CASE s \in op.batch
      BY <1>1, <2>2, <3>1 DEF Entry
    <3>2. CASE s \notin op.batch
      BY <2>2, <3>2 DEF Others
    <3> QED
      BY <3>1, <3>2
  <2>4. LedgerFits'
    <3> SUFFICES ASSUME NEW s \in Source
                 PROVE  /\ ledger'[s].recovered => ledger'[s].admission.x # 0
                        /\ s \in taken' => ledger'[s].admission.x # 0
                        /\ s \in retaken' => ledger'[s].covered # "no"
                        /\ s \in halted' => /\ s \in taken' \cup retaken'
                                            /\ ledger'[s].stop # 0
      BY DEF LedgerFits
    <3>1. s \in op.batch => ~ledger[s].recovered /\ s \notin halted
      BY <1>1, <1>6 DEF DispatchFits, Restorable
    <3> QED
      BY <1>1, <2>1, <2>3, <3>1 DEF LedgerFits
  <2>5. StopsFit'
    BY <1>1, <2>3 DEF StopsFit, controller
  <2>6. FateTypes'
    BY <1>1, <2>1 DEF FateTypes
  <2>7. CASE op.kind = "send"
    <3>1. Known(exec.sources)' /\ exec.sources \subseteq Given'
      BY <1>1, <1>2, <2>1, <2>3, <2>7 DEF ExecFits, Known, Given
    <3> QED
      BY <1>4, <2>1, <2>2, <2>4, <2>5, <2>6, <2>7, <3>1
  <2>8. CASE op.kind # "send"
    <3> DEFINE e == [exec EXCEPT !.sources = exec.sources \ op.batch]
    <3>1. /\ e \in Execution /\ e.x = exec.x /\ e.sources = exec.sources \ op.batch
          /\ e.reserved = exec.reserved /\ e.refused = exec.refused
          /\ e.done = exec.done
      BY <1>1 DEF Execution
    <3>2. /\ exec' \in Execution /\ op' = NoOp /\ ended' = FALSE
          /\ exec'.x = e.x /\ exec'.sources = e.sources
          /\ exec'.reserved = e.reserved /\ exec'.refused = e.refused
          /\ exec'.done = ended
          /\ exec'.done => exec'.covers = exec'.sources
      BY <1>1, <1>2, <2>1, <2>8, <3>1, SettleEffect
    <3> HIDE DEF e
    <3>3. /\ \A s \in exec.sources : s \in Source
          /\ \A s \in exec'.sources : s \in exec.sources \ op.batch
      BY <1>1, <3>1, <3>2 DEF Execution
    <3>4. \A s \in exec'.sources :
            /\ ledger'[s].known
            /\ ledger'[s].admission.x = exec'.x
            /\ s \in taken' \cup retaken'
      BY <1>1, <1>2, <2>1, <2>3, <3>1, <3>2, <3>3 DEF ExecFits, Known
    <3>5. ExecFits'
      BY <3>2, <3>4 DEF ExecFits, Known, NoOp, Given
    <3> QED
      BY <1>1, <1>2, <1>3, <2>1, <2>2, <2>4, <2>5, <2>6, <3>1, <3>2, <3>5,
         OperationEnds DEF WorkerTypes
  <2> QED
    BY <2>7, <2>8
<1> QED
  BY <1>5, <1>6

\* The turn ends, at once or when the follow-up under way is settled.
LEMMA TurnEndsIInv ==
  ASSUME IInv, TurnEnds
  PROVE  IInv'
<1> USE DEF IInv
<1>1. /\ ControllerTypes /\ CounterTypes /\ WorkerTypes /\ FateTypes
      /\ ledger \in [Source -> Entry] /\ exec \in Execution /\ ended \in BOOLEAN
      /\ turn # "none" /\ turn' = "none"
      /\ UNCHANGED <<ledger, linked, host, op, controller, fate, faults, stops>>
  BY TypeParts DEF WorkerTypes, TurnEnds
<1>2. exec.x # 0 /\ ~exec.done /\ exec.reserved /\ ~ended
  BY <1>1 DEF WorkerFits, WorkerTypes
<1>3. LedgerFits' /\ StopsFit'
  BY <1>1 DEF LedgerFits, StopsFit, controller, fate
<1>4. CASE op.at # "none"
  <2>1. ended' = TRUE /\ UNCHANGED exec
    BY <1>4 DEF TurnEnds
  <2>2. op.kind = "followup"
    BY <1>1, <1>4 DEF WorkerFits, WorkerTypes, Operation
  <2>3. TypeOK'
    BY <1>1, <1>2, <1>4, <2>1, <2>2, TypePartsNext
    DEF ControllerTypes, WorkerTypes, FateTypes, CounterTypes, controller, fate
  <2>4. WorkerFits' /\ ManagerFits' /\ DispatchFits' /\ ExecFits'
    BY <1>1, <2>1
    DEF WorkerFits, ManagerFits, DispatchFits, ExecFits, Restorable, Receipt,
        Recovering, Known, Given, Cancellable, controller, fate
  <2> QED
    BY <1>3, <2>3, <2>4
<1>5. CASE op.at = "none"
  <2>1. exec' = Settled(exec) /\ UNCHANGED ended
    BY <1>5 DEF TurnEnds
  <2>2. /\ exec' \in Execution /\ exec'.x = exec.x /\ exec'.done
        /\ exec'.sources = exec.sources /\ exec'.covers = exec.sources
        /\ exec'.reserved = exec.reserved /\ exec'.refused = exec.refused
    BY <1>1, <2>1 DEF Settled, Execution
  <2>3. TypeOK'
    BY <1>1, <1>2, <2>1, <2>2, TypePartsNext
    DEF ControllerTypes, WorkerTypes, FateTypes, CounterTypes, controller, fate
  <2>4. WorkerFits' /\ ManagerFits' /\ DispatchFits'
    BY <1>1, <1>2, <1>5, <2>1, <2>2
    DEF WorkerFits, ManagerFits, DispatchFits, Known, Cancellable, controller
  <2>5. ExecFits'
    BY <1>1, <1>2, <1>5, <2>2 DEF ExecFits, Known, Given, fate
  <2> QED
    BY <1>3, <2>3, <2>4, <2>5
<1> QED
  BY <1>4, <1>5

\* The manager retires the execution, the agent links a message.
LEMMA RetireIInv ==
  ASSUME IInv, Retire \/ \E s \in Source : Link(s)
  PROVE  IInv'
<1> USE DEF IInv
<1>1. /\ ControllerTypes /\ CounterTypes /\ WorkerTypes /\ FateTypes
      /\ ledger \in [Source -> Entry]
  BY TypeParts
<1>2. CASE Retire
  <2>1. /\ NoExec \in Execution /\ NoExec.x = 0 /\ ~NoExec.done
        /\ ~NoExec.reserved /\ 0 \in 0..N
    BY BatchSize DEF NoExec, Execution, N
  <2>2. /\ job' = 0 /\ exec' = NoExec /\ reader' = "none"
        /\ mgr.at = "idle" /\ op.at = "none"
        /\ UNCHANGED <<ledger, linked, host, turn, ended, op, mgr, intake, scan,
                       fate, faults, stops>>
    BY <1>2 DEF Retire, Answering
  <2>3. turn = "none"
    BY <1>1, <1>2 DEF Retire, WorkerTypes, Answering, ManagerFits
  <2>4. TypeOK'
    BY <1>1, <2>1, <2>2, <2>3, TypePartsNext
    DEF ControllerTypes, WorkerTypes, FateTypes, CounterTypes, fate
  <2>5. WorkerFits' /\ ManagerFits' /\ DispatchFits' /\ ExecFits'
    BY <2>1, <2>2, <2>3
    DEF WorkerFits, ManagerFits, DispatchFits, ExecFits, StopUnderWay
  <2>6. LedgerFits' /\ StopsFit'
    BY <2>2 DEF LedgerFits, StopsFit, fate
  <2> QED
    BY <2>4, <2>5, <2>6
<1>3. CASE \E s \in Source : Link(s)
  <2>1. /\ linked' \subseteq Source
        /\ UNCHANGED <<ledger, worker, controller, fate, faults, stops>>
    BY <1>1, <1>3 DEF Link, FateTypes
  <2>2. TypeOK'
    BY <1>1, <2>1, TypePartsNext
    DEF ControllerTypes, WorkerTypes, FateTypes, CounterTypes, fate, worker,
        controller
  <2>3. WorkerFits' /\ ManagerFits' /\ DispatchFits' /\ ExecFits'
    BY <2>1
    DEF WorkerFits, ManagerFits, DispatchFits, ExecFits, worker, controller, fate,
        Known, Restorable, Receipt, Recovering, Given, Cancellable
  <2>4. LedgerFits' /\ StopsFit'
    BY <2>1 DEF LedgerFits, StopsFit, fate, controller
  <2> QED
    BY <2>2, <2>3, <2>4
<1> QED
  BY <1>2, <1>3

-----------------------------------------------------------------------------
(* Steps that write history for the controller. *)

\* A step that leaves the worker alone, and of every entry what the invariant says
\* of an execution or an operation: known, recovered, admission.
EntriesKept ==
  \A s \in Source :
    /\ ledger[s].known => ledger'[s].known
    /\ ledger'[s].recovered = ledger[s].recovered
    /\ ledger'[s].admission = ledger[s].admission

\* A write of the history that keeps every entry keeps the invariant.
LEMMA HistoryStep ==
  ASSUME IInv, EntriesKept, ledger' \in [Source -> Entry],
         UNCHANGED <<linked, worker, taken, refused, retaken>>,
         ControllerTypes', CounterTypes', halted' \subseteq Source,
         op.at = "dispatch" => /\ halted' = halted
                               /\ \A s \in Source :
                                    ledger'[s].covered = ledger[s].covered,
         ManagerFits', LedgerFits', StopsFit'
  PROVE  IInv'
<1> USE DEF IInv
<1>1. /\ WorkerTypes /\ FateTypes /\ exec \in Execution /\ op \in Operation
      /\ exec.sources \subseteq Source /\ op.batch \subseteq Source
  BY TypeParts DEF WorkerTypes, Execution, Operation
<1>2. TypeOK'
  BY <1>1, TypePartsNext DEF WorkerTypes, FateTypes, worker
<1>3. WorkerFits'
  BY DEF WorkerFits, worker
<1>4. DispatchFits'
  <2> SUFFICES ASSUME op.at = "dispatch", ~Recovering
               PROVE  /\ Restorable(op.batch, Receipt)'
                      /\ op.batch \subseteq taken \ halted'
                      /\ \A s \in op.batch : ledger'[s].covered # "answered"
    BY DEF DispatchFits, worker, Recovering
  <2>1. Receipt' = Receipt
    BY DEF Receipt, worker
  <2> QED
    BY <1>1, <2>1 DEF DispatchFits, Restorable, Known, EntriesKept, worker
<1>5. ExecFits'
  BY <1>1 DEF ExecFits, Known, Given, EntriesKept, worker
<1> QED
  BY <1>2, <1>3, <1>4, <1>5

\* A message is heard of, or answered.
LEMMA HeardIInv ==
  ASSUME IInv, Deliver \/ \E s \in Source : Accept(s)
  PROVE  IInv'
<1> USE DEF IInv
<1>1. /\ ControllerTypes /\ CounterTypes /\ WorkerTypes /\ FateTypes
      /\ ledger \in [Source -> Entry] /\ exec \in Execution
  BY TypeParts DEF WorkerTypes
<1>2. ASSUME NEW s \in Source, Accept(s)
      PROVE  IInv'
  <2>1. /\ ledger' = [ledger EXCEPT ![s].known = TRUE]
        /\ intake' = intake \cup {s} /\ mgr.at # "clear"
        /\ UNCHANGED <<linked, worker, mgr, job, reader, scan, fate, faults,
                       stops>>
    BY <1>2 DEF Accept
  <2>2. /\ ledger' \in [Source -> Entry] /\ EntriesKept
        /\ \A t \in Source : /\ ledger'[t].covered = ledger[t].covered
                             /\ ledger'[t].stop = ledger[t].stop
    <3> DEFINE e == [ledger[s] EXCEPT !.known = TRUE]
    <3>1. /\ e \in Entry /\ e.known /\ e.recovered = ledger[s].recovered
          /\ e.admission = ledger[s].admission
          /\ e.covered = ledger[s].covered /\ e.stop = ledger[s].stop
      <4>1. ledger[s] \in Entry
        BY <1>1
      <4> QED
        BY <4>1 DEF Entry
    <3>2. ledger' = [ledger EXCEPT ![s] = e]
      BY <2>1
    <3> HIDE DEF e
    <3> QED
      BY <1>1, <3>1, <3>2 DEF EntriesKept
  <2>3. ControllerTypes' /\ CounterTypes'
    BY <1>1, <2>1 DEF ControllerTypes, CounterTypes
  <2>4. ManagerFits'
    <3>1. mgr.sources \subseteq Source
      BY <1>1 DEF ControllerTypes, Holder
    <3> QED
      BY <2>1, <2>2, <3>1
      DEF ManagerFits, Cancellable, Known, EntriesKept, worker, StopUnderWay
  <2>5. LedgerFits' /\ StopsFit'
    BY <2>1, <2>2 DEF LedgerFits, StopsFit, EntriesKept, fate
  <2> QED
    BY <1>1, <2>1, <2>2, <2>3, <2>4, <2>5, HistoryStep DEF fate, FateTypes
<1>3. CASE Deliver
  <2>1. /\ exec.done /\ op.at = "none" /\ reader' = "delivered"
        /\ UNCHANGED <<linked, worker, mgr, intake, job, scan, fate, faults,
                       stops>>
    BY <1>3 DEF Deliver, Answering
  <2>2. /\ ledger' \in [Source -> Entry] /\ EntriesKept
        /\ \A s \in Source :
             /\ ledger'[s].covered # ledger[s].covered
                  => ledger'[s].covered = "answered"
             /\ ledger'[s].stop = ledger[s].stop
    <3>1. CASE exec.refused
      BY <1>1, <1>3, <3>1 DEF Deliver, EntriesKept
    <3>2. CASE ~exec.refused
      <4>1. exec.covers \in SUBSET Source /\ Cover(exec.covers)
        BY <1>1, <1>3, <3>2 DEF Deliver, Execution
      <4>2. /\ ledger' \in [Source -> Entry] /\ Others(exec.covers)
            /\ \A s \in exec.covers :
                 ledger'[s] = [ledger[s] EXCEPT !.covered = "answered"]
        BY <1>1, <4>1, CoverEffect
      <4>3. ASSUME NEW s \in Source
            PROVE  /\ ledger'[s].known = ledger[s].known
                   /\ ledger'[s].recovered = ledger[s].recovered
                   /\ ledger'[s].admission = ledger[s].admission
                   /\ ledger'[s].stop = ledger[s].stop
                   /\ \/ ledger'[s].covered = "answered"
                      \/ ledger'[s].covered = ledger[s].covered
        <5> DEFINE e == ledger[s]
        <5>1. CASE s \in exec.covers
          <6>1. e \in Entry /\ ledger'[s] = [e EXCEPT !.covered = "answered"]
            BY <1>1, <4>2, <5>1
          <6> HIDE DEF e
          <6>2. /\ ledger'[s].known = e.known
                /\ ledger'[s].recovered = e.recovered
                /\ ledger'[s].admission = e.admission
                /\ ledger'[s].stop = e.stop
                /\ ledger'[s].covered = "answered"
            BY <6>1 DEF Entry
          <6> QED
            BY <6>2 DEF e
        <5>2. CASE s \notin exec.covers
          BY <4>2, <5>2 DEF Others
        <5> QED
          BY <5>1, <5>2
      <4> QED
        BY <4>2, <4>3 DEF EntriesKept
    <3> QED
      BY <3>1, <3>2
  <2>3. ControllerTypes' /\ CounterTypes'
    BY <1>1, <2>1 DEF ControllerTypes, CounterTypes
  <2>4. ManagerFits'
    <3>1. mgr.sources \subseteq Source
      BY <1>1 DEF ControllerTypes, Holder
    <3> QED
      BY <2>1, <2>2, <3>1
      DEF ManagerFits, Cancellable, Known, EntriesKept, worker, StopUnderWay
  <2>5. LedgerFits' /\ StopsFit'
    BY <2>1, <2>2 DEF LedgerFits, StopsFit, EntriesKept, fate
  <2> QED
    BY <1>1, <2>1, <2>2, <2>3, <2>4, <2>5, HistoryStep DEF fate, FateTypes
<1> QED
  BY <1>2, <1>3

\* A lock that nobody holds is typed.
LEMMA IdleTypes == Idle \in Holder /\ Idle.at = "idle"
  BY BatchSize DEF Idle, Holder, N

\* A stop or a reset begins.
LEMMA StopBeginsIInv ==
  ASSUME IInv, StopInspect \/ ClearReset
  PROVE  IInv'
<1> USE DEF IInv
<1>1. /\ ControllerTypes /\ CounterTypes /\ WorkerTypes /\ FateTypes
      /\ ledger \in [Source -> Entry] /\ exec \in Execution
  BY TypeParts DEF WorkerTypes
<1>2. /\ op.at = "none" /\ stops < MaxStop /\ stops' = stops + 1
      /\ UNCHANGED <<ledger, linked, worker, intake, job, reader, scan, fate,
                     faults>>
  BY DEF StopInspect, ClearReset, Answering
<1>3. CounterTypes' /\ stops' # 0
  BY <1>1, <1>2, BoundsAssumption DEF CounterTypes
<1>4. /\ mgr' \in Holder
      /\ \/ /\ mgr'.at = "record" /\ mgr'.sources = exec.sources
            /\ mgr'.x = exec.x /\ exec.reserved /\ ~exec.done
         \/ mgr'.at = "clear" /\ exec.x = 0
  <2>1. CASE StopInspect
    <3>1. mgr' = [at |-> "record", action |-> "send", x |-> exec.x,
                  sources |-> exec.sources, recovery |-> FALSE,
                  again |-> exec.cancelled]
      BY <2>1 DEF StopInspect, Idle
    <3>2. exec.reserved /\ ~exec.done
      BY <2>1 DEF StopInspect
    <3> QED
      BY <1>1, <3>1, <3>2 DEF Holder, Execution
  <2>2. CASE ClearReset
    <3>1. mgr' = [Idle EXCEPT !.at = "clear"] /\ exec.x = 0
      BY <2>2 DEF ClearReset
    <3> QED
      BY <3>1, IdleTypes DEF Holder
  <2> QED
    BY <2>1, <2>2
<1>5. ControllerTypes'
  BY <1>1, <1>2, <1>4 DEF ControllerTypes
<1>6. ManagerFits'
  <2>1. exec.reserved /\ ~exec.done => Cancellable(exec.sources, exec.x)
    BY <1>2 DEF ExecFits, Cancellable
  <2> QED
    BY <1>2, <1>3, <1>4, <2>1
    DEF ManagerFits, StopUnderWay, Cancellable, Known, worker
<1>7. LedgerFits'
  BY <1>2 DEF LedgerFits, fate
<1>8. StopsFit'
  <2>1. \A s \in Source : ledger[s].stop <= stops /\ ledger[s].stop \in Nat
    BY <1>1, BoundsAssumption DEF StopsFit, Entry
  <2>2. stops \in Nat
    BY <1>1, BoundsAssumption DEF CounterTypes
  <2> QED
    BY <1>2, <1>4, <2>1, <2>2 DEF StopsFit
<1> QED
  BY <1>1, <1>2, <1>3, <1>5, <1>6, <1>7, <1>8, HistoryStep
  DEF EntriesKept, fate, FateTypes

\* The intent is recorded, or taken back.
LEMMA IntentIInv ==
  ASSUME IInv, StopRecord \/ StopRestore
  PROVE  IInv'
<1> USE DEF IInv
<1>1. /\ ControllerTypes /\ CounterTypes /\ WorkerTypes /\ FateTypes
      /\ ledger \in [Source -> Entry] /\ mgr \in Holder
      /\ mgr.sources \in SUBSET Source /\ stops \in 0..MaxStop
  BY TypeParts DEF ControllerTypes, CounterTypes, Holder
<1>2. /\ mgr.at \in {"record", "restore"} /\ op.at = "none" /\ stops # 0
      /\ Cancellable(mgr.sources, mgr.x)
      /\ UNCHANGED <<linked, worker, intake, job, reader, scan, fate, stops>>
  BY DEF StopRecord, StopRestore, ManagerFits, StopUnderWay
<1>3. CounterTypes'
  BY <1>1, <1>2, FaultTypes DEF CounterTypes, StopRecord, StopRestore
<1>4. CASE mgr' = Idle /\ UNCHANGED ledger
  BY <1>1, <1>2, <1>3, <1>4, IdleTypes, QuietStep
  DEF ControllerTypes, CounterTypes, WorkerTypes, worker
<1>5. CASE StopRecord /\ Request(mgr.sources, stops)
           /\ mgr' = [mgr EXCEPT !.at = "interrupt"]
  <2>1. /\ mgr.at = "record"
        /\ mgr' \in Holder /\ mgr'.at = "interrupt" /\ mgr'.x = mgr.x
        /\ mgr'.sources = mgr.sources
    BY <1>1, <1>5 DEF StopRecord, Holder
  <2>2. /\ ledger' \in [Source -> Entry]
        /\ Others(mgr.sources)
        /\ \A s \in mgr.sources :
             ledger'[s] = [ledger[s] EXCEPT
               !.stop = IF ledger[s].stop = 0 THEN stops ELSE ledger[s].stop]
    BY <1>1, <1>5, RequestEffect
  <2>3. ASSUME NEW s \in Source
        PROVE  /\ ledger'[s].known = ledger[s].known
               /\ ledger'[s].recovered = ledger[s].recovered
               /\ ledger'[s].admission = ledger[s].admission
               /\ ledger'[s].covered = ledger[s].covered
               /\ ledger'[s].stop =
                    IF s \in mgr.sources /\ ledger[s].stop = 0 THEN stops
                    ELSE ledger[s].stop
    <3> DEFINE e == ledger[s]
               i == IF e.stop = 0 THEN stops ELSE e.stop
    <3>1. e \in Entry
      BY <1>1
    <3>2. CASE s \in mgr.sources
      <4>1. ledger'[s] = [e EXCEPT !.stop = i]
        BY <2>2, <3>2
      <4> HIDE DEF e
      <4> QED
        BY <3>1, <3>2, <4>1 DEF Entry, e
    <3>3. CASE s \notin mgr.sources
      BY <2>2, <3>3 DEF Others
    <3> QED
      BY <3>2, <3>3
  <2>4. EntriesKept
    BY <2>3 DEF EntriesKept
  <2>5. ControllerTypes'
    BY <1>1, <1>2, <2>1 DEF ControllerTypes
  <2>6. ManagerFits'
    BY <1>1, <1>2, <2>1, <2>3
    DEF ManagerFits, Cancellable, Known, worker, StopUnderWay
  <2>7. LedgerFits'
    BY <1>2, <2>3 DEF LedgerFits, fate
  <2>8. StopsFit'
    BY <1>1, <1>2, <2>1, <2>3, BoundsAssumption DEF StopsFit, LedgerFits, fate
  <2> QED
    BY <1>1, <1>2, <1>3, <2>2, <2>3, <2>4, <2>5, <2>6, <2>7, <2>8, HistoryStep
    DEF fate, FateTypes
<1>6. CASE StopRestore /\ Withdraw(mgr.sources, stops) /\ mgr' = Idle
  <2>1. mgr.at = "restore" /\ mgr' \in Holder /\ mgr'.at = "idle"
    BY <1>6, IdleTypes DEF StopRestore
  <2>2. /\ ledger' \in [Source -> Entry]
        /\ Others(mgr.sources)
        /\ \A s \in mgr.sources :
             ledger'[s] = [ledger[s] EXCEPT
               !.stop = IF ledger[s].stop = stops THEN 0 ELSE ledger[s].stop]
    BY <1>1, <1>6, WithdrawEffect
  <2>3. ASSUME NEW s \in Source
        PROVE  /\ ledger'[s].known = ledger[s].known
               /\ ledger'[s].recovered = ledger[s].recovered
               /\ ledger'[s].admission = ledger[s].admission
               /\ ledger'[s].covered = ledger[s].covered
               /\ ledger'[s].stop =
                    IF s \in mgr.sources /\ ledger[s].stop = stops THEN 0
                    ELSE ledger[s].stop
    <3> DEFINE e == ledger[s]
               i == IF e.stop = stops THEN 0 ELSE e.stop
    <3>1. e \in Entry
      BY <1>1
    <3>2. CASE s \in mgr.sources
      <4>1. ledger'[s] = [e EXCEPT !.stop = i]
        BY <2>2, <3>2
      <4> HIDE DEF e
      <4> QED
        BY <3>1, <3>2, <4>1 DEF Entry, e
    <3>3. CASE s \notin mgr.sources
      BY <2>2, <3>3 DEF Others
    <3> QED
      BY <3>2, <3>3
  <2>4. EntriesKept
    BY <2>3 DEF EntriesKept
  <2>5. ControllerTypes'
    BY <1>1, <1>2, <2>1 DEF ControllerTypes
  <2>6. ManagerFits'
    BY <1>2, <2>1 DEF ManagerFits, worker, StopUnderWay
  <2>7. LedgerFits'
    BY <1>2, <2>1, <2>3 DEF LedgerFits, StopsFit, fate
  <2>8. StopsFit'
    BY <1>1, <1>2, <2>1, <2>3, BoundsAssumption DEF StopsFit
  <2> QED
    BY <1>1, <1>2, <1>3, <2>2, <2>3, <2>4, <2>5, <2>6, <2>7, <2>8, HistoryStep
    DEF fate, FateTypes
<1> QED
  BY <1>2, <1>4, <1>5, <1>6 DEF StopRecord, StopRestore

\* The worker is asked to interrupt what the intent names.
LEMMA InterruptIInv ==
  ASSUME IInv, SendInterrupt
  PROVE  IInv'
<1> USE DEF IInv
<1>1. /\ ControllerTypes /\ CounterTypes /\ WorkerTypes /\ FateTypes
      /\ ledger \in [Source -> Entry] /\ exec \in Execution /\ mgr \in Holder
      /\ exec.sources \subseteq Source
  BY TypeParts DEF ControllerTypes, WorkerTypes, Execution
<1>2. /\ mgr.at = "interrupt" /\ op.at = "none" /\ stops # 0
      /\ Cancellable(mgr.sources, mgr.x)
      /\ exec.x # 0 => exec.sources = mgr.sources
      /\ UNCHANGED <<ledger, linked, host, turn, ended, op, intake, job, reader,
                     scan, taken, refused, retaken, stops>>
  BY DEF SendInterrupt, ManagerFits, StopUnderWay
<1>3. CounterTypes'
  BY <1>1, <1>2, FaultTypes DEF CounterTypes, SendInterrupt
<1>4. /\ mgr' \in Holder
      /\ \/ mgr'.at = "idle"
         \/ /\ mgr'.at = "restore" /\ mgr'.sources = mgr.sources
            /\ mgr'.x = mgr.x /\ UNCHANGED <<exec, halted>>
  BY <1>1, IdleTypes DEF SendInterrupt, Holder
<1>5. /\ exec' \in Execution /\ exec'.x = exec.x
      /\ exec'.sources = exec.sources /\ exec'.reserved = exec.reserved
      /\ exec'.refused = exec.refused /\ exec'.done = exec.done
      /\ exec'.covers = exec.covers
      /\ exec.x = 0 => exec' = exec
  <2>1. CASE exec.x # 0
    <3>1. exec' = exec \/ \E b \in BOOLEAN : exec' = [exec EXCEPT !.cancelled = b]
      <4>1. (exec.cancelled \/ (exec.x # 0 /\ ~exec.done)) \in BOOLEAN
        OBVIOUS
      <4> QED
        BY <4>1 DEF SendInterrupt
    <3> QED
      BY <1>1, <2>1, <3>1 DEF Execution
  <2>2. CASE exec.x = 0
    <3>1. /\ turn = "none" /\ exec = NoExec
          /\ exec.cancelled = FALSE
      BY <1>1, <2>2 DEF WorkerTypes, WorkerFits, NoExec
    <3>2. exec' = exec \/ exec' = [exec EXCEPT !.cancelled = exec.cancelled]
      BY <2>2, <3>1 DEF SendInterrupt
    <3>3. exec' = exec
      BY <1>1, <3>2 DEF Execution
    <3> QED
      BY <1>1, <3>3
  <2> QED
    BY <2>1, <2>2
<1>6. \/ UNCHANGED halted
      \/ turn # "none" /\ halted' = halted \cup exec.sources
  BY DEF SendInterrupt
<1>7. ControllerTypes' /\ FateTypes'
  BY <1>1, <1>2, <1>4, <1>6 DEF ControllerTypes, FateTypes
<1>8. TypeOK'
  BY <1>1, <1>2, <1>3, <1>5, <1>7, TypePartsNext DEF WorkerTypes
<1>9. WorkerFits' /\ DispatchFits'
  BY <1>2, <1>5 DEF WorkerFits, DispatchFits
<1>10. ManagerFits'
  BY <1>2, <1>4, <1>5 DEF ManagerFits, StopUnderWay, Cancellable, Known
<1>11. ExecFits'
  BY <1>2, <1>5 DEF ExecFits, Known, Given
<1>12. LedgerFits'
  <2>1. ASSUME turn # "none", NEW s \in exec.sources
        PROVE  s \in taken \cup retaken /\ ledger[s].stop # 0
    BY <1>1, <1>2, <2>1 DEF WorkerFits, WorkerTypes, ExecFits, StopsFit
  <2> QED
    BY <1>2, <1>6, <2>1 DEF LedgerFits
<1>13. StopsFit'
  BY <1>2, <1>4 DEF StopsFit
<1> QED
  BY <1>8, <1>9, <1>10, <1>11, <1>12, <1>13

\* The file goes.
LEMMA ClearDoneIInv ==
  ASSUME IInv, ClearDone
  PROVE  IInv'
<1> USE DEF IInv
<1>1. /\ ControllerTypes /\ CounterTypes /\ WorkerTypes /\ FateTypes
      /\ ledger \in [Source -> Entry]
  BY TypeParts
<1>2. /\ exec.x = 0 /\ exec = NoExec /\ op.at = "none"
      /\ mgr' \in Holder /\ mgr'.at = "idle"
      /\ UNCHANGED <<linked, worker, intake, job, reader, scan, stops>>
  BY IdleTypes DEF ClearDone, ManagerFits, WorkerFits
<1>3. CounterTypes'
  BY <1>1, <1>2, FaultTypes DEF CounterTypes, ClearDone
<1>4. ControllerTypes'
  BY <1>1, <1>2 DEF ControllerTypes
<1>5. CASE /\ ledger' = [s \in Source |-> Unheard]
           /\ taken' = {} /\ refused' = {} /\ retaken' = {} /\ halted' = {}
  <2>1. /\ Unheard \in Entry /\ Unheard.stop = 0 /\ ~Unheard.recovered
    BY BatchSize, BoundsAssumption DEF Unheard, Entry, NoAdmission, N
  <2>2. /\ ledger' \in [Source -> Entry]
        /\ \A s \in Source : ledger'[s].stop = 0 /\ ~ledger'[s].recovered
    BY <1>5, <2>1
  <2>3. TypeOK'
    BY <1>1, <1>2, <1>3, <1>4, <1>5, <2>2, TypePartsNext
    DEF WorkerTypes, FateTypes, worker
  <2>4. WorkerFits' /\ ManagerFits' /\ DispatchFits' /\ ExecFits'
    BY <1>2
    DEF WorkerFits, ManagerFits, DispatchFits, ExecFits, NoExec, StopUnderWay, worker
  <2>5. LedgerFits'
    BY <1>5, <2>2 DEF LedgerFits
  <2>6. StopsFit'
    BY <1>1, <1>2, <2>2, BoundsAssumption DEF StopsFit, CounterTypes
  <2> QED
    BY <2>3, <2>4, <2>5, <2>6
<1>6. CASE UNCHANGED <<ledger, fate>>
  BY <1>1, <1>2, <1>3, <1>4, <1>6, QuietStep
  DEF worker, WorkerTypes, CounterTypes
<1> QED
  BY <1>5, <1>6 DEF ClearDone

-----------------------------------------------------------------------------
(* The invariants. *)

\* Every step keeps the inductive invariant.
LEMMA NextIInv == IInv /\ [Next]_vars => IInv'
<1> SUFFICES ASSUME IInv, [Next]_vars PROVE IInv'
  OBVIOUS
<1>1. CASE UNCHANGED vars
  <2>1. UNCHANGED <<host, reader>> /\ ControllerTypes' /\ host' \in {"up", "down"}
        /\ faults' \in 0..MaxFault
    BY <1>1, TypeParts
    DEF IInv, vars, controller, worker, ControllerTypes, WorkerTypes, CounterTypes
  <2> QED
    BY <1>1, <2>1, QuietStep DEF vars, controller, worker
<1>2. CASE Intake
  BY <1>2, IntakeIInv, HeardIInv DEF Intake
<1>3. CASE Admitting \/ GiveUp
  BY <1>3, AdmissionIInv, StartIInv DEF Admitting
<1>4. CASE Working
  BY <1>4, ReserveIInv, DispatchIInv, RejectedIInv DEF Working
<1>5. CASE Stopping
  BY <1>5, IntentIInv, InterruptIInv, ClearDoneIInv DEF Stopping
<1> QED
  BY <1>1, <1>2, <1>3, <1>4, <1>5, TurnEndsIInv, WorkerLostIInv, ReconcileIInv,
     RetireIInv, HeardIInv, ScanIInv, StopBeginsIInv
  DEF Next

\* The state of a conversation has its inductive invariant, whatever crash, lost
\* reply, stop or reset it meets.
THEOREM ConversationInvariant == Spec => []IInv
<1> QED
  BY InitIInv, NextIInv, PTL DEF Spec

\* Every variable keeps its type; no turn is left without an execution, and no
\* end stays buffered without the follow-up it waits for.
THEOREM ConversationTypeOK == Spec => []TypeOK
<1>1. IInv => TypeOK
  BY DEF IInv
<1> QED
  BY <1>1, ConversationInvariant, PTL

\* What the worker, the delivery and the stop are about to write in history fits
\* what history says by then, so that none of the three is refused.
THEOREM RecordsAlwaysFit == Spec => []RecordsFit
<1>1. IInv => RecordsFit
  BY DEF IInv, RecordsFit, ExecFits, DispatchFits, ManagerFits, StopUnderWay
<1> QED
  BY <1>1, ConversationInvariant, PTL

-----------------------------------------------------------------------------
(* The implementation of SourcePromise. *)

\* The initial states promise what SourcePromise begins with.
LEMMA InitKeepsPromise == Init => Promise!Init
  BY DEF Init, Promise!Init, Unheard

\* History keeps who is known and who is answered.
SameWords ==
  \A s \in Source : /\ ledger'[s].known = ledger[s].known
                    /\ ledger'[s].covered = "answered"
                         <=> ledger[s].covered = "answered"

\* A step that says nothing new about a message is a stutter of the promise.
LEMMA SameWordsStutter ==
  ASSUME SameWords, UNCHANGED fate
  PROVE  UNCHANGED Promise!vars
  BY DEF SameWords, Promise!vars, fate

\* A reservation takes or retakes its batch.
LEMMA ReserveKeepsPromise ==
  ASSUME IInv, Reserve
  PROVE  [Promise!Next]_(Promise!vars)
<1>1. /\ op \in Operation /\ op.batch \in SUBSET Source /\ exec \in Execution
      /\ ledger \in [Source -> Entry] /\ UNCHANGED <<refused, halted>>
      /\ WorkerFits /\ LedgerFits
  BY TypeParts DEF IInv, WorkerTypes, Operation, Reserve
<1>2. CASE Admissible(op.batch, Recovering)
           /\ Admit(op.batch, Receipt, Recovering)
           /\ IF Recovering
              THEN retaken' = retaken \cup op.batch /\ UNCHANGED taken
              ELSE taken' = taken \cup op.batch /\ UNCHANGED retaken
  <2>1. /\ Others(op.batch)
        /\ \A s \in op.batch :
             /\ ledger'[s].known = ledger[s].known
             /\ ledger'[s].covered = IF Recovering /\ ledger[s].covered = "no"
                                     THEN "reserved" ELSE ledger[s].covered
    BY <1>1, <1>2, AdmitEffect
  <2>2. SameWords
    BY <2>1 DEF SameWords, Others
  <2>3. \A s \in op.batch :
          /\ ledger[s].known /\ ledger[s].covered = "no"
          /\ s \notin halted /\ s \notin retaken
          /\ ~Recovering => s \notin taken
    BY <1>1, <1>2 DEF Admissible, Known, Open, LedgerFits, NoAdmission
  <2>4. CASE Recovering
    <3>1. Promise!Retake(op.batch)
      BY <1>1, <1>2, <2>2, <2>3, <2>4 DEF Promise!Retake, SameWords
    <3> QED
      BY <1>1, <3>1 DEF Promise!Next
  <2>5. CASE ~Recovering
    <3>1. Promise!Take(op.batch)
      BY <1>1, <1>2, <2>2, <2>3, <2>5 DEF Promise!Take, SameWords
    <3> QED
      BY <1>1, <3>1 DEF Promise!Next
  <2> QED
    BY <2>4, <2>5
<1>3. CASE UNCHANGED <<ledger, taken, retaken>>
  BY <1>1, <1>3, SameWordsStutter DEF SameWords, fate
<1> QED
  BY <1>2, <1>3 DEF Reserve

\* A restoration gives the batch back; the sender of its own request is told so.
LEMMA RejectedKeepsPromise ==
  ASSUME IInv, Rejected
  PROVE  [Promise!Next]_(Promise!vars)
<1>1. /\ op.batch \in SUBSET Source /\ ledger \in [Source -> Entry]
      /\ op.at = "dispatch" /\ UNCHANGED <<retaken, halted>>
      /\ DispatchFits
  BY TypeParts DEF IInv, WorkerTypes, Operation, Rejected
<1>2. CASE UNCHANGED <<ledger, taken, refused>>
  BY <1>1, <1>2, SameWordsStutter DEF SameWords, fate
<1>3. CASE ~Recovering /\ Restore(op.batch) /\ taken' = taken \ op.batch
           /\ refused' = IF op.kind = "send" THEN refused \cup op.batch
                                             ELSE refused
  <2>1. /\ Others(op.batch)
        /\ \A s \in op.batch :
             ledger'[s] = [ledger[s] EXCEPT !.admission = NoAdmission]
    BY <1>1, <1>3, RestoreEffect
  <2>2. SameWords
    <3> SUFFICES ASSUME NEW s \in Source
                 PROVE  /\ ledger'[s].known = ledger[s].known
                        /\ ledger'[s].covered = ledger[s].covered
      BY DEF SameWords
    <3>1. CASE s \in op.batch
      <4>1. ledger[s] \in Entry
        BY <1>1
      <4> QED
        BY <2>1, <3>1, <4>1 DEF Entry
    <3>2. CASE s \notin op.batch
      BY <2>1, <3>2 DEF Others
    <3> QED
      BY <3>1, <3>2
  <2>3. op.batch \subseteq taken /\ \A s \in op.batch : ledger[s].covered # "answered"
    BY <1>1, <1>3 DEF DispatchFits
  <2>4. \E R \in SUBSET Source : Promise!GiveBack(op.batch, R)
    <3> DEFINE R == IF op.kind = "send" THEN op.batch ELSE {}
    <3>1. R \in SUBSET Source /\ R \subseteq op.batch
          /\ refused' = refused \cup R
      BY <1>1, <1>3
    <3> HIDE DEF R
    <3>2. Promise!GiveBack(op.batch, R)
      BY <1>1, <1>3, <2>2, <2>3, <3>1 DEF Promise!GiveBack, SameWords
    <3> QED
      BY <3>1, <3>2
  <2> QED
    BY <1>1, <2>4 DEF Promise!Next
<1> QED
  BY <1>2, <1>3 DEF Rejected

\* A delivery answers what the terminal event covers.
LEMMA DeliverKeepsPromise ==
  ASSUME IInv, Deliver
  PROVE  [Promise!Next]_(Promise!vars)
<1>1. /\ exec \in Execution /\ exec.covers \in SUBSET Source /\ exec.done
      /\ ledger \in [Source -> Entry] /\ UNCHANGED fate
  BY TypeParts DEF IInv, WorkerTypes, Execution, Deliver
<1>2. CASE exec.refused
  BY <1>1, <1>2, SameWordsStutter DEF SameWords, Deliver
<1>3. CASE ~exec.refused
  <2>1. Known(exec.covers) /\ Cover(exec.covers)
    BY <1>3 DEF Deliver
  <2>2. exec.covers \subseteq taken \cup refused \cup retaken
    BY <1>1, <1>3 DEF IInv, ExecFits, Given
  <2>3. /\ Others(exec.covers)
        /\ \A s \in exec.covers :
             ledger'[s] = [ledger[s] EXCEPT !.covered = "answered"]
    BY <1>1, <2>1, CoverEffect
  <2>4. ASSUME NEW s \in Source
        PROVE  /\ ledger'[s].known = ledger[s].known
               /\ (ledger'[s].covered = "answered")
                    <=> \/ ledger[s].covered = "answered"
                        \/ s \in exec.covers
    <3>1. CASE s \in exec.covers
      <4>1. ledger[s] \in Entry
        BY <1>1
      <4> QED
        BY <2>3, <3>1, <4>1 DEF Entry
    <3>2. CASE s \notin exec.covers
      BY <2>3, <3>2 DEF Others
    <3> QED
      BY <3>1, <3>2
  <2>5. PICK S \in SUBSET Source : S = exec.covers
    BY <1>1
  <2>6. Promise!Answer(S)
    BY <1>1, <2>1, <2>2, <2>4, <2>5 DEF Promise!Answer, Known, fate
  <2> QED
    BY <2>6 DEF Promise!Next
<1> QED
  BY <1>2, <1>3

\* An interruption halts a turn whose messages the provider was given.
LEMMA InterruptKeepsPromise ==
  ASSUME IInv, SendInterrupt
  PROVE  [Promise!Next]_(Promise!vars)
<1>1. /\ UNCHANGED <<ledger, taken, refused, retaken>> /\ op.at = "none"
      /\ \/ UNCHANGED halted
         \/ turn # "none" /\ halted' = halted \cup exec.sources
  BY DEF IInv, ManagerFits, StopUnderWay, SendInterrupt
<1>2. CASE UNCHANGED halted
  BY <1>1, <1>2, SameWordsStutter DEF SameWords, fate
<1>3. CASE turn # "none" /\ halted' = halted \cup exec.sources
  <2>1. exec.sources \in SUBSET Source
        /\ exec.sources \subseteq taken \cup retaken
    BY <1>1, <1>3, TypeParts
    DEF IInv, WorkerFits, WorkerTypes, ExecFits, Execution
  <2>2. Promise!Halt(exec.sources)
    BY <1>1, <1>3, <2>1 DEF Promise!Halt
  <2> QED
    BY <2>1, <2>2 DEF Promise!Next
<1> QED
  BY <1>1, <1>2, <1>3

\* A message is accepted, and all are forgotten.
LEMMA HeardKeepsPromise ==
  ASSUME IInv, ClearDone \/ \E s \in Source : Accept(s)
  PROVE  [Promise!Next]_(Promise!vars)
<1>1. ledger \in [Source -> Entry]
  BY TypeParts DEF IInv
<1>2. ASSUME NEW s \in Source, Accept(s)
      PROVE  [Promise!Next]_(Promise!vars)
  <2>1. /\ ~ledger[s].known /\ ledger' = [ledger EXCEPT ![s].known = TRUE]
        /\ UNCHANGED fate
    BY <1>2 DEF Accept
  <2>2. ledger[s] \in Entry
    BY <1>1
  <2>3. /\ \A t \in Source :
             /\ t # s => ledger'[t] = ledger[t]
             /\ ledger'[t].covered = ledger[t].covered
        /\ ledger'[s].known
    BY <1>1, <2>1, <2>2 DEF Entry
  <2>4. Promise!Accept(s)
    BY <2>1, <2>3 DEF Promise!Accept, fate
  <2> QED
    BY <2>4 DEF Promise!Next
<1>3. CASE ClearDone
  <2>1. CASE UNCHANGED <<ledger, fate>>
    BY <2>1, SameWordsStutter DEF SameWords
  <2>2. CASE /\ ledger' = [s \in Source |-> Unheard]
             /\ taken' = {} /\ refused' = {} /\ retaken' = {} /\ halted' = {}
    <3>1. Promise!Forget
      BY <2>2 DEF Promise!Forget, Unheard
    <3> QED
      BY <3>1 DEF Promise!Next
  <2> QED
    BY <1>3, <2>1, <2>2 DEF ClearDone
<1> QED
  BY <1>2, <1>3

\* An intent changes neither who is known nor who is answered.
LEMMA IntentKeepsPromise ==
  ASSUME IInv, StopRecord \/ StopRestore
  PROVE  [Promise!Next]_(Promise!vars)
<1>1. /\ ledger \in [Source -> Entry] /\ mgr.sources \in SUBSET Source
      /\ stops \in 0..MaxStop
  BY TypeParts DEF IInv, ControllerTypes, CounterTypes, Holder
<1>2. CASE UNCHANGED ledger
  BY <1>2, SameWordsStutter DEF SameWords, StopRecord, StopRestore
<1>3. CASE Request(mgr.sources, stops) \/ Withdraw(mgr.sources, stops)
  <2>1. /\ Others(mgr.sources)
        /\ \A s \in mgr.sources :
             \E i \in 0..MaxStop : ledger'[s] = [ledger[s] EXCEPT !.stop = i]
    <3>1. \A s \in mgr.sources : ledger[s].stop \in 0..MaxStop /\ 0 \in 0..MaxStop
      BY <1>1, BoundsAssumption DEF Entry
    <3> QED
      BY <1>1, <1>3, <3>1, RequestEffect, WithdrawEffect
  <2>2. SameWords
    <3> SUFFICES ASSUME NEW s \in Source
                 PROVE  /\ ledger'[s].known = ledger[s].known
                        /\ ledger'[s].covered = ledger[s].covered
      BY DEF SameWords
    <3>1. CASE s \in mgr.sources
      <4>1. ledger[s] \in Entry
        BY <1>1
      <4> QED
        BY <2>1, <3>1, <4>1 DEF Entry
    <3>2. CASE s \notin mgr.sources
      BY <2>1, <3>2 DEF Others
    <3> QED
      BY <3>1, <3>2
  <2> QED
    BY <2>2, SameWordsStutter DEF StopRecord, StopRestore
<1> QED
  BY <1>2, <1>3 DEF StopRecord, StopRestore

\* Every step is a step of SourcePromise, or a stutter.
LEMMA StepKeepsPromise ==
  IInv /\ [Next]_vars => [Promise!Next]_(Promise!vars)
<1> SUFFICES ASSUME IInv, [Next]_vars PROVE [Promise!Next]_(Promise!vars)
  OBVIOUS
<1>1. CASE UNCHANGED <<ledger, fate>>
  BY <1>1, SameWordsStutter DEF SameWords
<1>2. ASSUME NEW s \in Source, IntakeFails(s) \/ IntakeInspect(s) \/ Link(s)
      PROVE  UNCHANGED <<ledger, fate>>
  BY <1>2 DEF IntakeFails, IntakeInspect, Link
<1>3. CASE \/ Admitting \/ GiveUp \/ Dispatch \/ Tell \/ TurnEnds \/ WorkerLost
  BY <1>1, <1>3
  DEF Admitting, BeginJob, SendStarts, FollowupStarts, Reply, GiveUp, Dispatch,
      Tell, TurnEnds, WorkerLost
<1>4. CASE \/ ServerReplaced \/ Reconcile \/ ReaderFails \/ Retire \/ ScanRead
           \/ ScanCheck \/ ScanInspect \/ StopInspect \/ ClearReset
           \/ UNCHANGED vars
  BY <1>1, <1>4
  DEF ServerReplaced, Reconcile, ReaderFails, Retire, ScanRead, ScanCheck,
      ScanInspect, StopInspect, ClearReset, vars
<1> QED
  BY <1>1, <1>2, <1>3, <1>4, ReserveKeepsPromise, RejectedKeepsPromise,
     DeliverKeepsPromise, InterruptKeepsPromise, HeardKeepsPromise,
     IntentKeepsPromise
  DEF Next, Intake, Working, Stopping

\* History, manager and worker keep the promise of SourcePromise: a message is
\* given to the provider once, and once more at most by a recovery; never after
\* it was answered or its turn stopped; and an answer covers only what the
\* provider was given, or refused at the sender's own request.
THEOREM PromiseIsKept == Spec => KeepsPromise
<1>1. Init /\ [][Next]_vars /\ []IInv
        => Promise!Init /\ [][Promise!Next]_(Promise!vars)
  BY InitKeepsPromise, StepKeepsPromise, PTL
<1> QED
  BY <1>1, ConversationInvariant, PTL DEF Spec, KeepsPromise, Promise!Spec

=============================================================================
