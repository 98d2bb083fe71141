-------------------------- MODULE SupervisorProofs --------------------------
(***************************************************************************)
(* The supervisor of one session key, for any number of messages, controls,*)
(* interruptions, turns and providers: types, that nothing is forgotten,   *)
(* that messages and controls reach the provider once and in order, that   *)
(* only idle providers are swapped, and that FollowupQueue is implemented. *)
(***************************************************************************)
EXTENDS Supervisor, SequenceTheorems, TLAPS

-----------------------------------------------------------------------------
(* Sequences of messages. *)

\* The elements of a sequence and of what it is built from.
LEMMA ElementsOf ==
  ASSUME NEW S, NEW s \in Seq(S)
  PROVE  /\ ToSet(s) \subseteq S
         /\ \A x : x \in ToSet(s) <=> \E i \in 1..Len(s) : s[i] = x
         /\ DOMAIN s = 1..Len(s) /\ Len(s) \in Nat
BY DEF ToSet

\* Nothing is in the empty sequence, one element in a sequence of one.
LEMMA ElementsOfSmall ==
  /\ ToSet(<<>>) = {} /\ IsInjective(<<>>)
  /\ \A x : ToSet(<<x>>) = {x} /\ IsInjective(<<x>>)
BY DEF ToSet, IsInjective

\* Appending adds one element.
LEMMA ElementsOfAppend ==
  ASSUME NEW S, NEW s \in Seq(S), NEW e \in S
  PROVE  /\ ToSet(Append(s, e)) = ToSet(s) \cup {e}
         /\ IsInjective(s) /\ e \notin ToSet(s) => IsInjective(Append(s, e))
<1>1. /\ Append(s, e) \in Seq(S) /\ Len(Append(s, e)) = Len(s) + 1
      /\ \A i \in 1..Len(s) : Append(s, e)[i] = s[i]
      /\ Append(s, e)[Len(s) + 1] = e /\ Len(s) \in Nat
  BY AppendProperties
<1>2. DOMAIN Append(s, e) = 1..(Len(s) + 1) /\ DOMAIN s = 1..Len(s)
  BY <1>1
<1>3. ToSet(Append(s, e)) = ToSet(s) \cup {e}
  BY <1>1, <1>2 DEF ToSet
<1>4. ASSUME IsInjective(s), e \notin ToSet(s)
      PROVE  IsInjective(Append(s, e))
  BY <1>1, <1>2, <1>4 DEF ToSet, IsInjective
<1> QED
  BY <1>3, <1>4

\* Concatenation unites the elements.
LEMMA ElementsOfConcat ==
  ASSUME NEW S, NEW s \in Seq(S), NEW t \in Seq(S)
  PROVE  /\ ToSet(s \o t) = ToSet(s) \cup ToSet(t)
         /\ IsInjective(s) /\ IsInjective(t) /\ ToSet(s) \cap ToSet(t) = {}
              => IsInjective(s \o t)
<1> DEFINE u == s \o t
<1>1. /\ u \in Seq(S) /\ Len(u) = Len(s) + Len(t)
      /\ \A i \in 1..(Len(s) + Len(t)) :
           u[i] = IF i <= Len(s) THEN s[i] ELSE t[i - Len(s)]
      /\ Len(s) \in Nat /\ Len(t) \in Nat
  BY ConcatProperties
<1>2. /\ DOMAIN u = 1..(Len(s) + Len(t))
      /\ DOMAIN s = 1..Len(s) /\ DOMAIN t = 1..Len(t)
  BY <1>1
<1>3. /\ \A i \in 1..Len(s) : i \in DOMAIN u /\ u[i] = s[i]
      /\ \A i \in 1..Len(t) : i + Len(s) \in DOMAIN u /\ u[i + Len(s)] = t[i]
  BY <1>1, <1>2
<1>4. \A i \in DOMAIN u :
        \/ i \in DOMAIN s /\ u[i] = s[i]
        \/ i - Len(s) \in DOMAIN t /\ u[i] = t[i - Len(s)]
  BY <1>1, <1>2
<1> HIDE DEF u
<1>5. ToSet(u) = ToSet(s) \cup ToSet(t)
  <2>1. \A x \in ToSet(u) : x \in ToSet(s) \cup ToSet(t)
    BY <1>4 DEF ToSet
  <2>2. \A x \in ToSet(s) : x \in ToSet(u)
    BY <1>2, <1>3 DEF ToSet
  <2>3. \A x \in ToSet(t) : x \in ToSet(u)
    BY <1>2, <1>3 DEF ToSet
  <2> QED
    BY <2>1, <2>2, <2>3
<1>6. ASSUME IsInjective(s), IsInjective(t), ToSet(s) \cap ToSet(t) = {}
      PROVE  IsInjective(u)
  <2> SUFFICES ASSUME NEW a \in DOMAIN u, NEW b \in DOMAIN u, u[a] = u[b]
               PROVE  a = b
    BY DEF IsInjective
  <2>1. \A i \in DOMAIN s, j \in DOMAIN t : s[i] # t[j]
    BY <1>6 DEF ToSet
  <2>2. CASE a \in DOMAIN s /\ u[a] = s[a]
    BY <1>4, <1>6, <2>1, <2>2 DEF IsInjective
  <2>3. CASE a - Len(s) \in DOMAIN t /\ u[a] = t[a - Len(s)]
    <3>1. b - Len(s) \in DOMAIN t /\ u[b] = t[b - Len(s)]
      BY <1>4, <2>1, <2>3
    <3>2. a - Len(s) = b - Len(s)
      BY <1>6, <2>3, <3>1 DEF IsInjective
    <3> QED
      BY <1>1, <1>2, <3>2
  <2> QED
    BY <1>4, <2>2, <2>3
<1> QED
  BY <1>5, <1>6 DEF u

\* A sequence of numbers that increases.
Increasing(s) == \A i, j \in DOMAIN s : i < j => s[i] < s[j]

-----------------------------------------------------------------------------
(* The inductive invariant. *)

\* What an entry still has to hand to the provider.
Items(e) ==
  IF e.control = NoControl THEN ToSet(e.messages)
  ELSE IF e.again THEN {} ELSE {e.control}

Carrying == Held("queued") \/ Held("ready")

\* What the holder of the gate still has to hand over.
GateItems ==
  IF Held("send") THEN {gate.message}
  ELSE IF Carrying THEN Items(gate.entry)
  ELSE IF Held("control") THEN {gate.id}
  ELSE {}

\* A message that waits.
Fresh(m) == status[m] = "accepted" /\ m \notin ToSet(handed)

Selection == [id : Controls \cup {NoControl}, again : BOOLEAN]

GateTypes ==
  /\ Held("send") =>
       /\ gate.message \in Messages /\ gate.strict \in BOOLEAN
       /\ gate.was \in BOOLEAN
       /\ gate.previous \in Messages \cup {None} /\ gate.epoch \in Nat
  /\ Held("steering") =>
       /\ gate.message \in Messages /\ gate.replaced \in Messages
       /\ gate.previous \in Messages \cup {None} /\ gate.was = TRUE
       /\ gate.number \in Nat
  /\ Carrying => gate.entry \in Entry
  /\ Held("control") =>
       /\ gate.id \in Controls /\ gate.previous \in Selection
       /\ gate.generation \in Nat /\ gate.epoch \in Nat

Types == /\ TypeOK
         /\ GateTypes
         /\ turn # NoTurn => turn.owner \in Messages

\* An entry outside the queue: its messages wait, and were accepted under its
\* generation; conversations queue messages alone, jobs controls alone.
EntryFits(e) ==
  /\ e.generation <= generation
  /\ e.control = NoControl <=> session = "chat"
  /\ e.control # NoControl => e.messages = <<>>
  /\ IsInjective(e.messages)
  /\ \A m \in ToSet(e.messages) : Fresh(m) /\ born[m] = e.generation
  /\ Items(e) \cap ToSet(handed) = {}

\* An entry in the queue has one message of the current generation.
QueuedFits(e) ==
  /\ e.control = NoControl <=> session = "chat"
  /\ e.messages = IF e.control = NoControl THEN <<e.owner>> ELSE <<>>
  /\ ~e.again
  /\ session = "chat" => Fresh(e.owner) /\ born[e.owner] = generation
  /\ Items(e) \cap ToSet(handed) = {}

\* Whatever is queued is queued once.
QueueFits ==
  /\ \A i \in 1..Len(pending) : QueuedFits(pending[i])
  /\ \A i, j \in 1..Len(pending) :
       i # j => Items(pending[i]) \cap Items(pending[j]) = {}

\* Whatever is scheduled is scheduled once, and no longer queued.
ScheduledFits ==
  /\ \A e \in scheduled : EntryFits(e)
  /\ \A e, f \in scheduled : e # f => Items(e) \cap Items(f) = {}
  /\ \A e \in scheduled : \A i \in 1..Len(pending) :
       Items(e) \cap Items(pending[i]) = {}

\* What the holder of the gate has is nowhere else.
Apart ==
  /\ \A e \in scheduled : GateItems \cap Items(e) = {}
  /\ \A i \in 1..Len(pending) : GateItems \cap Items(pending[i]) = {}

GateFits ==
  /\ Held("send") =>
       /\ Fresh(gate.message) /\ born[gate.message] = generation
       /\ \A n \in Messages : status[n] # "new" => n <= gate.message
       /\ ~gate.was => turn = NoTurn
  /\ Held("steering") =>
       status[gate.message] = "accepted" /\ gate.message \in ToSet(handed)
  /\ Carrying => EntryFits(gate.entry) /\ gate.entry.generation = generation
  /\ Held("control") => gate.id \notin ToSet(handed)

\* A sender that was refused handed nothing over; messages are accepted in order.
FateFits ==
  /\ \A m \in Messages :
       /\ m \in ToSet(handed) => status[m] \in {"accepted", "unconfirmed"}
       /\ status[m] = "unconfirmed" => m \in ToSet(handed)
       /\ born[m] <= generation
  /\ \A m, n \in Messages : status[m] = "new" /\ status[n] # "new" => n < m
  /\ IsInjective(handed)

\* A conversation has no controls; whoever starts queued work, or interrupts,
\* has emptied its queue.
ChatFits ==
  session = "chat" =>
    /\ control = Idle /\ seen = {}
    /\ \A e \in ended : e.held = NoControl
    /\ ~Held("control")
    /\ gate.op \in {"queued", "ready", "failing", "interrupt", "stopping"}
         => pending = <<>>

\* Controls that were sent are remembered while the job can take another.
Remembered(k) ==
  \/ k \in ToSet(handed) \cup GateItems
  \/ \E e \in scheduled : k \in Items(e)
  \/ \E i \in 1..Len(pending) : k \in Items(pending[i])

\* A job has one message; before it, and after an interruption, no controls.
JobFits ==
  session = "job" =>
    /\ \A m \in Messages : m # 1 => status[m] = "new"
    /\ status[1] = "new" \/ Held("send") =>
         /\ turn = NoTurn /\ ended = {} /\ scheduled = {} /\ pending = <<>>
         /\ control.id = NoControl /\ handed = <<>>
         /\ gate.op \notin {"queued", "ready", "control"}
    /\ status[1] = "new" => ~active
    /\ Held("send") => gate.message = 1 /\ ~gate.was
    /\ ~Held("steering")
    /\ generation > 0 =>
         /\ pending = <<>> /\ control.id = NoControl
         /\ \A e \in scheduled : e.generation = 0
         /\ gate.op \notin {"queued", "ready", "control"}
    /\ generation = 0 /\ active => emitter # None
    /\ control.id # NoControl => emitter # None
    /\ generation = 0 /\ active =>
         \A k \in Controls : Remembered(k) => k \in seen

\* The provider is detached only from an idle key, and a running turn has the
\* key to itself, unless a turn overtook the end of another.
SwapFits ==
  /\ closed => provider # "up"
  /\ provider = "detached" /\ ~closed => ~active
  /\ ~crossed /\ turn.live =>
       /\ active /\ ended = {}
       /\ \A e \in scheduled : e.generation # generation
       /\ ~Carrying

Books == QueueFits /\ ScheduledFits /\ Apart /\ GateFits /\ FateFits

IInv == Types /\ Books /\ ChatFits /\ JobFits /\ SwapFits

-----------------------------------------------------------------------------
(* Types. *)

\* The parts of the types, one by one.
LEMMA TypeParts ==
  ASSUME TypeOK
  PROVE  /\ session \in {"chat", "job"} /\ mode \in {"queue", "steer"}
         /\ provider \in {"up", "detached", "closing", "busy", "down"}
         /\ epoch \in Nat /\ generation \in Nat /\ turns \in Nat
         /\ closed \in BOOLEAN /\ active \in BOOLEAN /\ crossed \in BOOLEAN
         /\ gate.op \in {"free", "send", "steering", "queued", "ready",
                         "failing", "interrupt", "stopping", "control"}
         /\ pending \in Seq(Entry)
         /\ session = "job" => Len(pending) <= MaxPending
         /\ scheduled \subseteq Entry
         /\ emitter \in Messages \cup {None}
         /\ control \in Selection /\ seen \subseteq Controls
         /\ turn \in [owner : Messages \cup {None}, number : Nat,
                      live : BOOLEAN]
         /\ ended \subseteq [owner : Messages, number : Nat,
                             by : {"provider", "start"},
                             held : Controls \cup {NoControl}]
         /\ status \in [Messages -> {"new", "turned away", "accepted",
                                     "refused", "cancelled", "unconfirmed",
                                     "dropped", "lost"}]
         /\ born \in [Messages -> Nat]
         /\ stolen \subseteq Messages
         /\ settled \in [Messages -> Nat]
         /\ handed \in Seq(Messages \cup Controls)
  BY DEF TypeOK, Selection

\* Messages are numbered from 1; the bounds are natural numbers.
LEMMA Numbers ==
  /\ Messages \subseteq Nat \ {0} /\ None \notin Messages /\ 1 \in Messages
  /\ NoControl \notin Controls /\ Messages \cap Controls = {}
  /\ MaxPending \in Nat \ {0} /\ MaxInterrupts \in Nat
  BY SupervisorAssumption DEF None

-----------------------------------------------------------------------------
(* Batches. *)

\* A queue of messages alone joins whole.
LEMMA OrdinaryIsAll ==
  ASSUME NEW q \in Seq(Entry), \A i \in 1..Len(q) : q[i].control = NoControl
  PROVE  Ordinary(q) = Len(q)
<1> DEFINE S == {n \in 0..Len(q) : n = Len(q) \/ q[n + 1].control # NoControl}
<1>1. Len(q) \in Nat
  OBVIOUS
<1>2. Len(q) \in S
  BY <1>1
<1>3. \A n \in S : n = Len(q)
  <2> SUFFICES ASSUME NEW n \in S, n # Len(q)
               PROVE  FALSE
    OBVIOUS
  <2>1. n + 1 \in 1..Len(q)
    BY <1>1
  <2> QED
    BY <2>1
<1>4. S = {Len(q)}
  BY <1>2, <1>3
<1>5. Min(S) = Len(q)
  BY <1>1, <1>4 DEF Min
<1> QED
  BY <1>5 DEF Ordinary

\* The owners of a queue of distinct messages.
LEMMA OwnersOf ==
  ASSUME NEW q \in Seq(Entry), NEW n \in 0..Len(q)
  PROVE  /\ Owners(q, n) \in Seq(Messages) /\ Len(Owners(q, n)) = n
         /\ \A i \in 1..n : Owners(q, n)[i] = q[i].owner
         /\ \A m : m \in ToSet(Owners(q, n)) <=> \E i \in 1..n : q[i].owner = m
         /\ (\A i, j \in 1..n : i # j => q[i].owner # q[j].owner)
              => IsInjective(Owners(q, n))
<1>0. Len(q) \in Nat /\ n \in Nat /\ \A i \in 1..n : i \in 1..Len(q)
  OBVIOUS
<1>1. \A i \in 1..n : q[i] \in Entry /\ q[i].owner \in Messages
  <2>1. \A i \in 1..n : q[i] \in Entry
    BY <1>0
  <2> QED
    BY <2>1 DEF Entry
<1>2. Owners(q, n) \in [1..n -> Messages] /\ n \in Nat
  BY <1>1 DEF Owners
<1>3. Owners(q, n) \in Seq(Messages) /\ DOMAIN Owners(q, n) = 1..n
  BY <1>2
<1>4. Len(Owners(q, n)) = n
  BY <1>2, <1>3
<1>5. \A i \in 1..n : Owners(q, n)[i] = q[i].owner
  BY DEF Owners
<1>6. \A m : m \in ToSet(Owners(q, n)) <=> \E i \in 1..n : q[i].owner = m
  BY <1>3, <1>5 DEF ToSet
<1>7. (\A i, j \in 1..n : i # j => q[i].owner # q[j].owner)
        => IsInjective(Owners(q, n))
  BY <1>3, <1>5 DEF IsInjective
<1> QED
  BY <1>3, <1>4, <1>5, <1>6, <1>7

\* A message and the messages queued behind it become one entry.
LEMMA MergedMessages ==
  ASSUME NEW first \in Entry, NEW q \in Seq(Entry), first.control = NoControl,
         \A i \in 1..Len(q) : q[i].control = NoControl
  PROVE  /\ Merged(first, q) \in Entry
         /\ Merged(first, q).control = NoControl
         /\ Merged(first, q).messages = first.messages \o Owners(q, Len(q))
         /\ Rest(first, q) = <<>>
<1>1. Joining(first, q) = Len(q)
  BY OrdinaryIsAll DEF Joining
<1>2. Len(q) \in Nat /\ first.messages \in Seq(Messages)
  BY DEF Entry
<1>3. Rest(first, q) = <<>>
  BY <1>1, <1>2, SubSeqEmpty DEF Rest
<1>4. Owners(q, Len(q)) \in Seq(Messages) /\ Len(Owners(q, Len(q))) = Len(q)
  BY <1>2, OwnersOf
<1>5. CASE Len(q) = 0
  <2>1. Owners(q, Len(q)) = <<>>
    BY <1>4, <1>5
  <2>2. Merged(first, q) = first
    BY <1>1, <1>5 DEF Merged
  <2> QED
    BY <1>2, <1>3, <2>1, <2>2, ConcatEmptySeq
<1>6. CASE Len(q) # 0
  <2> DEFINE w == first.messages \o Owners(q, Len(q))
  <2>1. w \in Seq(Messages)
    BY <1>2, <1>4, ConcatProperties
  <2>2. q[Len(q)] \in Entry /\ q[Len(q)].control = NoControl
    BY <1>2, <1>6
  <2>3. Merged(first, q) = [q[Len(q)] EXCEPT !.messages = w]
    BY <1>1, <1>6 DEF Merged
  <2> HIDE DEF w
  <2>4. /\ [q[Len(q)] EXCEPT !.messages = w] \in Entry
        /\ [q[Len(q)] EXCEPT !.messages = w].control = NoControl
        /\ [q[Len(q)] EXCEPT !.messages = w].messages = w
    BY <2>1, <2>2 DEF Entry
  <2> QED
    BY <1>3, <2>3, <2>4 DEF w
<1> QED
  BY <1>5, <1>6

\* A control stays alone.
LEMMA ControlStaysAlone ==
  ASSUME NEW first, NEW q \in Seq(Entry), first.control # NoControl
  PROVE  Merged(first, q) = first /\ Rest(first, q) = q
<1>1. Joining(first, q) = 0
  BY DEF Joining
<1> QED
  BY <1>1, SubSeqFull DEF Merged, Rest

\* What leaves the queue of a conversation at the end of a turn: everything, in
\* one entry.
LEMMA MergedQueue ==
  ASSUME NEW q \in Seq(Entry), q # <<>>,
         \A i \in 1..Len(q) : /\ q[i].control = NoControl
                              /\ q[i].messages = <<q[i].owner>>
  PROVE  /\ Merged(Head(q), Tail(q)) \in Entry
         /\ Merged(Head(q), Tail(q)).control = NoControl
         /\ Merged(Head(q), Tail(q)).messages = Owners(q, Len(q))
         /\ Rest(Head(q), Tail(q)) = <<>>
<1>1. /\ Head(q) \in Entry /\ Tail(q) \in Seq(Entry) /\ Head(q) = q[1]
      /\ Len(Tail(q)) = Len(q) - 1 /\ Len(q) \in Nat \ {0}
      /\ \A i \in 1..Len(Tail(q)) : Tail(q)[i] = q[i + 1]
  BY HeadTailProperties, EmptySeq
<1>2. /\ Head(q).control = NoControl /\ Head(q).messages = <<q[1].owner>>
      /\ \A i \in 1..Len(Tail(q)) : Tail(q)[i].control = NoControl
  BY <1>1
<1>3. /\ Merged(Head(q), Tail(q)) \in Entry
      /\ Merged(Head(q), Tail(q)).control = NoControl
      /\ Merged(Head(q), Tail(q)).messages =
           <<q[1].owner>> \o Owners(Tail(q), Len(Tail(q)))
      /\ Rest(Head(q), Tail(q)) = <<>>
  BY <1>1, <1>2, MergedMessages
<1> DEFINE s == <<q[1].owner>>
           t == Owners(Tail(q), Len(Tail(q)))
<1>4. /\ t \in Seq(Messages) /\ Len(t) = Len(q) - 1
      /\ \A i \in 1..(Len(q) - 1) : t[i] = q[i + 1].owner
  <2>1. Len(Tail(q)) \in 0..Len(Tail(q))
    BY <1>1
  <2>2. /\ t \in Seq(Messages) /\ Len(t) = Len(Tail(q))
        /\ \A i \in 1..Len(Tail(q)) : t[i] = Tail(q)[i].owner
    BY <1>1, <2>1, OwnersOf
  <2> QED
    BY <1>1, <2>2
<1>5. s \in Seq(Messages) /\ Len(s) = 1 /\ s[1] = q[1].owner
  BY <1>1 DEF Entry
<1>6. /\ Owners(q, Len(q)) \in Seq(Messages) /\ Len(Owners(q, Len(q))) = Len(q)
      /\ \A i \in 1..Len(q) : Owners(q, Len(q))[i] = q[i].owner
  BY <1>1, OwnersOf
<1> HIDE DEF s, t
<1>7. /\ s \o t \in Seq(Messages) /\ Len(s \o t) = Len(q)
      /\ \A i \in 1..Len(q) :
           (s \o t)[i] = IF i <= 1 THEN s[i] ELSE t[i - 1]
  <2>1. /\ s \o t \in Seq(Messages) /\ Len(s \o t) = Len(s) + Len(t)
        /\ \A i \in 1..(Len(s) + Len(t)) :
             (s \o t)[i] = IF i <= Len(s) THEN s[i] ELSE t[i - Len(s)]
    BY <1>4, <1>5, ConcatProperties
  <2>2. Len(s) + Len(t) = Len(q)
    BY <1>1, <1>4, <1>5
  <2> QED
    BY <1>5, <2>1, <2>2
<1>8. \A i \in 1..Len(q) : (s \o t)[i] = q[i].owner
  <2> SUFFICES ASSUME NEW i \in 1..Len(q) PROVE (s \o t)[i] = q[i].owner
    OBVIOUS
  <2>1. CASE i = 1
    BY <1>5, <1>7, <2>1
  <2>2. CASE i # 1
    <3>1. i - 1 \in 1..(Len(q) - 1) /\ (i - 1) + 1 = i /\ ~(i <= 1)
      BY <1>1, <2>2
    <3> QED
      BY <1>4, <1>7, <3>1
  <2> QED
    BY <2>1, <2>2
<1>9. s \o t = Owners(q, Len(q))
  <2> DEFINE o == Owners(q, Len(q))
  <2>1. /\ s \o t \in Seq(Messages) /\ o \in Seq(Messages)
        /\ Len(s \o t) = Len(o)
        /\ \A i \in 1..Len(s \o t) : (s \o t)[i] = o[i]
    BY <1>6, <1>7, <1>8
  <2> HIDE DEF o
  <2>2. s \o t = o
    BY <2>1, SeqEqual
  <2> QED
    BY <2>2 DEF o
<1> QED
  BY <1>3, <1>9 DEF s, t

\* The control at the head of a job's queue leaves it alone.
LEMMA HeadControl ==
  ASSUME NEW q \in Seq(Entry), q # <<>>, q[1].control # NoControl
  PROVE  /\ Merged(Head(q), Tail(q)) = q[1] /\ q[1] \in Entry
         /\ Rest(Head(q), Tail(q)) = Tail(q)
         /\ Tail(q) \in Seq(Entry) /\ Len(Tail(q)) = Len(q) - 1
         /\ \A i \in 1..Len(Tail(q)) : Tail(q)[i] = q[i + 1]
         /\ Len(q) \in Nat \ {0}
<1>1. /\ Head(q) = q[1] /\ Head(q) \in Entry /\ Tail(q) \in Seq(Entry)
      /\ Len(Tail(q)) = Len(q) - 1 /\ Len(q) \in Nat \ {0}
      /\ \A i \in 1..Len(Tail(q)) : Tail(q)[i] = q[i + 1]
  BY HeadTailProperties, EmptySeq
<1> QED
  BY <1>1, ControlStaysAlone

\* TakeNext schedules a batch or a control of the current generation.
LEMMA TakeNextEffect ==
  ASSUME TypeOK, QueueFits, NEW e, TakeNext(e)
  PROVE  /\ pending # <<>> /\ pending \in Seq(Entry)
         /\ \E n \in Entry :
              /\ scheduled' = scheduled \cup {n}
              /\ n.generation = generation
              /\ session = "chat" =>
                   /\ n.control = NoControl /\ pending' = <<>>
                   /\ n.messages = Owners(pending, Len(pending))
              /\ session # "chat" =>
                   /\ n.control # NoControl /\ n.control = pending[1].control
                   /\ n.messages = <<>> /\ ~n.again
                   /\ pending' = Tail(pending)
<1> DEFINE g == Merged(Head(pending), Tail(pending))
           n == [g EXCEPT !.generation = generation, !.terminal = TRUE,
                          !.epoch = epoch]
<1>1. /\ pending # <<>> /\ pending \in Seq(Entry) /\ Len(pending) \in Nat \ {0}
      /\ scheduled' = scheduled \cup {n}
      /\ pending' = Rest(Head(pending), Tail(pending))
      /\ generation \in Nat /\ epoch \in Nat
  <2>1. pending # <<>> /\ pending \in Seq(Entry)
    BY TypeParts DEF TakeNext
  <2> QED
    BY <2>1, TypeParts, EmptySeq DEF TakeNext
<1>2. 1 \in 1..Len(pending)
  BY <1>1
<1>3. CASE session = "chat"
  <2>1. \A i \in 1..Len(pending) : /\ pending[i].control = NoControl
                                   /\ pending[i].messages = <<pending[i].owner>>
    BY <1>3 DEF QueueFits, QueuedFits
  <2>2. /\ g \in Entry /\ g.control = NoControl
        /\ g.messages = Owners(pending, Len(pending))
        /\ pending' = <<>>
    BY <1>1, <2>1, MergedQueue
  <2> HIDE DEF g
  <2>3. /\ n \in Entry /\ n.generation = generation /\ n.control = NoControl
        /\ n.messages = Owners(pending, Len(pending))
    BY <1>1, <2>2 DEF Entry
  <2> HIDE DEF n
  <2> QED
    BY <1>1, <1>3, <2>2, <2>3
<1>4. CASE session # "chat"
  <2>1. QueuedFits(pending[1])
    BY <1>2 DEF QueueFits
  <2>2. /\ pending[1].control # NoControl /\ pending[1].messages = <<>>
        /\ ~pending[1].again
    BY <1>4, <2>1 DEF QueuedFits
  <2>3. g = pending[1] /\ g \in Entry /\ pending' = Tail(pending)
    BY <1>1, <2>2, HeadControl
  <2> HIDE DEF g
  <2>4. /\ n \in Entry /\ n.generation = generation
        /\ n.control = pending[1].control /\ n.control # NoControl
        /\ n.messages = <<>> /\ ~n.again
    BY <1>1, <2>2, <2>3 DEF Entry
  <2> HIDE DEF n
  <2> QED
    BY <1>1, <1>4, <2>3, <2>4
<1> QED
  BY <1>1, <1>3, <1>4

\* Valid work takes the gate: a batch with what queued up behind it, or a
\* control.
LEMMA AcquireEffect ==
  ASSUME TypeOK, QueueFits, ScheduledFits, NEW e \in scheduled,
         QueuedAcquire(e), Valid(e)
  PROVE  /\ e \in Entry /\ e.generation = generation /\ Held("queued")'
         /\ gate'.entry \in Entry /\ gate'.entry.generation = e.generation
         /\ gate'.entry.control = e.control
         /\ session = "chat" =>
              /\ e.control = NoControl /\ pending' = <<>>
              /\ gate'.entry.messages =
                   e.messages \o Owners(pending, Len(pending))
         /\ session # "chat" =>
              /\ e.control # NoControl /\ pending' = pending
              /\ gate'.entry.messages = e.messages
              /\ gate'.entry.again = e.again
<1> DEFINE g == Merged(e, pending)
           n == [g EXCEPT !.generation = e.generation, !.epoch = e.epoch]
<1>1. /\ e \in Entry /\ pending \in Seq(Entry)
      /\ e.generation \in Nat /\ e.epoch \in Nat
      /\ gate' = [op |-> "queued", entry |-> n]
      /\ pending' = Rest(e, pending) /\ e.generation = generation
      /\ EntryFits(e)
  BY TypeParts DEF QueuedAcquire, Valid, Entry, ScheduledFits
<1>2. Held("queued")' /\ gate'.entry = n
  BY <1>1 DEF Held
<1>3. CASE session = "chat"
  <2>1. \A i \in 1..Len(pending) : pending[i].control = NoControl
    BY <1>3 DEF QueueFits, QueuedFits
  <2>2. e.control = NoControl
    BY <1>1, <1>3 DEF EntryFits
  <2>3. /\ g \in Entry /\ g.control = NoControl /\ pending' = <<>>
        /\ g.messages = e.messages \o Owners(pending, Len(pending))
    BY <1>1, <2>1, <2>2, MergedMessages
  <2> HIDE DEF g
  <2>4. /\ n \in Entry /\ n.generation = e.generation /\ n.control = NoControl
        /\ n.messages = e.messages \o Owners(pending, Len(pending))
    BY <1>1, <2>3 DEF Entry
  <2> HIDE DEF n
  <2> QED
    BY <1>1, <1>2, <1>3, <2>2, <2>3, <2>4
<1>4. CASE session # "chat"
  <2>1. e.control # NoControl
    BY <1>1, <1>4 DEF EntryFits
  <2>2. g = e /\ pending' = pending
    BY <1>1, <2>1, ControlStaysAlone
  <2> HIDE DEF g
  <2>3. /\ n \in Entry /\ n.generation = e.generation
        /\ n.control = e.control /\ n.messages = e.messages
        /\ n.again = e.again
    BY <1>1, <2>2 DEF Entry
  <2> HIDE DEF n
  <2> QED
    BY <1>1, <1>2, <1>4, <2>1, <2>2, <2>3
<1> QED
  BY <1>3, <1>4

\* Settlements are counted.
LEMMA SettleType ==
  ASSUME settled \in [Messages -> Nat], NEW M, Settle(M)
  PROVE  settled' \in [Messages -> Nat]
BY DEF Settle

\* Entries as they come into the queue.
LEMMA QueuedTypes ==
  /\ \A m \in Messages :
       /\ Queued(m) \in Entry /\ Queued(m).owner = m
       /\ Queued(m).messages = <<m>> /\ Queued(m).control = NoControl
       /\ ~Queued(m).again
  /\ \A m \in Messages, k \in Controls :
       /\ QueuedControl(k, m) \in Entry
       /\ QueuedControl(k, m).messages = <<>>
       /\ QueuedControl(k, m).control = k
       /\ ~QueuedControl(k, m).again
<1>1. \A m \in Messages : <<m>> \in Seq(Messages) /\ <<>> \in Seq(Messages)
  OBVIOUS
<1> QED
  BY <1>1 DEF Queued, QueuedControl, Entry

\* What an admission leaves alone, and what it does to the message itself.
LEMMA SendAdmitFrame ==
  ASSUME TypeOK, NEW m \in Messages, NEW strict \in BOOLEAN,
         SendAdmit(m, strict)
  PROVE  /\ gate.op = "free" /\ status[m] = "new"
         /\ \A n \in Messages : n < m => status[n] # "new"
         /\ session = "job" => m = 1
         /\ born' \in [Messages -> Nat] /\ born'[m] = generation
         /\ \A n \in Messages : n # m => born'[n] = born[n]
         /\ status' \in [Messages -> {"new", "turned away", "accepted",
                                      "refused", "cancelled", "unconfirmed",
                                      "dropped", "lost"}]
         /\ \A n \in Messages : n # m => status'[n] = status[n]
         /\ UNCHANGED <<session, mode, provider, epoch, closed, control, seen,
                        generation, scheduled, turn, ended, turns, handed,
                        crossed, settled, stolen>>
<1>1. /\ gate.op = "free" /\ status[m] = "new"
      /\ \A n \in Messages : n < m => status[n] # "new"
      /\ session = "job" => m = 1
      /\ born' = [born EXCEPT ![m] = generation]
      /\ UNCHANGED <<session, mode, provider, epoch, closed, control, seen,
                     generation, scheduled, turn, ended, turns, handed,
                     crossed, settled, stolen>>
  BY DEF SendAdmit, Admissible, Free, harness, adapter
<1>2. /\ born' \in [Messages -> Nat] /\ born'[m] = generation
      /\ \A n \in Messages : n # m => born'[n] = born[n]
  BY <1>1, TypeParts
<1>3. mode \in {"queue", "steer"} /\ active \in BOOLEAN
      /\ status \in [Messages -> {"new", "turned away", "accepted",
                                   "refused", "cancelled", "unconfirmed",
                                   "dropped", "lost"}]
  BY TypeParts
<1>4. PICK w \in {"turned away", "accepted"} : Answer({m}, w)
  BY DEF SendAdmit
<1>5. /\ status' \in [Messages -> {"new", "turned away", "accepted",
                                   "refused", "cancelled", "unconfirmed",
                                   "dropped", "lost"}]
      /\ \A n \in Messages : n # m => status'[n] = status[n]
  BY <1>3, <1>4 DEF Answer
<1> QED
  BY <1>1, <1>2, <1>5

\* A message is refused, queued behind the turn, or takes the key.
LEMMA SendAdmitOutcome ==
  ASSUME TypeOK, NEW m \in Messages, NEW strict \in BOOLEAN,
         SendAdmit(m, strict)
  PROVE  \/ /\ status'[m] = "turned away"
            /\ UNCHANGED <<gate, active, pending, emitter>>
         \/ /\ status'[m] = "accepted" /\ provider = "up"
            /\ \/ turn = NoTurn /\ active
               \/ turn # NoTurn /\ mode = "queue"
            /\ pending' = Append(pending, Queued(m))
            /\ UNCHANGED <<gate, active, emitter>>
         \/ /\ status'[m] = "accepted" /\ provider = "up"
            /\ \/ turn = NoTurn /\ ~active /\ active' = TRUE
               \/ turn # NoTurn /\ mode = "steer" /\ active' = active
            /\ emitter' = m /\ gate'.op = "send"
            /\ gate'.message = m /\ gate'.strict = strict
            /\ gate'.was = (turn # NoTurn) /\ gate'.was \in BOOLEAN
            /\ gate'.previous = emitter
            /\ gate'.epoch = epoch
            /\ UNCHANGED pending
<1>1. mode \in {"queue", "steer"} /\ active \in BOOLEAN
  BY TypeParts
<1>2. \/ /\ Answer({m}, "turned away")
         /\ UNCHANGED <<gate, active, pending, emitter>>
      \/ /\ Answer({m}, "accepted") /\ provider = "up"
         /\ \/ turn = NoTurn /\ active
            \/ turn # NoTurn /\ mode = "queue"
         /\ pending' = Append(pending, Queued(m))
         /\ UNCHANGED <<gate, active, emitter>>
      \/ /\ Answer({m}, "accepted") /\ provider = "up"
         /\ ~(turn = NoTurn /\ active) /\ ~(turn # NoTurn /\ mode = "queue")
         /\ active' = (active \/ ~(turn # NoTurn))
         /\ emitter' = m
         /\ gate' = [op |-> "send", message |-> m, strict |-> strict,
                     was |-> turn # NoTurn, previous |-> emitter,
                     epoch |-> epoch]
         /\ UNCHANGED pending
  BY DEF SendAdmit
<1>3. \A v : Answer({m}, v) => status'[m] = v
  BY DEF Answer
<1>4. CASE UNCHANGED <<gate, active, pending, emitter>>
           /\ Answer({m}, "turned away")
  BY <1>3, <1>4
<1>5. CASE /\ Answer({m}, "accepted") /\ provider = "up"
           /\ \/ turn = NoTurn /\ active
              \/ turn # NoTurn /\ mode = "queue"
           /\ pending' = Append(pending, Queued(m))
           /\ UNCHANGED <<gate, active, emitter>>
  BY <1>3, <1>5
<1>6. CASE /\ Answer({m}, "accepted") /\ provider = "up"
            /\ ~(turn = NoTurn /\ active)
            /\ ~(turn # NoTurn /\ mode = "queue")
            /\ active' = (active \/ ~(turn # NoTurn))
            /\ emitter' = m
            /\ gate' = [op |-> "send", message |-> m, strict |-> strict,
                        was |-> turn # NoTurn, previous |-> emitter,
                        epoch |-> epoch]
            /\ UNCHANGED pending
  <2>1. /\ gate'.op = "send" /\ gate'.message = m /\ gate'.strict = strict
        /\ gate'.was = (turn # NoTurn) /\ gate'.was \in BOOLEAN
        /\ gate'.previous = emitter /\ gate'.epoch = epoch
    BY <1>6
  <2>2. \/ turn = NoTurn /\ ~active /\ active' = TRUE
        \/ turn # NoTurn /\ mode = "steer" /\ active' = active
    BY <1>1, <1>6
  <2> QED
    BY <1>3, <1>6, <2>1, <2>2
<1> QED
  BY <1>2, <1>4, <1>5, <1>6

Told == {"new", "turned away", "accepted", "refused", "cancelled",
         "unconfirmed", "dropped", "lost"}

Turns == [owner : Messages \cup {None}, number : Nat, live : BOOLEAN]

Ends == [owner : Messages, number : Nat, by : {"provider", "start"},
         held : Controls \cup {NoControl}]

\* One more message or control is handed over.
LEMMA HandOne ==
  ASSUME handed \in Seq(Messages \cup Controls), NEW x \in Messages \cup Controls,
         handed' = Append(handed, x)
  PROVE  /\ handed' \in Seq(Messages \cup Controls)
         /\ ToSet(handed') = ToSet(handed) \cup {x}
         /\ IsInjective(handed) /\ x \notin ToSet(handed) => IsInjective(handed')
  BY ElementsOfAppend

\* The adapter fails or refuses a send: the emitter goes, or comes back.
LEMMA SendFailedEffect ==
  ASSUME TypeOK, GateTypes, Held("send") \/ Held("steering"), SendFailed
  PROVE  /\ active' \in BOOLEAN /\ emitter' \in Messages \cup {None}
         /\ gate.was => active' = active
         /\ ~gate.was => ~active'
  BY TypeParts DEF GateTypes, SendFailed

\* Steering hands the message over.
LEMMA SendSteerEffect ==
  ASSUME Types, SendSteer
  PROVE  /\ Held("send") /\ gate.was /\ turn # NoTurn
         /\ gate.message \in Messages
         /\ handed' \in Seq(Messages \cup Controls)
         /\ handed' = Append(handed, gate.message)
         /\ turn' \in Turns /\ turn'.owner \in Messages
         /\ turn'.live = turn.live /\ turn' # NoTurn
         /\ Held("steering")' /\ gate'.message = gate.message
         /\ GateTypes'
         /\ UNCHANGED <<session, mode, provider, epoch, closed, active, pending,
                        emitter, control, seen, generation, scheduled, ended,
                        turns, crossed, status, born, settled, stolen>>
<1>1. /\ Held("send") /\ gate.was /\ turn # NoTurn
      /\ handed' = Append(handed, gate.message)
      /\ turn' = [turn EXCEPT !.owner = gate.message]
      /\ gate' = [op |-> "steering", message |-> gate.message, was |-> TRUE,
                  previous |-> gate.previous, replaced |-> turn.owner,
                  number |-> turn.number]
      /\ UNCHANGED <<session, mode, provider, epoch, closed, active, pending,
                     emitter, control, seen, generation, scheduled, ended,
                     turns, crossed, status, born, settled, stolen>>
  BY DEF SendSteer, harness, admission, senders
<1>2. /\ gate.message \in Messages /\ gate.previous \in Messages \cup {None}
      /\ turn \in Turns /\ turn.owner \in Messages
      /\ handed \in Seq(Messages \cup Controls)
  BY <1>1, TypeParts DEF Types, GateTypes, Turns
<1>3. handed' \in Seq(Messages \cup Controls)
  BY <1>1, <1>2, HandOne
<1>4. /\ turn' \in Turns /\ turn'.owner = gate.message /\ turn'.live = turn.live
  BY <1>1, <1>2 DEF Turns
<1>5. turn' # NoTurn
  BY <1>2, <1>4, Numbers DEF NoTurn
<1>6. Held("steering")' /\ gate'.message = gate.message
  BY <1>1 DEF Held
<1>7. GateTypes'
  BY <1>1, <1>2 DEF GateTypes, Held, Carrying, Turns
<1> QED
  BY <1>1, <1>2, <1>3, <1>4, <1>5, <1>6, <1>7

\* The provider answers a steered message: it is taken, or not confirmed.
LEMMA SteerReplyEffect ==
  ASSUME Types, SteerReply
  PROVE  /\ Held("steering") /\ gate.message \in Messages
         /\ active' = active /\ emitter' \in Messages \cup {None}
         /\ turn' \in Turns /\ (turn' = NoTurn <=> turn = NoTurn)
         /\ turn' # NoTurn => turn'.owner \in Messages
         /\ turn'.live = turn.live
         /\ settled' \in [Messages -> Nat] /\ stolen' \subseteq Messages
         /\ status' \in [Messages -> Told]
         /\ \A m \in Messages : m # gate.message => status'[m] = status[m]
         /\ \/ UNCHANGED <<status, emitter>>
            \/ status'[gate.message] = "unconfirmed"
         /\ gate'.op = "free" /\ GateTypes'
         /\ UNCHANGED <<session, mode, provider, epoch, closed, pending,
                        control, seen, generation, scheduled, ended, turns,
                        handed, crossed, born>>
<1>1. /\ Held("steering")
      /\ gate' = Free
      /\ UNCHANGED <<session, mode, provider, epoch, closed, pending,
                     control, seen, generation, scheduled, ended, turns,
                     handed, crossed, born>>
  BY DEF SteerReply, harness
<1>2. /\ gate.message \in Messages /\ gate.replaced \in Messages
      /\ gate.previous \in Messages \cup {None} /\ gate.was = TRUE
      /\ turn \in Turns /\ (turn # NoTurn => turn.owner \in Messages)
      /\ settled \in [Messages -> Nat] /\ stolen \subseteq Messages
      /\ status \in [Messages -> Told] /\ emitter \in Messages \cup {None}
  BY <1>1, TypeParts DEF Types, GateTypes, Turns, Told
<1>3. gate'.op = "free" /\ GateTypes'
  BY <1>1 DEF Free, GateTypes, Held, Carrying
<1>4. CASE Settle({gate.replaced})
           /\ UNCHANGED <<turn, active, emitter, status, stolen>>
  <2>1. settled' \in [Messages -> Nat]
    BY <1>2, <1>4, SettleType
  <2> QED
    BY <1>1, <1>2, <1>3, <1>4, <2>1
<1>5. CASE /\ SendFailed
           /\ Answer({gate.message}, "unconfirmed")
           /\ \/ turn' = [turn EXCEPT !.owner = gate.replaced]
                 /\ turn # NoTurn /\ stolen' = stolen
              \/ turn' = turn /\ stolen' = stolen \cup {gate.replaced}
           /\ UNCHANGED settled
  <2>1. active' = active /\ emitter' \in Messages \cup {None}
    BY <1>1, <1>2, <1>5, SendFailedEffect DEF Types
  <2>2. /\ turn' \in Turns /\ (turn' = NoTurn <=> turn = NoTurn)
        /\ turn' # NoTurn => turn'.owner \in Messages
        /\ turn'.live = turn.live
    BY <1>2, <1>5, Numbers DEF Turns, NoTurn
  <2>3. /\ status' \in [Messages -> Told]
        /\ \A m \in Messages : m # gate.message => status'[m] = status[m]
        /\ status'[gate.message] = "unconfirmed"
    BY <1>2, <1>5 DEF Answer, Told
  <2> QED
    BY <1>1, <1>2, <1>3, <1>5, <2>1, <2>2, <2>3
<1> QED
  BY <1>4, <1>5 DEF SteerReply

\* A turn begins, late or not, or it does not.
LEMMA BeginEffect ==
  ASSUME TypeOK, NEW m \in Messages, NEW live \in BOOLEAN, Begin(m, live)
  PROVE  /\ turn' \in Turns /\ turn'.owner \in Messages /\ turn'.live = live
         /\ turn' # NoTurn /\ turns' \in Nat /\ crossed' \in BOOLEAN
         /\ crossed' <=> \/ crossed \/ ~active \/ ended # {}
                         \/ \E e \in scheduled : e.generation = generation
<1>1. /\ turn' = [owner |-> m, number |-> turns + 1, live |-> live]
      /\ turns' = turns + 1 /\ turns \in Nat
  BY TypeParts DEF Begin
<1>2. /\ turn' \in Turns /\ turn'.owner = m /\ turn'.live = live
      /\ turns' \in Nat
  BY <1>1 DEF Turns
<1>3. turn' # NoTurn
  BY <1>2, Numbers DEF NoTurn
<1>4. /\ crossed' \in BOOLEAN
      /\ crossed' <=> \/ crossed \/ ~active \/ ended # {}
                      \/ \E e \in scheduled : e.generation = generation
  BY Zenon DEF Begin
<1> QED
  BY <1>2, <1>3, <1>4

\* A message starts a turn of its own, or fails to.
LEMMA SendStartEffect ==
  ASSUME Types, SendStart
  PROVE  /\ Held("send") /\ gate.message \in Messages /\ turn = NoTurn
         /\ handed' = Append(handed, gate.message)
         /\ handed' \in Seq(Messages \cup Controls)
         /\ gate'.op = "free" /\ GateTypes'
         /\ turn' \in Turns /\ (turn' # NoTurn => turn'.owner \in Messages)
         /\ turns' \in Nat /\ crossed' \in BOOLEAN
         /\ active' \in BOOLEAN /\ emitter' \in Messages \cup {None}
         /\ status' \in [Messages -> Told]
         /\ \A m \in Messages : m # gate.message => status'[m] = status[m]
         /\ \/ turn' = NoTurn /\ crossed' = crossed
            \/ /\ turn' # NoTurn
               /\ crossed' <=> \/ crossed \/ ~active \/ ended # {}
                               \/ \E e \in scheduled : e.generation = generation
         /\ \/ turn'.live /\ UNCHANGED <<active, emitter, status>>
            \/ /\ ~turn'.live /\ status'[gate.message] = "unconfirmed"
               /\ gate.was => active' = active
               /\ ~gate.was => ~active'
         /\ UNCHANGED <<session, mode, provider, epoch, closed, pending,
                        control, seen, generation, scheduled, ended, born,
                        settled, stolen>>
<1>1. /\ Held("send") /\ turn = NoTurn
      /\ handed' = Append(handed, gate.message)
      /\ gate' = Free
      /\ UNCHANGED <<session, mode, provider, epoch, closed, pending,
                     control, seen, generation, scheduled, ended, born,
                     settled, stolen>>
  BY DEF SendStart, harness
<1>2. /\ gate.message \in Messages /\ gate.was \in BOOLEAN
      /\ handed \in Seq(Messages \cup Controls)
      /\ status \in [Messages -> Told]
      /\ turn \in Turns /\ turns \in Nat /\ crossed \in BOOLEAN
      /\ active \in BOOLEAN /\ emitter \in Messages \cup {None}
  BY <1>1, TypeParts DEF Types, GateTypes, Turns, Told
<1>3. gate'.op = "free" /\ GateTypes'
  BY <1>1 DEF Free, GateTypes, Held, Carrying
<1>4. handed' \in Seq(Messages \cup Controls)
  BY <1>1, <1>2, HandOne
<1>5. PICK o \in {"started", "late", "failed"} :
        /\ IF o = "failed" THEN NoBegin ELSE Begin(gate.message, o = "started")
        /\ IF o = "started" THEN UNCHANGED <<active, emitter, status>>
           ELSE SendFailed /\ Answer({gate.message}, "unconfirmed")
  BY DEF SendStart
<1>6. /\ turn' \in Turns /\ (turn' # NoTurn => turn'.owner \in Messages)
      /\ turns' \in Nat /\ crossed' \in BOOLEAN
      /\ turn'.live <=> o = "started"
      /\ \/ turn' = NoTurn /\ crossed' = crossed
         \/ /\ turn' # NoTurn
            /\ crossed' <=> \/ crossed \/ ~active \/ ended # {}
                            \/ \E e \in scheduled : e.generation = generation
  <2>1. CASE o = "failed"
    <3>1. UNCHANGED <<turn, turns, crossed>> /\ turn' = NoTurn
      BY <1>1, <1>5, <2>1 DEF NoBegin
    <3>2. NoTurn.live = FALSE
      BY DEF NoTurn
    <3> QED
      BY <1>2, <2>1, <3>1, <3>2
  <2>2. CASE o # "failed"
    <3>1. Begin(gate.message, o = "started") /\ (o = "started") \in BOOLEAN
      BY <1>5, <2>2
    <3> QED
      BY <1>2, <3>1, BeginEffect DEF Types
  <2> QED
    BY <2>1, <2>2
<1>7. CASE o = "started"
  BY <1>1, <1>2, <1>3, <1>4, <1>5, <1>6, <1>7
<1>8. CASE o # "started"
  <2>1. SendFailed /\ Answer({gate.message}, "unconfirmed")
    BY <1>5, <1>8
  <2>2. /\ active' \in BOOLEAN /\ emitter' \in Messages \cup {None}
        /\ gate.was => active' = active
        /\ ~gate.was => ~active'
    BY <1>1, <2>1, SendFailedEffect DEF Types
  <2>3. /\ status' \in [Messages -> Told]
        /\ \A m \in Messages : m # gate.message => status'[m] = status[m]
        /\ status'[gate.message] = "unconfirmed"
    BY <1>2, <2>1 DEF Answer, Told
  <2> QED
    BY <1>1, <1>2, <1>3, <1>4, <1>6, <1>8, <2>2, <2>3
<1> QED
  BY <1>7, <1>8

\* A send is refused after it took the key.
LEMMA SendRefusedEffect ==
  ASSUME Types, SendRefused
  PROVE  /\ Held("send") /\ gate.message \in Messages
         /\ gate'.op = "free" /\ GateTypes'
         /\ active' \in BOOLEAN /\ emitter' \in Messages \cup {None}
         /\ gate.was => active' = active
         /\ ~gate.was => ~active'
         /\ status' \in [Messages -> Told]
         /\ \A m \in Messages : m # gate.message => status'[m] = status[m]
         /\ status'[gate.message] = "refused"
         /\ UNCHANGED <<session, mode, provider, epoch, closed, pending,
                        control, seen, generation, scheduled, turn, ended,
                        turns, handed, crossed, born, settled, stolen>>
<1>1. /\ Held("send") /\ SendFailed /\ Answer({gate.message}, "refused")
      /\ gate' = Free
      /\ UNCHANGED <<session, mode, provider, epoch, closed, pending,
                     control, seen, generation, scheduled, turn, ended,
                     turns, handed, crossed, born, settled, stolen>>
  BY DEF SendRefused, harness, adapter
<1>2. gate.message \in Messages /\ status \in [Messages -> Told]
  BY <1>1, TypeParts DEF Types, GateTypes, Told
<1>3. gate'.op = "free" /\ GateTypes'
  BY <1>1 DEF Free, GateTypes, Held, Carrying
<1>4. /\ active' \in BOOLEAN /\ emitter' \in Messages \cup {None}
      /\ gate.was => active' = active
      /\ ~gate.was => ~active'
  BY <1>1, SendFailedEffect DEF Types
<1>5. /\ status' \in [Messages -> Told]
      /\ \A m \in Messages : m # gate.message => status'[m] = status[m]
      /\ status'[gate.message] = "refused"
  BY <1>1, <1>2 DEF Answer, Told
<1> QED
  BY <1>1, <1>2, <1>3, <1>4, <1>5

\* The adapter forgets a turn: its end is still to be told.
LEMMA TurnEndsEffect ==
  ASSUME Types, TurnEnds
  PROVE  /\ turn # NoTurn /\ turn' = NoTurn
         /\ \E x \in Ends : /\ ended' = ended \cup {x}
                            /\ x.by = "provider" /\ x.held = NoControl
         /\ UNCHANGED <<session, mode, provider, epoch, closed, gate, active,
                        pending, emitter, control, seen, generation, scheduled,
                        turns, handed, crossed, status, born, settled, stolen>>
<1>1. /\ turn # NoTurn /\ turn' = NoTurn
      /\ ended' = ended \cup {Ended(turn.owner, turn.number, "provider")}
      /\ UNCHANGED <<session, mode, provider, epoch, closed, gate, active,
                     pending, emitter, control, seen, generation, scheduled,
                     turns, handed, crossed, status, born, settled, stolen>>
  BY DEF TurnEnds, harness, admission, senders
<1>2. turn.owner \in Messages /\ turn.number \in Nat
  BY <1>1, TypeParts DEF Types
<1>3. /\ Ended(turn.owner, turn.number, "provider") \in Ends
      /\ Ended(turn.owner, turn.number, "provider").by = "provider"
      /\ Ended(turn.owner, turn.number, "provider").held = NoControl
  BY <1>2 DEF Ended, Ends
<1> QED
  BY <1>1, <1>3

\* A terminal event was handled; one that the gate's holder emitted frees it.
LEMMA DoneEffect ==
  ASSUME NEW e, GateTypes, Done(e)
  PROVE  /\ ended' = ended \ {e} /\ GateTypes'
         /\ e.by # "start" => gate' = gate
         /\ e.by = "start" => gate'.op = "free"
  BY DEF Done, Free, GateTypes, Held, Carrying

\* The wrapper hands the key on, holds it for a control, or frees it.
LEMMA TerminalEffect ==
  ASSUME IInv, NEW e, TerminalEvent(e)
  PROVE  /\ e \in ended /\ e.held = NoControl
         /\ settled' \in [Messages -> Nat] /\ GateTypes'
         /\ UNCHANGED <<session, mode, provider, epoch, closed, generation,
                        turn, turns, handed, crossed, status, born, stolen>>
         /\ \/ /\ TakeNext(e)
               /\ e.by # "start" => gate' = gate
               /\ e.by = "start" => gate'.op = "free"
               /\ ended' = ended \ {e}
               /\ UNCHANGED <<active, emitter, control, seen>>
            \/ /\ pending = <<>> /\ control.id # NoControl
               /\ \E h \in Ends : /\ ended' = (ended \ {e}) \cup {h}
                                  /\ h.by = e.by /\ h.held = control.id
               /\ UNCHANGED <<gate, active, pending, emitter, control, seen,
                              scheduled>>
            \/ /\ pending = <<>>
               /\ active' = FALSE /\ control' = Idle /\ emitter' = None
               /\ seen' = {}
               /\ e.by # "start" => gate' = gate
               /\ e.by = "start" => gate'.op = "free"
               /\ ended' = ended \ {e}
               /\ UNCHANGED <<pending, scheduled>>
<1>1. /\ e \in ended /\ e.held = NoControl
      /\ UNCHANGED <<session, mode, provider, epoch, closed, generation,
                     turn, turns, handed, crossed, status, born, stolen>>
      /\ TakeNext(e) \/ HoldForControl(e) \/ Release(e)
  BY DEF TerminalEvent, harness
<1>2. /\ GateTypes /\ settled \in [Messages -> Nat] /\ e \in Ends
      /\ control \in Selection
  BY <1>1, TypeParts DEF IInv, Types, Ends
<1>3. CASE TakeNext(e)
  <2>1. /\ Done(e) /\ \E M : Settle(M)
        /\ UNCHANGED <<active, emitter, control, seen>>
    BY <1>3 DEF TakeNext
  <2> QED
    BY <1>1, <1>2, <1>3, <2>1, DoneEffect, SettleType
<1>4. CASE HoldForControl(e)
  <2> DEFINE h == [e EXCEPT !.held = control.id]
  <2>1. /\ pending = <<>> /\ control.id # NoControl
        /\ ended' = (ended \ {e}) \cup {h}
        /\ UNCHANGED <<gate, active, pending, emitter, control, seen,
                       scheduled, settled>>
    BY <1>4 DEF HoldForControl
  <2>2. h \in Ends /\ h.by = e.by /\ h.held = control.id
    BY <1>2 DEF Ends, Selection
  <2>3. GateTypes'
    BY <1>2, <2>1 DEF GateTypes, Held, Carrying
  <2> HIDE DEF h
  <2> QED
    BY <1>1, <1>2, <2>1, <2>2, <2>3
<1>5. CASE Release(e)
  <2>1. /\ pending = <<>> /\ active' = FALSE /\ control' = Idle
        /\ emitter' = None /\ seen' = {} /\ Done(e) /\ Settle({e.owner})
        /\ UNCHANGED <<pending, scheduled>>
    BY <1>5 DEF Release, Forget
  <2> QED
    BY <1>1, <1>2, <2>1, DoneEffect, SettleType
<1> QED
  BY <1>1, <1>3, <1>4, <1>5

\* The wrapper looks at the control again: it continues the turn, or frees the
\* key.
LEMMA ContinuationEffect ==
  ASSUME IInv, NEW e, Continuation(e)
  PROVE  /\ e \in ended /\ e.held # NoControl /\ e.held \in Controls
         /\ session = "job"
         /\ ended' = ended \ {e} /\ GateTypes'
         /\ e.by # "start" => gate' = gate
         /\ e.by = "start" => gate'.op = "free"
         /\ UNCHANGED <<session, mode, provider, epoch, closed, pending, seen,
                        generation, turn, turns, handed, crossed, status, born,
                        settled, stolen>>
         /\ \/ /\ control.id = e.held
               /\ \E n \in Entry :
                    /\ scheduled' = scheduled \cup {n}
                    /\ n.generation = generation /\ n.control = e.held
                    /\ n.again = TRUE /\ n.messages = <<>>
               /\ control' \in Selection /\ control'.id = control.id
               /\ UNCHANGED <<active, emitter>>
            \/ /\ active' = FALSE /\ control' = Idle /\ emitter' = None
               /\ UNCHANGED scheduled
<1>1. /\ e \in ended /\ e.held # NoControl /\ Done(e)
      /\ UNCHANGED <<session, mode, provider, epoch, closed, pending, seen,
                     generation, turn, turns, handed, crossed, status, born,
                     settled, stolen>>
  BY DEF Continuation, harness, senders
<1>2. /\ GateTypes /\ e \in Ends /\ control \in Selection
      /\ generation \in Nat /\ epoch \in Nat
      /\ session \in {"chat", "job"} /\ emitter \in Messages \cup {None}
  BY <1>1, TypeParts DEF IInv, Types, Ends
<1>3. e.held \in Controls /\ session = "job"
  BY <1>1, <1>2 DEF Ends, IInv, ChatFits
<1>4. /\ ended' = ended \ {e} /\ GateTypes'
      /\ e.by # "start" => gate' = gate
      /\ e.by = "start" => gate'.op = "free"
  BY <1>1, <1>2, DoneEffect
<1>5. CASE control.id = e.held
  <2> DEFINE n == [QueuedControl(e.held, emitter) EXCEPT !.again = TRUE,
                     !.generation = generation, !.terminal = TRUE,
                     !.epoch = epoch]
  <2>1. emitter \in Messages
    BY <1>1, <1>2, <1>3, <1>5 DEF IInv, JobFits
  <2>2. /\ control' = [control EXCEPT !.again = TRUE]
        /\ scheduled' = scheduled \cup {n}
        /\ UNCHANGED <<active, emitter>>
    BY <1>5 DEF Continuation
  <2>3. /\ QueuedControl(e.held, emitter) \in Entry
        /\ QueuedControl(e.held, emitter).messages = <<>>
        /\ QueuedControl(e.held, emitter).control = e.held
    BY <1>3, <2>1, QueuedTypes
  <2>4. /\ n \in Entry /\ n.generation = generation /\ n.control = e.held
        /\ n.again = TRUE /\ n.messages = <<>>
    BY <1>2, <2>3 DEF Entry
  <2>5. control' \in Selection /\ control'.id = control.id
    BY <1>2, <2>2 DEF Selection
  <2> HIDE DEF n
  <2> QED
    BY <1>1, <1>3, <1>4, <1>5, <2>2, <2>4, <2>5
<1>6. CASE control.id # e.held
  BY <1>1, <1>3, <1>4, <1>6 DEF Continuation, Forget
<1> QED
  BY <1>5, <1>6

\* Cancelling one entry cancels its messages.
LEMMA CancelEffect ==
  ASSUME TypeOK, NEW e, Cancel({e})
  PROVE  /\ status' \in [Messages -> Told] /\ settled' \in [Messages -> Nat]
         /\ \A m \in Messages :
              status'[m] = IF m \in ToSet(e.messages) THEN "cancelled"
                           ELSE status[m]
<1>1. UNION {ToSet(f.messages) : f \in {e}} = ToSet(e.messages)
  OBVIOUS
<1>2. Settle(ToSet(e.messages)) /\ Answer(ToSet(e.messages), "cancelled")
  BY <1>1 DEF Cancel
<1>3. status \in [Messages -> Told] /\ settled \in [Messages -> Nat]
  BY TypeParts DEF Told
<1>4. settled' \in [Messages -> Nat]
  BY <1>2, <1>3, SettleType
<1> QED
  BY <1>2, <1>3, <1>4 DEF Answer, Told

\* Giving a batch up: its messages are dropped or lost, no other is touched.
LEMMA GiveUpEffect ==
  ASSUME status \in [Messages -> Told], NEW M, NEW hear, GiveUp(M, hear)
  PROVE  /\ status' \in [Messages -> Told]
         /\ \A m \in Messages :
              IF m \in M THEN status'[m] \in {"dropped", "lost"}
              ELSE status'[m] = status[m]
         /\ \A m \in Messages : m \in M \cap hear => status'[m] = "dropped"
BY DEF GiveUp, Told

\* Queued work of this generation is refused: its key is freed, its queue
\* forgotten.
LEMMA FinishQueuedEffect ==
  ASSUME TypeOK, NEW e, FinishQueued(e)
  PROVE  /\ status' \in [Messages -> Told] /\ settled' \in [Messages -> Nat]
         /\ \/ /\ generation # e.generation
               /\ UNCHANGED <<pending, active, control, emitter, seen, status>>
            \/ /\ generation = e.generation /\ pending' = <<>>
               /\ active' = FALSE /\ control' = Idle /\ emitter' = None
               /\ seen' = {}
               /\ \A m \in Messages :
                    IF m \in ToSet(e.messages)
                    THEN status'[m] \in {"dropped", "lost"}
                    ELSE status'[m] = status[m]
               /\ \A m \in Messages :
                    e.terminal /\ m = e.owner /\ m \in ToSet(e.messages)
                      => status'[m] = "dropped"
<1>1. status \in [Messages -> Told] /\ settled \in [Messages -> Nat]
  BY TypeParts DEF Told
<1>2. CASE generation # e.generation
  BY <1>1, <1>2 DEF FinishQueued
<1>3. CASE generation = e.generation
  <2> DEFINE hear == IF e.terminal THEN {e.owner} ELSE {}
  <2>1. /\ pending' = <<>> /\ active' = FALSE /\ control' = Idle
        /\ emitter' = None /\ seen' = {}
        /\ GiveUp(ToSet(e.messages), hear) /\ Settle(hear)
    BY <1>3 DEF FinishQueued, Forget
  <2>2. settled' \in [Messages -> Nat]
    BY <1>1, <2>1, SettleType
  <2>3. e.terminal => e.owner \in hear
    OBVIOUS
  <2> HIDE DEF hear
  <2>4. /\ status' \in [Messages -> Told]
        /\ \A m \in Messages :
             IF m \in ToSet(e.messages) THEN status'[m] \in {"dropped", "lost"}
             ELSE status'[m] = status[m]
        /\ \A m \in Messages :
             m \in ToSet(e.messages) \cap hear => status'[m] = "dropped"
    BY <1>1, <2>1, GiveUpEffect
  <2> QED
    BY <1>3, <2>1, <2>2, <2>3, <2>4
<1> QED
  BY <1>2, <1>3

\* A control is refused before its continuation takes the gate.
LEMMA ContinuationRefusedEffect ==
  ASSUME IInv, NEW e, ContinuationRefused(e)
  PROVE  /\ e \in scheduled /\ e.control # NoControl /\ session = "job"
         /\ scheduled' = scheduled \ {e}
         /\ settled' \in [Messages -> Nat] /\ status' = status
         /\ GateTypes'
         /\ \/ /\ generation # e.generation
               /\ UNCHANGED <<pending, active, control, emitter, seen>>
            \/ /\ generation = e.generation /\ pending' = <<>>
               /\ active' = FALSE /\ control' = Idle /\ emitter' = None
               /\ seen' = {}
         /\ UNCHANGED <<session, mode, provider, epoch, closed, gate,
                        generation, turn, ended, turns, handed, crossed, born,
                        stolen>>
<1>1. /\ e \in scheduled /\ e.control # NoControl
      /\ scheduled' = scheduled \ {e} /\ FinishQueued(e)
      /\ UNCHANGED <<session, mode, provider, epoch, closed, gate,
                     generation, turn, ended, turns, handed, crossed, born,
                     stolen>>
  BY DEF ContinuationRefused, harness, adapter
<1>2. /\ EntryFits(e) /\ TypeOK /\ GateTypes
      /\ session \in {"chat", "job"} /\ status \in [Messages -> Told]
  BY <1>1, TypeParts DEF IInv, Books, ScheduledFits, Types, Told
<1>3. session = "job" /\ ToSet(e.messages) = {}
  BY <1>1, <1>2, ElementsOfSmall DEF EntryFits
<1>4. GateTypes'
  BY <1>1, <1>2 DEF GateTypes, Held, Carrying
<1>5. /\ status' \in [Messages -> Told] /\ settled' \in [Messages -> Nat]
      /\ \/ /\ generation # e.generation
            /\ UNCHANGED <<pending, active, control, emitter, seen, status>>
         \/ /\ generation = e.generation /\ pending' = <<>>
            /\ active' = FALSE /\ control' = Idle /\ emitter' = None
            /\ seen' = {}
            /\ \A m \in Messages :
                 IF m \in ToSet(e.messages)
                 THEN status'[m] \in {"dropped", "lost"}
                 ELSE status'[m] = status[m]
  BY <1>1, <1>2, FinishQueuedEffect
<1>6. status' = status
  <2>1. \A m \in Messages : status'[m] = status[m]
    BY <1>3, <1>5
  <2> QED
    BY <1>2, <1>5, <2>1
<1> QED
  BY <1>1, <1>3, <1>4, <1>5, <1>6

\* Scheduled work that is no longer valid is cancelled.
LEMMA AcquireCancels ==
  ASSUME IInv, NEW e, QueuedAcquire(e), ~Valid(e)
  PROVE  /\ e \in scheduled /\ scheduled' = scheduled \ {e}
         /\ gate.op = "free" /\ GateTypes'
         /\ status' \in [Messages -> Told] /\ settled' \in [Messages -> Nat]
         /\ \A m \in Messages :
              status'[m] = IF m \in ToSet(e.messages) THEN "cancelled"
                           ELSE status[m]
         /\ UNCHANGED <<session, mode, provider, epoch, closed, gate, active,
                        pending, emitter, control, seen, generation, turn,
                        ended, turns, handed, crossed, born, stolen>>
<1>1. /\ e \in scheduled /\ scheduled' = scheduled \ {e}
      /\ gate = Free /\ Cancel({e}) /\ UNCHANGED <<gate, pending>>
      /\ UNCHANGED <<session, mode, provider, epoch, closed, active, emitter,
                     control, seen, generation, turn, ended, turns, handed,
                     crossed, born, stolen>>
  BY DEF QueuedAcquire, harness, adapter
<1>2. TypeOK /\ GateTypes
  BY DEF IInv, Types
<1>3. gate.op = "free" /\ GateTypes'
  BY <1>1, <1>2 DEF Free, GateTypes, Held, Carrying
<1> QED
  BY <1>1, <1>2, <1>3, CancelEffect

\* What an acquisition leaves alone.
LEMMA AcquireKeeps ==
  ASSUME IInv, NEW e, QueuedAcquire(e), Valid(e)
  PROVE  /\ e \in scheduled /\ scheduled' = scheduled \ {e}
         /\ gate.op = "free" /\ active /\ ~closed /\ e.generation = generation
         /\ gate'.op = "queued" /\ gate'.entry \in Entry /\ GateTypes'
         /\ UNCHANGED <<session, mode, provider, epoch, closed, active,
                        emitter, control, seen, generation, turn, ended, turns,
                        handed, crossed, status, born, settled, stolen>>
<1>1. /\ e \in scheduled /\ scheduled' = scheduled \ {e}
      /\ gate = Free
      /\ UNCHANGED <<session, mode, provider, epoch, closed, active,
                     emitter, control, seen, generation, turn, ended, turns,
                     handed, crossed, status, born, settled, stolen>>
  BY DEF QueuedAcquire, harness, adapter
<1>2. gate.op = "free" /\ active /\ ~closed /\ e.generation = generation
  BY <1>1 DEF Free, Valid
<1>3. TypeOK /\ QueueFits /\ ScheduledFits
  BY DEF IInv, Types, Books
<1>4. gate'.op = "queued" /\ gate'.entry \in Entry
  BY <1>1, <1>3, AcquireEffect DEF Held
<1>5. GateTypes'
  BY <1>4 DEF GateTypes, Held, Carrying
<1> QED
  BY <1>1, <1>2, <1>4, <1>5

\* The callbacks refuse the control, the fence has moved, or the work is ready.
LEMMA PrepareEffect ==
  ASSUME IInv, QueuedPrepare
  PROVE  /\ Held("queued") /\ gate.entry \in Entry /\ EntryFits(gate.entry)
         /\ gate.entry.generation = generation
         /\ GateTypes'
         /\ status' \in [Messages -> Told] /\ settled' \in [Messages -> Nat]
         /\ UNCHANGED <<session, mode, provider, epoch, closed, generation,
                        scheduled, turn, ended, turns, handed, crossed, born,
                        stolen>>
         /\ \/ /\ gate'.op = "free" /\ gate.entry.control # NoControl
               /\ pending' = <<>> /\ active' = FALSE /\ control' = Idle
               /\ emitter' = None /\ seen' = {} /\ status' = status
            \/ /\ gate'.op = "free" /\ (closed \/ ~active)
               /\ UNCHANGED <<pending, active, control, emitter, seen>>
               /\ \A m \in Messages :
                    status'[m] = IF m \in ToSet(gate.entry.messages)
                                 THEN "cancelled" ELSE status[m]
            \/ /\ gate'.op = "ready" /\ gate'.entry = gate.entry
               /\ active /\ ~closed
               /\ gate.entry.control = NoControl =>
                    emitter' = gate.entry.owner /\ control' = control
               /\ gate.entry.control # NoControl =>
                    /\ emitter' = emitter /\ control' \in Selection
                    /\ control'.id = gate.entry.control
               /\ UNCHANGED <<pending, active, seen, status>>
<1> DEFINE e == gate.entry
<1>1. /\ Held("queued")
      /\ UNCHANGED <<session, mode, provider, epoch, closed, generation,
                     scheduled, turn, ended, turns, handed, crossed, born,
                     stolen>>
      /\ \/ e.control # NoControl /\ FinishQueued(e) /\ gate' = Free
         \/ /\ ~Valid(e) /\ Cancel({e}) /\ gate' = Free
            /\ UNCHANGED <<pending, active, control, emitter, seen>>
         \/ /\ Valid(e)
            /\ emitter' = IF e.control = NoControl THEN e.owner ELSE emitter
            /\ control' = IF e.control = NoControl THEN control
                          ELSE [id |-> e.control, again |-> e.again]
            /\ gate' = [op |-> "ready", entry |-> e]
            /\ UNCHANGED <<pending, active, seen, status, settled>>
  BY DEF QueuedPrepare, harness, adapter
<1>2. /\ e \in Entry /\ EntryFits(e) /\ e.generation = generation
      /\ TypeOK /\ status \in [Messages -> Told]
      /\ settled \in [Messages -> Nat]
  BY <1>1, TypeParts
  DEF IInv, Types, GateTypes, Books, GateFits, Carrying, Told
<1>3. CASE e.control # NoControl /\ FinishQueued(e) /\ gate' = Free
  <2>1. ToSet(e.messages) = {}
    BY <1>2, <1>3, ElementsOfSmall DEF EntryFits
  <2>2. /\ status' \in [Messages -> Told] /\ settled' \in [Messages -> Nat]
        /\ pending' = <<>> /\ active' = FALSE /\ control' = Idle
        /\ emitter' = None /\ seen' = {}
        /\ \A m \in Messages : status'[m] = status[m]
    BY <1>2, <1>3, <2>1, FinishQueuedEffect
  <2>3. status' = status
    BY <1>2, <2>2
  <2>4. gate'.op = "free" /\ GateTypes'
    BY <1>3 DEF Free, GateTypes, Held, Carrying
  <2> QED
    BY <1>1, <1>2, <1>3, <2>2, <2>3, <2>4
<1>4. CASE /\ ~Valid(e) /\ Cancel({e}) /\ gate' = Free
           /\ UNCHANGED <<pending, active, control, emitter, seen>>
  <2>1. gate'.op = "free" /\ GateTypes'
    BY <1>4 DEF Free, GateTypes, Held, Carrying
  <2>2. closed \/ ~active
    BY <1>2, <1>4 DEF Valid
  <2>3. /\ status' \in [Messages -> Told] /\ settled' \in [Messages -> Nat]
        /\ \A m \in Messages :
             status'[m] = IF m \in ToSet(e.messages) THEN "cancelled"
                          ELSE status[m]
    BY <1>2, <1>4, CancelEffect
  <2> QED
    BY <1>1, <1>2, <1>4, <2>1, <2>2, <2>3
<1>5. CASE /\ Valid(e)
           /\ emitter' = IF e.control = NoControl THEN e.owner ELSE emitter
           /\ control' = IF e.control = NoControl THEN control
                         ELSE [id |-> e.control, again |-> e.again]
           /\ gate' = [op |-> "ready", entry |-> e]
           /\ UNCHANGED <<pending, active, seen, status, settled>>
  <2>1. gate'.op = "ready" /\ gate'.entry = e /\ GateTypes'
    BY <1>2, <1>5 DEF GateTypes, Held, Carrying
  <2>2. active /\ ~closed
    BY <1>5 DEF Valid
  <2>3. e.control # NoControl => control' \in Selection /\ control'.id = e.control
    BY <1>2, <1>5 DEF Selection, Entry
  <2> HIDE DEF e
  <2> QED
    BY <1>1, <1>2, <1>5, <2>1, <2>2, <2>3 DEF e
<1> QED
  BY <1>1, <1>3, <1>4, <1>5

\* The error of queued work goes through its own emitter.
LEMMA QueuedErrorEffect ==
  ASSUME NEW e \in Entry, turns' \in Nat, QueuedError(e)
  PROVE  /\ \E x \in Ends : /\ ended' = ended \cup {x}
                            /\ x.by = "start" /\ x.held = NoControl
         /\ gate'.op = "failing" /\ GateTypes'
<1>1. /\ Ended(e.owner, turns', "start") \in Ends
      /\ Ended(e.owner, turns', "start").by = "start"
      /\ Ended(e.owner, turns', "start").held = NoControl
  BY DEF Ended, Ends, Entry
<1>2. /\ ended' = ended \cup {Ended(e.owner, turns', "start")}
      /\ gate' = [op |-> "failing"]
  BY DEF QueuedError
<1>3. gate'.op = "failing" /\ GateTypes'
  BY <1>2 DEF GateTypes, Held, Carrying
<1> QED
  BY <1>1, <1>2, <1>3

\* A batch is not reserved.
LEMMA UnreservedEffect ==
  ASSUME IInv, QueuedUnreserved
  PROVE  /\ Held("ready") /\ gate.entry \in Entry /\ EntryFits(gate.entry)
         /\ gate.entry.control = NoControl /\ session = "chat"
         /\ gate'.op = "free" /\ GateTypes'
         /\ pending' = <<>> /\ active' = FALSE /\ control' = Idle
         /\ emitter' = None /\ seen' = {}
         /\ status' \in [Messages -> Told] /\ settled' \in [Messages -> Nat]
         /\ \A m \in Messages :
              IF m \in ToSet(gate.entry.messages)
              THEN status'[m] \in {"dropped", "lost"}
              ELSE status'[m] = status[m]
         /\ \A m \in Messages :
              (gate.entry.terminal /\ m = gate.entry.owner
                 /\ m \in ToSet(gate.entry.messages))
                => status'[m] = "dropped"
         /\ UNCHANGED <<session, mode, provider, epoch, closed, generation,
                        scheduled, turn, ended, turns, handed, crossed, born,
                        stolen>>
<1>1. /\ Held("ready") /\ gate.entry.control = NoControl /\ gate' = Free
      /\ FinishQueued(gate.entry)
      /\ UNCHANGED <<session, mode, provider, epoch, closed, generation,
                     scheduled, turn, ended, turns, handed, crossed, born,
                     stolen>>
  BY DEF QueuedUnreserved, harness, adapter
<1>2. /\ gate.entry \in Entry /\ EntryFits(gate.entry) /\ TypeOK
      /\ gate.entry.generation = generation
  BY <1>1 DEF IInv, Types, GateTypes, Books, GateFits, Carrying
<1>3. session = "chat"
  BY <1>1, <1>2 DEF EntryFits
<1>4. gate'.op = "free" /\ GateTypes'
  BY <1>1 DEF Free, GateTypes, Held, Carrying
<1>5. /\ status' \in [Messages -> Told] /\ settled' \in [Messages -> Nat]
      /\ pending' = <<>> /\ active' = FALSE /\ control' = Idle
      /\ emitter' = None /\ seen' = {}
  BY <1>1, <1>2, FinishQueuedEffect
<1>6. /\ \A m \in Messages :
           IF m \in ToSet(gate.entry.messages)
           THEN status'[m] \in {"dropped", "lost"}
           ELSE status'[m] = status[m]
      /\ \A m \in Messages :
           (gate.entry.terminal /\ m = gate.entry.owner
              /\ m \in ToSet(gate.entry.messages))
             => status'[m] = "dropped"
  BY <1>1, <1>2, FinishQueuedEffect
<1> QED
  BY <1>1, <1>2, <1>3, <1>4, <1>5, <1>6

\* The supervisor is closed before the prompt is sent.
LEMMA ClosedEffect ==
  ASSUME IInv, QueuedClosed
  PROVE  /\ Held("ready") /\ gate.entry \in Entry /\ EntryFits(gate.entry)
         /\ closed /\ gate'.op = "failing" /\ GateTypes'
         /\ \E x \in Ends : /\ ended' = ended \cup {x}
                            /\ x.by = "start" /\ x.held = NoControl
         /\ status' \in [Messages -> Told]
         /\ \A m \in Messages :
              IF m \in ToSet(gate.entry.messages)
              THEN status'[m] \in {"dropped", "lost"}
              ELSE status'[m] = status[m]
         /\ \A m \in Messages :
              m = gate.entry.owner /\ m \in ToSet(gate.entry.messages)
                => status'[m] = "dropped"
         /\ UNCHANGED <<session, mode, provider, epoch, closed, active,
                        pending, emitter, control, seen, generation, scheduled,
                        turn, turns, handed, crossed, born, settled, stolen>>
<1>1. /\ Held("ready") /\ closed /\ QueuedError(gate.entry)
      /\ GiveUp(ToSet(gate.entry.messages), {gate.entry.owner})
      /\ UNCHANGED <<session, mode, provider, epoch, closed, active,
                     pending, emitter, control, seen, generation, scheduled,
                     turn, turns, handed, crossed, born, settled, stolen>>
  BY DEF QueuedClosed, NoBegin, harness, admission
<1>2. /\ gate.entry \in Entry /\ EntryFits(gate.entry)
      /\ turns' \in Nat /\ status \in [Messages -> Told]
  BY <1>1, TypeParts
  DEF IInv, Types, GateTypes, Books, GateFits, Carrying, Told
<1>3. /\ status' \in [Messages -> Told]
      /\ \A m \in Messages :
           IF m \in ToSet(gate.entry.messages)
           THEN status'[m] \in {"dropped", "lost"}
           ELSE status'[m] = status[m]
      /\ \A m \in Messages :
           m \in ToSet(gate.entry.messages) \cap {gate.entry.owner}
             => status'[m] = "dropped"
  BY <1>1, <1>2, GiveUpEffect
<1> QED
  BY <1>1, <1>2, <1>3, QueuedErrorEffect

\* The prompt starts a turn, is steered into one, or is refused; unless a turn
\* took it, the error goes through the emitter.
LEMMA QueuedSendEffect ==
  ASSUME IInv, QueuedSend
  PROVE  /\ Held("ready") /\ ~closed /\ gate.entry \in Entry
         /\ EntryFits(gate.entry) /\ gate.entry.generation = generation
         /\ settled' \in [Messages -> Nat] /\ status' \in [Messages -> Told]
         /\ GateTypes'
         /\ turn' \in Turns /\ (turn' # NoTurn => turn'.owner \in Messages)
         /\ turns' \in Nat /\ crossed' \in BOOLEAN
         /\ handed' \in Seq(Messages \cup Controls) /\ IsInjective(handed')
         /\ UNCHANGED <<session, mode, provider, epoch, closed, active,
                        pending, emitter, control, seen, generation, scheduled,
                        born, stolen>>
         /\ \/ /\ UNCHANGED <<handed, turn, turns, crossed>>
               /\ \A m \in Messages :
                    status'[m] = IF m \in ToSet(gate.entry.messages)
                                 THEN "dropped" ELSE status[m]
            \/ /\ status' = status
               /\ ToSet(handed') = ToSet(handed) \cup Items(gate.entry)
               /\ session = "chat" => handed' = handed \o gate.entry.messages
         /\ \/ UNCHANGED <<turn, turns, crossed>>
            \/ /\ turn = NoTurn /\ turn' # NoTurn /\ status' = status
               /\ crossed' <=> \/ crossed \/ ~active \/ ended # {}
                               \/ \E e \in scheduled : e.generation = generation
            \/ /\ turn # NoTurn /\ turn' # NoTurn /\ status' = status
               /\ turn'.live = turn.live /\ UNCHANGED <<turns, crossed>>
         /\ \/ /\ gate'.op = "free" /\ ended' = ended /\ turn' # NoTurn
               /\ turn = NoTurn => turn'.live
            \/ /\ gate'.op = "failing"
               /\ turn' = turn \/ ~turn'.live
               /\ \E x \in Ends : /\ ended' = ended \cup {x}
                                  /\ x.by = "start" /\ x.held = NoControl
<1> DEFINE e == gate.entry
           items == IF e.control = NoControl THEN e.messages
                    ELSE IF e.again THEN <<>> ELSE <<e.control>>
           others == ToSet(e.messages) \ {e.owner}
<1>1. /\ Held("ready") /\ ~closed
      /\ UNCHANGED <<session, mode, provider, epoch, closed, active,
                     pending, emitter, control, seen, generation, scheduled,
                     born, stolen>>
  BY DEF QueuedSend, harness, admission
<1>2. PICK o \in {"started", "late", "steered", "failed", "refused"} :
        /\ o \in {"started", "late"} => turn = NoTurn
        /\ o = "steered" => turn # NoTurn
        /\ Settle(IF o = "steered" THEN others \cup {turn.owner} ELSE others)
        /\ IF o = "refused"
           THEN /\ GiveUp(ToSet(e.messages), ToSet(e.messages))
                /\ UNCHANGED handed
           ELSE handed' = handed \o items /\ UNCHANGED status
        /\ IF o \in {"started", "late"}
           THEN Begin(e.owner, o = "started")
           ELSE /\ turn' = IF o = "steered" THEN [turn EXCEPT !.owner = e.owner]
                           ELSE turn
                /\ UNCHANGED <<turns, crossed>>
        /\ IF o \in {"started", "steered"} THEN gate' = Free /\ UNCHANGED ended
           ELSE QueuedError(e)
  BY DEF QueuedSend
<1>3. /\ e \in Entry /\ EntryFits(e) /\ e.generation = generation
      /\ TypeOK /\ status \in [Messages -> Told] /\ IsInjective(handed)
      /\ settled \in [Messages -> Nat] /\ turn \in Turns
      /\ turns \in Nat /\ crossed \in BOOLEAN
      /\ turn # NoTurn => turn.owner \in Messages
      /\ handed \in Seq(Messages \cup Controls)
      /\ session \in {"chat", "job"}
  BY <1>1, TypeParts
  DEF IInv, Types, GateTypes, Books, GateFits, Carrying, Told, Turns, FateFits
<1>4. /\ items \in Seq(Messages \cup Controls) /\ ToSet(items) = Items(e)
      /\ IsInjective(items) /\ Items(e) \cap ToSet(handed) = {}
  <2>1. /\ e.messages \in Seq(Messages) /\ e.control \in Controls \cup {NoControl}
        /\ IsInjective(e.messages) /\ Items(e) \cap ToSet(handed) = {}
    BY <1>3 DEF Entry, EntryFits
  <2>2. e.messages \in Seq(Messages \cup Controls)
    BY <2>1
  <2>3. e.control # NoControl => <<e.control>> \in Seq(Messages \cup Controls)
    BY <2>1
  <2>4. <<>> \in Seq(Messages \cup Controls)
    OBVIOUS
  <2> QED
    BY <2>1, <2>2, <2>3, <2>4, ElementsOfSmall DEF Items
<1>5. settled' \in [Messages -> Nat]
  BY <1>2, <1>3, SettleType
<1>6. /\ o = "refused" =>
           /\ UNCHANGED handed /\ status' \in [Messages -> Told]
           /\ \A m \in Messages :
                status'[m] = IF m \in ToSet(e.messages) THEN "dropped"
                             ELSE status[m]
      /\ o # "refused" =>
           /\ status' = status /\ handed' \in Seq(Messages \cup Controls)
           /\ ToSet(handed') = ToSet(handed) \cup Items(e)
           /\ IsInjective(handed')
           /\ session = "chat" => handed' = handed \o e.messages
  <2>1. CASE o = "refused"
    <3>1. GiveUp(ToSet(e.messages), ToSet(e.messages)) /\ UNCHANGED handed
      BY <1>2, <2>1
    <3> QED
      BY <1>3, <2>1, <3>1, GiveUpEffect
  <2>2. CASE o # "refused"
    <3>1. handed' = handed \o items /\ UNCHANGED status
      BY <1>2, <2>2
    <3>2. /\ handed \o items \in Seq(Messages \cup Controls)
          /\ ToSet(handed \o items) = ToSet(handed) \cup ToSet(items)
          /\ IsInjective(handed \o items)
      <4>1. handed \o items \in Seq(Messages \cup Controls)
        BY <1>3, <1>4, ConcatProperties
      <4> HIDE DEF items
      <4>2. ToSet(handed) \cap ToSet(items) = {}
        BY <1>4
      <4> QED
        BY <1>3, <1>4, <4>1, <4>2, ElementsOfConcat
    <3>3. session = "chat" => items = e.messages
      BY <1>3 DEF EntryFits
    <3> QED
      BY <1>4, <2>2, <3>1, <3>2, <3>3
  <2> QED
    BY <2>1, <2>2
<1>7. /\ turn' \in Turns /\ (turn' # NoTurn => turn'.owner \in Messages)
      /\ turns' \in Nat /\ crossed' \in BOOLEAN
      /\ o \in {"failed", "refused"} => UNCHANGED <<turn, turns, crossed>>
      /\ o = "steered" =>
           /\ turn' # NoTurn /\ turn'.live = turn.live
           /\ UNCHANGED <<turns, crossed>>
      /\ o \in {"started", "late"} =>
           /\ turn' # NoTurn /\ (turn'.live <=> o = "started")
           /\ crossed' <=> \/ crossed \/ ~active \/ ended # {}
                           \/ \E f \in scheduled : f.generation = generation
  <2>1. CASE o \in {"started", "late"}
    <3>1. Begin(e.owner, o = "started") /\ (o = "started") \in BOOLEAN
      BY <1>2, <2>1
    <3>2. e.owner \in Messages
      BY <1>3 DEF Entry
    <3> QED
      BY <1>3, <2>1, <3>1, <3>2, BeginEffect
  <2>2. CASE o \in {"failed", "refused"}
    BY <1>2, <1>3, <2>2
  <2>3. CASE o = "steered"
    <3>1. /\ turn # NoTurn /\ turn' = [turn EXCEPT !.owner = e.owner]
          /\ UNCHANGED <<turns, crossed>>
      BY <1>2, <2>3
    <3>2. e.owner \in Messages
      BY <1>3 DEF Entry
    <3>3. /\ turn' \in Turns /\ turn'.owner \in Messages
          /\ turn'.live = turn.live
      BY <1>3, <3>1, <3>2 DEF Turns
    <3>4. turn' # NoTurn
      BY <3>3, Numbers DEF NoTurn
    <3> QED
      BY <1>3, <2>3, <3>1, <3>3, <3>4
  <2> QED
    BY <1>2, <2>1, <2>2, <2>3
<1>8. /\ GateTypes'
      /\ o \in {"started", "steered"} => gate'.op = "free" /\ ended' = ended
      /\ o \notin {"started", "steered"} =>
           /\ gate'.op = "failing"
           /\ \E x \in Ends : /\ ended' = ended \cup {x}
                              /\ x.by = "start" /\ x.held = NoControl
  <2>1. CASE o \in {"started", "steered"}
    <3>1. gate' = Free /\ ended' = ended
      BY <1>2, <2>1
    <3> QED
      BY <2>1, <3>1 DEF Free, GateTypes, Held, Carrying
  <2>2. CASE o \notin {"started", "steered"}
    <3>1. QueuedError(e)
      BY <1>2, <2>2
    <3> HIDE DEF e
    <3> QED
      BY <1>3, <1>7, <2>2, <3>1, QueuedErrorEffect
  <2> QED
    BY <2>1, <2>2
<1>9. IsInjective(handed') /\ handed' \in Seq(Messages \cup Controls)
      /\ status' \in [Messages -> Told]
  BY <1>3, <1>6
<1> HIDE DEF items
<1>10. CASE o = "refused"
  BY <1>1, <1>3, <1>5, <1>6, <1>7, <1>8, <1>9, <1>10
<1>11. CASE o \in {"started", "late", "failed"}
  BY <1>1, <1>2, <1>3, <1>5, <1>6, <1>7, <1>8, <1>9, <1>11
<1>12. CASE o = "steered"
  BY <1>1, <1>2, <1>3, <1>5, <1>6, <1>7, <1>8, <1>9, <1>12
<1> QED
  BY <1>2, <1>10, <1>11, <1>12

\* An interruption raises the fence and cancels the queue.
LEMMA FenceEffect ==
  ASSUME TypeOK, InterruptFence
  PROVE  /\ gate.op = "free" /\ gate'.op = "interrupt" /\ GateTypes'
         /\ generation' = generation + 1 /\ generation \in Nat
         /\ pending' = <<>> /\ control' = Idle /\ seen' = {}
         /\ emitter' = None
         /\ status' \in [Messages -> Told] /\ settled' \in [Messages -> Nat]
         /\ \A m \in Messages :
              status'[m] = IF \E i \in 1..Len(pending) :
                                m \in ToSet(pending[i].messages)
                           THEN "cancelled" ELSE status[m]
         /\ UNCHANGED <<session, mode, provider, epoch, closed, active,
                        scheduled, turn, ended, turns, handed, crossed, born,
                        stolen>>
<1> DEFINE M == UNION {ToSet(e.messages) : e \in ToSet(pending)}
<1>1. /\ gate = Free /\ gate' = [op |-> "interrupt"]
      /\ generation' = generation + 1
      /\ pending' = <<>> /\ control' = Idle /\ seen' = {} /\ emitter' = None
      /\ Settle(M) /\ Answer(M, "cancelled")
      /\ UNCHANGED <<session, mode, provider, epoch, closed, active,
                     scheduled, turn, ended, turns, handed, crossed, born,
                     stolen>>
  BY DEF InterruptFence, Cancel, harness, adapter
<1>2. /\ generation \in Nat /\ pending \in Seq(Entry)
      /\ status \in [Messages -> Told] /\ settled \in [Messages -> Nat]
  BY TypeParts DEF Told
<1>3. \A m : m \in M <=> \E i \in 1..Len(pending) : m \in ToSet(pending[i].messages)
  BY <1>2, ElementsOf
<1>4. settled' \in [Messages -> Nat]
  BY <1>1, <1>2, SettleType
<1> HIDE DEF M
<1>5. /\ status' \in [Messages -> Told]
      /\ \A m \in Messages :
           status'[m] = IF m \in M THEN "cancelled" ELSE status[m]
  BY <1>1, <1>2 DEF Answer, Told
<1>6. gate.op = "free" /\ gate'.op = "interrupt" /\ GateTypes'
  BY <1>1 DEF Free, GateTypes, Held, Carrying
<1> QED
  BY <1>1, <1>2, <1>3, <1>4, <1>5, <1>6

\* The rest of an interruption frees the key unless a turn still runs.
LEMMA InterruptEffect ==
  ASSUME TypeOK, InterruptIdle \/ InterruptSignal \/ InterruptReturn
  PROVE  /\ gate.op \in {"interrupt", "stopping"}
         /\ gate'.op \in {"free", "stopping"} /\ GateTypes'
         /\ \/ gate'.op = "free" /\ turn = NoTurn /\ active' = FALSE
            \/ /\ turn # NoTurn /\ active' = active
         /\ UNCHANGED <<session, mode, provider, epoch, closed, pending,
                        emitter, control, seen, generation, scheduled, turn,
                        ended, turns, handed, crossed, status, born, settled,
                        stolen>>
<1>1. /\ UNCHANGED <<session, mode, provider, epoch, closed, pending,
                     emitter, control, seen, generation, scheduled, turn,
                     ended, turns, handed, crossed, status, born, settled,
                     stolen>>
      /\ gate.op \in {"interrupt", "stopping"}
      /\ gate' \in {Free, [op |-> "stopping"]}
  BY DEF InterruptIdle, InterruptSignal, InterruptReturn, Held, harness,
         admission, adapter, senders
<1>2. gate'.op \in {"free", "stopping"} /\ GateTypes'
  BY <1>1 DEF Free, GateTypes, Held, Carrying
<1>3. active \in BOOLEAN
  BY TypeParts
<1>4. \/ gate'.op = "free" /\ turn = NoTurn /\ active' = FALSE
      \/ turn # NoTurn /\ active' = active
  <2>1. CASE InterruptIdle
    BY <2>1 DEF InterruptIdle, Free
  <2>2. CASE InterruptSignal
    BY <2>2 DEF InterruptSignal, admission
  <2>3. CASE InterruptReturn
    <3>1. gate'.op = "free" /\ active' = (active /\ turn # NoTurn)
      BY <2>3 DEF InterruptReturn, Free
    <3>2. CASE turn = NoTurn
      <4>1. active' = FALSE
        BY Zenon, <3>1, <3>2
      <4> QED
        BY <3>1, <3>2, <4>1
    <3>3. CASE turn # NoTurn
      BY <1>3, <3>1, <3>3
    <3> QED
      BY <3>2, <3>3
  <2> QED
    BY <2>1, <2>2, <2>3
<1> QED
  BY <1>1, <1>2, <1>4

\* A control queues up behind the turn.
LEMMA ControlQueueEffect ==
  ASSUME TypeOK, NEW k \in Controls, ControlQueue(k)
  PROVE  /\ Steerable /\ k \notin seen /\ seen' = seen \cup {k}
         /\ emitter \in Messages /\ pending \in Seq(Entry)
         /\ pending' = Append(pending, QueuedControl(k, emitter))
         /\ Len(pending) < MaxPending
         /\ UNCHANGED <<session, mode, provider, epoch, closed, gate, active,
                        emitter, control, generation, scheduled, turn, ended,
                        turns, handed, crossed, status, born, settled, stolen>>
<1>1. /\ Steerable /\ k \notin seen /\ seen' = seen \cup {k}
      /\ pending' = Append(pending, QueuedControl(k, emitter))
      /\ Len(pending) < MaxPending
      /\ UNCHANGED <<session, mode, provider, epoch, closed, gate, active,
                     emitter, control, generation, scheduled, turn, ended,
                     turns, handed, crossed, status, born, settled, stolen>>
  BY DEF ControlQueue, harness, adapter, senders
<1>2. emitter \in Messages /\ pending \in Seq(Entry)
  BY <1>1, TypeParts DEF Steerable
<1> QED
  BY <1>1, <1>2

\* A native control is recorded and takes the gate.
LEMMA ControlProposeEffect ==
  ASSUME TypeOK, NEW k \in Controls, ControlPropose(k)
  PROVE  /\ Steerable /\ k \notin seen /\ seen' = seen \cup {k}
         /\ control' \in Selection /\ control'.id = k
         /\ gate'.op = "control" /\ gate'.id = k /\ gate'.previous = control
         /\ gate'.generation = generation /\ gate'.epoch = epoch /\ GateTypes'
         /\ UNCHANGED <<session, mode, provider, epoch, closed, active,
                        pending, emitter, generation, scheduled, turn, ended,
                        turns, handed, crossed, status, born, settled, stolen>>
<1>1. /\ Steerable /\ k \notin seen /\ seen' = seen \cup {k}
      /\ control' = [id |-> k, again |-> FALSE]
      /\ gate' = [op |-> "control", id |-> k, previous |-> control,
                  generation |-> generation, epoch |-> epoch]
      /\ UNCHANGED <<session, mode, provider, epoch, closed, active,
                     pending, emitter, generation, scheduled, turn, ended,
                     turns, handed, crossed, status, born, settled, stolen>>
  BY DEF ControlPropose, harness, adapter, senders
<1>2. control \in Selection /\ generation \in Nat /\ epoch \in Nat
  BY TypeParts
<1>3. control' \in Selection /\ control'.id = k
  BY <1>1 DEF Selection
<1>4. /\ gate'.op = "control" /\ gate'.id = k /\ gate'.previous = control
      /\ gate'.generation = generation /\ gate'.epoch = epoch
  BY <1>1
<1>5. GateTypes'
  BY <1>2, <1>4 DEF GateTypes, Held, Carrying
<1> QED
  BY <1>1, <1>3, <1>4, <1>5

\* A native control reaches the turn, is refused, or finds the job ended.
LEMMA ControlDeliverEffect ==
  ASSUME Types, ControlDeliver
  PROVE  /\ Held("control") /\ gate.id \in Controls /\ gate.previous \in Selection
         /\ gate'.op = "free" /\ GateTypes'
         /\ control' \in Selection
         /\ \/ control' = control
            \/ control.id = gate.id /\ control' = gate.previous
         /\ seen' \subseteq Controls
         /\ \/ /\ active /\ generation = gate.generation /\ turn # NoTurn
               /\ handed' = Append(handed, gate.id) /\ seen' = seen
            \/ /\ handed' = handed
               /\ seen' = seen \ {gate.id} \/ seen' = seen
         /\ UNCHANGED <<session, mode, provider, epoch, closed, active,
                        pending, emitter, generation, scheduled, turn, ended,
                        turns, crossed, status, born, settled, stolen>>
<1>1. /\ Held("control") /\ gate' = Free
      /\ UNCHANGED <<session, mode, provider, epoch, closed, active,
                     pending, emitter, generation, scheduled, turn, ended,
                     turns, crossed, status, born, settled, stolen>>
      /\ \/ /\ active /\ generation = gate.generation /\ turn # NoTurn
            /\ handed' = Append(handed, gate.id) /\ seen' = seen
            /\ control' \in {control, Restored}
         \/ control' = Restored /\ seen' = seen \ {gate.id} /\ handed' = handed
         \/ UNCHANGED <<control, seen, handed>>
  BY DEF ControlDeliver, harness, senders
<1>2. /\ gate.id \in Controls /\ gate.previous \in Selection
      /\ control \in Selection /\ seen \subseteq Controls
  BY <1>1, TypeParts DEF Types, GateTypes
<1>3. Restored = IF control.id = gate.id THEN gate.previous ELSE control
  BY DEF Restored
<1>4. gate'.op = "free" /\ GateTypes'
  BY <1>1 DEF Free, GateTypes, Held, Carrying
<1> QED
  BY <1>1, <1>2, <1>3, <1>4

\* What happens to the harness as a whole leaves the key alone, but for the turn
\* that the replacement of the provider ends.
LEMMA HarnessEffect ==
  ASSUME Types, Reconfigure \/ Close \/ Replace \/ Recover
  PROVE  /\ mode' \in {"queue", "steer"} /\ epoch' \in Nat /\ closed' \in BOOLEAN
         /\ provider' \in {"up", "detached", "closing", "busy", "down"}
         /\ closed => closed'
         /\ turn' \in {turn, NoTurn}
         /\ \/ turn' = turn /\ ended' = ended
            \/ /\ turn # NoTurn /\ turn' = NoTurn
               /\ \E x \in Ends : /\ ended' = ended \cup {x}
                                  /\ x.by = "provider" /\ x.held = NoControl
         /\ \/ Reconfigure \/ Close \/ Replace
            \/ Recover
         /\ GateTypes'
         /\ UNCHANGED <<session, gate, active, pending, emitter, control, seen,
                        generation, scheduled, turns, handed, crossed, status,
                        born, settled, stolen>>
<1>1. /\ mode \in {"queue", "steer"} /\ epoch \in Nat /\ closed \in BOOLEAN
      /\ provider \in {"up", "detached", "closing", "busy", "down"}
      /\ turn # NoTurn => turn.owner \in Messages /\ turn.number \in Nat
      /\ GateTypes
  BY TypeParts DEF Types
<1>2. UNCHANGED <<session, gate, active, pending, emitter, control, seen,
                  generation, scheduled, turns, handed, crossed, status,
                  born, settled, stolen>>
  BY DEF Reconfigure, Close, Replace, Recover, admission, adapter, senders
<1>3. GateTypes'
  BY <1>1, <1>2 DEF GateTypes, Held, Carrying
<1>4. CASE Reconfigure \/ Close \/ Recover
  <2>1. turn' = turn /\ ended' = ended
    BY <1>4 DEF Reconfigure, Close, Recover, adapter
  <2>2. /\ mode' \in {"queue", "steer"} /\ epoch' \in Nat
        /\ closed' \in BOOLEAN /\ (closed => closed')
        /\ provider' \in {"up", "detached", "closing", "busy", "down"}
    <3>1. CASE Reconfigure
      BY <1>1, <3>1 DEF Reconfigure
    <3>2. CASE Close
      BY <1>1, <3>2 DEF Close
    <3>3. CASE Recover
      <4>1. /\ mode' = mode /\ epoch' = epoch + 1 /\ closed' = closed
            /\ provider' = "up"
        BY <3>3 DEF Recover
      <4> QED
        BY <1>1, <4>1
    <3> QED
      BY <1>4, <3>1, <3>2, <3>3
  <2> QED
    BY <1>2, <1>3, <1>4, <2>1, <2>2
<1>5. CASE Replace
  <2>1. /\ mode' \in {"queue", "steer"} /\ epoch' \in Nat /\ closed' = closed
        /\ provider' \in {"up", "detached", "closing", "busy", "down"}
    BY <1>1, <1>5 DEF Replace
  <2>2. /\ turn' = NoTurn
        /\ ended' = ended \cup (IF turn = NoTurn THEN {}
                          ELSE {Ended(turn.owner, turn.number, "provider")})
    BY <1>5 DEF Replace
  <2>3. CASE turn = NoTurn
    BY <1>1, <1>2, <1>3, <1>5, <2>1, <2>2, <2>3
  <2>4. CASE turn # NoTurn
    <3> DEFINE x == Ended(turn.owner, turn.number, "provider")
    <3>1. x \in Ends /\ x.by = "provider" /\ x.held = NoControl
      BY <1>1, <2>4 DEF Ended, Ends
    <3>2. ended' = ended \cup {x}
      BY <2>2, <2>4
    <3> HIDE DEF x
    <3> QED
      BY <1>1, <1>2, <1>3, <1>5, <2>1, <2>2, <2>4, <3>1, <3>2
  <2> QED
    BY <2>3, <2>4
<1> QED
  BY <1>4, <1>5

-----------------------------------------------------------------------------
(* What a step may leave to the parts of the invariant. *)

\* The types of the next state, one by one.
LEMMA TypesFrom ==
  ASSUME session' \in {"chat", "job"}, mode' \in {"queue", "steer"},
         provider' \in {"up", "detached", "closing", "busy", "down"},
         epoch' \in Nat, generation' \in Nat, turns' \in Nat,
         closed' \in BOOLEAN, active' \in BOOLEAN, crossed' \in BOOLEAN,
         gate'.op \in {"free", "send", "steering", "queued", "ready",
                       "failing", "interrupt", "stopping", "control"},
         pending' \in Seq(Entry),
         session' = "job" => Len(pending') <= MaxPending,
         scheduled' \subseteq Entry, emitter' \in Messages \cup {None},
         control' \in Selection, seen' \subseteq Controls, turn' \in Turns,
         ended' \subseteq Ends, status' \in [Messages -> Told],
         born' \in [Messages -> Nat], stolen' \subseteq Messages,
         settled' \in [Messages -> Nat],
         handed' \in Seq(Messages \cup Controls),
         GateTypes', turn' # NoTurn => turn'.owner \in Messages
  PROVE  Types'
<1>1. TypeOK'
  BY DEF TypeOK, Selection, Turns, Ends, Told
<1> QED
  BY <1>1 DEF Types, NoTurn, None

\* Where a message is that waits in the queue or in a scheduled entry: nowhere
\* else.
LEMMA Elsewhere ==
  ASSUME Types, Books
  PROVE  /\ \A e \in scheduled : \A m \in ToSet(e.messages) :
              /\ m \in Messages /\ status[m] = "accepted" /\ m \notin GateItems
              /\ m \notin ToSet(handed) /\ born[m] = e.generation
              /\ e.control = NoControl /\ m \in Items(e)
         /\ \A e, f \in scheduled :
              e # f => ToSet(e.messages) \cap ToSet(f.messages) = {}
         /\ session = "chat" => \A i \in 1..Len(pending) :
              /\ Items(pending[i]) = {pending[i].owner}
              /\ pending[i].messages = <<pending[i].owner>>
              /\ pending[i].owner \in Messages
              /\ status[pending[i].owner] = "accepted"
              /\ born[pending[i].owner] = generation
              /\ pending[i].owner \notin GateItems
              /\ pending[i].owner \notin ToSet(handed)
              /\ \A e \in scheduled : pending[i].owner \notin ToSet(e.messages)
              /\ \A j \in 1..Len(pending) :
                   i # j => pending[i].owner # pending[j].owner
<1>1. scheduled \subseteq Entry /\ pending \in Seq(Entry)
  BY TypeParts DEF Types
<1>2. \A e \in scheduled : \A m \in ToSet(e.messages) :
        e.control = NoControl /\ m \in Items(e) /\ m \in Messages
  <2> SUFFICES ASSUME NEW e \in scheduled, NEW m \in ToSet(e.messages)
               PROVE  e.control = NoControl /\ m \in Items(e) /\ m \in Messages
    OBVIOUS
  <2>1. e.control = NoControl
    BY ElementsOfSmall DEF Books, ScheduledFits, EntryFits
  <2>2. e.messages \in Seq(Messages)
    BY <1>1 DEF Entry
  <2> QED
    BY <2>1, <2>2, ElementsOf DEF Items
<1>3. \A e \in scheduled : \A m \in ToSet(e.messages) :
        /\ status[m] = "accepted" /\ m \notin GateItems
        /\ m \notin ToSet(handed) /\ born[m] = e.generation
  BY <1>2 DEF Books, ScheduledFits, EntryFits, Fresh, Apart
<1>4. \A e, f \in scheduled :
        e # f => ToSet(e.messages) \cap ToSet(f.messages) = {}
  BY <1>2 DEF Books, ScheduledFits
<1>5. ASSUME session = "chat", NEW i \in 1..Len(pending)
      PROVE  /\ Items(pending[i]) = {pending[i].owner}
             /\ pending[i].messages = <<pending[i].owner>>
             /\ pending[i].owner \in Messages
             /\ status[pending[i].owner] = "accepted"
             /\ born[pending[i].owner] = generation
             /\ pending[i].owner \notin GateItems
             /\ pending[i].owner \notin ToSet(handed)
             /\ \A e \in scheduled : pending[i].owner \notin ToSet(e.messages)
  <2>1. /\ pending[i].control = NoControl
        /\ pending[i].messages = <<pending[i].owner>>
        /\ Fresh(pending[i].owner) /\ born[pending[i].owner] = generation
    BY <1>5 DEF Books, QueueFits, QueuedFits
  <2>2. pending[i].owner \in Messages
    <3>1. pending[i] \in Entry
      BY <1>1
    <3> QED
      BY <3>1 DEF Entry
  <2>3. Items(pending[i]) = {pending[i].owner}
    BY <2>1, ElementsOfSmall DEF Items
  <2>4. pending[i].owner \notin GateItems
    BY <2>3 DEF Books, Apart
  <2>5. \A e \in scheduled : pending[i].owner \notin ToSet(e.messages)
    <3> SUFFICES ASSUME NEW e \in scheduled
                 PROVE  pending[i].owner \notin ToSet(e.messages)
      OBVIOUS
    <3>1. Items(e) \cap Items(pending[i]) = {}
      BY <1>5 DEF Books, ScheduledFits
    <3>2. pending[i].owner \notin Items(e)
      BY <2>3, <3>1
    <3> QED
      BY <1>2, <3>2
  <2> QED
    BY <2>1, <2>2, <2>3, <2>4, <2>5 DEF Fresh
<1>6. ASSUME session = "chat", NEW i \in 1..Len(pending)
      PROVE  \A j \in 1..Len(pending) :
               i # j => pending[i].owner # pending[j].owner
  <2>1. \A j \in 1..Len(pending) : Items(pending[j]) = {pending[j].owner}
    BY <1>5, <1>6
  <2> QED
    BY <2>1 DEF Books, QueueFits
<1> QED
  BY <1>2, <1>3, <1>4, <1>5, <1>6

\* Entries that stay where they are stay well formed, whatever the holder of the
\* gate hands over.
LEMMA BooksShrink ==
  ASSUME Types, Books,
         scheduled' \subseteq scheduled, pending' \in {pending, <<>>},
         ToSet(handed') \subseteq ToSet(handed) \cup GateItems,
         session' = session,
         generation' \in Nat, generation' >= generation,
         generation' = generation \/ pending' = <<>>,
         \A e \in scheduled' : \A m \in ToSet(e.messages) :
           status'[m] = "accepted" /\ born'[m] = born[m],
         session = "chat" /\ pending' # <<>> => \A i \in 1..Len(pending) :
           /\ status'[pending[i].owner] = "accepted"
           /\ born'[pending[i].owner] = born[pending[i].owner]
  PROVE  /\ QueueFits' /\ ScheduledFits'
         /\ GateItems' \subseteq GateItems => Apart'
<1>1. scheduled \subseteq Entry /\ pending \in Seq(Entry) /\ generation \in Nat
  BY TypeParts DEF Types
<1>2. /\ \A i \in 1..Len(pending') : /\ i \in 1..Len(pending)
                                     /\ pending'[i] = pending[i]
                                     /\ pending' # <<>>
                                     /\ generation' = generation
  OBVIOUS
<1>3. \A e \in scheduled' : EntryFits(e)'
  <2> SUFFICES ASSUME NEW e \in scheduled' PROVE EntryFits(e)'
    OBVIOUS
  <2>1. /\ e \in scheduled /\ EntryFits(e) /\ e \in Entry
        /\ Items(e) \cap GateItems = {}
        /\ \A m \in ToSet(e.messages) : m \notin GateItems
    BY <1>1, Elsewhere DEF Books, ScheduledFits, Apart
  <2>2. e.generation <= generation' /\ e.generation \in Nat
    BY <1>1, <2>1 DEF EntryFits, Entry
  <2>3. Items(e) \cap ToSet(handed') = {}
    BY <2>1 DEF EntryFits
  <2>4. \A m \in ToSet(e.messages) : m \notin ToSet(handed')
    BY <2>1 DEF EntryFits, Fresh
  <2> QED
    BY <2>1, <2>2, <2>3, <2>4 DEF EntryFits, Fresh
<1>4. \A i \in 1..Len(pending') : QueuedFits(pending[i])'
  <2> SUFFICES ASSUME NEW i \in 1..Len(pending') PROVE QueuedFits(pending[i])'
    OBVIOUS
  <2>1. /\ i \in 1..Len(pending) /\ QueuedFits(pending[i])
        /\ pending'[i] = pending[i] /\ generation' = generation
        /\ Items(pending[i]) \cap GateItems = {}
        /\ session = "chat" => /\ pending[i].owner \notin GateItems
                               /\ status'[pending[i].owner] = "accepted"
                               /\ born'[pending[i].owner]
                                    = born[pending[i].owner]
    BY <1>2, Elsewhere DEF Books, QueueFits, Apart
  <2>2. Items(pending[i]) \cap ToSet(handed') = {}
    BY <2>1 DEF QueuedFits
  <2>3. session = "chat" => pending[i].owner \notin ToSet(handed')
    BY <2>1 DEF QueuedFits, Fresh
  <2> QED
    BY <2>1, <2>2, <2>3 DEF QueuedFits, Fresh
<1>5. QueueFits'
  BY <1>2, <1>4 DEF Books, QueueFits
<1>6. ScheduledFits'
  BY <1>2, <1>3 DEF Books, ScheduledFits
<1>7. GateItems' \subseteq GateItems => Apart'
  BY <1>2 DEF Books, Apart
<1> QED
  BY <1>5, <1>6, <1>7

\* A gate that nobody holds, or whose holder has nothing to hand over.
LEMMA QuietGate ==
  ASSUME gate'.op \in {"free", "failing", "interrupt", "stopping"}
  PROVE  GateFits' /\ GateItems' = {}
  BY DEF GateFits, GateItems, Held, Carrying

\* The holder of the gate stays where it is while others step.
LEMMA SameGate ==
  ASSUME GateFits, gate' = gate, handed' = handed, born' = born,
         generation' = generation, session' = session, status' = status,
         turn' \in {turn, NoTurn}
  PROVE  GateFits' /\ GateItems' = GateItems
<1>1. GateItems' = GateItems
  BY DEF GateItems, Held, Carrying, Items
<1>2. \A e : EntryFits(e)' <=> EntryFits(e)
  BY DEF EntryFits, Fresh, Items
<1>3. Carrying' <=> Carrying
  BY DEF Carrying, Held
<1>4. Carrying => EntryFits(gate.entry)'
  BY <1>2 DEF GateFits
<1> QED
  BY <1>1, <1>3, <1>4 DEF GateFits, Held, Fresh

\* What becomes of messages: given up, if nothing was handed over; in doubt, if
\* it was.
LEMMA FateStep ==
  ASSUME Types, FateFits,
         generation' \in Nat, generation' >= generation, born' = born,
         ToSet(handed) \subseteq ToSet(handed'), IsInjective(handed'),
         \A m \in Messages :
           m \in ToSet(handed') \ ToSet(handed) => status[m] = "accepted",
         \A m \in Messages :
           \/ status'[m] = status[m]
           \/ /\ status[m] = "accepted"
              /\ status'[m] \in {"refused", "cancelled", "dropped", "lost"}
              /\ m \notin ToSet(handed')
           \/ /\ status[m] = "accepted" /\ status'[m] = "unconfirmed"
              /\ m \in ToSet(handed')
  PROVE  FateFits'
<1>1. generation \in Nat /\ born \in [Messages -> Nat] /\ Messages \subseteq Nat
  BY TypeParts, Numbers DEF Types
<1>2. \A m \in Messages : born'[m] <= generation'
  <2>1. \A m \in Messages : born[m] \in Nat /\ born[m] <= generation
    BY <1>1 DEF FateFits
  <2> QED
    BY <1>1, <2>1
<1>3. \A m \in Messages :
        /\ m \in ToSet(handed') => status'[m] \in {"accepted", "unconfirmed"}
        /\ status'[m] = "unconfirmed" => m \in ToSet(handed')
        /\ status'[m] = "new" <=> status[m] = "new"
  BY DEF FateFits
<1> QED
  BY <1>2, <1>3 DEF FateFits

\* The types of the current state, one by one.
LEMMA Typed ==
  ASSUME Types
  PROVE  /\ session \in {"chat", "job"} /\ mode \in {"queue", "steer"}
         /\ provider \in {"up", "detached", "closing", "busy", "down"}
         /\ epoch \in Nat /\ generation \in Nat /\ turns \in Nat
         /\ closed \in BOOLEAN /\ active \in BOOLEAN /\ crossed \in BOOLEAN
         /\ gate.op \in {"free", "send", "steering", "queued", "ready",
                         "failing", "interrupt", "stopping", "control"}
         /\ pending \in Seq(Entry)
         /\ session = "job" => Len(pending) <= MaxPending
         /\ scheduled \subseteq Entry /\ emitter \in Messages \cup {None}
         /\ control \in Selection /\ seen \subseteq Controls /\ turn \in Turns
         /\ ended \subseteq Ends /\ status \in [Messages -> Told]
         /\ born \in [Messages -> Nat] /\ stolen \subseteq Messages
         /\ settled \in [Messages -> Nat]
         /\ handed \in Seq(Messages \cup Controls)
         /\ GateTypes /\ (turn # NoTurn => turn.owner \in Messages)
  BY TypeParts DEF Types, Told, Turns, Ends

\* An emptied queue, no control and no emitter are well typed.
LEMMA EmptyTyped ==
  /\ <<>> \in Seq(Entry) /\ Len(<<>>) = 0 /\ 0 <= MaxPending
  /\ Idle \in Selection /\ Idle.id = NoControl
  /\ None \in Messages \cup {None} /\ {} \subseteq Controls
  /\ NoTurn \in Turns /\ NoTurn.live = FALSE
<1>1. MaxPending \in Nat
  BY Numbers
<1> QED
  BY <1>1 DEF Idle, Selection, NoTurn, Turns, None

\* What an entry carries is messages or controls, never both.
LEMMA ItemsApart ==
  ASSUME NEW e \in Entry
  PROVE  /\ e.control = NoControl => Items(e) = ToSet(e.messages)
         /\ e.control # NoControl => Items(e) \subseteq Controls
         /\ ToSet(e.messages) \subseteq Messages
  BY ElementsOf DEF Items, Entry

\* A new message is nowhere yet.
LEMMA NewIsNowhere ==
  ASSUME Types, Books, NEW m \in Messages, status[m] = "new"
  PROVE  /\ m \notin ToSet(handed)
         /\ \A e \in scheduled : m \notin Items(e) /\ m \notin ToSet(e.messages)
         /\ \A i \in 1..Len(pending) :
              /\ m \notin Items(pending[i])
              /\ session = "chat" => m # pending[i].owner
<1>1. scheduled \subseteq Entry /\ pending \in Seq(Entry)
  BY Typed
<1>2. m \notin ToSet(handed)
  BY DEF Books, FateFits
<1>3. \A e \in scheduled : m \notin ToSet(e.messages)
  BY Elsewhere
<1>4. \A e \in scheduled : m \notin Items(e)
  BY <1>1, <1>3, ItemsApart, Numbers
<1>5. \A i \in 1..Len(pending) :
        /\ m \notin Items(pending[i])
        /\ session = "chat" => m # pending[i].owner
  <2> SUFFICES ASSUME NEW i \in 1..Len(pending)
               PROVE  /\ m \notin Items(pending[i])
                      /\ session = "chat" => m # pending[i].owner
    OBVIOUS
  <2>1. CASE session = "chat"
    BY <2>1, Elsewhere
  <2>2. CASE session # "chat"
    <3>1. QueuedFits(pending[i]) /\ pending[i] \in Entry
      BY <1>1 DEF Books, QueueFits
    <3>2. Items(pending[i]) \subseteq Controls
      BY <2>2, <3>1, ItemsApart DEF QueuedFits
    <3> QED
      BY <2>2, <3>2, Numbers
  <2> QED
    BY <2>1, <2>2
<1> QED
  BY <1>2, <1>3, <1>4, <1>5

\* An entry joins the queue of a key whose gate is free.
LEMMA QueueGrows ==
  ASSUME Types, Books, NEW n \in Entry, pending' = Append(pending, n),
         gate.op = "free", gate' = gate,
         UNCHANGED <<scheduled, handed, generation, session>>,
         \A e \in scheduled : \A m \in ToSet(e.messages) :
           status'[m] = "accepted" /\ born'[m] = born[m],
         session = "chat" => \A i \in 1..Len(pending) :
           /\ status'[pending[i].owner] = "accepted"
           /\ born'[pending[i].owner] = born[pending[i].owner],
         QueuedFits(n)',
         \A e \in scheduled : Items(n) \cap Items(e) = {},
         \A i \in 1..Len(pending) : Items(n) \cap Items(pending[i]) = {}
  PROVE  QueueFits' /\ ScheduledFits' /\ Apart'
<1>1. /\ pending \in Seq(Entry) /\ Len(pending) \in Nat
      /\ Len(pending') = Len(pending) + 1 /\ pending'[Len(pending) + 1] = n
      /\ \A i \in 1..Len(pending) : pending'[i] = pending[i]
  BY Typed, AppendProperties
<1>2. \A i \in 1..Len(pending') :
        \/ i \in 1..Len(pending) /\ pending'[i] = pending[i]
        \/ i = Len(pending) + 1 /\ pending'[i] = n
  BY <1>1
<1>3. \A i \in 1..Len(pending) : QueuedFits(pending[i])'
  <2> SUFFICES ASSUME NEW i \in 1..Len(pending) PROVE QueuedFits(pending[i])'
    OBVIOUS
  <2>1. QueuedFits(pending[i]) /\ pending'[i] = pending[i]
    BY <1>1 DEF Books, QueueFits
  <2> QED
    BY <2>1 DEF QueuedFits, Fresh
<1>4. \A i \in 1..Len(pending') : QueuedFits(pending[i])'
  <2> SUFFICES ASSUME NEW i \in 1..Len(pending') PROVE QueuedFits(pending[i])'
    OBVIOUS
  <2>1. CASE i \in 1..Len(pending)
    BY <1>3, <2>1
  <2>2. CASE i = Len(pending) + 1 /\ pending'[i] = n
    BY <2>2 DEF QueuedFits, Fresh
  <2> QED
    BY <1>2, <2>1, <2>2
<1>5. QueueFits'
  <2>1. \A i, j \in 1..Len(pending) :
          i # j => Items(pending[i]) \cap Items(pending[j]) = {}
    BY DEF Books, QueueFits
  <2>2. \A i, j \in 1..Len(pending') :
          i # j => Items(pending'[i]) \cap Items(pending'[j]) = {}
    <3> SUFFICES ASSUME NEW i \in 1..Len(pending'), NEW j \in 1..Len(pending'),
                        i # j
                 PROVE  Items(pending'[i]) \cap Items(pending'[j]) = {}
      OBVIOUS
    <3>1. CASE /\ i \in 1..Len(pending) /\ pending'[i] = pending[i]
               /\ j \in 1..Len(pending) /\ pending'[j] = pending[j]
      BY <2>1, <3>1
    <3>2. CASE /\ i \in 1..Len(pending) /\ pending'[i] = pending[i]
               /\ pending'[j] = n
      BY <3>2
    <3>3. CASE /\ pending'[i] = n
               /\ j \in 1..Len(pending) /\ pending'[j] = pending[j]
      BY <3>3
    <3> QED
      BY <1>2, <3>1, <3>2, <3>3
  <2> QED
    BY <1>4, <2>2 DEF QueueFits
<1>6. ScheduledFits'
  <2>1. \A e \in scheduled : EntryFits(e)'
    <3> SUFFICES ASSUME NEW e \in scheduled PROVE EntryFits(e)'
      OBVIOUS
    <3>1. EntryFits(e)
      BY DEF Books, ScheduledFits
    <3> QED
      BY <3>1 DEF EntryFits, Fresh
  <2>2. \A e \in scheduled : \A i \in 1..Len(pending') :
          Items(e) \cap Items(pending'[i]) = {}
    BY <1>2 DEF Books, ScheduledFits
  <2> QED
    BY <2>1, <2>2 DEF Books, ScheduledFits
<1>7. Apart'
  <2>1. GateItems' = {}
    BY QuietGate
  <2> QED
    BY <2>1 DEF Apart
<1> QED
  BY <1>5, <1>6, <1>7

-----------------------------------------------------------------------------
(* Every action keeps the invariant. *)

\* A send is admitted.
LEMMA SendAdmitKeeps ==
  ASSUME IInv, NEW m \in Messages, NEW strict \in BOOLEAN, SendAdmit(m, strict)
  PROVE  IInv'
<1>0. Types /\ Books /\ TypeOK /\ GateTypes
  BY DEF IInv, Types
<1>1. /\ gate.op = "free" /\ status[m] = "new"
      /\ \A n \in Messages : n < m => status[n] # "new"
      /\ session = "job" => m = 1
      /\ born' \in [Messages -> Nat] /\ born'[m] = generation
      /\ \A n \in Messages : n # m => born'[n] = born[n]
      /\ status' \in [Messages -> Told]
      /\ \A n \in Messages : n # m => status'[n] = status[n]
      /\ UNCHANGED <<session, mode, provider, epoch, closed, control, seen,
                     generation, scheduled, turn, ended, turns, handed,
                     crossed, settled, stolen>>
  BY <1>0, SendAdmitFrame DEF Told
<1>2. \/ /\ status'[m] = "turned away"
         /\ UNCHANGED <<gate, active, pending, emitter>>
      \/ /\ status'[m] = "accepted" /\ provider = "up"
         /\ \/ turn = NoTurn /\ active
            \/ turn # NoTurn /\ mode = "queue"
         /\ pending' = Append(pending, Queued(m))
         /\ UNCHANGED <<gate, active, emitter>>
      \/ /\ status'[m] = "accepted" /\ provider = "up"
         /\ \/ turn = NoTurn /\ ~active /\ active' = TRUE
            \/ turn # NoTurn /\ mode = "steer" /\ active' = active
         /\ emitter' = m /\ gate'.op = "send"
         /\ gate'.message = m /\ gate'.strict = strict
         /\ gate'.was = (turn # NoTurn) /\ gate'.was \in BOOLEAN
         /\ gate'.previous = emitter
         /\ gate'.epoch = epoch
         /\ UNCHANGED pending
  BY <1>0, SendAdmitFrame, SendAdmitOutcome
<1>3. /\ m \notin ToSet(handed)
      /\ \A e \in scheduled : m \notin Items(e) /\ m \notin ToSet(e.messages)
      /\ \A i \in 1..Len(pending) :
           m \notin Items(pending[i]) /\ (session = "chat" => m # pending[i].owner)
  BY <1>0, <1>1, NewIsNowhere
<1>4. /\ \A e \in scheduled : \A n \in ToSet(e.messages) :
           status'[n] = "accepted" /\ born'[n] = born[n]
      /\ session = "chat" => \A i \in 1..Len(pending) :
           /\ status'[pending[i].owner] = "accepted"
           /\ born'[pending[i].owner] = born[pending[i].owner]
  BY <1>0, <1>1, <1>3, Elsewhere
<1>5. session = "job" =>
        /\ m = 1 /\ turn = NoTurn /\ ~active /\ ended = {} /\ scheduled = {}
        /\ pending = <<>> /\ control.id = NoControl /\ handed = <<>>
  BY <1>1 DEF IInv, JobFits
<1>6. FateFits'
  <2>1. \A n \in Messages : n \in Nat
    BY Numbers
  <2>2. \A a, b \in Messages :
          status'[a] = "new" /\ status'[b] # "new" => b < a
    <3> SUFFICES ASSUME NEW a \in Messages, NEW b \in Messages,
                        status'[a] = "new", status'[b] # "new"
                 PROVE  b < a
      OBVIOUS
    <3>1. a # m /\ status[a] = "new"
      BY <1>1, <1>2
    <3>2. CASE b = m
      <4>1. ~(a < m)
        BY <1>1, <3>1
      <4> QED
        BY <2>1, <3>1, <3>2, <4>1
    <3>3. CASE b # m
      BY <1>0, <1>1, <3>1, <3>3 DEF Books, FateFits
    <3> QED
      BY <3>2, <3>3
  <2>3. generation \in Nat /\ m \in Nat
    BY <1>0, <2>1, Typed
  <2>4. \A n \in Messages : born'[n] <= generation
    BY <1>0, <1>1, <2>3 DEF Books, FateFits
  <2>5. \A n \in Messages :
          /\ n \in ToSet(handed) => status'[n] \in {"accepted", "unconfirmed"}
          /\ status'[n] = "unconfirmed" => n \in ToSet(handed)
    BY <1>0, <1>1, <1>2, <1>3 DEF Books, FateFits
  <2> QED
    BY <1>0, <1>1, <2>2, <2>4, <2>5 DEF Books, FateFits
<1>7. CASE /\ status'[m] = "turned away"
           /\ UNCHANGED <<gate, active, pending, emitter>>
  <2>1. Types'
    <3>1. GateTypes'
      BY <1>0, <1>7 DEF GateTypes, Held, Carrying
    <3> QED
      BY <1>0, <1>1, <1>7, <3>1, Typed, TypesFrom
  <2>2. QueueFits' /\ ScheduledFits' /\ Apart' /\ GateFits'
    <3>1. GateFits' /\ GateItems' = {}
      BY <1>1, <1>7, QuietGate
    <3>2. generation \in Nat /\ generation <= generation
      BY <1>0, Typed
    <3> QED
      BY <1>0, <1>1, <1>4, <1>7, <3>1, <3>2, BooksShrink
  <2>3. ChatFits'
    BY <1>1, <1>7 DEF IInv, ChatFits, Held
  <2>4. JobFits'
    <3>1. \A k : Remembered(k)' <=> Remembered(k)
      BY <1>1, <1>7 DEF Remembered, GateItems, Held, Carrying, Items
    <3> QED
      BY <1>1, <1>7, <3>1 DEF IInv, JobFits, Held
  <2>5. SwapFits'
    BY <1>1, <1>7 DEF IInv, SwapFits, Held, Carrying
  <2> QED
    BY <1>6, <2>1, <2>2, <2>3, <2>4, <2>5 DEF IInv, Books
<1>8. CASE /\ status'[m] = "accepted" /\ provider = "up"
           /\ \/ turn = NoTurn /\ active
              \/ turn # NoTurn /\ mode = "queue"
           /\ pending' = Append(pending, Queued(m))
           /\ UNCHANGED <<gate, active, emitter>>
  <2>0. session = "chat"
    BY <1>0, <1>5, <1>8, Typed
  <2>1. Types'
    <3>1. GateTypes'
      BY <1>0, <1>8 DEF GateTypes, Held, Carrying
    <3>2. pending' \in Seq(Entry)
      BY <1>0, <1>8, Typed, QueuedTypes, AppendProperties
    <3> QED
      BY <1>0, <1>1, <1>8, <2>0, <3>1, <3>2, Typed, TypesFrom
  <2>2. QueueFits' /\ ScheduledFits' /\ Apart'
    <3>1. /\ Queued(m) \in Entry /\ Queued(m).messages = <<Queued(m).owner>>
          /\ Queued(m).owner = m /\ Queued(m).control = NoControl
          /\ ~Queued(m).again
      BY QueuedTypes
    <3>2. Items(Queued(m)) = {m}
      BY <3>1, ElementsOfSmall DEF Items
    <3> DEFINE n == Queued(m)
    <3> HIDE DEF n
    <3>3. QueuedFits(n)'
      BY <1>1, <1>3, <1>8, <2>0, <3>1, <3>2 DEF QueuedFits, Fresh, n
    <3>4. /\ \A e \in scheduled : Items(n) \cap Items(e) = {}
          /\ \A i \in 1..Len(pending) : Items(n) \cap Items(pending[i]) = {}
          /\ n \in Entry /\ pending' = Append(pending, n)
      BY <1>3, <1>8, <3>1, <3>2 DEF n
    <3> QED
      BY <1>0, <1>1, <1>4, <1>8, <3>3, <3>4, QueueGrows
  <2>3. GateFits'
    BY <1>1, <1>8, QuietGate
  <2>4. ChatFits'
    BY <1>1, <1>8 DEF IInv, ChatFits, Held
  <2>5. JobFits'
    BY <1>1, <2>0 DEF JobFits
  <2>6. SwapFits'
    BY <1>1, <1>8 DEF IInv, SwapFits, Held, Carrying
  <2> QED
    BY <1>6, <2>1, <2>2, <2>3, <2>4, <2>5, <2>6 DEF IInv, Books
<1>9. CASE /\ status'[m] = "accepted" /\ provider = "up"
           /\ \/ turn = NoTurn /\ ~active /\ active' = TRUE
              \/ turn # NoTurn /\ mode = "steer" /\ active' = active
           /\ emitter' = m /\ gate'.op = "send"
           /\ gate'.message = m /\ gate'.strict = strict
           /\ gate'.was = (turn # NoTurn) /\ gate'.was \in BOOLEAN
           /\ gate'.previous = emitter
           /\ gate'.epoch = epoch
           /\ UNCHANGED pending
  <2>1. Types'
    <3>1. GateTypes'
      BY <1>0, <1>9, Typed DEF GateTypes, Held, Carrying
    <3>2. active' \in BOOLEAN
      BY <1>0, <1>9, Typed
    <3> QED
      BY <1>0, <1>1, <1>9, <3>1, <3>2, Typed, TypesFrom
  <2>2. GateItems' = {m} /\ GateItems = {}
    BY <1>1, <1>9 DEF GateItems, Held, Carrying
  <2>3. QueueFits' /\ ScheduledFits'
    <3>1. generation \in Nat /\ generation <= generation
      BY <1>0, Typed
    <3> QED
      BY <1>0, <1>1, <1>4, <1>9, <3>1, BooksShrink
  <2>4. Apart'
    BY <1>1, <1>3, <1>9, <2>2 DEF Apart, Items
  <2>5. GateFits'
    <3>1. \A n \in Messages : status'[n] # "new" => n <= m
      <4>1. \A n \in Messages : n # m /\ status[n] # "new" => n < m
        BY <1>0, <1>1 DEF Books, FateFits
      <4> QED
        BY <1>1, <4>1, Numbers
    <3>2. ~gate'.was => turn' = NoTurn
      BY <1>1, <1>9
    <3> QED
      BY <1>1, <1>3, <1>9, <3>1, <3>2 DEF GateFits, Held, Carrying, Fresh
  <2>6. ChatFits'
    BY <1>1, <1>9 DEF IInv, ChatFits, Held
  <2>7. JobFits'
    <3> SUFFICES ASSUME session = "job" PROVE JobFits'
      BY <1>1 DEF JobFits
    <3>1. \A k \in Controls : ~Remembered(k)'
      BY <1>1, <1>5, <1>9, <2>2, ElementsOfSmall, Numbers DEF Remembered
    <3>2. emitter' # None /\ ~gate'.was
      BY <1>5, <1>9, Numbers
    <3> QED
      BY <1>1, <1>5, <1>9, <3>1, <3>2 DEF IInv, JobFits, Held
  <2>8. SwapFits'
    BY <1>0, <1>1, <1>9, Typed, EmptyTyped DEF IInv, SwapFits, Held, Carrying
  <2> QED
    BY <1>6, <2>1, <2>3, <2>4, <2>5, <2>6, <2>7, <2>8 DEF IInv, Books
<1> QED
  BY <1>2, <1>7, <1>8, <1>9

\* The message of the gate's holder is handed over, and its sender told no
\* refusal.
LEMMA HandedFate ==
  ASSUME Types, Books, Held("send"), gate.message \in Messages,
         handed' = Append(handed, gate.message), UNCHANGED <<generation, born>>,
         \A m \in Messages : m # gate.message => status'[m] = status[m],
         status'[gate.message] \in {"accepted", "unconfirmed"}
  PROVE  /\ FateFits' /\ handed' \in Seq(Messages \cup Controls)
         /\ ToSet(handed') = ToSet(handed) \cup {gate.message}
<1>1. /\ status[gate.message] = "accepted" /\ gate.message \notin ToSet(handed)
      /\ IsInjective(handed)
  BY DEF Books, GateFits, Fresh, FateFits
<1>2. handed \in Seq(Messages \cup Controls) /\ generation \in Nat
  BY Typed
<1>3. /\ handed' \in Seq(Messages \cup Controls)
      /\ ToSet(handed') = ToSet(handed) \cup {gate.message}
      /\ IsInjective(handed')
  BY <1>1, <1>2, HandOne
<1>4. generation' \in Nat /\ generation' >= generation /\ FateFits
  BY <1>2 DEF Books
<1>5. \A m \in Messages :
        m \in ToSet(handed') \ ToSet(handed) => status[m] = "accepted"
  BY <1>1, <1>3
<1>6. \A m \in Messages :
        \/ status'[m] = status[m]
        \/ /\ status[m] = "accepted" /\ status'[m] = "unconfirmed"
           /\ m \in ToSet(handed')
  BY <1>1, <1>3
<1> QED
  BY <1>3, <1>4, <1>5, <1>6, FateStep

\* Steering keeps the invariant.
LEMMA SendSteerKeeps ==
  ASSUME IInv, SendSteer
  PROVE  IInv'
<1>0. Types /\ Books
  BY DEF IInv
<1>1. /\ Held("send") /\ gate.was /\ turn # NoTurn
      /\ gate.message \in Messages
      /\ handed' \in Seq(Messages \cup Controls)
      /\ handed' = Append(handed, gate.message)
      /\ turn' \in Turns /\ turn'.owner \in Messages
      /\ turn'.live = turn.live /\ turn' # NoTurn
      /\ Held("steering")' /\ gate'.message = gate.message
      /\ GateTypes'
      /\ UNCHANGED <<session, mode, provider, epoch, closed, active, pending,
                     emitter, control, seen, generation, scheduled, ended,
                     turns, crossed, status, born, settled, stolen>>
  BY <1>0, SendSteerEffect
<1>2. status[gate.message] = "accepted" /\ GateItems = {gate.message}
  BY <1>0, <1>1 DEF Books, GateFits, Fresh, GateItems
<1>3. /\ FateFits' /\ ToSet(handed') = ToSet(handed) \cup {gate.message}
  BY <1>0, <1>1, <1>2, HandedFate
<1>4. Types'
  <2>1. gate'.op = "steering"
    BY <1>1 DEF Held
  <2> QED
    BY <1>0, <1>1, <2>1, Typed, TypesFrom
<1>5. GateItems' = {}
  BY <1>1 DEF GateItems, Held, Carrying
<1>6. QueueFits' /\ ScheduledFits' /\ Apart'
  <2>1. generation \in Nat /\ generation <= generation
    BY <1>0, Typed
  <2> QED
    BY <1>0, <1>1, <1>2, <1>3, <1>5, <2>1, BooksShrink, Elsewhere
<1>7. GateFits'
  BY <1>1, <1>2, <1>3 DEF GateFits, Held, Carrying
<1>8. ChatFits'
  BY <1>1 DEF IInv, ChatFits, Held
<1>9. JobFits'
  BY <1>1 DEF IInv, JobFits
<1>10. SwapFits'
  BY <1>1 DEF IInv, SwapFits, Held, Carrying
<1> QED
  BY <1>3, <1>4, <1>6, <1>7, <1>8, <1>9, <1>10 DEF IInv, Books

\* The answer to a steered message keeps the invariant.
LEMMA SteerReplyKeeps ==
  ASSUME IInv, SteerReply
  PROVE  IInv'
<1>0. Types /\ Books
  BY DEF IInv
<1>1. /\ Held("steering") /\ gate.message \in Messages
      /\ active' = active /\ emitter' \in Messages \cup {None}
      /\ turn' \in Turns /\ (turn' = NoTurn <=> turn = NoTurn)
      /\ turn' # NoTurn => turn'.owner \in Messages
      /\ turn'.live = turn.live
      /\ settled' \in [Messages -> Nat] /\ stolen' \subseteq Messages
      /\ status' \in [Messages -> Told]
      /\ \A m \in Messages : m # gate.message => status'[m] = status[m]
      /\ \/ UNCHANGED <<status, emitter>>
         \/ status'[gate.message] = "unconfirmed"
      /\ gate'.op = "free" /\ GateTypes'
      /\ UNCHANGED <<session, mode, provider, epoch, closed, pending,
                     control, seen, generation, scheduled, ended, turns,
                     handed, crossed, born>>
  BY <1>0, SteerReplyEffect
<1>2. /\ status[gate.message] = "accepted" /\ gate.message \in ToSet(handed)
      /\ IsInjective(handed) /\ FateFits /\ session = "chat"
      /\ generation \in Nat /\ generation <= generation
  BY <1>0, <1>1, Typed DEF IInv, Books, GateFits, FateFits, JobFits
<1>3. FateFits'
  BY <1>0, <1>1, <1>2, FateStep
<1>4. Types'
  BY <1>0, <1>1, <1>2, Typed, TypesFrom
<1>5. GateFits' /\ GateItems' = {}
  BY <1>1, QuietGate
<1>6. QueueFits' /\ ScheduledFits' /\ Apart'
  BY <1>0, <1>1, <1>2, <1>5, BooksShrink, Elsewhere
<1>7. ChatFits'
  BY <1>1 DEF IInv, ChatFits, Held
<1>8. JobFits'
  BY <1>1, <1>2 DEF JobFits
<1>9. SwapFits'
  BY <1>1 DEF IInv, SwapFits, Held, Carrying
<1> QED
  BY <1>3, <1>4, <1>5, <1>6, <1>7, <1>8, <1>9 DEF IInv, Books

\* The start of a turn by a send keeps the invariant.
LEMMA SendStartKeeps ==
  ASSUME IInv, SendStart
  PROVE  IInv'
<1>0. Types /\ Books
  BY DEF IInv
<1>1. /\ Held("send") /\ gate.message \in Messages /\ turn = NoTurn
      /\ handed' = Append(handed, gate.message)
      /\ handed' \in Seq(Messages \cup Controls)
      /\ gate'.op = "free" /\ GateTypes'
      /\ turn' \in Turns /\ (turn' # NoTurn => turn'.owner \in Messages)
      /\ turns' \in Nat /\ crossed' \in BOOLEAN
      /\ active' \in BOOLEAN /\ emitter' \in Messages \cup {None}
      /\ status' \in [Messages -> Told]
      /\ \A m \in Messages : m # gate.message => status'[m] = status[m]
      /\ UNCHANGED <<session, mode, provider, epoch, closed, pending,
                     control, seen, generation, scheduled, ended, born,
                     settled, stolen>>
  BY <1>0, SendStartEffect
<1>2. /\ \/ turn' = NoTurn /\ crossed' = crossed
         \/ /\ turn' # NoTurn
            /\ crossed' <=> \/ crossed \/ ~active \/ ended # {}
                            \/ \E e \in scheduled : e.generation = generation
      /\ \/ turn'.live /\ UNCHANGED <<active, emitter, status>>
         \/ /\ ~turn'.live /\ status'[gate.message] = "unconfirmed"
            /\ gate.was => active' = active
            /\ ~gate.was => ~active'
  BY <1>0, SendStartEffect
<1>3. status[gate.message] = "accepted" /\ GateItems = {gate.message}
  BY <1>0, <1>1 DEF Books, GateFits, Fresh, GateItems
<1>4. /\ FateFits' /\ ToSet(handed') = ToSet(handed) \cup {gate.message}
  BY <1>0, <1>1, <1>2, <1>3, HandedFate
<1>5. Types'
  BY <1>0, <1>1, Typed, TypesFrom
<1>6. GateFits' /\ GateItems' = {}
  BY <1>1, QuietGate
<1>7. QueueFits' /\ ScheduledFits' /\ Apart'
  <2>1. generation \in Nat /\ generation <= generation
    BY <1>0, Typed
  <2> QED
    BY <1>0, <1>1, <1>3, <1>4, <1>6, <2>1, BooksShrink, Elsewhere
<1>8. ChatFits'
  BY <1>1 DEF IInv, ChatFits, Held
<1>9. JobFits'
  <2> SUFFICES ASSUME session = "job" PROVE JobFits'
    BY <1>1 DEF JobFits
  <2>1. /\ gate.message = 1 /\ ~gate.was /\ ended = {} /\ scheduled = {}
        /\ pending = <<>> /\ control.id = NoControl /\ handed = <<>>
        /\ \A m \in Messages : m # 1 => status[m] = "new"
        /\ generation = 0 /\ active => emitter # None
    BY <1>1 DEF IInv, JobFits
  <2>2. status'[1] # "new" /\ \A m \in Messages : m # 1 => status'[m] = "new"
    BY <1>1, <1>2, <1>3, <2>1
  <2>3. generation = 0 /\ active' => emitter' # None
    BY <1>2, <2>1
  <2>4. \A k \in Controls : ~Remembered(k)'
    BY <1>1, <1>4, <1>6, <2>1, ElementsOfSmall, Numbers DEF Remembered
  <2>5. control'.id = NoControl /\ pending' = <<>> /\ scheduled' = {}
    BY <1>1, <2>1
  <2> QED
    BY <1>1, <2>2, <2>3, <2>4, <2>5 DEF JobFits, Held
<1>10. SwapFits'
  <2>1. /\ closed' => provider' # "up"
        /\ provider' = "detached" /\ ~closed' => ~active'
    BY <1>1, <1>2 DEF IInv, SwapFits, Books, GateFits
  <2>2. ~Carrying'
    BY <1>1 DEF Carrying, Held
  <2>3. ASSUME ~crossed', turn'.live
        PROVE  /\ active' /\ ended' = {}
               /\ \A e \in scheduled' : e.generation # generation'
    BY <1>1, <1>2, <2>3, EmptyTyped
  <2> QED
    BY <2>1, <2>2, <2>3 DEF SwapFits
<1> QED
  BY <1>4, <1>5, <1>6, <1>7, <1>8, <1>9, <1>10 DEF IInv, Books

\* The refusal of a send keeps the invariant.
LEMMA SendRefusedKeeps ==
  ASSUME IInv, SendRefused
  PROVE  IInv'
<1>0. Types /\ Books
  BY DEF IInv
<1>1. /\ Held("send") /\ gate.message \in Messages
      /\ gate'.op = "free" /\ GateTypes'
      /\ active' \in BOOLEAN /\ emitter' \in Messages \cup {None}
      /\ gate.was => active' = active
      /\ ~gate.was => ~active'
      /\ status' \in [Messages -> Told]
      /\ \A m \in Messages : m # gate.message => status'[m] = status[m]
      /\ status'[gate.message] = "refused"
      /\ UNCHANGED <<session, mode, provider, epoch, closed, pending,
                     control, seen, generation, scheduled, turn, ended,
                     turns, handed, crossed, born, settled, stolen>>
  BY <1>0, SendRefusedEffect
<1>2. /\ status[gate.message] = "accepted" /\ gate.message \notin ToSet(handed)
      /\ GateItems = {gate.message} /\ (~gate.was => turn = NoTurn)
      /\ IsInjective(handed) /\ FateFits
      /\ generation \in Nat /\ generation <= generation
  BY <1>0, <1>1, Typed DEF Books, GateFits, Fresh, GateItems, FateFits
<1>3. FateFits'
  BY <1>0, <1>1, <1>2, FateStep
<1>4. Types'
  BY <1>0, <1>1, Typed, TypesFrom
<1>5. GateFits' /\ GateItems' = {}
  BY <1>1, QuietGate
<1>6. QueueFits' /\ ScheduledFits' /\ Apart'
  BY <1>0, <1>1, <1>2, <1>5, BooksShrink, Elsewhere
<1>7. ChatFits'
  BY <1>1 DEF IInv, ChatFits, Held
<1>8. JobFits'
  <2> SUFFICES ASSUME session = "job" PROVE JobFits'
    BY <1>1 DEF JobFits
  <2>1. gate.message = 1 /\ ~active'
    BY <1>1 DEF IInv, JobFits
  <2>2. status'[1] # "new" /\ control.id = NoControl
    BY <1>1, <2>1 DEF IInv, JobFits
  <2> QED
    BY <1>1, <2>1, <2>2 DEF IInv, JobFits, Held
<1>9. SwapFits'
  BY <1>1, <1>2, EmptyTyped DEF IInv, SwapFits, Held, Carrying
<1> QED
  BY <1>3, <1>4, <1>5, <1>6, <1>7, <1>8, <1>9 DEF IInv, Books

\* The end of a turn keeps the invariant.
LEMMA TurnEndsKeeps ==
  ASSUME IInv, TurnEnds
  PROVE  IInv'
<1>0. Types /\ Books
  BY DEF IInv
<1>1. /\ turn # NoTurn /\ turn' = NoTurn
      /\ UNCHANGED <<session, mode, provider, epoch, closed, gate, active,
                     pending, emitter, control, seen, generation, scheduled,
                     turns, handed, crossed, status, born, settled, stolen>>
  BY <1>0, TurnEndsEffect
<1>2. PICK x \in Ends : /\ ended' = ended \cup {x}
                        /\ x.by = "provider" /\ x.held = NoControl
  BY <1>0, TurnEndsEffect
<1>3. /\ IsInjective(handed) /\ FateFits
      /\ generation \in Nat /\ generation <= generation
  BY <1>0, Typed DEF Books, FateFits
<1>4. FateFits'
  BY <1>0, <1>1, <1>3, FateStep
<1>5. Types'
  <2>1. GateTypes'
    BY <1>0, <1>1, Typed DEF GateTypes, Held, Carrying
  <2>2. ended' \subseteq Ends
    BY <1>0, <1>2, Typed
  <2> QED
    BY <1>0, <1>1, <2>1, <2>2, Typed, EmptyTyped, TypesFrom
<1>6. GateFits' /\ GateItems' = GateItems
  BY <1>0, <1>1, SameGate DEF Books
<1>7. QueueFits' /\ ScheduledFits' /\ Apart'
  BY <1>0, <1>1, <1>3, <1>6, BooksShrink, Elsewhere
<1>8. ChatFits'
  BY <1>1, <1>2 DEF IInv, ChatFits, Held
<1>9. JobFits'
  <2> SUFFICES ASSUME session = "job" PROVE JobFits'
    BY <1>1 DEF JobFits
  <2>1. ~(status[1] = "new" \/ Held("send"))
    BY <1>1 DEF IInv, JobFits
  <2>2. \A k : Remembered(k)' <=> Remembered(k)
    BY <1>1, <1>6 DEF Remembered, Items
  <2> QED
    BY <1>1, <2>1, <2>2 DEF IInv, JobFits, Held
<1>10. SwapFits'
  BY <1>1, EmptyTyped DEF IInv, SwapFits, Held, Carrying
<1> QED
  BY <1>4, <1>5, <1>6, <1>7, <1>8, <1>9, <1>10 DEF IInv, Books

\* What leaves the queue at the end of a turn is scheduled.
LEMMA TakeNextBooks ==
  ASSUME IInv, NEW e, TakeNext(e),
         UNCHANGED <<session, generation, status, born, handed>>,
         GateItems' \subseteq GateItems
  PROVE  /\ QueueFits' /\ ScheduledFits' /\ Apart'
         /\ pending' \in Seq(Entry) /\ Len(pending') <= Len(pending)
         /\ session = "chat" => pending' = <<>>
         /\ pending # <<>> /\ scheduled' \subseteq Entry
         /\ \A f \in scheduled' : f \in scheduled \/ f.generation = generation
         /\ \A k \in Controls :
              Remembered(k)' /\ k \notin GateItems' => Remembered(k)
<1>0. Types /\ Books /\ TypeOK /\ QueueFits
  BY DEF IInv, Types, Books
<1>1. PICK n \in Entry :
        /\ scheduled' = scheduled \cup {n}
        /\ n.generation = generation
        /\ session = "chat" =>
             /\ n.control = NoControl /\ pending' = <<>>
             /\ n.messages = Owners(pending, Len(pending))
        /\ session # "chat" =>
             /\ n.control # NoControl /\ n.control = pending[1].control
             /\ n.messages = <<>> /\ ~n.again
             /\ pending' = Tail(pending)
  BY <1>0, TakeNextEffect
<1>2. /\ pending \in Seq(Entry) /\ pending # <<>> /\ scheduled \subseteq Entry
      /\ Len(pending) \in Nat \ {0} /\ 1 \in 1..Len(pending)
      /\ generation \in Nat /\ generation <= generation
  <2>1. pending # <<>>
    BY DEF TakeNext
  <2>2. Len(pending) # 0
    BY <1>0, <2>1, Typed, EmptySeq
  <2> QED
    BY <1>0, <2>1, <2>2, Typed
<1>3. /\ pending' \in Seq(Entry) /\ Len(pending') <= Len(pending)
      /\ \A i \in 1..Len(pending') :
           /\ session # "chat" /\ i + 1 \in 1..Len(pending)
           /\ i + 1 # 1 /\ pending'[i] = pending[i + 1]
      /\ \A x \in Items(n) : \E i \in 1..Len(pending) : x \in Items(pending[i])
      /\ session # "chat" => Items(n) = Items(pending[1])
  <2>1. CASE session = "chat"
    <3>1. \A i \in 1..Len(pending) : Items(pending[i]) = {pending[i].owner}
      BY <1>0, <2>1, Elsewhere
    <3>2. \A m \in Items(n) : \E i \in 1..Len(pending) : pending[i].owner = m
      BY <1>1, <1>2, <2>1, OwnersOf DEF Items
    <3>3. \A x \in Items(n) : \E i \in 1..Len(pending) : x \in Items(pending[i])
      BY <3>1, <3>2
    <3>4. /\ pending' \in Seq(Entry) /\ Len(pending') <= Len(pending)
          /\ \A i \in 1..Len(pending') : FALSE
      <4>1. pending' = <<>> /\ Len(pending') = 0
        BY <1>1, <2>1
      <4> QED
        BY <1>2, <4>1
    <3> QED
      BY <2>1, <3>3, <3>4
  <2>2. CASE session # "chat"
    <3>1. pending' = Tail(pending)
      BY <1>1, <2>2
    <3>2. /\ Tail(pending) \in Seq(Entry)
          /\ Len(Tail(pending)) = Len(pending) - 1
          /\ \A i \in 1..Len(Tail(pending)) : Tail(pending)[i] = pending[i + 1]
      BY <1>2, HeadTailProperties
    <3>3. \A i \in 1..(Len(pending) - 1) : i + 1 \in 1..Len(pending) /\ i + 1 # 1
      BY <1>2
    <3>4. QueuedFits(pending[1])
      BY <1>0, <1>2 DEF QueueFits
    <3>5. Items(n) = Items(pending[1])
      BY <1>1, <2>2, <3>4 DEF QueuedFits, Items
    <3> QED
      BY <1>2, <2>2, <3>1, <3>2, <3>3, <3>5
  <2> QED
    BY <2>1, <2>2
<1>4. EntryFits(n)
  <2>1. CASE session = "chat"
    <3>1. \A m \in ToSet(n.messages) : \E i \in 1..Len(pending) :
            pending[i].owner = m
      BY <1>1, <1>2, <2>1, OwnersOf
    <3>2. IsInjective(n.messages)
      <4>1. \A i, j \in 1..Len(pending) : i # j => pending[i].owner # pending[j].owner
        BY <1>0, <2>1, Elsewhere
      <4>2. Len(pending) \in 0..Len(pending)
        BY <1>2
      <4>3. IsInjective(Owners(pending, Len(pending)))
        BY <1>2, <4>1, <4>2, OwnersOf
      <4> QED
        BY <1>1, <2>1, <4>3
    <3>3. \A m \in ToSet(n.messages) : Fresh(m) /\ born[m] = n.generation
      <4> SUFFICES ASSUME NEW m \in ToSet(n.messages)
                   PROVE  Fresh(m) /\ born[m] = n.generation
        OBVIOUS
      <4>1. PICK i \in 1..Len(pending) : pending[i].owner = m
        BY <3>1
      <4>2. /\ status[m] = "accepted" /\ m \notin ToSet(handed)
            /\ born[m] = generation
        BY <1>0, <2>1, <4>1, Elsewhere
      <4>3. n.generation = generation
        BY <1>1
      <4> QED
        BY <4>2, <4>3 DEF Fresh
    <3>4. Items(n) \cap ToSet(handed) = {}
      BY <1>1, <2>1, <3>3 DEF Items, Fresh
    <3> QED
      BY <1>1, <1>2, <2>1, <3>2, <3>3, <3>4 DEF EntryFits
  <2>2. CASE session # "chat"
    <3>1. QueuedFits(pending[1])
      BY <1>0, <1>2 DEF QueueFits
    <3>2. Items(n) \cap ToSet(handed) = {}
      BY <1>3, <2>2, <3>1 DEF QueuedFits
    <3> QED
      BY <1>1, <1>2, <2>2, <3>2, ElementsOfSmall DEF EntryFits
  <2> QED
    BY <2>1, <2>2
<1>5. \A i \in 1..Len(pending') : Items(n) \cap Items(pending'[i]) = {}
  <2> SUFFICES ASSUME NEW i \in 1..Len(pending')
               PROVE  Items(n) \cap Items(pending'[i]) = {}
    OBVIOUS
  <2>1. /\ Items(n) = Items(pending[1]) /\ pending'[i] = pending[i + 1]
        /\ i + 1 \in 1..Len(pending) /\ 1 # i + 1
    BY <1>3
  <2>2. Items(pending[1]) \cap Items(pending[i + 1]) = {}
    BY <1>0, <1>2, <2>1 DEF QueueFits
  <2> QED
    BY <2>1, <2>2
<1>6. \A f \in scheduled : Items(n) \cap Items(f) = {}
  BY <1>0, <1>3 DEF Books, ScheduledFits
<1>7. QueueFits'
  <2>1. \A i \in 1..Len(pending') : QueuedFits(pending[i])'
    <3> SUFFICES ASSUME NEW i \in 1..Len(pending') PROVE QueuedFits(pending[i])'
      OBVIOUS
    <3> DEFINE p == pending[i + 1]
    <3>1. QueuedFits(p) /\ pending'[i] = p
      BY <1>0, <1>3 DEF QueueFits
    <3> HIDE DEF p
    <3> QED
      BY <3>1 DEF QueuedFits, Fresh
  <2>2. \A i, j \in 1..Len(pending') :
          i # j => Items(pending'[i]) \cap Items(pending'[j]) = {}
    <3> SUFFICES ASSUME NEW i \in 1..Len(pending'), NEW j \in 1..Len(pending'),
                        i # j
                 PROVE  Items(pending'[i]) \cap Items(pending'[j]) = {}
      OBVIOUS
    <3>1. /\ i + 1 \in 1..Len(pending) /\ j + 1 \in 1..Len(pending)
          /\ pending'[i] = pending[i + 1] /\ pending'[j] = pending[j + 1]
      BY <1>3
    <3>2. i + 1 # j + 1
      OBVIOUS
    <3>3. Items(pending[i + 1]) \cap Items(pending[j + 1]) = {}
      BY <1>0, <3>1, <3>2 DEF QueueFits
    <3> QED
      BY <3>1, <3>3
  <2> QED
    BY <2>1, <2>2 DEF QueueFits
<1>8. ScheduledFits'
  <2>1. \A f \in scheduled' : EntryFits(f)'
    <3> SUFFICES ASSUME NEW f \in scheduled' PROVE EntryFits(f)'
      OBVIOUS
    <3>1. EntryFits(f)
      BY <1>0, <1>1, <1>4 DEF Books, ScheduledFits
    <3> QED
      BY <3>1 DEF EntryFits, Fresh
  <2>2. \A f, g \in scheduled' : f # g => Items(f) \cap Items(g) = {}
    BY <1>0, <1>1, <1>6 DEF Books, ScheduledFits
  <2>3. \A f \in scheduled' : \A i \in 1..Len(pending') :
          Items(f) \cap Items(pending'[i]) = {}
    BY <1>0, <1>1, <1>3, <1>5 DEF Books, ScheduledFits
  <2> QED
    BY <2>1, <2>2, <2>3 DEF ScheduledFits
<1>9. Apart'
  <2>1. GateItems \cap Items(n) = {}
    BY <1>0, <1>3 DEF Books, Apart
  <2>2. \A i \in 1..Len(pending') : GateItems \cap Items(pending'[i]) = {}
    BY <1>0, <1>3 DEF Books, Apart
  <2> QED
    BY <1>0, <1>1, <2>1, <2>2 DEF Books, Apart
<1>10. \A k \in Controls :
         Remembered(k)' /\ k \notin GateItems' => Remembered(k)
  <2> SUFFICES ASSUME NEW k \in Controls, Remembered(k)', k \notin GateItems'
               PROVE  Remembered(k)
    OBVIOUS
  <2>1. \/ k \in ToSet(handed)
        \/ \E f \in scheduled' : k \in Items(f)
        \/ \E i \in 1..Len(pending') : k \in Items(pending'[i])
    BY DEF Remembered
  <2> QED
    BY <1>1, <1>3, <2>1 DEF Remembered
<1> QED
  BY <1>1, <1>2, <1>3, <1>7, <1>8, <1>9, <1>10

\* The end of a turn, as its wrapper handles it, keeps the invariant.
LEMMA TerminalKeeps ==
  ASSUME IInv, NEW e, TerminalEvent(e)
  PROVE  IInv'
<1>0. Types /\ Books /\ TypeOK /\ GateFits /\ FateFits /\ IsInjective(handed)
  BY DEF IInv, Types, Books, FateFits
<1>1. /\ e \in ended /\ e.held = NoControl
      /\ settled' \in [Messages -> Nat] /\ GateTypes'
      /\ UNCHANGED <<session, mode, provider, epoch, closed, generation,
                     turn, turns, handed, crossed, status, born, stolen>>
  BY TerminalEffect
<1>2. \/ /\ TakeNext(e)
         /\ e.by # "start" => gate' = gate
         /\ e.by = "start" => gate'.op = "free"
         /\ ended' = ended \ {e}
         /\ UNCHANGED <<active, emitter, control, seen>>
      \/ /\ pending = <<>> /\ control.id # NoControl
         /\ \E h \in Ends : /\ ended' = (ended \ {e}) \cup {h}
                            /\ h.by = e.by /\ h.held = control.id
         /\ UNCHANGED <<gate, active, pending, emitter, control, seen,
                        scheduled>>
      \/ /\ pending = <<>>
         /\ active' = FALSE /\ control' = Idle /\ emitter' = None
         /\ seen' = {}
         /\ e.by # "start" => gate' = gate
         /\ e.by = "start" => gate'.op = "free"
         /\ ended' = ended \ {e}
         /\ UNCHANGED <<pending, scheduled>>
  BY TerminalEffect
<1>3. /\ generation \in Nat /\ generation <= generation
      /\ session = "job" => status[1] # "new" /\ ~Held("send")
      /\ ~(~crossed /\ turn.live) /\ gate'.op \in {gate.op, "free"}
      /\ gate' = gate \/ gate'.op = "free"
  BY <1>0, <1>1, <1>2, Typed DEF IInv, JobFits, SwapFits
<1>4. FateFits'
  BY <1>0, <1>1, <1>3, FateStep
<1>5. GateFits' /\ GateItems' \subseteq GateItems
  <2>1. CASE gate' = gate
    BY <1>0, <1>1, <2>1, SameGate
  <2>2. CASE gate'.op = "free"
    BY <2>2, QuietGate
  <2> QED
    BY <1>3, <2>1, <2>2
<1>6. SwapFits'
  <2>1. active' = active \/ active' = FALSE
    BY <1>2
  <2> QED
    BY <1>1, <1>3, <2>1 DEF IInv, SwapFits
<1>7. CASE /\ TakeNext(e)
           /\ ended' = ended \ {e}
           /\ UNCHANGED <<active, emitter, control, seen>>
  <2>1. /\ QueueFits' /\ ScheduledFits' /\ Apart'
        /\ pending' \in Seq(Entry) /\ Len(pending') <= Len(pending)
        /\ session = "chat" => pending' = <<>>
        /\ pending # <<>> /\ scheduled' \subseteq Entry
        /\ \A f \in scheduled' : f \in scheduled \/ f.generation = generation
        /\ \A k \in Controls :
             Remembered(k)' /\ k \notin GateItems' => Remembered(k)
    BY <1>1, <1>5, <1>7, TakeNextBooks
  <2>2. Types'
    <3>1. session' = "job" => Len(pending') <= MaxPending
      <4>1. Len(pending) \in Nat /\ Len(pending') \in Nat /\ MaxPending \in Nat
        BY <1>0, <2>1, Typed, Numbers
      <4> QED
        BY <1>0, <1>1, <2>1, <4>1, Typed
    <3>2. ended' \subseteq Ends
      BY <1>0, <1>7, Typed
    <3> QED
      BY <1>0, <1>1, <1>3, <1>7, <2>1, <3>1, <3>2, Typed, TypesFrom
  <2>3. ChatFits'
    BY <1>1, <1>3, <1>7, <2>1 DEF IInv, ChatFits, Held
  <2>4. JobFits'
    <3> SUFFICES ASSUME session = "job" PROVE JobFits'
      BY <1>1 DEF JobFits
    <3>1. generation = 0
      BY <1>3, <2>1 DEF IInv, JobFits
    <3>2. \A k \in Controls : Remembered(k)' => Remembered(k)
      BY <1>5, <2>1 DEF Remembered
    <3>3. ~Held("send")' /\ ~Held("steering")'
      BY <1>3 DEF IInv, JobFits, Held
    <3> QED
      BY <1>1, <1>3, <1>7, <3>1, <3>2, <3>3 DEF IInv, JobFits
  <2> QED
    BY <1>4, <1>5, <1>6, <2>1, <2>2, <2>3, <2>4 DEF IInv, Books
<1>8. CASE /\ pending = <<>> /\ control.id # NoControl
           /\ \E h \in Ends : /\ ended' = (ended \ {e}) \cup {h}
                              /\ h.by = e.by /\ h.held = control.id
           /\ UNCHANGED <<gate, active, pending, emitter, control, seen,
                          scheduled>>
  <2>1. QueueFits' /\ ScheduledFits' /\ Apart'
    BY <1>0, <1>1, <1>3, <1>5, <1>8, BooksShrink, Elsewhere
  <2>2. Types'
    <3>1. ended' \subseteq Ends
      BY <1>0, <1>8, Typed
    <3> QED
      BY <1>0, <1>1, <1>3, <1>8, <3>1, Typed, TypesFrom
  <2>3. session = "job"
    BY <1>0, <1>8, Typed, EmptyTyped DEF IInv, ChatFits
  <2>4. ChatFits'
    BY <1>1, <2>3 DEF ChatFits
  <2>5. JobFits'
    <3>1. \A k : Remembered(k)' <=> Remembered(k)
      BY <1>1, <1>8 DEF Remembered, GateItems, Held, Carrying, Items
    <3>2. ~Held("send")'
      BY <1>3, <1>8, <2>3 DEF Held
    <3> QED
      BY <1>1, <1>3, <1>8, <2>3, <3>1, <3>2 DEF IInv, JobFits, Held
  <2> QED
    BY <1>4, <1>5, <1>6, <2>1, <2>2, <2>4, <2>5 DEF IInv, Books
<1>9. CASE /\ pending = <<>>
           /\ active' = FALSE /\ control' = Idle /\ emitter' = None
           /\ seen' = {} /\ ended' = ended \ {e}
           /\ UNCHANGED <<pending, scheduled>>
  <2>1. QueueFits' /\ ScheduledFits' /\ Apart'
    BY <1>0, <1>1, <1>3, <1>5, <1>9, BooksShrink, Elsewhere
  <2>2. Types'
    <3>1. ended' \subseteq Ends
      BY <1>0, <1>9, Typed
    <3> QED
      BY <1>0, <1>1, <1>3, <1>9, <3>1, Typed, EmptyTyped, TypesFrom
  <2>3. ChatFits'
    BY <1>1, <1>3, <1>9 DEF IInv, ChatFits, Held
  <2>4. JobFits'
    <3> SUFFICES ASSUME session = "job" PROVE JobFits'
      BY <1>1 DEF JobFits
    <3>1. ~Held("send")' /\ ~Held("steering")'
      BY <1>3 DEF IInv, JobFits, Held
    <3>2. generation > 0 => gate'.op \notin {"queued", "ready", "control"}
      BY <1>3 DEF IInv, JobFits
    <3> QED
      BY <1>1, <1>3, <1>9, <3>1, <3>2, EmptyTyped DEF IInv, JobFits
  <2> QED
    BY <1>4, <1>5, <1>6, <2>1, <2>2, <2>3, <2>4 DEF IInv, Books
<1> QED
  BY <1>2, <1>7, <1>8, <1>9

\* The second look at a control keeps the invariant.
LEMMA ContinuationKeeps ==
  ASSUME IInv, NEW e, Continuation(e)
  PROVE  IInv'
<1>0. Types /\ Books /\ TypeOK /\ GateFits /\ FateFits /\ IsInjective(handed)
  BY DEF IInv, Types, Books, FateFits
<1>1. /\ e \in ended /\ e.held # NoControl /\ e.held \in Controls
      /\ session = "job"
      /\ ended' = ended \ {e} /\ GateTypes'
      /\ e.by # "start" => gate' = gate
      /\ e.by = "start" => gate'.op = "free"
      /\ UNCHANGED <<session, mode, provider, epoch, closed, pending, seen,
                     generation, turn, turns, handed, crossed, status, born,
                     settled, stolen>>
  BY ContinuationEffect
<1>2. \/ /\ control.id = e.held
         /\ \E n \in Entry :
              /\ scheduled' = scheduled \cup {n}
              /\ n.generation = generation /\ n.control = e.held
              /\ n.again = TRUE /\ n.messages = <<>>
         /\ control' \in Selection /\ control'.id = control.id
         /\ UNCHANGED <<active, emitter>>
      \/ /\ active' = FALSE /\ control' = Idle /\ emitter' = None
         /\ UNCHANGED scheduled
  BY ContinuationEffect
<1>3. /\ generation \in Nat /\ generation <= generation
      /\ status[1] # "new" /\ ~Held("send")
      /\ ~(~crossed /\ turn.live) /\ gate'.op \in {gate.op, "free"}
      /\ gate' = gate \/ gate'.op = "free"
  BY <1>0, <1>1, Typed DEF IInv, JobFits, SwapFits
<1>4. FateFits'
  BY <1>0, <1>1, <1>3, FateStep
<1>5. GateFits' /\ GateItems' \subseteq GateItems
  <2>1. CASE gate' = gate
    BY <1>0, <1>1, <2>1, SameGate
  <2>2. CASE gate'.op = "free"
    BY <2>2, QuietGate
  <2> QED
    BY <1>3, <2>1, <2>2
<1>6. SwapFits'
  <2>1. active' = active \/ active' = FALSE
    BY <1>2
  <2> QED
    BY <1>1, <1>3, <2>1 DEF IInv, SwapFits
<1>7. ChatFits'
  BY <1>1 DEF ChatFits
<1>8. /\ ~Held("send")' /\ ~Held("steering")'
      /\ generation > 0 => gate'.op \notin {"queued", "ready", "control"}
  BY <1>1, <1>3 DEF IInv, JobFits, Held
<1>9. ended' \subseteq Ends
  BY <1>0, <1>1, Typed
<1>10. CASE /\ control.id = e.held
            /\ \E n \in Entry :
                 /\ scheduled' = scheduled \cup {n}
                 /\ n.generation = generation /\ n.control = e.held
                 /\ n.again = TRUE /\ n.messages = <<>>
            /\ control' \in Selection /\ control'.id = control.id
            /\ UNCHANGED <<active, emitter>>
  <2>1. PICK n \in Entry :
          /\ scheduled' = scheduled \cup {n}
          /\ n.generation = generation /\ n.control = e.held
          /\ n.again = TRUE /\ n.messages = <<>>
    BY <1>10
  <2>2. Items(n) = {} /\ ToSet(n.messages) = {} /\ IsInjective(n.messages)
    BY <1>1, <2>1, ElementsOfSmall, Numbers DEF Items
  <2>3. EntryFits(n)'
    BY <1>1, <1>3, <2>1, <2>2 DEF EntryFits
  <2>4. \A f \in scheduled : EntryFits(f)'
    <3> SUFFICES ASSUME NEW f \in scheduled PROVE EntryFits(f)'
      OBVIOUS
    <3>1. EntryFits(f)
      BY <1>0 DEF Books, ScheduledFits
    <3> QED
      BY <1>1, <3>1 DEF EntryFits, Fresh
  <2>5. QueueFits'
    <3>1. \A i \in 1..Len(pending) : QueuedFits(pending[i])'
      <4> SUFFICES ASSUME NEW i \in 1..Len(pending) PROVE QueuedFits(pending[i])'
        OBVIOUS
      <4>1. QueuedFits(pending[i]) /\ pending'[i] = pending[i]
        BY <1>0, <1>1 DEF Books, QueueFits
      <4> QED
        BY <1>1, <4>1 DEF QueuedFits, Fresh
    <3> QED
      BY <1>0, <1>1, <3>1 DEF Books, QueueFits
  <2>6. ScheduledFits'
    BY <1>0, <1>1, <2>1, <2>2, <2>3, <2>4 DEF Books, ScheduledFits
  <2>7. Apart'
    BY <1>0, <1>1, <1>5, <2>1, <2>2 DEF Books, Apart
  <2>8. Types'
    <3>1. scheduled' \subseteq Entry
      BY <1>0, <2>1, Typed
    <3> QED
      BY <1>0, <1>1, <1>3, <1>9, <1>10, <3>1, Typed, TypesFrom
  <2>9. JobFits'
    <3>1. \A k \in Controls : Remembered(k)' => Remembered(k)
      <4>1. \A f \in scheduled' : \A k \in Controls :
              k \in Items(f) => f \in scheduled
        BY <2>1, <2>2
      <4> QED
        BY <1>1, <1>5, <4>1 DEF Remembered
    <3>2. generation = 0
      BY <1>1, <1>3, <1>10, Numbers DEF IInv, JobFits
    <3>3. emitter' # None
      BY <1>1, <1>10, Numbers DEF IInv, JobFits
    <3> QED
      BY <1>1, <1>3, <1>8, <1>10, <3>1, <3>2, <3>3 DEF IInv, JobFits
  <2> QED
    BY <1>4, <1>5, <1>6, <1>7, <2>5, <2>6, <2>7, <2>8, <2>9 DEF IInv, Books
<1>11. CASE /\ active' = FALSE /\ control' = Idle /\ emitter' = None
            /\ UNCHANGED scheduled
  <2>1. QueueFits' /\ ScheduledFits' /\ Apart'
    BY <1>0, <1>1, <1>3, <1>5, <1>11, BooksShrink, Elsewhere
  <2>2. Types'
    BY <1>0, <1>1, <1>3, <1>9, <1>11, Typed, EmptyTyped, TypesFrom
  <2>3. JobFits'
    BY <1>1, <1>3, <1>8, <1>11, EmptyTyped DEF IInv, JobFits
  <2> QED
    BY <1>4, <1>5, <1>6, <1>7, <2>1, <2>2, <2>3 DEF IInv, Books
<1> QED
  BY <1>2, <1>10, <1>11

\* The refusal of a continuation keeps the invariant.
LEMMA ContinuationRefusedKeeps ==
  ASSUME IInv, NEW e, ContinuationRefused(e)
  PROVE  IInv'
<1>0. Types /\ Books /\ TypeOK /\ GateFits /\ FateFits /\ IsInjective(handed)
  BY DEF IInv, Types, Books, FateFits
<1>1. /\ e \in scheduled /\ e.control # NoControl /\ session = "job"
      /\ scheduled' = scheduled \ {e}
      /\ settled' \in [Messages -> Nat] /\ status' = status
      /\ GateTypes'
      /\ UNCHANGED <<session, mode, provider, epoch, closed, gate,
                     generation, turn, ended, turns, handed, crossed, born,
                     stolen>>
  BY ContinuationRefusedEffect
<1>2. \/ /\ generation # e.generation
         /\ UNCHANGED <<pending, active, control, emitter, seen>>
      \/ /\ generation = e.generation /\ pending' = <<>>
         /\ active' = FALSE /\ control' = Idle /\ emitter' = None
         /\ seen' = {}
  BY ContinuationRefusedEffect
<1>3. /\ generation \in Nat /\ generation <= generation
      /\ status[1] # "new" /\ ~Held("send") /\ ~Held("steering")
  BY <1>0, <1>1, Typed DEF IInv, JobFits
<1>4. FateFits'
  BY <1>0, <1>1, <1>3, FateStep
<1>5. GateFits' /\ GateItems' = GateItems
  BY <1>0, <1>1, SameGate
<1>6. QueueFits' /\ ScheduledFits' /\ Apart'
  BY <1>0, <1>1, <1>2, <1>3, <1>5, BooksShrink, Elsewhere
<1>7. Types'
  <2>1. /\ pending' \in Seq(Entry) /\ active' \in BOOLEAN
        /\ session' = "job" => Len(pending') <= MaxPending
    BY <1>0, <1>1, <1>2, Typed, EmptyTyped
  <2>2. /\ control' \in Selection /\ emitter' \in Messages \cup {None}
        /\ seen' \subseteq Controls
    BY <1>0, <1>2, Typed, EmptyTyped
  <2>3. /\ scheduled' \subseteq Entry /\ GateTypes'
        /\ turn' # NoTurn => turn'.owner \in Messages
    BY <1>0, <1>1, Typed
  <2> QED
    BY <1>0, <1>1, <2>1, <2>2, <2>3, Typed, TypesFrom
<1>8. ChatFits'
  BY <1>1 DEF ChatFits
<1>9. JobFits'
  <2>1. ~Held("send")' /\ ~Held("steering")'
    BY <1>1, <1>3 DEF Held
  <2>2. CASE /\ generation # e.generation
             /\ UNCHANGED <<pending, active, control, emitter, seen>>
    <3>1. \A k \in Controls : Remembered(k)' => Remembered(k)
      BY <1>1, <1>5, <2>2 DEF Remembered
    <3> QED
      BY <1>1, <1>3, <2>1, <2>2, <3>1 DEF IInv, JobFits
  <2>3. CASE /\ pending' = <<>> /\ active' = FALSE /\ control' = Idle
    BY <1>1, <1>3, <2>1, <2>3, EmptyTyped DEF IInv, JobFits
  <2> QED
    BY <1>2, <2>2, <2>3
<1>10. SwapFits'
  BY <1>1, <1>2 DEF IInv, SwapFits, Held, Carrying
<1> QED
  BY <1>4, <1>5, <1>6, <1>7, <1>8, <1>9, <1>10 DEF IInv, Books

\* Cancelled work keeps the invariant.
LEMMA AcquireCancelKeeps ==
  ASSUME IInv, NEW e, QueuedAcquire(e), ~Valid(e)
  PROVE  IInv'
<1>0. Types /\ Books /\ TypeOK /\ GateFits /\ FateFits /\ IsInjective(handed)
  BY DEF IInv, Types, Books, FateFits
<1>1. /\ e \in scheduled /\ scheduled' = scheduled \ {e}
      /\ gate.op = "free" /\ GateTypes'
      /\ status' \in [Messages -> Told] /\ settled' \in [Messages -> Nat]
      /\ \A m \in Messages :
           status'[m] = IF m \in ToSet(e.messages) THEN "cancelled"
                        ELSE status[m]
      /\ UNCHANGED <<session, mode, provider, epoch, closed, gate, active,
                     pending, emitter, control, seen, generation, turn,
                     ended, turns, handed, crossed, born, stolen>>
  BY AcquireCancels
<1>2. /\ generation \in Nat /\ generation <= generation
      /\ \A m \in ToSet(e.messages) :
           status[m] = "accepted" /\ m \notin ToSet(handed)
      /\ \A f \in scheduled' : \A m \in ToSet(f.messages) :
           m \in Messages /\ m \notin ToSet(e.messages) /\ status[m] = "accepted"
      /\ session = "chat" => \A i \in 1..Len(pending) :
           /\ pending[i].owner \notin ToSet(e.messages)
           /\ pending[i].owner \in Messages
           /\ status[pending[i].owner] = "accepted"
  <2>1. generation \in Nat /\ generation <= generation
    BY <1>0, Typed
  <2>2. \A f \in scheduled : \A m \in ToSet(f.messages) :
          m \in Messages /\ status[m] = "accepted" /\ m \notin ToSet(handed)
    BY <1>0, Elsewhere
  <2>3. \A f \in scheduled : f # e => ToSet(e.messages) \cap ToSet(f.messages) = {}
    BY <1>0, <1>1, Elsewhere
  <2>4. session = "chat" => \A i \in 1..Len(pending) :
           /\ pending[i].owner \notin ToSet(e.messages)
           /\ pending[i].owner \in Messages
           /\ status[pending[i].owner] = "accepted"
    BY <1>0, <1>1, Elsewhere
  <2> QED
    BY <1>1, <2>1, <2>2, <2>3, <2>4
<1>3. FateFits'
  BY <1>0, <1>1, <1>2, FateStep
<1>4. GateFits' /\ GateItems' = {}
  BY <1>1, QuietGate
<1>5. QueueFits' /\ ScheduledFits' /\ Apart'
  BY <1>0, <1>1, <1>2, <1>4, BooksShrink
<1>6. Types'
  BY <1>0, <1>1, Typed, TypesFrom
<1>7. ChatFits'
  BY <1>1 DEF IInv, ChatFits, Held
<1>8. JobFits'
  <2> SUFFICES ASSUME session = "job" PROVE JobFits'
    BY <1>1 DEF JobFits
  <2>1. ToSet(e.messages) = {}
    BY <1>0, <1>1, ElementsOfSmall DEF Books, ScheduledFits, EntryFits
  <2>2. \A m \in Messages : status'[m] = status[m]
    BY <1>1, <2>1
  <2>3. \A k \in Controls : Remembered(k)' => Remembered(k)
    BY <1>1, <1>4 DEF Remembered
  <2> QED
    BY <1>1, <2>2, <2>3, Numbers DEF IInv, JobFits, Held
<1>9. SwapFits'
  BY <1>1 DEF IInv, SwapFits, Held, Carrying
<1> QED
  BY <1>3, <1>4, <1>5, <1>6, <1>7, <1>8, <1>9 DEF IInv, Books

\* Queued work that takes the gate keeps the invariant.
LEMMA AcquireKeepsAll ==
  ASSUME IInv, NEW e, QueuedAcquire(e), Valid(e)
  PROVE  IInv'
<1>0. Types /\ Books /\ TypeOK /\ FateFits /\ IsInjective(handed)
      /\ QueueFits /\ ScheduledFits
  BY DEF IInv, Types, Books, FateFits
<1>1. /\ e \in scheduled /\ scheduled' = scheduled \ {e}
      /\ gate.op = "free" /\ active /\ ~closed /\ e.generation = generation
      /\ gate'.op = "queued" /\ gate'.entry \in Entry /\ GateTypes'
      /\ UNCHANGED <<session, mode, provider, epoch, closed, active,
                     emitter, control, seen, generation, turn, ended, turns,
                     handed, crossed, status, born, settled, stolen>>
  BY AcquireKeeps
<1>g. PICK g \in Entry : g = gate'.entry
  BY <1>1
<1>2. /\ e \in Entry
      /\ g \in Entry /\ g.generation = generation /\ g.control = e.control
      /\ session = "chat" =>
           /\ e.control = NoControl /\ pending' = <<>>
           /\ g.messages = e.messages \o Owners(pending, Len(pending))
      /\ session # "chat" =>
           /\ e.control # NoControl /\ pending' = pending
           /\ g.messages = e.messages /\ g.again = e.again
  BY <1>0, <1>1, <1>g, AcquireEffect
<1>3. /\ generation \in Nat /\ generation <= generation
      /\ pending \in Seq(Entry) /\ Len(pending) \in 0..Len(pending)
      /\ EntryFits(e) /\ e.messages \in Seq(Messages)
  <2>1. e.messages \in Seq(Messages)
    BY <1>2 DEF Entry
  <2>2. pending \in Seq(Entry) /\ generation \in Nat
    BY <1>0, Typed
  <2>3. Len(pending) \in 0..Len(pending) /\ generation <= generation
    BY <2>2
  <2> QED
    BY <1>0, <1>1, <2>1, <2>2, <2>3 DEF ScheduledFits
<1>4. /\ \A x \in Items(g) :
           x \in Items(e) \/ \E i \in 1..Len(pending) : x \in Items(pending[i])
      /\ session # "chat" => Items(g) = Items(e)
      /\ EntryFits(g)'
  <2>1. CASE session = "chat"
    <3> DEFINE o == Owners(pending, Len(pending))
    <3>1. /\ o \in Seq(Messages)
          /\ \A m : m \in ToSet(o) => \E i \in 1..Len(pending) : pending[i].owner = m
      BY <1>3, OwnersOf
    <3>2. IsInjective(o)
      <4>1. \A i, j \in 1..Len(pending) : i # j => pending[i].owner # pending[j].owner
        BY <1>0, <2>1, Elsewhere
      <4> QED
        BY <1>3, <4>1, OwnersOf
    <3>3. \A m \in ToSet(o) :
            /\ Fresh(m) /\ born[m] = generation /\ m \notin ToSet(e.messages)
            /\ \E i \in 1..Len(pending) : m \in Items(pending[i])
      BY <1>0, <1>1, <2>1, <3>1, Elsewhere DEF Fresh
    <3>4. \A m \in ToSet(e.messages) :
            Fresh(m) /\ born[m] = generation /\ m \in Items(e)
      BY <1>0, <1>1, Elsewhere DEF Fresh
    <3>5. g.messages = e.messages \o o
      BY <1>2, <2>1
    <3> HIDE DEF o
    <3>6. /\ ToSet(g.messages) = ToSet(e.messages) \cup ToSet(o)
          /\ IsInjective(g.messages)
      <4>1. IsInjective(e.messages) /\ ToSet(e.messages) \cap ToSet(o) = {}
        BY <1>3, <3>3 DEF EntryFits
      <4> QED
        BY <1>3, <3>1, <3>2, <3>5, <4>1, ElementsOfConcat
    <3>7. Items(g) = ToSet(g.messages)
      BY <1>2, <2>1 DEF Items
    <3>8. \A m \in ToSet(g.messages) : Fresh(m) /\ born[m] = generation
      BY <3>3, <3>4, <3>6
    <3>9. EntryFits(g)
      BY <1>2, <1>3, <2>1, <3>6, <3>7, <3>8 DEF EntryFits, Fresh
    <3>10. EntryFits(g)'
      BY <1>1, <3>9 DEF EntryFits, Fresh
    <3> QED
      BY <2>1, <3>3, <3>4, <3>6, <3>7, <3>10
  <2>2. CASE session # "chat"
    <3>1. Items(g) = Items(e)
      BY <1>2, <2>2 DEF Items
    <3>2. EntryFits(g)
      BY <1>2, <1>3, <2>2, <3>1, ElementsOfSmall DEF EntryFits
    <3>3. EntryFits(g)'
      BY <1>1, <3>2 DEF EntryFits, Fresh
    <3> QED
      BY <2>2, <3>1, <3>3
  <2> QED
    BY <2>1, <2>2
<1>5. FateFits'
  BY <1>0, <1>1, <1>3, FateStep
<1>6. GateItems' = Items(g)
  BY <1>1, <1>g DEF GateItems, Held, Carrying, Items
<1>7. GateFits'
  BY <1>1, <1>g, <1>2, <1>4 DEF GateFits, Held, Carrying
<1>8. pending' \in {pending, <<>>}
  BY <1>0, <1>2, Typed
<1>9. QueueFits' /\ ScheduledFits'
  BY <1>0, <1>1, <1>3, <1>8, BooksShrink, Elsewhere
<1>10. Apart'
  <2>1. \A f \in scheduled' : Items(g) \cap Items(f) = {}
    BY <1>0, <1>1, <1>4 DEF ScheduledFits
  <2>2. \A i \in 1..Len(pending') : Items(g) \cap Items(pending'[i]) = {}
    <3>1. CASE session = "chat"
      BY <1>2, <3>1
    <3>2. CASE session # "chat"
      BY <1>0, <1>1, <1>2, <1>4, <3>2 DEF ScheduledFits
    <3> QED
      BY <3>1, <3>2
  <2> QED
    BY <1>6, <2>1, <2>2 DEF Apart
<1>11. Types'
  <2>1. session' = "job" => Len(pending') <= MaxPending
    BY <1>0, <1>1, <1>2, Typed
  <2>2. pending' \in Seq(Entry)
    BY <1>3, <1>8, EmptyTyped
  <2> QED
    BY <1>0, <1>1, <2>1, <2>2, Typed, TypesFrom
<1>12. ChatFits'
  BY <1>1, <1>2 DEF IInv, ChatFits, Held
<1>13. JobFits'
  <2> SUFFICES ASSUME session = "job" PROVE JobFits'
    BY <1>1 DEF JobFits
  <2>1. status[1] # "new" /\ generation = 0
    <3>1. status[1] # "new"
      BY <1>1 DEF IInv, JobFits
    <3>2. ~(generation > 0)
      BY <1>1 DEF IInv, JobFits
    <3> QED
      BY <1>3, <3>1, <3>2
  <2>2. \A k \in Controls : Remembered(k)' => Remembered(k)
    <3>1. \A k \in Controls : k \in GateItems' => Remembered(k)
      BY <1>1, <1>4, <1>6 DEF Remembered
    <3>2. pending' = pending
      BY <1>2
    <3> QED
      BY <1>1, <3>1, <3>2 DEF Remembered
  <2>3. ~Held("send")' /\ ~Held("steering")'
    BY <1>1 DEF Held
  <2>4. pending' = pending
    BY <1>2
  <2> QED
    BY <1>1, <2>1, <2>2, <2>3, <2>4 DEF IInv, JobFits
<1>14. SwapFits'
  BY <1>1 DEF IInv, SwapFits
<1> QED
  BY <1>5, <1>7, <1>9, <1>10, <1>11, <1>12, <1>13, <1>14 DEF IInv, Books

\* The holder of queued work lets go of it, and of every message in it.
LEMMA WorkDropped ==
  ASSUME Types, Books, Carrying, gate'.op \in {"free", "failing"},
         pending' \in {pending, <<>>},
         UNCHANGED <<session, generation, scheduled, handed, born>>,
         \A m \in Messages :
           \/ status'[m] = status[m]
           \/ /\ m \in ToSet(gate.entry.messages)
              /\ status'[m] \in {"refused", "cancelled", "dropped", "lost"}
  PROVE  /\ Books' /\ GateItems' = {}
         /\ session = "job" => \A m \in Messages : status'[m] = status[m]
<1>1. /\ gate.entry \in Entry /\ EntryFits(gate.entry)
      /\ GateItems = Items(gate.entry)
      /\ IsInjective(handed) /\ FateFits /\ GateFits
      /\ generation \in Nat /\ generation <= generation
      /\ ToSet(gate.entry.messages) \subseteq Messages
  <2>1. gate.entry \in Entry
    BY DEF Types, GateTypes
  <2>2. GateItems = Items(gate.entry)
    BY DEF Carrying, GateItems, Held
  <2> QED
    BY <2>1, <2>2, Typed, ItemsApart DEF Books, GateFits, FateFits
<1>2. \A m \in ToSet(gate.entry.messages) :
        status[m] = "accepted" /\ m \notin ToSet(handed) /\ m \in GateItems
  <2>1. \A m \in ToSet(gate.entry.messages) :
          status[m] = "accepted" /\ m \notin ToSet(handed)
    BY <1>1 DEF EntryFits, Fresh
  <2>2. \A m \in ToSet(gate.entry.messages) : gate.entry.control = NoControl
    BY <1>1, ElementsOfSmall DEF EntryFits
  <2> QED
    BY <1>1, <2>1, <2>2, ItemsApart
<1>3. FateFits'
  BY <1>1, <1>2, FateStep
<1>4. GateFits' /\ GateItems' = {}
  BY QuietGate
<1>5. QueueFits' /\ ScheduledFits' /\ Apart'
  BY <1>1, <1>2, <1>4, BooksShrink, Elsewhere
<1>6. session = "job" => \A m \in Messages : status'[m] = status[m]
  BY <1>1, ElementsOfSmall DEF EntryFits
<1> QED
  BY <1>3, <1>4, <1>5, <1>6 DEF Books

\* The key, when the holder of queued work has let go of it.
LEMMA KeyAfterWork ==
  ASSUME IInv, Carrying, gate'.op \in {"free", "failing"},
         UNCHANGED <<session, generation, scheduled, born>>,
         session = "job" =>
           /\ \A m \in Messages : status'[m] = status[m]
           /\ \A k \in Controls : k \in ToSet(handed') => Remembered(k),
         \/ UNCHANGED <<pending, active, control, emitter, seen>>
         \/ /\ pending' = <<>> /\ active' = FALSE /\ control' = Idle
            /\ emitter' = None /\ seen' = {},
         \A x \in ended' : x \in ended \/ x.held = NoControl
  PROVE  ChatFits' /\ JobFits'
<1>1. Types /\ generation \in Nat /\ gate.op \in {"queued", "ready"}
  BY Typed DEF IInv, Carrying, Held
<1>2. GateItems' = {} /\ ~Held("send")' /\ ~Held("steering")' /\ ~Held("control")'
  BY DEF GateItems, Held, Carrying
<1>3. ChatFits'
  BY <1>1, <1>2 DEF IInv, ChatFits
<1>4. JobFits'
  <2> SUFFICES ASSUME session = "job" PROVE JobFits'
    BY DEF JobFits
  <2>1. status'[1] # "new" /\ \A m \in Messages : m # 1 => status'[m] = "new"
    BY <1>1, Numbers DEF IInv, JobFits
  <2>2. generation = 0
    BY <1>1 DEF IInv, JobFits
  <2>3. CASE UNCHANGED <<pending, active, control, emitter, seen>>
    <3>1. \A k \in Controls : Remembered(k)' => Remembered(k)
      BY <1>2, <2>3 DEF Remembered
    <3> QED
      BY <1>2, <2>1, <2>2, <2>3, <3>1 DEF IInv, JobFits
  <2>4. CASE /\ pending' = <<>> /\ active' = FALSE /\ control' = Idle
             /\ emitter' = None /\ seen' = {}
    BY <1>2, <2>1, <2>2, <2>4, EmptyTyped DEF IInv, JobFits
  <2> QED
    BY <2>3, <2>4
<1> QED
  BY <1>3, <1>4

\* The callbacks of queued work keep the invariant.
LEMMA PrepareKeeps ==
  ASSUME IInv, QueuedPrepare
  PROVE  IInv'
<1>0. Types /\ Books /\ TypeOK /\ GateFits /\ FateFits /\ IsInjective(handed)
  BY DEF IInv, Types, Books, FateFits
<1> DEFINE g == gate.entry
<1>1. /\ Held("queued") /\ g \in Entry /\ EntryFits(g)
      /\ g.generation = generation
      /\ GateTypes'
      /\ status' \in [Messages -> Told] /\ settled' \in [Messages -> Nat]
      /\ UNCHANGED <<session, mode, provider, epoch, closed, generation,
                     scheduled, turn, ended, turns, handed, crossed, born,
                     stolen>>
  BY PrepareEffect
<1>2. \/ /\ gate'.op = "free" /\ g.control # NoControl
         /\ pending' = <<>> /\ active' = FALSE /\ control' = Idle
         /\ emitter' = None /\ seen' = {} /\ status' = status
      \/ /\ gate'.op = "free" /\ (closed \/ ~active)
         /\ UNCHANGED <<pending, active, control, emitter, seen>>
         /\ \A m \in Messages :
              status'[m] = IF m \in ToSet(g.messages)
                           THEN "cancelled" ELSE status[m]
      \/ /\ gate'.op = "ready" /\ gate'.entry = g
         /\ active /\ ~closed
         /\ g.control = NoControl =>
              emitter' = g.owner /\ control' = control
         /\ g.control # NoControl =>
              /\ emitter' = emitter /\ control' \in Selection
              /\ control'.id = g.control
         /\ UNCHANGED <<pending, active, seen, status>>
  BY PrepareEffect
<1>3. Carrying /\ gate.op = "queued" /\ ~(~crossed /\ turn.live)
  BY <1>1 DEF Carrying, Held, IInv, SwapFits
<1> HIDE DEF g
<1>4. SwapFits'
  <2>1. active' = active \/ active' = FALSE
    BY <1>2
  <2> QED
    BY <1>1, <1>3, <2>1 DEF IInv, SwapFits
<1>5. CASE gate'.op = "free"
  <2>1. /\ \/ UNCHANGED <<pending, active, control, emitter, seen>>
           \/ /\ pending' = <<>> /\ active' = FALSE /\ control' = Idle
              /\ emitter' = None /\ seen' = {}
        /\ \A m \in Messages :
             \/ status'[m] = status[m]
             \/ /\ m \in ToSet(g.messages)
                /\ status'[m] \in {"refused", "cancelled", "dropped", "lost"}
    BY <1>2, <1>5
  <2>2. /\ Books' /\ GateItems' = {}
        /\ session = "job" => \A m \in Messages : status'[m] = status[m]
    BY <1>0, <1>1, <1>3, <1>5, <2>1, WorkDropped DEF g
  <2>3. ChatFits' /\ JobFits'
    BY <1>1, <1>3, <1>5, <2>1, <2>2, KeyAfterWork DEF Remembered
  <2>4. Types'
    BY <1>0, <1>1, <1>5, <2>1, Typed, EmptyTyped, TypesFrom
  <2> QED
    BY <1>4, <2>2, <2>3, <2>4 DEF IInv
<1>6. CASE /\ gate'.op = "ready" /\ gate'.entry = g
           /\ active /\ ~closed
           /\ g.control = NoControl =>
                emitter' = g.owner /\ control' = control
           /\ g.control # NoControl =>
                /\ emitter' = emitter /\ control' \in Selection
                /\ control'.id = g.control
           /\ UNCHANGED <<pending, active, seen, status>>
  <2>1. generation \in Nat /\ generation <= generation
    BY <1>0, Typed
  <2>2. GateItems' = GateItems
    BY <1>3, <1>6 DEF GateItems, Held, Carrying, Items, g
  <2>3. GateFits'
    <3>1. EntryFits(g)'
      BY <1>1, <1>6 DEF EntryFits, Fresh, g
    <3> QED
      BY <1>1, <1>6, <3>1 DEF GateFits, Held, Carrying, g
  <2>4. FateFits'
    BY <1>0, <1>1, <1>6, <2>1, FateStep
  <2>5. QueueFits' /\ ScheduledFits' /\ Apart'
    BY <1>0, <1>1, <1>6, <2>1, <2>2, BooksShrink, Elsewhere
  <2>6. g.owner \in Messages
    BY <1>1 DEF Entry
  <2>7. Types'
    <3>1. emitter' \in Messages \cup {None} /\ control' \in Selection
      BY <1>0, <1>6, <2>6, Typed
    <3> QED
      BY <1>0, <1>1, <1>6, <3>1, Typed, TypesFrom
  <2>8. ChatFits'
    BY <1>1, <1>3, <1>6 DEF IInv, ChatFits, Held, EntryFits
  <2>9. JobFits'
    <3> SUFFICES ASSUME session = "job" PROVE JobFits'
      BY <1>1 DEF JobFits
    <3>1. generation = 0 /\ status[1] # "new"
      BY <1>3, <2>1 DEF IInv, JobFits
    <3>2. g.control # NoControl
      BY <1>1 DEF EntryFits
    <3>3. emitter' # None /\ ~Held("send")' /\ ~Held("steering")'
      BY <1>6, <3>1, <3>2 DEF IInv, JobFits, Held
    <3>4. \A k \in Controls : Remembered(k)' => Remembered(k)
      BY <1>1, <1>6, <2>2 DEF Remembered
    <3> QED
      BY <1>1, <1>6, <3>1, <3>3, <3>4 DEF IInv, JobFits
  <2> QED
    BY <1>4, <2>3, <2>4, <2>5, <2>7, <2>8, <2>9 DEF IInv, Books
<1> QED
  BY <1>2, <1>5, <1>6

\* A batch that is not reserved keeps the invariant.
LEMMA UnreservedKeeps ==
  ASSUME IInv, QueuedUnreserved
  PROVE  IInv'
<1>0. Types /\ Books
  BY DEF IInv
<1>1. /\ Held("ready") /\ session = "chat"
      /\ gate'.op = "free" /\ GateTypes'
      /\ pending' = <<>> /\ active' = FALSE /\ control' = Idle
      /\ emitter' = None /\ seen' = {}
      /\ status' \in [Messages -> Told] /\ settled' \in [Messages -> Nat]
      /\ \A m \in Messages :
           IF m \in ToSet(gate.entry.messages)
           THEN status'[m] \in {"dropped", "lost"}
           ELSE status'[m] = status[m]
      /\ UNCHANGED <<session, mode, provider, epoch, closed, generation,
                     scheduled, turn, ended, turns, handed, crossed, born,
                     stolen>>
  BY UnreservedEffect
<1>2. Carrying
  BY <1>1 DEF Carrying
<1>3. Books' /\ GateItems' = {}
  BY <1>0, <1>1, <1>2, WorkDropped
<1>4. ChatFits' /\ JobFits'
  BY <1>1, <1>2, KeyAfterWork
<1>5. Types'
  BY <1>0, <1>1, Typed, EmptyTyped, TypesFrom
<1>6. SwapFits'
  BY <1>1, <1>2 DEF IInv, SwapFits
<1> QED
  BY <1>3, <1>4, <1>5, <1>6 DEF IInv

\* A closed supervisor keeps the invariant.
LEMMA ClosedKeeps ==
  ASSUME IInv, QueuedClosed
  PROVE  IInv'
<1>0. Types /\ Books
  BY DEF IInv
<1>1. /\ Held("ready") /\ closed /\ gate'.op = "failing" /\ GateTypes'
      /\ status' \in [Messages -> Told]
      /\ \A m \in Messages :
           IF m \in ToSet(gate.entry.messages)
           THEN status'[m] \in {"dropped", "lost"}
           ELSE status'[m] = status[m]
      /\ UNCHANGED <<session, mode, provider, epoch, closed, active,
                     pending, emitter, control, seen, generation, scheduled,
                     turn, turns, handed, crossed, born, settled, stolen>>
  BY ClosedEffect
<1>2. PICK x \in Ends : /\ ended' = ended \cup {x}
                        /\ x.by = "start" /\ x.held = NoControl
  BY ClosedEffect
<1>3. Carrying
  BY <1>1 DEF Carrying
<1>4. /\ Books' /\ GateItems' = {}
      /\ session = "job" => \A m \in Messages : status'[m] = status[m]
  BY <1>0, <1>1, <1>3, WorkDropped
<1>5. ChatFits' /\ JobFits'
  BY <1>1, <1>2, <1>3, <1>4, KeyAfterWork DEF Remembered
<1>6. Types'
  <2>1. ended' \subseteq Ends
    BY <1>0, <1>2, Typed
  <2> QED
    BY <1>0, <1>1, <2>1, Typed, TypesFrom
<1>7. SwapFits'
  BY <1>1, <1>3 DEF IInv, SwapFits
<1> QED
  BY <1>4, <1>5, <1>6, <1>7 DEF IInv

\* The dispatch of queued work keeps the invariant.
LEMMA QueuedSendKeeps ==
  ASSUME IInv, QueuedSend
  PROVE  IInv'
<1>0. Types /\ Books /\ FateFits
  BY DEF IInv, Books
<1> DEFINE g == gate.entry
<1>1. /\ Held("ready") /\ ~closed /\ g \in Entry
      /\ EntryFits(g) /\ g.generation = generation
      /\ settled' \in [Messages -> Nat] /\ status' \in [Messages -> Told]
      /\ GateTypes'
      /\ turn' \in Turns /\ (turn' # NoTurn => turn'.owner \in Messages)
      /\ turns' \in Nat /\ crossed' \in BOOLEAN
      /\ handed' \in Seq(Messages \cup Controls) /\ IsInjective(handed')
      /\ UNCHANGED <<session, mode, provider, epoch, closed, active,
                     pending, emitter, control, seen, generation, scheduled,
                     born, stolen>>
  BY QueuedSendEffect
<1>2. \/ /\ UNCHANGED <<handed, turn, turns, crossed>>
         /\ \A m \in Messages :
              status'[m] = IF m \in ToSet(g.messages)
                           THEN "dropped" ELSE status[m]
      \/ /\ status' = status
         /\ ToSet(handed') = ToSet(handed) \cup Items(g)
  BY QueuedSendEffect
<1>3. \/ UNCHANGED <<turn, turns, crossed>>
      \/ /\ turn = NoTurn /\ turn' # NoTurn /\ status' = status
         /\ crossed' <=> \/ crossed \/ ~active \/ ended # {}
                         \/ \E e \in scheduled : e.generation = generation
      \/ /\ turn # NoTurn /\ turn' # NoTurn /\ status' = status
         /\ turn'.live = turn.live /\ UNCHANGED <<turns, crossed>>
  BY QueuedSendEffect
<1>4. \/ /\ gate'.op = "free" /\ ended' = ended /\ turn' # NoTurn
         /\ turn = NoTurn => turn'.live
      \/ /\ gate'.op = "failing"
         /\ turn' = turn \/ ~turn'.live
         /\ \E x \in Ends : /\ ended' = ended \cup {x}
                            /\ x.by = "start" /\ x.held = NoControl
  BY QueuedSendEffect
<1>5. /\ Carrying /\ ~(~crossed /\ turn.live) /\ GateItems = Items(g)
      /\ generation \in Nat /\ generation <= generation
      /\ gate'.op \in {"free", "failing"}
  BY <1>0, <1>1, <1>4, Typed
  DEF Carrying, Held, IInv, SwapFits, GateItems
<1> HIDE DEF g
<1>6. /\ ended' \subseteq Ends
      /\ \A x \in ended' : x \in ended \/ x.held = NoControl
  BY <1>0, <1>4, Typed
<1>7. /\ Books' /\ GateItems' = {}
      /\ session = "job" => \A m \in Messages : status'[m] = status[m]
  <2>1. CASE /\ UNCHANGED handed
             /\ \A m \in Messages :
                  status'[m] = IF m \in ToSet(g.messages)
                               THEN "dropped" ELSE status[m]
    <3>1. \A m \in Messages :
            \/ status'[m] = status[m]
            \/ /\ m \in ToSet(g.messages)
               /\ status'[m] \in {"refused", "cancelled", "dropped", "lost"}
      BY <2>1
    <3> QED
      BY <1>0, <1>1, <1>5, <2>1, <3>1, WorkDropped DEF g
  <2>2. CASE /\ status' = status
             /\ ToSet(handed') = ToSet(handed) \cup Items(g)
    <3>1. \A m \in Messages : m \in Items(g) => status[m] = "accepted"
      BY <1>1, ItemsApart, Numbers DEF EntryFits, Fresh
    <3>2. FateFits'
      BY <1>0, <1>1, <1>5, <2>2, <3>1, FateStep
    <3>3. GateFits' /\ GateItems' = {}
      BY <1>5, QuietGate
    <3>4. QueueFits' /\ ScheduledFits' /\ Apart'
      BY <1>0, <1>1, <1>5, <2>2, <3>3, BooksShrink, Elsewhere
    <3> QED
      BY <2>2, <3>2, <3>3, <3>4 DEF Books
  <2> QED
    BY <1>2, <2>1, <2>2
<1>8. ChatFits' /\ JobFits'
  <2>1. \A k \in Controls : k \in ToSet(handed') => Remembered(k)
    BY <1>2, <1>5 DEF Remembered
  <2> QED
    BY <1>1, <1>5, <1>6, <1>7, <2>1, KeyAfterWork
<1>9. Types'
  BY <1>0, <1>1, <1>5, <1>6, Typed, TypesFrom
<1>10. SwapFits'
  <2>1. /\ closed' => provider' # "up"
        /\ provider' = "detached" /\ ~closed' => ~active'
    BY <1>1 DEF IInv, SwapFits
  <2>2. ~Carrying'
    BY <1>5 DEF Carrying, Held
  <2>3. ASSUME ~crossed', turn'.live
        PROVE  /\ active' /\ ended' = {}
               /\ \A e \in scheduled' : e.generation # generation'
    BY <1>1, <1>3, <1>4, <1>5, <2>3
  <2> QED
    BY <2>1, <2>2, <2>3 DEF SwapFits
<1> QED
  BY <1>7, <1>8, <1>9, <1>10 DEF IInv

\* An interruption keeps the invariant: whatever was scheduled belongs to an
\* earlier generation from now on.
LEMMA FenceKeeps ==
  ASSUME IInv, InterruptFence
  PROVE  IInv'
<1>0. Types /\ Books /\ TypeOK /\ FateFits /\ IsInjective(handed)
  BY DEF IInv, Types, Books, FateFits
<1>1. /\ gate.op = "free" /\ gate'.op = "interrupt" /\ GateTypes'
      /\ generation' = generation + 1 /\ generation \in Nat
      /\ pending' = <<>> /\ control' = Idle /\ seen' = {}
      /\ emitter' = None
      /\ status' \in [Messages -> Told] /\ settled' \in [Messages -> Nat]
      /\ \A m \in Messages :
           status'[m] = IF \E i \in 1..Len(pending) :
                             m \in ToSet(pending[i].messages)
                        THEN "cancelled" ELSE status[m]
      /\ UNCHANGED <<session, mode, provider, epoch, closed, active,
                     scheduled, turn, ended, turns, handed, crossed, born,
                     stolen>>
  BY <1>0, FenceEffect
<1>2. generation' \in Nat /\ generation' > generation /\ generation' >= generation
  BY <1>1
<1>3. \A i \in 1..Len(pending) : \A m \in ToSet(pending[i].messages) :
        /\ session = "chat" /\ m = pending[i].owner
        /\ status[m] = "accepted" /\ m \notin ToSet(handed)
        /\ \A e \in scheduled : m \notin ToSet(e.messages)
  <2> SUFFICES ASSUME NEW i \in 1..Len(pending),
                      NEW m \in ToSet(pending[i].messages)
               PROVE  /\ session = "chat" /\ m = pending[i].owner
                      /\ status[m] = "accepted" /\ m \notin ToSet(handed)
                      /\ \A e \in scheduled : m \notin ToSet(e.messages)
    OBVIOUS
  <2>1. session = "chat"
    BY <1>0, ElementsOfSmall DEF Books, QueueFits, QueuedFits
  <2>2. m = pending[i].owner
    <3>1. pending[i].messages = <<pending[i].owner>>
      BY <1>0, <2>1, Elsewhere
    <3>2. ToSet(pending[i].messages) = {pending[i].owner}
      BY <3>1, ElementsOfSmall
    <3> QED
      BY <3>2
  <2> QED
    BY <1>0, <2>1, <2>2, Elsewhere
<1>4. FateFits'
  BY <1>0, <1>1, <1>2, <1>3, FateStep
<1>5. GateFits' /\ GateItems' = {}
  BY <1>1, QuietGate
<1>6. QueueFits' /\ ScheduledFits' /\ Apart'
  <2>1. \A e \in scheduled' : \A m \in ToSet(e.messages) :
          status'[m] = "accepted" /\ born'[m] = born[m]
    BY <1>0, <1>1, <1>3, Elsewhere
  <2> QED
    BY <1>0, <1>1, <1>2, <1>5, <2>1, BooksShrink
<1>7. Types'
  BY <1>0, <1>1, <1>2, Typed, EmptyTyped, TypesFrom
<1>8. ChatFits'
  BY <1>1 DEF IInv, ChatFits, Held
<1>9. JobFits'
  <2> SUFFICES ASSUME session = "job" PROVE JobFits'
    BY <1>1 DEF JobFits
  <2>1. \A m \in Messages : status'[m] = status[m]
    BY <1>1, <1>3
  <2>2. \A e \in scheduled' : e.generation = 0
    <3> SUFFICES ASSUME NEW e \in scheduled PROVE e.generation = 0
      BY <1>1
    <3>1. e.generation \in Nat /\ e.generation <= generation
      <4>1. e \in Entry
        BY <1>0, Typed
      <4> QED
        BY <1>0, <4>1 DEF Books, ScheduledFits, EntryFits, Entry
    <3>2. CASE generation = 0
      BY <3>1, <3>2
    <3>3. CASE generation > 0
      BY <3>3 DEF IInv, JobFits
    <3> QED
      BY <1>1, <3>2, <3>3
  <2>3. ~Held("send")' /\ ~Held("steering")' /\ generation' # 0
    BY <1>1 DEF Held
  <2> QED
    BY <1>1, <2>1, <2>2, <2>3, EmptyTyped, Numbers DEF IInv, JobFits
<1>10. SwapFits'
  <2>1. \A e \in scheduled' : e.generation # generation'
    <3> SUFFICES ASSUME NEW e \in scheduled PROVE e.generation # generation'
      BY <1>1
    <3>1. e \in Entry
      BY <1>0, Typed
    <3>2. e.generation \in Nat /\ e.generation <= generation
      BY <1>0, <3>1 DEF Books, ScheduledFits, EntryFits, Entry
    <3> QED
      BY <1>1, <3>2
  <2>2. ~Carrying'
    BY <1>1 DEF Carrying, Held
  <2> QED
    BY <1>1, <2>1, <2>2 DEF IInv, SwapFits
<1> QED
  BY <1>4, <1>5, <1>6, <1>7, <1>8, <1>9, <1>10 DEF IInv, Books

\* The rest of an interruption keeps the invariant.
LEMMA InterruptKeeps ==
  ASSUME IInv, InterruptIdle \/ InterruptSignal \/ InterruptReturn
  PROVE  IInv'
<1>0. Types /\ Books /\ TypeOK /\ FateFits /\ IsInjective(handed)
  BY DEF IInv, Types, Books, FateFits
<1>1. /\ gate.op \in {"interrupt", "stopping"}
      /\ gate'.op \in {"free", "stopping"} /\ GateTypes'
      /\ \/ gate'.op = "free" /\ turn = NoTurn /\ active' = FALSE
         \/ /\ turn # NoTurn /\ active' = active
      /\ UNCHANGED <<session, mode, provider, epoch, closed, pending,
                     emitter, control, seen, generation, scheduled, turn,
                     ended, turns, handed, crossed, status, born, settled,
                     stolen>>
  BY <1>0, InterruptEffect
<1>2. /\ generation \in Nat /\ generation <= generation /\ active' \in BOOLEAN
      /\ active' => active
  <2>1. generation \in Nat /\ generation <= generation /\ active \in BOOLEAN
    BY <1>0, Typed
  <2>2. CASE active' = FALSE
    BY <2>1, <2>2
  <2>3. CASE active' = active
    BY <2>1, <2>3
  <2> QED
    BY <1>1, <2>2, <2>3
<1>3. FateFits'
  BY <1>0, <1>1, <1>2, FateStep
<1>4. GateFits' /\ GateItems' = {}
  BY <1>1, QuietGate
<1>5. QueueFits' /\ ScheduledFits' /\ Apart'
  BY <1>0, <1>1, <1>2, <1>4, BooksShrink, Elsewhere
<1>6. Types'
  BY <1>0, <1>1, <1>2, Typed, TypesFrom
<1>7. ChatFits'
  BY <1>1 DEF IInv, ChatFits, Held
<1>8. JobFits'
  <2>1. \A k \in Controls : Remembered(k)' => Remembered(k)
    BY <1>1, <1>4 DEF Remembered
  <2> QED
    BY <1>1, <1>2, <2>1 DEF IInv, JobFits, Held
<1>9. SwapFits'
  BY <1>1, <1>2, EmptyTyped DEF IInv, SwapFits, Held, Carrying
<1> QED
  BY <1>3, <1>4, <1>5, <1>6, <1>7, <1>8, <1>9 DEF IInv, Books

\* A control that queues up keeps the invariant.
LEMMA ControlQueueKeeps ==
  ASSUME IInv, NEW k \in Controls, ControlQueue(k)
  PROVE  IInv'
<1>0. Types /\ Books /\ TypeOK /\ FateFits /\ IsInjective(handed)
  BY DEF IInv, Types, Books, FateFits
<1>1. /\ Steerable /\ k \notin seen /\ seen' = seen \cup {k}
      /\ emitter \in Messages /\ pending \in Seq(Entry)
      /\ Len(pending) < MaxPending
      /\ UNCHANGED <<session, mode, provider, epoch, closed, gate, active,
                     emitter, control, generation, scheduled, turn, ended,
                     turns, handed, crossed, status, born, settled, stolen>>
  BY <1>0, ControlQueueEffect
<1>2. PICK n \in Entry :
        /\ pending' = Append(pending, n) /\ n.messages = <<>> /\ n.control = k
        /\ ~n.again /\ k # NoControl
  BY <1>0, ControlQueueEffect, QueuedTypes, Numbers
<1>3. Items(n) = {k}
  BY <1>2 DEF Items
<1>4. /\ gate.op = "free" /\ session = "job" /\ generation = 0 /\ active
      /\ turn # NoTurn /\ ~Held("send") /\ ~Carrying /\ GateItems = {}
  BY <1>1 DEF Steerable, Free, Held, Carrying, GateItems
<1>5. ~Remembered(k) /\ status[1] # "new" /\ session # "chat"
  BY <1>1, <1>4 DEF IInv, JobFits
<1>6. generation \in Nat /\ generation <= generation
  BY <1>0, Typed
<1>7. FateFits'
  BY <1>0, <1>1, <1>6, FateStep
<1>8. GateFits' /\ GateItems' = {}
  BY <1>1, <1>4, QuietGate
<1>9. QueueFits' /\ ScheduledFits' /\ Apart'
  <2>1. QueuedFits(n)'
    BY <1>1, <1>2, <1>3, <1>5 DEF QueuedFits, Remembered
  <2>2. \A e \in scheduled : \A m \in ToSet(e.messages) :
          status'[m] = "accepted" /\ born'[m] = born[m]
    BY <1>0, <1>1, Elsewhere
  <2>3. /\ \A e \in scheduled : Items(n) \cap Items(e) = {}
        /\ \A i \in 1..Len(pending) : Items(n) \cap Items(pending[i]) = {}
    BY <1>3, <1>5 DEF Remembered
  <2> QED
    BY <1>0, <1>1, <1>2, <1>4, <1>5, <2>1, <2>2, <2>3, QueueGrows
<1>10. /\ pending' \in Seq(Entry) /\ Len(pending') = Len(pending) + 1
       /\ Len(pending') <= MaxPending
       /\ \A i \in 1..Len(pending') :
            \/ i \in 1..Len(pending) /\ pending'[i] = pending[i]
            \/ pending'[i] = n
  <2>1. /\ Len(pending) \in Nat /\ Len(pending') = Len(pending) + 1
        /\ pending' \in Seq(Entry) /\ pending'[Len(pending) + 1] = n
        /\ \A i \in 1..Len(pending) : pending'[i] = pending[i]
    BY <1>1, <1>2, AppendProperties
  <2> QED
    BY <1>1, <2>1, Numbers
<1>11. Types'
  <2>1. seen' \subseteq Controls
    BY <1>0, <1>1, Typed
  <2>2. GateTypes'
    BY <1>1, <1>4 DEF GateTypes, Held, Carrying
  <2> QED
    BY <1>0, <1>1, <1>10, <2>1, <2>2, Typed, TypesFrom
<1>12. ChatFits'
  BY <1>1, <1>5 DEF ChatFits
<1>13. JobFits'
  <2>1. \A c \in Controls : Remembered(c)' => c \in seen'
    <3> SUFFICES ASSUME NEW c \in Controls, Remembered(c)', c # k
                 PROVE  c \in seen
      BY <1>1
    <3>1. \/ c \in ToSet(handed) \cup {}
          \/ \E e \in scheduled : c \in Items(e)
          \/ \E i \in 1..Len(pending') : c \in Items(pending'[i])
      BY <1>1, <1>8 DEF Remembered
    <3>2. Remembered(c)
      BY <1>3, <1>10, <3>1 DEF Remembered
    <3> QED
      BY <1>4, <3>2 DEF IInv, JobFits
  <2> QED
    BY <1>1, <1>4, <1>5, <2>1, Numbers DEF IInv, JobFits, Held
<1>14. SwapFits'
  BY <1>1, <1>4 DEF IInv, SwapFits, Held, Carrying
<1> QED
  BY <1>7, <1>8, <1>9, <1>11, <1>12, <1>13, <1>14 DEF IInv, Books

\* A native control that is recorded keeps the invariant.
LEMMA ControlProposeKeeps ==
  ASSUME IInv, NEW k \in Controls, ControlPropose(k)
  PROVE  IInv'
<1>0. Types /\ Books /\ TypeOK /\ FateFits /\ IsInjective(handed)
  BY DEF IInv, Types, Books, FateFits
<1>1. /\ Steerable /\ k \notin seen /\ seen' = seen \cup {k}
      /\ control' \in Selection /\ control'.id = k
      /\ gate'.op = "control" /\ gate'.id = k /\ GateTypes'
      /\ UNCHANGED <<session, mode, provider, epoch, closed, active,
                     pending, emitter, generation, scheduled, turn, ended,
                     turns, handed, crossed, status, born, settled, stolen>>
  BY <1>0, ControlProposeEffect
<1>2. /\ gate.op = "free" /\ session = "job" /\ generation = 0 /\ active
      /\ turn # NoTurn /\ emitter # None /\ ~Held("send") /\ GateItems = {}
  BY <1>1 DEF Steerable, Free, Held, Carrying, GateItems
<1>3. ~Remembered(k) /\ status[1] # "new" /\ session # "chat"
  BY <1>1, <1>2 DEF IInv, JobFits
<1>4. generation \in Nat /\ generation <= generation
  BY <1>0, Typed
<1>5. FateFits'
  BY <1>0, <1>1, <1>4, FateStep
<1>6. /\ ~Held("send")' /\ ~Held("steering")' /\ ~Carrying' /\ Held("control")'
      /\ GateItems' = {k}
  BY <1>1 DEF Held, Carrying, GateItems
<1>7. GateFits'
  BY <1>1, <1>3, <1>6 DEF GateFits, Remembered
<1>8. QueueFits' /\ ScheduledFits'
  BY <1>0, <1>1, <1>4, BooksShrink, Elsewhere
<1>9. Apart'
  BY <1>1, <1>3, <1>6 DEF Apart, Remembered
<1>10. Types'
  <2>1. seen' \subseteq Controls
    BY <1>0, <1>1, Typed
  <2> QED
    BY <1>0, <1>1, <2>1, Typed, TypesFrom
<1>11. ChatFits'
  BY <1>1, <1>3 DEF ChatFits
<1>12. JobFits'
  <2>1. \A c \in Controls : Remembered(c)' => c \in seen'
    <3> SUFFICES ASSUME NEW c \in Controls, Remembered(c)', c # k
                 PROVE  c \in seen
      BY <1>1
    <3>1. Remembered(c)
      BY <1>1, <1>6 DEF Remembered
    <3> QED
      BY <1>2, <3>1 DEF IInv, JobFits
  <2> QED
    BY <1>1, <1>2, <1>3, <1>6, <2>1, Numbers DEF IInv, JobFits
<1>13. SwapFits'
  BY <1>1, <1>6 DEF IInv, SwapFits
<1> QED
  BY <1>5, <1>7, <1>8, <1>9, <1>10, <1>11, <1>12, <1>13 DEF IInv, Books

\* A native control that is delivered, or refused, keeps the invariant.
LEMMA ControlDeliverKeeps ==
  ASSUME IInv, ControlDeliver
  PROVE  IInv'
<1>0. Types /\ Books /\ TypeOK /\ FateFits /\ GateFits /\ IsInjective(handed)
  BY DEF IInv, Types, Books, FateFits
<1>1. /\ Held("control") /\ gate.id \in Controls
      /\ gate'.op = "free" /\ GateTypes' /\ control' \in Selection
      /\ seen' \subseteq Controls
      /\ UNCHANGED <<session, mode, provider, epoch, closed, active,
                     pending, emitter, generation, scheduled, turn, ended,
                     turns, crossed, status, born, settled, stolen>>
  BY <1>0, ControlDeliverEffect
<1>2. \/ handed' = Append(handed, gate.id) /\ seen' = seen
      \/ /\ handed' = handed
         /\ seen' = seen \ {gate.id} \/ seen' = seen
  BY <1>0, ControlDeliverEffect
<1>3. /\ ~Held("send") /\ ~Carrying /\ GateItems = {gate.id}
      /\ gate.op = "control"
  BY <1>1 DEF Held, Carrying, GateItems
<1>4. session = "job" /\ session # "chat" /\ generation = 0
  <2>1. session = "job" /\ session # "chat"
    BY <1>0, <1>1, Typed DEF IInv, ChatFits
  <2>2. ~(generation > 0) /\ generation \in Nat
    BY <1>0, <1>3, <2>1, Typed DEF IInv, JobFits
  <2> QED
    BY <2>1, <2>2
<1>5. status[1] # "new" /\ generation <= generation /\ generation \in Nat
  BY <1>0, <1>3, <1>4, Typed DEF IInv, JobFits
<1>6. /\ handed' \in Seq(Messages \cup Controls) /\ IsInjective(handed')
      /\ ToSet(handed) \subseteq ToSet(handed')
      /\ ToSet(handed') \subseteq ToSet(handed) \cup {gate.id}
  <2>1. handed \in Seq(Messages \cup Controls) /\ gate.id \in Messages \cup Controls
    BY <1>0, <1>1, Typed
  <2>2. CASE handed' = handed
    BY <1>0, <2>1, <2>2
  <2>3. CASE handed' = Append(handed, gate.id)
    <3>1. gate.id \notin ToSet(handed)
      BY <1>0, <1>1 DEF GateFits
    <3>2. handed' \in Seq(Messages \cup Controls)
      BY <2>1, <2>3
    <3> QED
      BY <1>0, <2>1, <2>3, <3>1, <3>2, ElementsOfAppend
  <2> QED
    BY <1>2, <2>2, <2>3
<1>7. FateFits'
  <2>1. \A m \in Messages : m # gate.id
    BY <1>1, Numbers
  <2> QED
    BY <1>0, <1>1, <1>5, <1>6, <2>1, FateStep
<1>8. GateFits' /\ GateItems' = {}
  BY <1>1, QuietGate
<1>9. QueueFits' /\ ScheduledFits' /\ Apart'
  BY <1>0, <1>1, <1>3, <1>5, <1>6, <1>8, BooksShrink, Elsewhere
<1>10. Types'
  BY <1>0, <1>1, <1>6, Typed, TypesFrom
<1>11. ChatFits'
  BY <1>1, <1>4 DEF ChatFits
<1>12. JobFits'
  <2>1. active => \A c \in Controls : Remembered(c)' => c \in seen'
    <3> SUFFICES ASSUME active, NEW c \in Controls, Remembered(c)'
                 PROVE  c \in seen'
      OBVIOUS
    <3>1. Remembered(c)
      BY <1>1, <1>3, <1>6, <1>8 DEF Remembered
    <3>2. c \in seen
      BY <1>4, <3>1 DEF IInv, JobFits
    <3>3. CASE handed' = handed /\ c = gate.id
      <4>1. /\ c \notin ToSet(handed)
            /\ \A e \in scheduled : c \notin Items(e)
            /\ \A i \in 1..Len(pending) : c \notin Items(pending[i])
        BY <1>0, <1>1, <1>3, <3>3 DEF GateFits, Books, Apart
      <4> QED
        BY <1>1, <1>8, <3>3, <4>1 DEF Remembered
    <3> QED
      BY <1>2, <3>2, <3>3
  <2>2. control'.id # NoControl => emitter' # None
    <3>1. control' = control \/ control.id = gate.id
      BY <1>0, ControlDeliverEffect
    <3>2. control'.id # NoControl => control.id # NoControl
      BY <1>1, <3>1, Numbers
    <3> QED
      BY <1>1, <1>4, <3>2 DEF IInv, JobFits
  <2> QED
    BY <1>1, <1>3, <1>4, <1>5, <2>1, <2>2, Numbers DEF IInv, JobFits, Held
<1>13. SwapFits'
  BY <1>1, <1>3 DEF IInv, SwapFits, Held, Carrying
<1> QED
  BY <1>7, <1>8, <1>9, <1>10, <1>11, <1>12, <1>13 DEF IInv, Books

\* Replacing, closing and recovering the provider keeps the invariant.
LEMMA HarnessKeeps ==
  ASSUME IInv, Reconfigure \/ Close \/ Replace \/ Recover
  PROVE  IInv'
<1>0. Types /\ Books /\ TypeOK /\ FateFits /\ GateFits /\ IsInjective(handed)
  BY DEF IInv, Types, Books, FateFits
<1>1. /\ mode' \in {"queue", "steer"} /\ epoch' \in Nat /\ closed' \in BOOLEAN
      /\ provider' \in {"up", "detached", "closing", "busy", "down"}
      /\ closed => closed'
      /\ turn' \in {turn, NoTurn} /\ GateTypes'
      /\ UNCHANGED <<session, gate, active, pending, emitter, control, seen,
                     generation, scheduled, turns, handed, crossed, status,
                     born, settled, stolen>>
  BY <1>0, HarnessEffect
<1>2. \/ turn' = turn /\ ended' = ended
      \/ /\ turn # NoTurn /\ turn' = NoTurn
         /\ \E x \in Ends : /\ ended' = ended \cup {x}
                            /\ x.by = "provider" /\ x.held = NoControl
  BY <1>0, HarnessEffect
<1>3. generation \in Nat /\ generation <= generation
  BY <1>0, Typed
<1>4. FateFits'
  BY <1>0, <1>1, <1>3, FateStep
<1>5. GateFits' /\ GateItems' = GateItems
  BY <1>0, <1>1, SameGate
<1>6. QueueFits' /\ ScheduledFits' /\ Apart'
  BY <1>0, <1>1, <1>3, <1>5, BooksShrink, Elsewhere
<1>7. /\ ended' \subseteq Ends
      /\ \A x \in ended' : x \in ended \/ x.held = NoControl
  BY <1>0, <1>2, Typed
<1>8. Types'
  <2>1. turn' \in Turns /\ (turn' # NoTurn => turn'.owner \in Messages)
    BY <1>0, <1>1, EmptyTyped, Typed
  <2> QED
    BY <1>0, <1>1, <1>3, <1>7, <2>1, Typed, TypesFrom
<1>9. ChatFits'
  BY <1>1, <1>7 DEF IInv, ChatFits, Held
<1>10. JobFits'
  <2>1. \A k \in Controls : Remembered(k)' <=> Remembered(k)
    BY <1>1, <1>5 DEF Remembered
  <2> QED
    BY <1>1, <1>2, <2>1 DEF IInv, JobFits, Held
<1>11. SwapFits'
  <2>1. /\ closed' => provider' # "up"
        /\ provider' = "detached" /\ ~closed' => ~active
    <3>1. CASE Reconfigure
      BY <3>1 DEF Reconfigure
    <3>2. CASE Close
      BY <3>2 DEF Close
    <3>3. CASE Replace
      BY <3>3 DEF Replace, IInv, SwapFits
    <3>4. CASE Recover
      BY <3>4 DEF Recover
    <3> QED
      BY <3>1, <3>2, <3>3, <3>4
  <2>2. Carrying' <=> Carrying
    BY <1>1 DEF Carrying, Held
  <2>3. turn'.live => turn' = turn /\ ended' = ended
    BY <1>2, EmptyTyped
  <2> QED
    BY <1>1, <2>1, <2>2, <2>3 DEF IInv, SwapFits
<1> QED
  BY <1>4, <1>5, <1>6, <1>8, <1>9, <1>10, <1>11 DEF IInv, Books

-----------------------------------------------------------------------------
(* The specification keeps it. *)

\* The key is idle at first.
LEMMA InitHolds == Init => IInv
<1> SUFFICES ASSUME Init PROVE IInv
  OBVIOUS
<1>1. /\ session \in {"chat", "job"} /\ mode \in {"queue", "steer"}
      /\ provider \in {"up", "busy"} /\ epoch = 1 /\ closed = FALSE
      /\ gate = Free /\ active = FALSE /\ pending = <<>> /\ emitter = None
      /\ control = Idle /\ seen = {} /\ generation = 0 /\ scheduled = {}
      /\ turn = NoTurn /\ ended = {} /\ turns = 0
      /\ status = [m \in Messages |-> "new"]
      /\ born = [m \in Messages |-> 0]
      /\ settled = [m \in Messages |-> 0]
      /\ handed = <<>> /\ crossed = FALSE /\ stolen = {}
  BY DEF Init
<1>2. gate.op = "free"
  BY <1>1 DEF Free
<1>3. /\ ~Held("send") /\ ~Held("steering") /\ ~Carrying /\ ~Held("control")
      /\ GateItems = {}
  BY <1>2 DEF Held, Carrying, GateItems
<1>4. TypeOK
  <2>1. <<>> \in Seq(Messages \cup Controls)
    OBVIOUS
  <2>2. /\ status \in [Messages -> Told] /\ born \in [Messages -> Nat]
        /\ settled \in [Messages -> Nat]
    BY <1>1 DEF Told
  <2>3. {epoch, generation, turns} \subseteq Nat
    BY <1>1
  <2>4. /\ {closed, active, crossed} \subseteq BOOLEAN
        /\ ended \subseteq Ends /\ scheduled \subseteq Entry
    BY <1>1
  <2>5. /\ pending \in Seq(Entry) /\ Len(pending) <= MaxPending
        /\ control \in Selection /\ turn \in Turns
        /\ emitter \in Messages \cup {None} /\ seen \subseteq Controls
    BY <1>1, EmptyTyped
  <2> QED
    BY <1>1, <1>2, <2>1, <2>2, <2>3, <2>4, <2>5
    DEF TypeOK, Selection, Turns, Ends, Told
<1>5. Types
  BY <1>1, <1>3, <1>4 DEF Types, GateTypes
<1>6. QueueFits /\ ScheduledFits /\ Apart
  BY <1>1 DEF QueueFits, ScheduledFits, Apart
<1>7. GateFits /\ FateFits
  <2>1. ToSet(handed) = {} /\ IsInjective(handed)
    BY <1>1, ElementsOfSmall
  <2>2. \A m \in Messages : status[m] = "new" /\ born[m] <= generation
    BY <1>1
  <2> QED
    BY <1>3, <2>1, <2>2 DEF GateFits, FateFits
<1>8. ChatFits
  BY <1>1, <1>2, <1>3 DEF ChatFits
<1>9. JobFits
  <2>1. \A m \in Messages : status[m] = "new"
    BY <1>1
  <2>2. generation > 0 <=> FALSE
    BY <1>1
  <2> QED
    BY <1>1, <1>2, <1>3, <2>1, <2>2, EmptyTyped DEF JobFits
<1>10. SwapFits
  BY <1>1, EmptyTyped DEF SwapFits
<1> QED
  BY <1>5, <1>6, <1>7, <1>8, <1>9, <1>10 DEF IInv, Books

\* Every step keeps the invariant.
LEMMA NextKeeps == IInv /\ [Next]_vars => IInv'
<1> SUFFICES ASSUME IInv, [Next]_vars PROVE IInv'
  OBVIOUS
<1>1. CASE Send
  <2>1. CASE \E m \in Messages, strict \in BOOLEAN : SendAdmit(m, strict)
    BY <2>1, SendAdmitKeeps
  <2>2. CASE SendSteer
    BY <2>2, SendSteerKeeps
  <2>3. CASE SteerReply
    BY <2>3, SteerReplyKeeps
  <2>4. CASE SendStart
    BY <2>4, SendStartKeeps
  <2>5. CASE SendRefused
    BY <2>5, SendRefusedKeeps
  <2> QED
    BY <1>1, <2>1, <2>2, <2>3, <2>4, <2>5 DEF Send
<1>2. CASE TurnEnds
  BY <1>2, TurnEndsKeeps
<1>3. CASE Emit
  BY <1>3, TerminalKeeps, ContinuationKeeps DEF Emit
<1>4. CASE StartQueued
  <2>1. CASE \E e \in scheduled : QueuedAcquire(e)
    <3>1. PICK e \in scheduled : QueuedAcquire(e)
      BY <2>1
    <3> QED
      BY <3>1, AcquireKeepsAll, AcquireCancelKeeps
  <2>2. CASE \E e \in scheduled : ContinuationRefused(e)
    BY <2>2, ContinuationRefusedKeeps
  <2>3. CASE QueuedPrepare
    BY <2>3, PrepareKeeps
  <2>4. CASE QueuedUnreserved
    BY <2>4, UnreservedKeeps
  <2>5. CASE QueuedClosed
    BY <2>5, ClosedKeeps
  <2>6. CASE QueuedSend
    BY <2>6, QueuedSendKeeps
  <2> QED
    BY <1>4, <2>1, <2>2, <2>3, <2>4, <2>5, <2>6 DEF StartQueued
<1>5. CASE Interrupt
  BY <1>5, FenceKeeps, InterruptKeeps DEF Interrupt
<1>6. CASE SendControl
  BY <1>6, ControlQueueKeeps, ControlProposeKeeps, ControlDeliverKeeps
  DEF SendControl
<1>7. CASE Reconfigure \/ Close \/ Replace \/ Recover
  BY <1>7, HarnessKeeps
<1>8. CASE UNCHANGED vars
  <2>1. UNCHANGED <<session, mode, provider, epoch, closed, gate, active,
                    pending, emitter, control, seen, generation, scheduled,
                    turn, ended, turns, handed, crossed, status, born,
                    settled, stolen>>
    BY <1>8 DEF vars, harness, admission, adapter, senders
  <2>2. Types'
    <3>1. Types
      BY DEF IInv
    <3>2. GateTypes'
      BY <2>1, <3>1 DEF Types, GateTypes, Held, Carrying
    <3> QED
      BY <2>1, <3>1, <3>2, Typed, TypesFrom
  <2>3. FateFits'
    BY <2>1 DEF IInv, Books, FateFits
  <2>4. QueueFits' /\ ScheduledFits'
    <3>1. \A e : /\ EntryFits(e)' <=> EntryFits(e)
                 /\ QueuedFits(e)' <=> QueuedFits(e)
      BY <2>1 DEF EntryFits, QueuedFits, Fresh
    <3>2. \A i \in 1..Len(pending) : QueuedFits(pending[i])'
      BY <2>1, <3>1 DEF IInv, Books, QueueFits
    <3> QED
      BY <2>1, <3>1, <3>2 DEF IInv, Books, QueueFits, ScheduledFits
  <2>5. GateFits' /\ GateItems' = GateItems
    BY <2>1, SameGate DEF IInv, Books
  <2>6. Apart'
    BY <2>1, <2>5 DEF IInv, Books, Apart, Items
  <2>7. ChatFits' /\ SwapFits'
    BY <2>1 DEF IInv, ChatFits, SwapFits, Held, Carrying
  <2>8. JobFits'
    <3>1. \A k \in Controls : Remembered(k)' <=> Remembered(k)
      BY <2>1, <2>5 DEF Remembered, Items
    <3> QED
      BY <2>1, <3>1 DEF IInv, JobFits, Held
  <2> QED
    BY <2>2, <2>3, <2>4, <2>5, <2>6, <2>7, <2>8 DEF IInv, Books
<1> QED
  BY <1>1, <1>2, <1>3, <1>4, <1>5, <1>6, <1>7, <1>8 DEF Next

\* The invariant holds whatever the interleaving.
THEOREM SupervisorInvariant == Spec => []IInv
<1>1. Init => IInv
  BY InitHolds
<1>2. IInv /\ [Next]_vars => IInv'
  BY NextKeeps
<1> QED
  BY <1>1, <1>2, PTL DEF Spec

\* Types, and that the queue of a job never grows past maxPendingControls.
THEOREM SupervisorTypeOK == Spec => []TypeOK
<1>1. IInv => TypeOK
  BY DEF IInv, Types
<1> QED
  BY <1>1, SupervisorInvariant, PTL

\* The provider is taken away only when it runs no turn, as long as no turn
\* overtook the end of another.
THEOREM SupervisorSwapsIdle == Spec => []SwapsIdle
<1>1. IInv => SwapsIdle
  BY DEF IInv, SwapFits, SwapsIdle, OnlyIdleIsSwapped
<1> QED
  BY <1>1, SupervisorInvariant, PTL

-----------------------------------------------------------------------------
(* Nothing is forgotten. *)

\* The error of a start that failed goes through the wrapper while its goroutine
\* holds the gate; there is one of them at most.
StartFits ==
  \A x \in ended : x.by = "start" =>
    Held("failing") /\ \A y \in ended : y.by = "start" => x = y

\* Only a holder of the gate that fails to start adds such an end.
LEMMA StartFrame ==
  ASSUME StartFits, gate' = gate \/ ~Held("failing"),
         \A x \in ended' : x \in ended \/ x.by = "provider"
  PROVE  StartFits'
<1>1. CASE gate' = gate
  BY <1>1 DEF StartFits, Held
<1>2. CASE ~Held("failing")
  BY <1>2 DEF StartFits
<1> QED
  BY <1>1, <1>2

\* Every step keeps that.
LEMMA StartStep ==
  ASSUME IInv, [Next]_vars, StartFits
  PROVE  StartFits'
<1>0. /\ Types /\ Books /\ TypeOK /\ GateTypes
  BY DEF IInv, Types
<1>1. CASE \E n \in Messages, strict \in BOOLEAN : SendAdmit(n, strict)
  <2>1. gate.op = "free" /\ ended' = ended
    BY <1>0, <1>1, SendAdmitFrame, SendAdmitOutcome
  <2> QED
    BY <2>1, StartFrame DEF Held
<1>2. CASE SendSteer \/ SendStart \/ SendRefused
  <2>1. Held("send") /\ ended' = ended
    BY <1>0, <1>2, SendSteerEffect, SendStartEffect, SendRefusedEffect
  <2> QED
    BY <2>1, StartFrame DEF Held
<1>3. CASE SteerReply
  <2>1. Held("steering") /\ ended' = ended
    BY <1>0, <1>3, SteerReplyEffect
  <2> QED
    BY <2>1, StartFrame DEF Held
<1>4. CASE TurnEnds
  BY <1>0, <1>4, TurnEndsEffect, StartFrame
<1>5. CASE Emit
  <2>1. PICK e \in ended : TerminalEvent(e) \/ Continuation(e)
    BY <1>5 DEF Emit
  <2>2. CASE gate' = gate /\ ended' = ended \ {e}
    BY <2>2, StartFrame
  <2>3. CASE e.by = "start" /\ ended' = ended \ {e}
    BY <2>3 DEF StartFits
  <2>4. CASE /\ gate' = gate
             /\ \E h \in Ends : ended' = (ended \ {e}) \cup {h} /\ h.by = e.by
    BY <2>4 DEF StartFits, Held
  <2>5. /\ gate' = gate \/ e.by = "start"
        /\ \/ ended' = ended \ {e}
           \/ /\ gate' = gate
              /\ \E h \in Ends : ended' = (ended \ {e}) \cup {h} /\ h.by = e.by
    BY <2>1, TerminalEffect, ContinuationEffect
  <2> QED
    BY <2>2, <2>3, <2>4, <2>5
<1>6. CASE \E e \in scheduled : QueuedAcquire(e) \/ ContinuationRefused(e)
  <2>1. PICK e \in scheduled : QueuedAcquire(e) \/ ContinuationRefused(e)
    BY <1>6
  <2>2. ended' = ended /\ (gate' = gate \/ gate.op = "free")
    BY <2>1 DEF QueuedAcquire, ContinuationRefused, adapter, Free
  <2> QED
    BY <2>2, StartFrame DEF Held
<1>7. CASE QueuedPrepare \/ QueuedUnreserved
  <2>1. (Held("queued") \/ Held("ready")) /\ ended' = ended
    BY <1>7, PrepareEffect, UnreservedEffect
  <2> QED
    BY <2>1, StartFrame DEF Held
<1>8. CASE QueuedClosed \/ QueuedSend
  <2>1. Held("ready") /\ \A x \in ended : x.by # "start"
    BY <1>8, ClosedEffect, QueuedSendEffect DEF StartFits, Held
  <2>2. \/ ended' = ended
        \/ /\ gate'.op = "failing"
           /\ \E x \in Ends : ended' = ended \cup {x}
    BY <1>8, ClosedEffect, QueuedSendEffect
  <2> QED
    BY <2>1, <2>2 DEF StartFits, Held
<1>9. CASE Interrupt
  <2>1. ended' = ended /\ gate.op \in {"free", "interrupt", "stopping"}
    BY <1>0, <1>9, FenceEffect, InterruptEffect DEF Interrupt
  <2> QED
    BY <2>1, StartFrame DEF Held
<1>10. CASE SendControl
  <2>1. ended' = ended /\ (gate' = gate \/ ~Held("failing"))
    <3>1. CASE \E k \in Controls : ControlQueue(k)
      BY <1>0, <3>1, ControlQueueEffect
    <3>2. CASE \E k \in Controls : ControlPropose(k)
      BY <1>0, <3>2, ControlProposeEffect DEF Steerable, Free, Held
    <3>3. CASE ControlDeliver
      BY <1>0, <3>3, ControlDeliverEffect DEF Held
    <3> QED
      BY <1>10, <3>1, <3>2, <3>3 DEF SendControl
  <2> QED
    BY <2>1, StartFrame
<1>11. CASE Reconfigure \/ Close \/ Replace \/ Recover
  BY <1>0, <1>11, HarnessEffect, StartFrame
<1>12. CASE UNCHANGED vars
  BY <1>12 DEF vars, adapter, StartFits, Held
<1> QED
  BY <1>1, <1>2, <1>3, <1>4, <1>5, <1>6, <1>7, <1>8, <1>9, <1>10, <1>11, <1>12
  DEF Next, Send, StartQueued

\* Where an accepted message may be.
Kept(m) ==
  \/ m \in InHand
  \/ \E e \in scheduled : m \in ToSet(e.messages)
  \/ \E i \in 1..Len(pending) : m \in ToSet(pending[i].messages)

\* A message that waits, and no step settles or hands over, stays where it is.
LEMMA KeptStays ==
  ASSUME IInv, NEW m \in Messages, Kept(m),
         m \in InHand => m \in InHand',
         \A e \in scheduled : m \in ToSet(e.messages) => e \in scheduled',
         pending' = pending
           \/ \A i \in 1..Len(pending) : m \notin ToSet(pending[i].messages)
  PROVE  Kept(m)'
  BY DEF Kept

\* The queue of a job has no messages.
LEMMA JobQueue ==
  ASSUME IInv, session # "chat", NEW i \in 1..Len(pending)
  PROVE  pending[i].messages = <<>> /\ ToSet(pending[i].messages) = {}
<1>1. pending[i].messages = <<>>
  BY DEF IInv, Books, QueueFits, QueuedFits
<1> QED
  BY <1>1, ElementsOfSmall

\* Holders of the gate whose message is not in their hand have none.
LEMMA HandOpen ==
  /\ Held("send") => InHand = {gate.message}
  /\ Carrying => InHand = ToSet(gate.entry.messages)
  /\ gate.op \notin {"send", "queued", "ready"} => InHand = {}
  /\ Held("send")' => InHand' = {gate'.message}
  /\ Carrying' => InHand' = ToSet(gate'.entry.messages)
  BY DEF InHand, Held, Carrying

\* No step forgets a message that waits.
LEMMA WaitStep ==
  ASSUME IInv, StartFits, [Next]_vars, NEW m \in Messages,
         Fresh(m) => Kept(m), Fresh(m)'
  PROVE  Kept(m)'
<1>0. /\ Types /\ Books /\ TypeOK /\ QueueFits /\ ScheduledFits /\ FateFits
      /\ status'[m] = "accepted" /\ m \notin ToSet(handed')
  BY DEF IInv, Types, Books, Fresh
<1>1. ASSUME status[m] = "accepted", ToSet(handed) \subseteq ToSet(handed')
      PROVE  Kept(m)
  BY <1>0, <1>1 DEF Fresh
<1>2. CASE \E n \in Messages, strict \in BOOLEAN : SendAdmit(n, strict)
  <2>1. PICK n \in Messages, strict \in BOOLEAN : SendAdmit(n, strict)
    BY <1>2
  <2>2. /\ gate.op = "free" /\ scheduled' = scheduled /\ handed' = handed
        /\ \A o \in Messages : o # n => status'[o] = status[o]
    BY <1>0, <2>1, SendAdmitFrame
  <2>3. \/ /\ status'[n] = "turned away" /\ UNCHANGED <<gate, pending>>
        \/ /\ status'[n] = "accepted" /\ gate' = gate
           /\ pending' = Append(pending, Queued(n))
        \/ /\ status'[n] = "accepted" /\ gate'.op = "send" /\ gate'.message = n
           /\ pending' = pending
    BY <1>0, <2>1, SendAdmitOutcome
  <2>4. InHand = {}
    BY <2>2, HandOpen
  <2>5. CASE m # n
    <3>1. Kept(m)
      BY <1>1, <1>0, <2>2, <2>5
    <3>2. CASE pending' = pending
      BY <2>2, <2>4, <3>1, <3>2, KeptStays
    <3>3. CASE pending' = Append(pending, Queued(n))
      <4>1. /\ Len(pending) \in Nat /\ Len(pending') = Len(pending) + 1
            /\ \A i \in 1..Len(pending) : pending'[i] = pending[i]
        BY <1>0, <3>3, Typed, QueuedTypes, AppendProperties
      <4> QED
        BY <2>2, <2>4, <3>1, <4>1 DEF Kept
    <3> QED
      BY <2>3, <3>2, <3>3
  <2>6. CASE m = n
    <3>1. CASE gate'.op = "send" /\ gate'.message = n
      BY <2>6, <3>1, HandOpen DEF Kept, Held
    <3>2. CASE pending' = Append(pending, Queued(n))
      <4>1. /\ Len(pending) \in Nat /\ Len(pending') = Len(pending) + 1
            /\ pending'[Len(pending) + 1] = Queued(n)
        BY <1>0, <3>2, Typed, QueuedTypes, AppendProperties
      <4>2. m \in ToSet(Queued(n).messages)
        <5>1. Queued(n).messages = <<m>>
          BY <2>6, QueuedTypes
        <5> QED
          BY <5>1, ElementsOfSmall
      <4>3. Len(pending) + 1 \in 1..Len(pending')
        BY <4>1
      <4> QED
        BY <4>1, <4>2, <4>3 DEF Kept
    <3> QED
      BY <1>0, <2>3, <2>6, <3>1, <3>2
  <2> QED
    BY <2>5, <2>6
<1>3. CASE SendSteer \/ SendStart \/ SendRefused
  <2>1. /\ Held("send") /\ gate.message \in Messages
        /\ \A o \in Messages : o # gate.message => status'[o] = status[o]
        /\ UNCHANGED <<pending, scheduled>>
    BY <1>0, <1>3, SendSteerEffect, SendStartEffect, SendRefusedEffect
  <2>2. \/ handed' = Append(handed, gate.message)
        \/ handed' = handed /\ status'[gate.message] = "refused"
    BY <1>0, <1>3, SendSteerEffect, SendStartEffect, SendRefusedEffect
  <2>3. ToSet(Append(handed, gate.message)) = ToSet(handed) \cup {gate.message}
    <3>1. /\ handed \in Seq(Messages \cup Controls)
          /\ gate.message \in Messages \cup Controls
      BY <1>0, <2>1, Typed
    <3> QED
      BY <3>1, ElementsOfAppend
  <2>4. m # gate.message /\ ToSet(handed) \subseteq ToSet(handed')
    BY <1>0, <2>2, <2>3
  <2>5. Kept(m) /\ m \notin InHand
    BY <1>0, <1>1, <2>1, <2>4, HandOpen
  <2> QED
    BY <2>1, <2>5, KeptStays
<1>4. CASE SteerReply
  <2>1. /\ Held("steering") /\ gate.message \in Messages
        /\ \A o \in Messages : o # gate.message => status'[o] = status[o]
        /\ UNCHANGED <<pending, scheduled, handed>>
        /\ gate.message \in ToSet(handed)
    BY <1>0, <1>4, SteerReplyEffect DEF Books, GateFits
  <2>2. Kept(m) /\ m \notin InHand
    BY <1>0, <1>1, <2>1, HandOpen DEF Held
  <2> QED
    BY <2>1, <2>2, KeptStays
<1>5. CASE TurnEnds
  <2>1. UNCHANGED <<gate, pending, scheduled, handed, status>>
    BY <1>0, <1>5, TurnEndsEffect
  <2>2. Kept(m) /\ InHand' = InHand
    BY <1>0, <1>1, <2>1 DEF InHand, Held
  <2> QED
    BY <2>1, <2>2, KeptStays
<1>6. CASE \E e \in ended : TerminalEvent(e)
  <2>1. PICK e \in ended : TerminalEvent(e)
    BY <1>6
  <2>2. /\ handed' = handed /\ status' = status /\ session' = session
        /\ scheduled \subseteq scheduled' /\ InHand' = InHand
    <3>1. /\ handed' = handed /\ status' = status /\ session' = session
          /\ gate' = gate \/ (e.by = "start" /\ gate'.op = "free")
      BY <2>1, TerminalEffect
    <3>2. scheduled \subseteq scheduled'
      BY <2>1, TerminalEffect DEF TakeNext
    <3>3. e.by = "start" => gate.op = "failing"
      BY DEF StartFits, Held
    <3> QED
      BY <3>1, <3>2, <3>3 DEF InHand, Held
  <2>3. Kept(m)
    BY <1>0, <1>1, <2>2
  <2>4. CASE pending' = pending
    BY <2>2, <2>3, <2>4, KeptStays
  <2>5. CASE TakeNext(e)
    <3>1. CASE session = "chat"
      <4>1. PICK n \in Entry : /\ scheduled' = scheduled \cup {n}
                               /\ n.messages = Owners(pending, Len(pending))
        BY <1>0, <2>5, <3>1, TakeNextEffect
      <4>2. ASSUME NEW i \in 1..Len(pending), m \in ToSet(pending[i].messages)
            PROVE  m \in ToSet(n.messages)
        <5>1. ToSet(pending[i].messages) = {pending[i].owner}
          BY <1>0, <3>1, ElementsOfSmall, Elsewhere
        <5>2. pending \in Seq(Entry) /\ Len(pending) \in 0..Len(pending)
          BY <1>0, Typed
        <5> QED
          BY <4>1, <4>2, <5>1, <5>2, OwnersOf
      <4> QED
        BY <2>2, <2>3, <4>1, <4>2 DEF Kept
    <3>2. CASE session # "chat"
      BY <2>2, <2>3, <3>2, JobQueue, KeptStays
    <3> QED
      BY <3>1, <3>2
  <2> QED
    BY <2>1, <2>4, <2>5, TerminalEffect
<1>7. CASE \E e \in ended : Continuation(e)
  <2>1. PICK e \in ended : Continuation(e)
    BY <1>7
  <2>2. /\ handed' = handed /\ status' = status /\ pending' = pending
        /\ scheduled \subseteq scheduled'
        /\ gate' = gate \/ (e.by = "start" /\ gate'.op = "free")
    BY <2>1, ContinuationEffect
  <2>3. e.by = "start" => gate.op = "failing"
    BY DEF StartFits, Held
  <2>4. Kept(m) /\ InHand' = InHand
    BY <1>0, <1>1, <2>2, <2>3 DEF InHand, Held
  <2> QED
    BY <2>2, <2>4, KeptStays
<1>8. CASE \E e \in scheduled : ContinuationRefused(e)
  <2>1. PICK e \in scheduled : ContinuationRefused(e)
    BY <1>8
  <2>2. /\ handed' = handed /\ status' = status /\ gate' = gate
        /\ scheduled' = scheduled \ {e} /\ session # "chat"
        /\ e.control # NoControl
    BY <2>1, ContinuationRefusedEffect
  <2>3. m \notin ToSet(e.messages)
    BY <1>0, <2>2, ElementsOfSmall DEF ScheduledFits, EntryFits
  <2>4. Kept(m) /\ InHand' = InHand
    BY <1>0, <1>1, <2>2 DEF InHand, Held
  <2> QED
    BY <2>2, <2>3, <2>4, JobQueue, KeptStays
<1>9. CASE \E e \in scheduled : QueuedAcquire(e) /\ ~Valid(e)
  <2>1. PICK e \in scheduled : QueuedAcquire(e) /\ ~Valid(e)
    BY <1>9
  <2>2. /\ UNCHANGED <<gate, pending, handed>>
        /\ scheduled' = scheduled \ {e}
        /\ \A o \in Messages : status'[o] = IF o \in ToSet(e.messages)
                                            THEN "cancelled" ELSE status[o]
    BY <2>1, AcquireCancels
  <2>3. m \notin ToSet(e.messages)
    BY <1>0, <2>2
  <2>4. Kept(m) /\ InHand' = InHand
    BY <1>0, <1>1, <2>2, <2>3 DEF InHand, Held
  <2> QED
    BY <2>2, <2>3, <2>4, KeptStays
<1>10. CASE \E e \in scheduled : QueuedAcquire(e) /\ Valid(e)
  <2>1. PICK e \in scheduled : QueuedAcquire(e) /\ Valid(e)
    BY <1>10
  <2>2. /\ handed' = handed /\ status' = status /\ gate.op = "free"
        /\ scheduled' = scheduled \ {e} /\ gate'.op = "queued"
    BY <2>1, AcquireKeeps
  <2>3. Kept(m) /\ InHand = {} /\ InHand' = ToSet(gate'.entry.messages)
    BY <1>0, <1>1, <2>2, HandOpen DEF Held, Carrying
  <2>4. CASE session = "chat"
    <3>1. /\ gate'.entry.messages = e.messages \o Owners(pending, Len(pending))
          /\ e \in Entry
      BY <1>0, <2>1, <2>4, AcquireEffect
    <3>2. pending \in Seq(Entry) /\ Len(pending) \in 0..Len(pending)
      BY <1>0, Typed
    <3>3. e.messages \in Seq(Messages)
      BY <3>1 DEF Entry
    <3>4. Owners(pending, Len(pending)) \in Seq(Messages)
      BY <3>2, OwnersOf
    <3>5. InHand' = ToSet(e.messages) \cup ToSet(Owners(pending, Len(pending)))
      BY <2>3, <3>1, <3>3, <3>4, ElementsOfConcat
    <3>6. ASSUME NEW i \in 1..Len(pending), m \in ToSet(pending[i].messages)
          PROVE  m \in InHand'
      <4>1. ToSet(pending[i].messages) = {pending[i].owner}
        BY <1>0, <2>4, ElementsOfSmall, Elsewhere
      <4> QED
        BY <3>2, <3>5, <3>6, <4>1, OwnersOf
    <3> QED
      BY <2>2, <2>3, <3>5, <3>6 DEF Kept
  <2>5. CASE session # "chat"
    <3>1. gate'.entry.messages = e.messages /\ pending' = pending
      BY <1>0, <2>1, <2>5, AcquireEffect
    <3> QED
      BY <2>2, <2>3, <3>1 DEF Kept
  <2> QED
    BY <2>4, <2>5
<1>11. CASE QueuedPrepare
  <2>1. /\ Held("queued") /\ handed' = handed /\ scheduled' = scheduled
        /\ EntryFits(gate.entry) /\ session' = session
    BY <1>11, PrepareEffect
  <2>2. \/ /\ gate.entry.control # NoControl /\ status' = status
        \/ /\ pending' = pending
           /\ \A o \in Messages :
                status'[o] = IF o \in ToSet(gate.entry.messages)
                             THEN "cancelled" ELSE status[o]
        \/ /\ gate'.op = "ready" /\ gate'.entry = gate.entry
           /\ UNCHANGED <<pending, status>>
    BY <1>11, PrepareEffect
  <2>3. Kept(m) /\ InHand = ToSet(gate.entry.messages)
    <3>1. status[m] = "accepted"
      BY <1>0, <2>2
    <3> QED
      BY <1>1, <2>1, <3>1, HandOpen DEF Carrying
  <2>4. CASE gate.entry.control # NoControl /\ status' = status
    <3>1. session # "chat" /\ ToSet(gate.entry.messages) = {}
      BY <2>1, <2>4, ElementsOfSmall DEF EntryFits
    <3> QED
      BY <2>1, <2>3, <3>1, JobQueue, KeptStays
  <2>5. CASE /\ pending' = pending
             /\ \A o \in Messages :
                  status'[o] = IF o \in ToSet(gate.entry.messages)
                               THEN "cancelled" ELSE status[o]
    <3>1. m \notin InHand
      BY <1>0, <2>3, <2>5
    <3> QED
      BY <2>1, <2>3, <2>5, <3>1, KeptStays
  <2>6. CASE /\ gate'.op = "ready" /\ gate'.entry = gate.entry
             /\ UNCHANGED <<pending, status>>
    <3>1. InHand' = ToSet(gate.entry.messages)
      BY <2>6, HandOpen DEF Carrying, Held
    <3> QED
      BY <2>1, <2>3, <2>6, <3>1, KeptStays
  <2> QED
    BY <2>2, <2>4, <2>5, <2>6
<1>12. CASE QueuedUnreserved \/ QueuedClosed \/ QueuedSend
  <2>1. /\ Held("ready") /\ scheduled' = scheduled /\ EntryFits(gate.entry)
        /\ gate.entry \in Entry
        /\ pending' = pending \/ session = "chat"
    BY <1>12, UnreservedEffect, ClosedEffect, QueuedSendEffect
  <2>2. \/ /\ handed' = handed
           /\ \A o \in Messages :
                IF o \in ToSet(gate.entry.messages)
                THEN status'[o] \in {"dropped", "lost"}
                ELSE status'[o] = status[o]
        \/ /\ status' = status
           /\ ToSet(handed') = ToSet(handed) \cup Items(gate.entry)
    BY <1>12, UnreservedEffect, ClosedEffect, QueuedSendEffect
  <2>3. m \notin ToSet(gate.entry.messages)
    <3>1. ToSet(gate.entry.messages) \subseteq Items(gate.entry)
      BY <2>1, ElementsOfSmall DEF EntryFits, Items
    <3> QED
      BY <1>0, <2>2, <3>1
  <2>4. Kept(m) /\ m \notin InHand
    BY <1>0, <1>1, <2>1, <2>2, <2>3, HandOpen DEF Carrying
  <2>5. session = "chat" => pending = <<>>
    BY <2>1 DEF IInv, ChatFits, Held
  <2>6. \/ pending' = pending
        \/ \A i \in 1..Len(pending) : m \notin ToSet(pending[i].messages)
    BY <2>1, <2>5
  <2> QED
    BY <2>1, <2>4, <2>6, KeptStays
<1>13. CASE InterruptFence
  <2>1. /\ gate.op = "free" /\ scheduled' = scheduled /\ handed' = handed
        /\ \A o \in Messages :
             status'[o] = IF \E i \in 1..Len(pending) :
                               o \in ToSet(pending[i].messages)
                          THEN "cancelled" ELSE status[o]
    BY <1>0, <1>13, FenceEffect
  <2>2. \A i \in 1..Len(pending) : m \notin ToSet(pending[i].messages)
    BY <1>0, <2>1
  <2>3. Kept(m) /\ m \notin InHand
    BY <1>0, <1>1, <2>1, <2>2, HandOpen
  <2> QED
    BY <2>1, <2>2, <2>3, KeptStays
<1>14. CASE \/ InterruptIdle \/ InterruptSignal \/ InterruptReturn
            \/ \E k \in Controls : ControlPropose(k)
            \/ ControlDeliver
  <2>1. /\ gate.op \notin {"send", "queued", "ready"}
        /\ ToSet(handed) \subseteq ToSet(handed')
        /\ UNCHANGED <<scheduled, pending, status>>
    <3>1. CASE InterruptIdle \/ InterruptSignal \/ InterruptReturn
      BY <1>0, <3>1, InterruptEffect
    <3>2. CASE \E k \in Controls : ControlPropose(k)
      BY <1>0, <3>2, ControlProposeEffect DEF Steerable, Free
    <3>3. CASE ControlDeliver
      <4>1. /\ gate.op = "control" /\ gate.id \in Controls
            /\ handed' = Append(handed, gate.id) \/ handed' = handed
            /\ UNCHANGED <<scheduled, pending, status>>
        BY <1>0, <3>3, ControlDeliverEffect DEF Held
      <4>2. ToSet(Append(handed, gate.id)) = ToSet(handed) \cup {gate.id}
        <5>1. handed \in Seq(Messages \cup Controls)
          BY <1>0, Typed
        <5>2. gate.id \in Messages \cup Controls
          BY <4>1
        <5> QED
          BY <5>1, <5>2, ElementsOfAppend
      <4> QED
        BY <4>1, <4>2
    <3> QED
      BY <1>14, <3>1, <3>2, <3>3
  <2>2. Kept(m) /\ m \notin InHand
    BY <1>0, <1>1, <2>1, HandOpen
  <2> QED
    BY <2>1, <2>2, KeptStays
<1>15. CASE \E k \in Controls : ControlQueue(k)
  <2>1. PICK k \in Controls : ControlQueue(k)
    BY <1>15
  <2>2. PICK n \in Entry : pending' = Append(pending, n)
    BY <1>0, <2>1, ControlQueueEffect, QueuedTypes
  <2>3. UNCHANGED <<gate, scheduled, handed, status>>
    BY <1>0, <2>1, ControlQueueEffect
  <2>4. /\ Len(pending) \in Nat /\ Len(pending') = Len(pending) + 1
        /\ \A i \in 1..Len(pending) : pending'[i] = pending[i]
    BY <1>0, <2>2, Typed, AppendProperties
  <2>5. Kept(m) /\ InHand' = InHand
    BY <1>0, <1>1, <2>3 DEF InHand, Held
  <2> QED
    BY <2>3, <2>4, <2>5 DEF Kept
<1>16. CASE \/ Reconfigure \/ Close \/ Replace \/ Recover
            \/ UNCHANGED vars
  <2>1. UNCHANGED <<gate, scheduled, pending, handed, status>>
    <3>1. CASE Reconfigure \/ Close \/ Replace \/ Recover
      BY <1>0, <3>1, HarnessEffect
    <3>2. CASE UNCHANGED vars
      BY <3>2 DEF vars, admission, adapter, senders
    <3> QED
      BY <1>16, <3>1, <3>2
  <2>2. Kept(m) /\ InHand' = InHand
    BY <1>0, <1>1, <2>1 DEF InHand, Held
  <2> QED
    BY <2>1, <2>2, KeptStays
<1> QED
  BY <1>2, <1>3, <1>4, <1>5, <1>6, <1>7, <1>8, <1>9, <1>10, <1>11, <1>12, <1>13,
     <1>14, <1>15, <1>16
  DEF Next, Send, Emit, StartQueued, Interrupt, SendControl

\* A batch of a conversation has its owner, and can tell it; one that absorbed
\* more at the gate cannot, but has another message then.
Telling(e) ==
  /\ e.owner \in ToSet(e.messages)
  /\ e.terminal \/ \E m, n \in ToSet(e.messages) : m # n

BatchFits ==
  session = "chat" =>
    /\ \A e \in scheduled : e.terminal /\ e.owner \in ToSet(e.messages)
    /\ Carrying => Telling(gate.entry)

\* Whatever is lost is lost with another message; whatever waits is kept.
LostFits == \A m \in Messages : status[m] = "lost" => LostInBatch(m)

WaitFits == \A m \in Messages : Fresh(m) => Kept(m)

\* The owner of a merged entry is the newest of it.
LEMMA MergedOwner ==
  ASSUME NEW first \in Entry, NEW q \in Seq(Entry), first.control = NoControl,
         \A i \in 1..Len(q) : q[i].control = NoControl
  PROVE  /\ Len(q) = 0 => Merged(first, q) = first
         /\ Len(q) # 0 => Merged(first, q).owner = q[Len(q)].owner
<1>1. Joining(first, q) = Len(q)
  BY OrdinaryIsAll DEF Joining
<1>2. Len(q) = 0 => Merged(first, q) = first
  BY <1>1 DEF Merged
<1>3. ASSUME Len(q) # 0 PROVE Merged(first, q).owner = q[Len(q)].owner
  <2>1. q[Len(q)] \in Entry
    <3>1. Len(q) \in 1..Len(q)
      BY <1>3
    <3> QED
      BY <3>1
  <2> DEFINE w == first.messages \o Owners(q, Len(q))
  <2>2. Merged(first, q) = [q[Len(q)] EXCEPT !.messages = w]
    BY <1>1, <1>3 DEF Merged
  <2> HIDE DEF w
  <2> QED
    BY <2>1, <2>2 DEF Entry
<1> QED
  BY <1>2, <1>3

\* A batch that leaves the queue at the end of a turn has its owner, and the
\* end of that turn.
LEMMA TakeNextTells ==
  ASSUME IInv, session = "chat", NEW e, TakeNext(e)
  PROVE  \E n \in Entry : /\ scheduled' = scheduled \cup {n}
                          /\ n.terminal /\ n.owner \in ToSet(n.messages)
<1> DEFINE q == pending
           g == Merged(Head(q), Tail(q))
           n == [g EXCEPT !.generation = generation, !.terminal = TRUE,
                          !.epoch = epoch]
<1>1. /\ q # <<>> /\ q \in Seq(Entry) /\ Len(q) \in Nat \ {0}
      /\ scheduled' = scheduled \cup {n}
      /\ generation \in Nat /\ epoch \in Nat
  <2>1. TypeOK /\ q # <<>>
    BY DEF IInv, Types, TakeNext
  <2> QED
    BY <2>1, TypeParts, EmptySeq DEF TakeNext
<1>2. \A i \in 1..Len(q) : /\ q[i].control = NoControl
                           /\ q[i].messages = <<q[i].owner>>
  BY DEF IInv, Books, QueueFits, QueuedFits
<1>3. /\ g \in Entry /\ g.messages = Owners(q, Len(q))
  BY <1>1, <1>2, MergedQueue
<1>4. /\ Head(q) \in Entry /\ Tail(q) \in Seq(Entry) /\ Head(q) = q[1]
      /\ Len(Tail(q)) = Len(q) - 1
      /\ \A i \in 1..Len(Tail(q)) : Tail(q)[i] = q[i + 1]
  BY <1>1, HeadTailProperties, EmptySeq
<1>5. \E i \in 1..Len(q) : g.owner = q[i].owner
  <2>1. /\ Head(q).control = NoControl
        /\ \A i \in 1..Len(Tail(q)) : Tail(q)[i].control = NoControl
    BY <1>1, <1>2, <1>4
  <2>2. /\ Len(Tail(q)) = 0 => g = Head(q)
        /\ Len(Tail(q)) # 0 => g.owner = Tail(q)[Len(Tail(q))].owner
    BY <1>4, <2>1, MergedOwner
  <2>3. CASE Len(q) = 1
    <3>1. g = q[1] /\ 1 \in 1..Len(q)
      BY <1>1, <1>4, <2>2, <2>3
    <3> QED
      BY <3>1
  <2>4. CASE Len(q) # 1
    <3>1. /\ Len(Tail(q)) # 0 /\ Len(Tail(q)) \in 1..Len(Tail(q))
          /\ Tail(q)[Len(Tail(q))] = q[Len(q)] /\ Len(q) \in 1..Len(q)
      BY <1>1, <1>4, <2>4
    <3> QED
      BY <2>2, <3>1
  <2> QED
    BY <2>3, <2>4
<1>6. g.owner \in ToSet(g.messages)
  <2>1. Len(q) \in 0..Len(q)
    BY <1>1
  <2>2. \A m : m \in ToSet(Owners(q, Len(q)))
                 <=> \E i \in 1..Len(q) : q[i].owner = m
    BY <1>1, <2>1, OwnersOf
  <2> HIDE DEF g
  <2> QED
    BY <1>3, <1>5, <2>2
<1> HIDE DEF g
<1>7. /\ n \in Entry /\ n.terminal /\ n.owner = g.owner
      /\ n.messages = g.messages
  BY <1>1, <1>3 DEF Entry
<1> HIDE DEF n
<1> QED
  BY <1>1, <1>6, <1>7

\* A batch that takes the gate keeps its owner and its terminal, or has got the
\* newest message of the queue.
LEMMA AcquireTells ==
  ASSUME IInv, BatchFits, session = "chat",
         NEW e \in scheduled, QueuedAcquire(e), Valid(e)
  PROVE  Telling(gate'.entry)
<1> DEFINE g == Merged(e, pending)
           n == [g EXCEPT !.generation = e.generation, !.epoch = e.epoch]
<1>0. TypeOK /\ QueueFits /\ ScheduledFits
  BY DEF IInv, Types, Books
<1>1. /\ e \in Entry /\ pending \in Seq(Entry) /\ Len(pending) \in Nat
      /\ e.terminal /\ e.owner \in ToSet(e.messages)
      /\ e.messages \in Seq(Messages)
  <2>1. e \in Entry /\ pending \in Seq(Entry)
    BY <1>0, TypeParts
  <2> QED
    BY <2>1 DEF BatchFits, Entry
<1>2. /\ gate'.entry \in Entry /\ e.control = NoControl
      /\ gate'.entry.messages = e.messages \o Owners(pending, Len(pending))
  BY <1>0, AcquireEffect
<1>3. gate'.entry = n
  BY DEF QueuedAcquire
<1>4. \A i \in 1..Len(pending) : pending[i].control = NoControl
  BY <1>0 DEF QueueFits, QueuedFits
<1>5. /\ Len(pending) = 0 => g = e
      /\ Len(pending) # 0 => g.owner = pending[Len(pending)].owner
  BY <1>1, <1>2, <1>4, MergedOwner
<1>6. g \in Entry
  BY <1>1, <1>2, <1>4, MergedMessages
<1> HIDE DEF g
<1>7. n.owner = g.owner /\ n.terminal = g.terminal
  BY <1>6 DEF Entry
<1> HIDE DEF n
<1>8. Len(pending) \in 0..Len(pending)
  BY <1>1
<1>9. /\ Owners(pending, Len(pending)) \in Seq(Messages)
      /\ Len(Owners(pending, Len(pending))) = Len(pending)
      /\ \A m : m \in ToSet(Owners(pending, Len(pending)))
                  <=> \E i \in 1..Len(pending) : pending[i].owner = m
  BY <1>1, <1>8, OwnersOf
<1>10. ToSet(gate'.entry.messages)
         = ToSet(e.messages) \cup ToSet(Owners(pending, Len(pending)))
  BY <1>1, <1>2, <1>9, ElementsOfConcat
<1>11. CASE Len(pending) = 0
  BY <1>1, <1>3, <1>5, <1>7, <1>10, <1>11 DEF Telling
<1>12. CASE Len(pending) # 0
  <2> DEFINE k == Len(pending)
  <2>1. k \in 1..Len(pending)
    BY <1>1, <1>12
  <2>2. /\ pending[k].owner \in ToSet(gate'.entry.messages)
        /\ gate'.entry.owner = pending[k].owner
    BY <1>3, <1>5, <1>7, <1>9, <1>10, <1>12, <2>1
  <2>3. pending[k].messages = <<pending[k].owner>> /\ pending[k].control = NoControl
    BY <1>0, <2>1 DEF QueueFits, QueuedFits
  <2>4. pending[k].owner \in Items(pending[k]) /\ e.owner \in Items(e)
    BY <1>1, <1>2, <2>3, ElementsOfSmall DEF Items
  <2>5. e.owner # pending[k].owner
    BY <1>0, <2>1, <2>4 DEF ScheduledFits
  <2> HIDE DEF k
  <2> QED
    BY <1>1, <1>10, <2>2, <2>5 DEF Telling
<1> QED
  BY <1>11, <1>12

\* What was ever told stays told; only a batch that is not reserved, or finds
\* the supervisor closed, loses messages.
LEMMA StatusStays ==
  ASSUME IInv, [Next]_vars, NEW m \in Messages
  PROVE  /\ status[m] # "new" => born'[m] = born[m]
         /\ status'[m] # status[m] => status[m] \in {"new", "accepted"}
         /\ status'[m] = "lost" /\ status[m] # "lost"
              => QueuedUnreserved \/ QueuedClosed
<1>0. /\ Types /\ Books /\ TypeOK /\ GateFits /\ ScheduledFits
  BY DEF IInv, Types, Books
<1>1. CASE \E n \in Messages, strict \in BOOLEAN : SendAdmit(n, strict)
  <2>1. PICK n \in Messages, strict \in BOOLEAN : SendAdmit(n, strict)
    BY <1>1
  <2>2. /\ status[n] = "new"
        /\ \A o \in Messages : o # n => /\ status'[o] = status[o]
                                        /\ born'[o] = born[o]
    BY <1>0, <2>1, SendAdmitFrame
  <2>3. status'[n] \in {"turned away", "accepted"}
    BY <1>0, <2>1, SendAdmitOutcome
  <2> QED
    BY <2>2, <2>3
<1>2. CASE SendSteer \/ SendStart \/ SendRefused
  <2>1. /\ Held("send") /\ born' = born
        /\ \A o \in Messages : o # gate.message => status'[o] = status[o]
        /\ \/ status' = status
           \/ status'[gate.message] \in {"unconfirmed", "refused"}
    BY <1>0, <1>2, SendSteerEffect, SendStartEffect, SendRefusedEffect
  <2>2. status[gate.message] = "accepted"
    BY <1>0, <2>1 DEF GateFits, Fresh
  <2> QED
    BY <2>1, <2>2
<1>3. CASE SteerReply
  <2>1. /\ Held("steering") /\ born' = born
        /\ \A o \in Messages : o # gate.message => status'[o] = status[o]
        /\ status' = status \/ status'[gate.message] = "unconfirmed"
    BY <1>0, <1>3, SteerReplyEffect
  <2>2. status[gate.message] = "accepted"
    BY <1>0, <2>1 DEF GateFits
  <2> QED
    BY <2>1, <2>2
<1>4. CASE \/ TurnEnds \/ Emit \/ SendControl
           \/ \E e \in scheduled : ContinuationRefused(e)
           \/ \E e \in scheduled : QueuedAcquire(e) /\ Valid(e)
           \/ InterruptIdle \/ InterruptSignal \/ InterruptReturn
           \/ Reconfigure \/ Close \/ Replace \/ Recover
           \/ UNCHANGED vars
  <2>1. UNCHANGED <<status, born>>
    <3>1. CASE \/ TurnEnds \/ Emit \/ SendControl
               \/ \E e \in scheduled : ContinuationRefused(e)
               \/ \E e \in scheduled : QueuedAcquire(e) /\ Valid(e)
               \/ InterruptIdle \/ InterruptSignal \/ InterruptReturn
      BY <1>0, <3>1, TurnEndsEffect, TerminalEffect, ContinuationEffect,
         ControlQueueEffect, ControlProposeEffect, ControlDeliverEffect,
         ContinuationRefusedEffect, AcquireKeeps, InterruptEffect
      DEF Emit, SendControl
    <3>2. CASE \/ Reconfigure \/ Close \/ Replace \/ Recover \/ UNCHANGED vars
      BY <1>0, <3>2, HarnessEffect DEF vars, senders
    <3> QED
      BY <1>4, <3>1, <3>2
  <2> QED
    BY <2>1
<1>5. CASE \E e \in scheduled : QueuedAcquire(e) /\ ~Valid(e)
  <2>1. PICK e \in scheduled : QueuedAcquire(e) /\ ~Valid(e)
    BY <1>5
  <2>2. /\ born' = born
        /\ \A o \in Messages : status'[o] = IF o \in ToSet(e.messages)
                                            THEN "cancelled" ELSE status[o]
    BY <2>1, AcquireCancels
  <2>3. m \in ToSet(e.messages) => status[m] = "accepted"
    BY <1>0, Elsewhere
  <2> QED
    BY <2>2, <2>3
<1>6. CASE QueuedPrepare \/ QueuedUnreserved \/ QueuedClosed \/ QueuedSend
  <2>1. /\ born' = born /\ EntryFits(gate.entry)
        /\ \/ status'[m] = status[m]
           \/ /\ m \in ToSet(gate.entry.messages)
              /\ status'[m] = "lost" => QueuedUnreserved \/ QueuedClosed
    <3>1. CASE QueuedPrepare
      BY <3>1, PrepareEffect
    <3>2. CASE QueuedUnreserved
      BY <3>2, UnreservedEffect
    <3>3. CASE QueuedClosed
      BY <3>3, ClosedEffect
    <3>4. CASE QueuedSend
      BY <3>4, QueuedSendEffect
    <3> QED
      BY <1>6, <3>1, <3>2, <3>3, <3>4
  <2>2. m \in ToSet(gate.entry.messages) => status[m] = "accepted"
    BY <2>1 DEF EntryFits, Fresh
  <2> QED
    BY <2>1, <2>2
<1>7. CASE InterruptFence
  <2>1. /\ born' = born
        /\ status'[m] = IF \E i \in 1..Len(pending) :
                             m \in ToSet(pending[i].messages)
                        THEN "cancelled" ELSE status[m]
    BY <1>0, <1>7, FenceEffect
  <2>2. ASSUME NEW i \in 1..Len(pending), m \in ToSet(pending[i].messages)
        PROVE  status[m] = "accepted"
    <3>1. session = "chat"
      BY <2>2, JobQueue
    <3>2. ToSet(pending[i].messages) = {pending[i].owner}
      BY <1>0, <3>1, ElementsOfSmall, Elsewhere
    <3> QED
      BY <1>0, <2>2, <3>1, <3>2, Elsewhere
  <2> QED
    BY <2>1, <2>2
<1> QED
  BY <1>1, <1>2, <1>3, <1>4, <1>5, <1>6, <1>7
  DEF Next, Send, StartQueued, Interrupt

\* A turn that overtook the end of another is never forgotten, nor does a key
\* change its kind.
LEMMA CrossedStays ==
  ASSUME IInv, [Next]_vars
  PROVE  session' = session /\ (~crossed' => ~crossed)
<1>0. Types /\ TypeOK
  BY DEF IInv, Types
<1>1. CASE \E m \in Messages, strict \in BOOLEAN : SendAdmit(m, strict)
  BY <1>0, <1>1, SendAdmitFrame, SendAdmitOutcome
<1>2. CASE SendSteer \/ SteerReply \/ SendRefused \/ TurnEnds
  BY <1>2 DEF SendSteer, SteerReply, SendRefused, TurnEnds, adapter
<1>3. CASE SendStart
  BY <1>0, <1>3, SendStartEffect
<1>4. CASE Emit
  BY <1>4 DEF Emit, TerminalEvent, Continuation
<1>5. CASE \E e \in scheduled : QueuedAcquire(e) \/ ContinuationRefused(e)
  BY <1>5 DEF QueuedAcquire, ContinuationRefused, adapter
<1>6. CASE QueuedPrepare \/ QueuedUnreserved
  BY <1>6 DEF QueuedPrepare, QueuedUnreserved, adapter
<1>7. CASE QueuedClosed
  BY <1>7 DEF QueuedClosed, NoBegin
<1>8. CASE QueuedSend
  BY <1>8, QueuedSendEffect
<1>9. CASE Interrupt
  BY <1>9 DEF Interrupt, InterruptFence, InterruptIdle, InterruptSignal,
              InterruptReturn, adapter
<1>10. CASE SendControl
  BY <1>10 DEF SendControl, ControlQueue, ControlPropose, ControlDeliver, adapter
<1>11. CASE Reconfigure \/ Close \/ Replace \/ Recover
  BY <1>11 DEF Reconfigure, Close, Replace, Recover, adapter
<1>12. CASE UNCHANGED vars
  BY <1>12 DEF vars, adapter
<1> QED
  BY <1>1, <1>2, <1>3, <1>4, <1>5, <1>6, <1>7, <1>8, <1>9, <1>10, <1>11, <1>12
  DEF Next, Send, StartQueued

\* What a holder of the gate carries comes from the schedule, and is carried
\* unchanged.
LEMMA BatchFrame ==
  ASSUME BatchFits, session' = session,
         \A e \in scheduled' :
           e \in scheduled \/ (e.terminal /\ e.owner \in ToSet(e.messages)),
         Carrying' => Carrying /\ gate'.entry = gate.entry
  PROVE  BatchFits'
  BY DEF BatchFits, Telling

\* Every step keeps the batches.
LEMMA BatchStep ==
  ASSUME IInv, [Next]_vars, BatchFits
  PROVE  BatchFits'
<1>0. /\ Types /\ Books /\ TypeOK /\ QueueFits /\ ScheduledFits
      /\ session' = session
  BY CrossedStays DEF IInv, Types, Books
<1> SUFFICES ASSUME session = "chat" PROVE BatchFits'
  BY <1>0 DEF BatchFits
<1>1. CASE Send \/ TurnEnds \/ Interrupt \/ SendControl
  <2>1. /\ scheduled' = scheduled
        /\ gate' = gate \/ gate'.op \notin {"queued", "ready"}
    <3>1. CASE \E n \in Messages, strict \in BOOLEAN : SendAdmit(n, strict)
      BY <1>0, <3>1, SendAdmitFrame, SendAdmitOutcome
    <3>2. CASE SendSteer \/ SteerReply \/ SendStart \/ SendRefused
      BY <1>0, <3>2, SendSteerEffect, SteerReplyEffect, SendStartEffect,
         SendRefusedEffect DEF Held
    <3>3. CASE TurnEnds
      BY <1>0, <3>3, TurnEndsEffect
    <3>4. CASE Interrupt
      BY <1>0, <3>4, FenceEffect, InterruptEffect DEF Interrupt
    <3>5. CASE SendControl
      <4>1. CASE \E k \in Controls : ControlQueue(k)
        BY <1>0, <4>1, ControlQueueEffect
      <4>2. CASE \E k \in Controls : ControlPropose(k)
        BY <1>0, <4>2, ControlProposeEffect DEF Held
      <4>3. CASE ControlDeliver
        BY <1>0, <4>3, ControlDeliverEffect DEF Held
      <4> QED
        BY <3>5, <4>1, <4>2, <4>3 DEF SendControl
    <3> QED
      BY <1>1, <3>1, <3>2, <3>3, <3>4, <3>5 DEF Send
  <2> QED
    BY <1>0, <2>1, BatchFrame DEF Carrying, Held
<1>2. CASE Emit
  <2>1. PICK e \in ended : TerminalEvent(e)
    BY <1>2, ContinuationEffect DEF Emit
  <2>2. gate' = gate \/ gate'.op = "free"
    BY <2>1, TerminalEffect
  <2>3. \/ scheduled' = scheduled
        \/ \E n \in Entry : /\ scheduled' = scheduled \cup {n}
                            /\ n.terminal /\ n.owner \in ToSet(n.messages)
    BY <2>1, TerminalEffect, TakeNextTells
  <2> QED
    BY <1>0, <2>2, <2>3, BatchFrame DEF Carrying, Held
<1>3. CASE \E e \in scheduled : QueuedAcquire(e) \/ ContinuationRefused(e)
  <2>1. PICK e \in scheduled : QueuedAcquire(e)
    BY <1>3, ContinuationRefusedEffect
  <2>2. CASE Valid(e)
    <3>1. scheduled' = scheduled \ {e}
      BY <2>1, <2>2, AcquireKeeps
    <3>2. Telling(gate'.entry)
      BY <2>1, <2>2, AcquireTells
    <3> QED
      BY <1>0, <3>1, <3>2 DEF BatchFits, Telling
  <2>3. CASE ~Valid(e)
    <3>1. scheduled' = scheduled \ {e} /\ gate' = gate
      BY <2>1, <2>3, AcquireCancels
    <3> QED
      BY <1>0, <3>1, BatchFrame DEF Carrying, Held
  <2> QED
    BY <2>2, <2>3
<1>4. CASE QueuedPrepare \/ QueuedUnreserved \/ QueuedClosed \/ QueuedSend
  <2>1. /\ Carrying /\ scheduled' = scheduled
        /\ \/ gate'.op \in {"free", "failing"}
           \/ gate'.op = "ready" /\ gate'.entry = gate.entry
    BY <1>4, PrepareEffect, UnreservedEffect, ClosedEffect, QueuedSendEffect
    DEF Carrying
  <2> QED
    BY <1>0, <2>1, BatchFrame DEF Carrying, Held
<1>5. CASE Reconfigure \/ Close \/ Replace \/ Recover \/ UNCHANGED vars
  <2>1. UNCHANGED <<scheduled, gate>>
    BY <1>0, <1>5, HarnessEffect DEF vars, admission
  <2> QED
    BY <1>0, <2>1, BatchFrame DEF Carrying, Held
<1> QED
  BY <1>1, <1>2, <1>3, <1>4, <1>5 DEF Next, StartQueued

\* A message that a batch loses had company in it.
LEMMA LosingStep ==
  ASSUME IInv, BatchFits, QueuedUnreserved \/ QueuedClosed,
         NEW m \in Messages, status'[m] = "lost", status[m] # "lost"
  PROVE  LostInBatch(m)'
<1> DEFINE g == gate.entry
           M == ToSet(g.messages)
<1>1. /\ Carrying /\ g \in Entry /\ EntryFits(g) /\ born' = born
      /\ \A o \in Messages :
           IF o \in M THEN status'[o] \in {"dropped", "lost"}
           ELSE status'[o] = status[o]
      /\ \A o \in Messages :
           (g.terminal \/ QueuedClosed) /\ o = g.owner /\ o \in M
             => status'[o] = "dropped"
  BY UnreservedEffect, ClosedEffect DEF Carrying
<1>2. m \in M
  BY <1>1
<1>3. session = "chat"
  BY <1>1, <1>2, ElementsOfSmall DEF EntryFits
<1>4. Telling(g) /\ M \subseteq Messages
  BY <1>1, <1>3, ItemsApart DEF BatchFits
<1>5. \E n \in M \ {m} : TRUE
  <2>1. CASE m = g.owner
    <3>1. ~g.terminal
      BY <1>1, <1>2, <2>1
    <3> QED
      BY <1>4, <3>1 DEF Telling
  <2>2. CASE m # g.owner
    BY <1>4, <2>2 DEF Telling
  <2> QED
    BY <2>1, <2>2
<1>6. PICK n \in M : n # m
  BY <1>5
<1>7. /\ n \in Messages \ {m} /\ born'[n] = born'[m]
      /\ status'[n] \in {"dropped", "lost"}
  BY <1>1, <1>2, <1>4, <1>6 DEF EntryFits
<1> QED
  BY <1>7 DEF LostInBatch

\* Every step keeps the company of what is lost.
LEMMA LostStep ==
  ASSUME IInv, BatchFits, LostFits, [Next]_vars
  PROVE  LostFits'
<1> SUFFICES ASSUME NEW m \in Messages, status'[m] = "lost"
             PROVE  LostInBatch(m)'
  BY DEF LostFits
<1>1. CASE status[m] = "lost"
  <2>1. PICK n \in Messages \ {m} :
          born[n] = born[m] /\ status[n] \in {"dropped", "lost"}
    BY <1>1 DEF LostFits, LostInBatch
  <2>2. born'[m] = born[m]
    BY <1>1, StatusStays
  <2>3. born'[n] = born[n] /\ status'[n] = status[n]
    BY <2>1, StatusStays
  <2> QED
    BY <2>1, <2>2, <2>3 DEF LostInBatch
<1>2. CASE status[m] # "lost"
  <2>1. QueuedUnreserved \/ QueuedClosed
    BY <1>2, StatusStays
  <2> QED
    BY <1>2, <2>1, LosingStep
<1> QED
  BY <1>1, <1>2

\* An accepted message that has not reached the provider, and whose sender was
\* told nothing since, is always somewhere, or was lost together with another
\* one of its batch when that batch could not be started: a message that waits
\* alone is never dropped in silence.
THEOREM SupervisorNothingForgotten == Spec => []NothingForgotten
<1> DEFINE Strong == StartFits /\ BatchFits /\ LostFits /\ WaitFits
<1>1. Init => Strong
  BY DEF Init, StartFits, BatchFits, LostFits, WaitFits, Carrying, Held, Free,
         Fresh
<1>2. IInv /\ [Next]_vars /\ Strong => Strong'
  <2> SUFFICES ASSUME IInv, [Next]_vars, Strong PROVE Strong'
    OBVIOUS
  <2>1. WaitFits'
    <3> SUFFICES ASSUME NEW m \in Messages, Fresh(m)' PROVE Kept(m)'
      BY DEF WaitFits
    <3> QED
      BY WaitStep DEF WaitFits
  <2> QED
    BY <2>1, StartStep, BatchStep, LostStep
<1>3. IInv /\ Strong => NothingForgotten
  <2> SUFFICES ASSUME IInv, Strong, NEW m \in Untold
               PROVE  m \in Somewhere \/ LostInBatch(m)
    BY DEF NothingForgotten
  <2>1. m \in Messages /\ (status[m] = "lost" \/ Fresh(m))
    BY DEF Untold, Fresh
  <2>2. Kept(m) => m \in Somewhere
    <3>1. pending \in Seq(Entry)
      BY Typed DEF IInv
    <3>2. m \in UNION {ToSet(e.messages) : e \in ToSet(pending)}
            <=> \E i \in 1..Len(pending) : m \in ToSet(pending[i].messages)
      BY <3>1, ElementsOf
    <3> QED
      BY <3>2 DEF Kept, Somewhere
  <2> QED
    BY <2>1, <2>2 DEF LostFits, WaitFits
<1> QED
  BY <1>1, <1>2, <1>3, SupervisorInvariant, PTL DEF Spec

-----------------------------------------------------------------------------
(* FollowupQueue is implemented. *)

\* Messages accepted before the last interruption.
Fenced == {m \in Messages : fate[m] # "new" /\ born[m] < generation}

\* Where a message stands, when no refused one was handed over.
LEMMA FateIs ==
  ASSUME FateFits, NEW m \in Messages
  PROVE  /\ fate[m] = "sent" <=> m \in ToSet(handed)
         /\ fate[m] = "dropped" <=>
              status[m] \in {"refused", "cancelled", "dropped", "lost"}
         /\ fate[m] = "waiting" <=>
              status[m] = "accepted" /\ m \notin ToSet(handed)
         /\ fate[m] = "new" <=>
              /\ m \notin ToSet(handed)
              /\ status[m] \notin {"refused", "cancelled", "dropped", "lost",
                                   "accepted"}
         /\ fate[m] \in {"new", "waiting", "sent", "dropped"}
<1>1. /\ m \in ToSet(handed) => status[m] \in {"accepted", "unconfirmed"}
      /\ status[m] = "unconfirmed" => m \in ToSet(handed)
  BY DEF FateFits
<1> QED
  BY <1>1 DEF fate

\* The same of the next state.
LEMMA FateIsNext ==
  ASSUME FateFits', NEW m \in Messages
  PROVE  /\ fate'[m] = "sent" <=> m \in ToSet(handed')
         /\ fate'[m] = "dropped" <=>
              status'[m] \in {"refused", "cancelled", "dropped", "lost"}
         /\ fate'[m] = "waiting" <=>
              status'[m] = "accepted" /\ m \notin ToSet(handed')
         /\ fate'[m] = "new" <=>
              /\ m \notin ToSet(handed')
              /\ status'[m] \notin {"refused", "cancelled", "dropped", "lost",
                                    "accepted"}
         /\ fate'[m] \in {"new", "waiting", "sent", "dropped"}
<1>1. /\ m \in ToSet(handed') => status'[m] \in {"accepted", "unconfirmed"}
      /\ status'[m] = "unconfirmed" => m \in ToSet(handed')
  BY DEF FateFits
<1> QED
  BY <1>1 DEF fate

\* Functions of messages that agree everywhere are the same.
LEMMA FateFunction ==
  /\ fate = [m \in Messages |-> fate[m]]
  /\ fate' = [m \in Messages |-> fate'[m]]
  BY DEF fate

\* A step that leaves every message where it is stutters.
LEMMA FateQuiet ==
  ASSUME FateFits, FateFits', generation' = generation,
         \A m \in Messages :
           /\ m \in ToSet(handed') <=> m \in ToSet(handed)
           /\ \/ status'[m] = status[m]
              \/ status[m] = "new" /\ status'[m] = "turned away"
              \/ m \in ToSet(handed)
           /\ born'[m] = born[m] \/ status'[m] = "turned away"
  PROVE  fate' = fate /\ Fenced' = Fenced
<1>1. \A m \in Messages : fate'[m] = fate[m]
  <2> SUFFICES ASSUME NEW m \in Messages PROVE fate'[m] = fate[m]
    OBVIOUS
  <2>1. CASE m \in ToSet(handed)
    <3>1. m \in ToSet(handed')
      BY <2>1
    <3>2. fate[m] = "sent" /\ fate'[m] = "sent"
      BY <2>1, <3>1, FateIs, FateIsNext
    <3> QED
      BY <3>2
  <2>2. CASE m \notin ToSet(handed) /\ status'[m] = status[m]
    <3>1. m \notin ToSet(handed')
      BY <2>2
    <3>2. CASE status[m] = "accepted"
      <4>1. fate[m] = "waiting" /\ fate'[m] = "waiting"
        BY <2>2, <3>1, <3>2, FateIs, FateIsNext
      <4> QED
        BY <4>1
    <3>3. CASE status[m] \in {"refused", "cancelled", "dropped", "lost"}
      <4>1. fate[m] = "dropped" /\ fate'[m] = "dropped"
        BY <2>2, <3>1, <3>3, FateIs, FateIsNext
      <4> QED
        BY <4>1
    <3>4. CASE status[m] \notin {"refused", "cancelled", "dropped", "lost",
                                 "accepted"}
      <4>1. fate[m] = "new" /\ fate'[m] = "new"
        BY <2>2, <3>1, <3>4, FateIs, FateIsNext
      <4> QED
        BY <4>1
    <3> QED
      BY <3>2, <3>3, <3>4
  <2>3. CASE /\ m \notin ToSet(handed)
             /\ status[m] = "new" /\ status'[m] = "turned away"
    BY <2>3, FateIs, FateIsNext
  <2> QED
    BY <2>1, <2>2, <2>3
<1>2. fate' = fate
  BY <1>1, FateFunction
<1>3. \A m \in Messages : fate'[m] # "new" => born'[m] = born[m]
  <2> SUFFICES ASSUME NEW m \in Messages, status'[m] = "turned away"
               PROVE  fate'[m] = "new"
    OBVIOUS
  <2>1. m \notin ToSet(handed')
    BY DEF FateFits
  <2> QED
    BY <2>1, FateIsNext
<1> QED
  BY <1>2, <1>3 DEF Fenced

\* A step that settles messages that wait drops them.
LEMMA FateDrops ==
  ASSUME FateFits, FateFits', UNCHANGED <<generation, born>>,
         NEW M \in SUBSET Messages,
         \A m \in Messages : m \in ToSet(handed') <=> m \in ToSet(handed),
         \A m \in M :
           /\ Fresh(m)
           /\ status'[m] \in {"refused", "cancelled", "dropped", "lost"},
         \A m \in Messages \ M : status'[m] = status[m]
  PROVE  /\ \A m \in M : fate[m] = "waiting"
         /\ fate' = [m \in Messages |-> IF m \in M THEN "dropped" ELSE fate[m]]
         /\ Fenced' = Fenced
<1>1. \A m \in M : fate[m] = "waiting"
  BY FateIs DEF Fresh
<1>2. \A m \in Messages :
        fate'[m] = IF m \in M THEN "dropped" ELSE fate[m]
  <2> SUFFICES ASSUME NEW m \in Messages
               PROVE  fate'[m] = IF m \in M THEN "dropped" ELSE fate[m]
    OBVIOUS
  <2>1. CASE m \in M
    BY <2>1, FateIsNext
  <2>2. CASE m \notin M
    <3>1. status'[m] = status[m] /\ (m \in ToSet(handed') <=> m \in ToSet(handed))
      BY <2>2
    <3> QED
      BY <2>2, <3>1, FateIs, FateIsNext
  <2> QED
    BY <2>1, <2>2
<1>3. fate' = [m \in Messages |-> IF m \in M THEN "dropped" ELSE fate[m]]
  BY <1>2, FateFunction
<1>4. \A m \in Messages : fate'[m] = "new" <=> fate[m] = "new"
  BY <1>1, <1>2
<1> QED
  BY <1>1, <1>3, <1>4 DEF Fenced

\* A step that hands over messages of the current generation delivers them.
LEMMA FateSends ==
  ASSUME FateFits, FateFits', UNCHANGED <<generation, born>>,
         generation \in Nat, NEW M \in SUBSET Messages,
         \A m \in Messages : m \in ToSet(handed') <=> m \in ToSet(handed) \cup M,
         \A m \in M : Fresh(m) /\ born[m] = generation,
         \A m \in Messages \ M : status'[m] = status[m]
  PROVE  /\ \A m \in M : fate[m] = "waiting"
         /\ M \cap Fenced = {}
         /\ fate' = [m \in Messages |-> IF m \in M THEN "sent" ELSE fate[m]]
         /\ Fenced' = Fenced
<1>1. \A m \in M : fate[m] = "waiting"
  BY FateIs DEF Fresh
<1>2. \A m \in Messages :
        fate'[m] = IF m \in M THEN "sent" ELSE fate[m]
  <2> SUFFICES ASSUME NEW m \in Messages
               PROVE  fate'[m] = IF m \in M THEN "sent" ELSE fate[m]
    OBVIOUS
  <2>1. CASE m \in M
    BY <2>1, FateIsNext
  <2>2. CASE m \notin M
    <3>1. status'[m] = status[m] /\ (m \in ToSet(handed') <=> m \in ToSet(handed))
      BY <2>2
    <3> QED
      BY <2>2, <3>1, FateIs, FateIsNext
  <2> QED
    BY <2>1, <2>2
<1>3. fate' = [m \in Messages |-> IF m \in M THEN "sent" ELSE fate[m]]
  BY <1>2, FateFunction
<1>4. \A m \in Messages : fate'[m] = "new" <=> fate[m] = "new"
  BY <1>1, <1>2
<1>5. M \cap Fenced = {}
  BY DEF Fenced
<1> QED
  BY <1>1, <1>3, <1>4, <1>5 DEF Fenced

\* What a step does to the messages: nothing, or it accepts one, drops some,
\* delivers some of the current generation, or interrupts.
FateSteps ==
  \/ fate' = fate /\ Fenced' = Fenced
  \/ \E M \in SUBSET Messages :
       /\ M # {} /\ Fenced' = Fenced
       /\ \/ /\ \A m \in M : fate[m] = "new"
             /\ fate' = [m \in Messages |-> IF m \in M THEN "waiting" ELSE fate[m]]
          \/ /\ \A m \in M : fate[m] = "waiting"
             /\ fate' = [m \in Messages |-> IF m \in M THEN "dropped" ELSE fate[m]]
          \/ /\ \A m \in M : fate[m] = "waiting"
             /\ M \cap Fenced = {}
             /\ fate' = [m \in Messages |-> IF m \in M THEN "sent" ELSE fate[m]]
  \/ \E M \in SUBSET Messages :
       /\ \A m \in M : fate[m] = "waiting"
       /\ fate' = [m \in Messages |-> IF m \in M THEN "dropped" ELSE fate[m]]
       /\ Fenced' = {m \in Messages : fate[m] # "new"}

\* Dropping nothing, or handing over nothing, is no step.
LEMMA FateNothing ==
  ASSUME NEW M \in SUBSET Messages, NEW v \in {"dropped", "sent"},
         Fenced' = Fenced, M \cap Fenced = {} \/ v = "dropped",
         \A m \in M : fate[m] = "waiting",
         fate' = [m \in Messages |-> IF m \in M THEN v ELSE fate[m]]
  PROVE  FateSteps
<1>1. CASE M # {}
  BY <1>1 DEF FateSteps
<1>2. CASE M = {}
  <2>1. fate' = [m \in Messages |-> fate[m]]
    BY <1>2
  <2> QED
    BY <2>1, FateFunction DEF FateSteps
<1> QED
  BY <1>1, <1>2

\* Every step of the supervisor is one of these.
LEMMA EveryFate ==
  ASSUME IInv, IInv', [Next]_vars
  PROVE  FateSteps
<1>0. /\ Types /\ Books /\ TypeOK /\ FateFits /\ FateFits' /\ GateFits
      /\ ScheduledFits /\ generation \in Nat
  BY Typed DEF IInv, Types, Books
<1>1. CASE \E n \in Messages, strict \in BOOLEAN : SendAdmit(n, strict)
  <2>1. PICK n \in Messages, strict \in BOOLEAN : SendAdmit(n, strict)
    BY <1>1
  <2>2. /\ status[n] = "new" /\ UNCHANGED <<handed, generation>>
        /\ born'[n] = generation
        /\ \A o \in Messages : o # n => born'[o] = born[o] /\ status'[o] = status[o]
        /\ status'[n] \in {"turned away", "accepted"}
    <3>1. status'[n] \in {"turned away", "accepted"}
      BY <1>0, <2>1, SendAdmitOutcome
    <3> QED
      BY <1>0, <2>1, <3>1, SendAdmitFrame
  <2>3. CASE status'[n] = "turned away"
    <3>1. fate' = fate /\ Fenced' = Fenced
      BY <1>0, <2>2, <2>3, FateQuiet
    <3> QED
      BY <3>1 DEF FateSteps
  <2>4. CASE status'[n] = "accepted"
    <3>1. n \notin ToSet(handed)
      BY <1>0, <2>2 DEF FateFits
    <3>2. fate[n] = "new" /\ fate'[n] = "waiting"
      BY <1>0, <2>2, <2>4, <3>1, FateIs, FateIsNext
    <3>3. \A o \in Messages : o # n => fate'[o] = fate[o]
      <4> SUFFICES ASSUME NEW o \in Messages, o # n PROVE fate'[o] = fate[o]
        OBVIOUS
      <4>1. status'[o] = status[o] /\ ToSet(handed') = ToSet(handed)
        BY <2>2
      <4> QED
        BY <1>0, <4>1, FateIs, FateIsNext
    <3>4. fate' = [o \in Messages |-> IF o \in {n} THEN "waiting" ELSE fate[o]]
      BY <3>2, <3>3, FateFunction
    <3>5. Fenced' = Fenced
      <4>1. ~(born'[n] < generation')
        <5>1. born'[n] = generation /\ generation' = generation
          BY <2>2
        <5> QED
          BY <1>0, <5>1
      <4> QED
        BY <2>2, <3>2, <3>3, <4>1 DEF Fenced
    <3>6. {n} \in SUBSET Messages /\ {n} # {} /\ \A o \in {n} : fate[o] = "new"
      BY <3>2
    <3> QED
      BY <3>4, <3>5, <3>6 DEF FateSteps
  <2> QED
    BY <2>2, <2>3, <2>4
<1>2. CASE SendSteer \/ SendStart
  <2>1. /\ Held("send") /\ gate.message \in Messages
        /\ \A o \in Messages : o # gate.message => status'[o] = status[o]
        /\ handed' = Append(handed, gate.message)
        /\ UNCHANGED <<generation, born>>
    BY <1>0, <1>2, SendSteerEffect, SendStartEffect
  <2>2. ToSet(handed') = ToSet(handed) \cup {gate.message}
    <3>1. /\ handed \in Seq(Messages \cup Controls)
          /\ gate.message \in Messages \cup Controls
      BY <1>0, <2>1, Typed
    <3> QED
      BY <2>1, <3>1, ElementsOfAppend
  <2>3. Fresh(gate.message) /\ born[gate.message] = generation
    BY <1>0, <2>1 DEF GateFits
  <2>4. PICK M \in SUBSET Messages : M = {gate.message}
    BY <2>1
  <2>5. /\ \A m \in M : fate[m] = "waiting"
        /\ M \cap Fenced = {}
        /\ fate' = [m \in Messages |-> IF m \in M THEN "sent" ELSE fate[m]]
        /\ Fenced' = Fenced
    BY <1>0, <2>1, <2>2, <2>3, <2>4, FateSends
  <2> QED
    BY <2>5, FateNothing
<1>3. CASE SendRefused
  <2>1. /\ Held("send") /\ gate.message \in Messages
        /\ \A o \in Messages : o # gate.message => status'[o] = status[o]
        /\ status'[gate.message] = "refused" /\ UNCHANGED <<handed, generation, born>>
    BY <1>0, <1>3, SendRefusedEffect
  <2>2. Fresh(gate.message)
    BY <1>0, <2>1 DEF GateFits
  <2>3. PICK M \in SUBSET Messages : M = {gate.message}
    BY <2>1
  <2>4. /\ \A m \in M : fate[m] = "waiting"
        /\ fate' = [m \in Messages |-> IF m \in M THEN "dropped" ELSE fate[m]]
        /\ Fenced' = Fenced
    BY <1>0, <2>1, <2>2, <2>3, FateDrops
  <2> QED
    BY <2>4, FateNothing
<1>4. CASE \/ SteerReply \/ TurnEnds \/ Emit \/ SendControl
           \/ \E e \in scheduled : ContinuationRefused(e)
           \/ \E e \in scheduled : QueuedAcquire(e) /\ Valid(e)
           \/ InterruptIdle \/ InterruptSignal \/ InterruptReturn
           \/ Reconfigure \/ Close \/ Replace \/ Recover
           \/ UNCHANGED vars
  <2>1. /\ generation' = generation /\ born' = born
        /\ \A m \in Messages :
             /\ m \in ToSet(handed') <=> m \in ToSet(handed)
             /\ status'[m] = status[m] \/ m \in ToSet(handed)
    <3>1. CASE SteerReply
      <4>1. /\ Held("steering") /\ gate.message \in Messages
            /\ \A o \in Messages : o # gate.message => status'[o] = status[o]
            /\ UNCHANGED <<handed, generation, born>>
        BY <1>0, <3>1, SteerReplyEffect
      <4>2. gate.message \in ToSet(handed)
        BY <1>0, <4>1 DEF GateFits
      <4> QED
        BY <4>1, <4>2
    <3>2. CASE ControlDeliver
      <4>1. /\ gate.id \in Controls
            /\ handed' = Append(handed, gate.id) \/ handed' = handed
            /\ UNCHANGED <<status, generation, born>>
        BY <1>0, <3>2, ControlDeliverEffect
      <4>2. ToSet(Append(handed, gate.id)) = ToSet(handed) \cup {gate.id}
        <5>1. /\ handed \in Seq(Messages \cup Controls)
              /\ gate.id \in Messages \cup Controls
          BY <1>0, <4>1, Typed
        <5> QED
          BY <5>1, ElementsOfAppend
      <4> QED
        BY <4>1, <4>2, Numbers
    <3>3. CASE \/ TurnEnds \/ Emit
               \/ \E k \in Controls : ControlQueue(k) \/ ControlPropose(k)
               \/ \E e \in scheduled : ContinuationRefused(e)
               \/ \E e \in scheduled : QueuedAcquire(e) /\ Valid(e)
               \/ InterruptIdle \/ InterruptSignal \/ InterruptReturn
      <4>1. UNCHANGED <<handed, status, generation, born>>
        BY <1>0, <3>3, TurnEndsEffect, TerminalEffect, ContinuationEffect,
           ControlQueueEffect, ControlProposeEffect, ContinuationRefusedEffect,
           AcquireKeeps, InterruptEffect DEF Emit
      <4> QED
        BY <4>1
    <3>4. CASE \/ Reconfigure \/ Close \/ Replace \/ Recover \/ UNCHANGED vars
      <4>1. UNCHANGED <<handed, status, generation, born>>
        BY <1>0, <3>4, HarnessEffect DEF vars, admission, adapter, senders
      <4> QED
        BY <4>1
    <3> QED
      BY <1>4, <3>1, <3>2, <3>3, <3>4 DEF SendControl
  <2>2. fate' = fate /\ Fenced' = Fenced
    BY <1>0, <2>1, FateQuiet
  <2> QED
    BY <2>2 DEF FateSteps
<1>5. CASE \E e \in scheduled : QueuedAcquire(e) /\ ~Valid(e)
  <2>1. PICK e \in scheduled : QueuedAcquire(e) /\ ~Valid(e)
    BY <1>5
  <2>2. /\ UNCHANGED <<handed, generation, born>>
        /\ \A o \in Messages : status'[o] = IF o \in ToSet(e.messages)
                                            THEN "cancelled" ELSE status[o]
    BY <2>1, AcquireCancels
  <2>3. PICK M \in SUBSET Messages : M = ToSet(e.messages)
    BY <1>0, Elsewhere
  <2>4. \A m \in M : Fresh(m)
    BY <1>0, <2>3, Elsewhere DEF Fresh
  <2>5. /\ \A m \in M : fate[m] = "waiting"
        /\ fate' = [m \in Messages |-> IF m \in M THEN "dropped" ELSE fate[m]]
        /\ Fenced' = Fenced
    BY <1>0, <2>2, <2>3, <2>4, FateDrops
  <2> QED
    BY <2>5, FateNothing
<1>6. CASE QueuedPrepare \/ QueuedUnreserved \/ QueuedClosed \/ QueuedSend
  <2>1. /\ gate.entry \in Entry /\ EntryFits(gate.entry)
        /\ gate.entry.generation = generation /\ UNCHANGED <<generation, born>>
    <3>1. Carrying
      BY <1>6, PrepareEffect, UnreservedEffect, ClosedEffect, QueuedSendEffect
      DEF Carrying
    <3> QED
      BY <1>0, <1>6, <3>1, PrepareEffect, UnreservedEffect, ClosedEffect,
         QueuedSendEffect DEF GateFits
  <2>2. PICK M \in SUBSET Messages : M = ToSet(gate.entry.messages)
    BY <2>1, ItemsApart
  <2>3. \A m \in M : Fresh(m) /\ born[m] = generation
    BY <2>1, <2>2 DEF EntryFits
  <2>4. \/ status' = status /\ handed' = handed
        \/ /\ handed' = handed
           /\ \A o \in Messages :
                IF o \in M THEN status'[o] \in {"cancelled", "dropped", "lost"}
                ELSE status'[o] = status[o]
        \/ /\ status' = status
           /\ ToSet(handed') = ToSet(handed) \cup Items(gate.entry)
    <3>1. CASE QueuedPrepare
      BY <2>2, <3>1, PrepareEffect
    <3>2. CASE QueuedUnreserved
      BY <2>2, <3>2, UnreservedEffect
    <3>3. CASE QueuedClosed
      BY <2>2, <3>3, ClosedEffect
    <3>4. CASE QueuedSend
      BY <2>2, <3>4, QueuedSendEffect
    <3> QED
      BY <1>6, <3>1, <3>2, <3>3, <3>4
  <2>5. CASE status' = status /\ handed' = handed
    <3>1. fate' = fate /\ Fenced' = Fenced
      BY <1>0, <2>1, <2>5, FateQuiet
    <3> QED
      BY <3>1 DEF FateSteps
  <2>6. CASE /\ handed' = handed
             /\ \A o \in Messages :
                  IF o \in M THEN status'[o] \in {"cancelled", "dropped", "lost"}
                  ELSE status'[o] = status[o]
    <3>1. /\ \A m \in M : fate[m] = "waiting"
          /\ fate' = [m \in Messages |-> IF m \in M THEN "dropped" ELSE fate[m]]
          /\ Fenced' = Fenced
      BY <1>0, <2>1, <2>3, <2>6, FateDrops
    <3> QED
      BY <3>1, FateNothing
  <2>7. CASE /\ status' = status
             /\ ToSet(handed') = ToSet(handed) \cup Items(gate.entry)
    <3>1. \A m \in Messages : m \in Items(gate.entry) <=> m \in M
      <4>1. CASE gate.entry.control = NoControl
        BY <2>1, <2>2, <4>1, ItemsApart
      <4>2. CASE gate.entry.control # NoControl
        <5>1. M = {}
          BY <2>1, <2>2, <4>2, ElementsOfSmall DEF EntryFits
        <5> QED
          BY <2>1, <4>2, <5>1, ItemsApart, Numbers
      <4> QED
        BY <4>1, <4>2
    <3>2. /\ \A m \in M : fate[m] = "waiting"
          /\ M \cap Fenced = {}
          /\ fate' = [m \in Messages |-> IF m \in M THEN "sent" ELSE fate[m]]
          /\ Fenced' = Fenced
      BY <1>0, <2>1, <2>3, <2>7, <3>1, FateSends
    <3> QED
      BY <3>2, FateNothing
  <2> QED
    BY <2>4, <2>5, <2>6, <2>7
<1>7. CASE InterruptFence
  <2>1. /\ generation' = generation + 1 /\ UNCHANGED <<handed, born>>
        /\ \A o \in Messages :
             status'[o] = IF \E i \in 1..Len(pending) :
                               o \in ToSet(pending[i].messages)
                          THEN "cancelled" ELSE status[o]
    BY <1>0, <1>7, FenceEffect
  <2>2. PICK M \in SUBSET Messages :
          M = {o \in Messages : \E i \in 1..Len(pending) :
                                  o \in ToSet(pending[i].messages)}
    OBVIOUS
  <2>3. \A m \in M : Fresh(m)
    <3> SUFFICES ASSUME NEW m \in M PROVE Fresh(m)
      OBVIOUS
    <3>1. PICK i \in 1..Len(pending) : m \in ToSet(pending[i].messages)
      BY <2>2
    <3>2. session = "chat"
      BY <3>1, JobQueue
    <3>3. ToSet(pending[i].messages) = {pending[i].owner}
      BY <1>0, <3>2, ElementsOfSmall, Elsewhere
    <3> QED
      BY <1>0, <3>1, <3>2, <3>3, Elsewhere DEF Fresh
  <2>4. \A m \in M : fate[m] = "waiting"
    BY <1>0, <2>3, FateIs DEF Fresh
  <2>5. \A m \in Messages : fate'[m] = IF m \in M THEN "dropped" ELSE fate[m]
    <3> SUFFICES ASSUME NEW m \in Messages
                 PROVE  fate'[m] = IF m \in M THEN "dropped" ELSE fate[m]
      OBVIOUS
    <3>1. status'[m] = IF m \in M THEN "cancelled" ELSE status[m]
      BY <2>1, <2>2
    <3>2. ToSet(handed') = ToSet(handed)
      BY <2>1
    <3>3. CASE m \in M
      BY <1>0, <3>1, <3>3, FateIsNext
    <3>4. CASE m \notin M
      BY <1>0, <3>1, <3>2, <3>4, FateIs, FateIsNext
    <3> QED
      BY <3>3, <3>4
  <2>6. fate' = [m \in Messages |-> IF m \in M THEN "dropped" ELSE fate[m]]
    BY <2>5, FateFunction
  <2>7. Fenced' = {m \in Messages : fate[m] # "new"}
    <3>1. \A m \in Messages : born'[m] < generation'
      <4>1. \A m \in Messages : born[m] \in Nat /\ born[m] <= generation
        BY <1>0, Typed DEF FateFits
      <4> QED
        BY <1>0, <2>1, <4>1
    <3>2. \A m \in Messages : fate'[m] = "new" <=> fate[m] = "new"
      BY <2>4, <2>5
    <3> QED
      BY <3>1, <3>2 DEF Fenced
  <2> QED
    BY <2>4, <2>6, <2>7 DEF FateSteps
<1> QED
  BY <1>1, <1>2, <1>3, <1>4, <1>5, <1>6, <1>7
  DEF Next, Send, StartQueued, Interrupt

\* The supervisor implements FollowupQueue.
THEOREM SupervisorKeepsPromise == Spec => KeepsPromise
<1>1. Init => Promise!Init
  <2> SUFFICES ASSUME Init PROVE Promise!Init
    OBVIOUS
  <2>1. FateFits /\ generation = 0 /\ \A m \in Messages :
          status[m] = "new" /\ m \notin ToSet(handed)
    BY InitHolds, ElementsOfSmall DEF IInv, Books, Init
  <2>2. \A m \in Messages : fate[m] = "new"
    BY <2>1, FateIs
  <2> QED
    BY <2>2, FateFunction DEF Promise!Init
<1>2. /\ IInv /\ IInv' /\ [Next]_vars
      => [Promise!Next]_<<fate, {m \in Messages :
                                   fate[m] # "new" /\ born[m] < generation}>>
  <2> SUFFICES ASSUME IInv, IInv', [Next]_vars
               PROVE  [Promise!Next]_<<fate,
                        {m \in Messages :
                           fate[m] # "new" /\ born[m] < generation}>>
    OBVIOUS
  <2>1. FateSteps
    BY EveryFate
  <2> QED
    BY <2>1 DEF FateSteps, Fenced, Promise!Next, Promise!Accept, Promise!Deliver,
                Promise!Drop, Promise!Interrupt, Promise!Move
<1> QED
  BY <1>1, <1>2, SupervisorInvariant, PTL DEF Spec, KeepsPromise, Promise!Spec

-----------------------------------------------------------------------------
(* Messages of a conversation reach the provider in order. *)

\* Of the current generation; those of earlier ones are only cancelled.
Current(e) == e.generation = generation

Waited == \E e \in scheduled : Current(e)

Coming == \E e \in ended : e.by = "provider"

\* Something will look at the queue: the turn, its end, or a goroutine.
Followed == turn # NoTurn \/ Coming \/ Waited

Vacant == pending = <<>> /\ ~Waited

\* A send that found no turn is about to start one.
Sending == Held("send") /\ ~gate.was

\* The gate is held by whoever starts queued work or interrupts.
Taken == gate.op \in {"queued", "ready", "failing", "interrupt", "stopping"}

Before(M, N) == \A m \in M, n \in N : m < n

\* A turn, the delivery of its end, and the start of the next one never overlap.
OneTurn ==
  /\ turn # NoTurn => ~Coming /\ ~Waited /\ ~Carrying
  /\ Coming => ~Waited /\ ~Carrying
  /\ \A e, f \in ended : e.by = "provider" /\ f.by = "provider" => e = f
  /\ \A e, f \in scheduled : Current(e) /\ Current(f) => e = f
  /\ Taken => ~Waited

\* An active key, and a queue, are looked after; whoever steers finds no queue.
Tended ==
  /\ active => Followed \/ closed \/ Sending \/ Taken
  /\ pending # <<>> => Followed \/ (closed /\ ~Held("send"))
  /\ pending # <<>> /\ Waited => active /\ ~Held("send")
  /\ mode = "steer" /\ turn # NoTurn => pending = <<>>
  /\ (Held("send") /\ gate.was) \/ Held("steering") => Vacant

\* What was handed over comes before what is scheduled, and that before the
\* queue.
QueueOrder ==
  /\ \A e \in scheduled : Current(e) =>
       /\ Increasing(e.messages) /\ Before(ToSet(handed), ToSet(e.messages))
       /\ \A i \in 1..Len(pending) : Before(ToSet(e.messages), {pending[i].owner})
  /\ \A i \in 1..Len(pending) : Before(ToSet(handed), {pending[i].owner})
  /\ \A i, j \in 1..Len(pending) : i < j => pending[i].owner < pending[j].owner

\* Messages reach the provider in the order of their acceptance.
OrderFits ==
  /\ handed \in Seq(Messages) /\ Increasing(handed)
  /\ Carrying => /\ Increasing(gate.entry.messages)
                 /\ Before(ToSet(handed), ToSet(gate.entry.messages))
  /\ active /\ ~Sending => QueueOrder

Ordered == OneTurn /\ Tended /\ OrderFits

\* In a conversation, as long as no turn overtook the end of another.
ChatOrder == session = "chat" /\ ~crossed => Ordered

\* What the steps below start from.
Orderly == /\ IInv /\ StartFits /\ session = "chat" /\ ~crossed
           /\ OneTurn /\ Tended /\ OrderFits

\* A larger message goes last.
LEMMA IncreasingAppend ==
  ASSUME NEW s \in Seq(Messages), NEW m \in Messages, Increasing(s),
         \A x \in ToSet(s) : x < m
  PROVE  Append(s, m) \in Seq(Messages) /\ Increasing(Append(s, m))
<1> DEFINE u == Append(s, m)
<1>1. /\ u \in Seq(Messages) /\ Len(u) = Len(s) + 1 /\ Len(s) \in Nat
      /\ \A i \in 1..Len(s) : u[i] = s[i]
      /\ u[Len(s) + 1] = m
  BY AppendProperties
<1>2. DOMAIN u = 1..(Len(s) + 1) /\ DOMAIN s = 1..Len(s)
  BY <1>1
<1> HIDE DEF u
<1>3. \A i \in 1..Len(s) : s[i] \in ToSet(s)
  BY <1>2 DEF ToSet
<1>4. ASSUME NEW i \in DOMAIN u, NEW j \in DOMAIN u, i < j
      PROVE  u[i] < u[j]
  <2>1. CASE j \in 1..Len(s)
    <3>1. i \in 1..Len(s)
      BY <1>1, <1>2, <1>4, <2>1
    <3> QED
      BY <1>1, <1>2, <1>4, <2>1, <3>1 DEF Increasing
  <2>2. CASE j = Len(s) + 1
    <3>1. i \in 1..Len(s)
      BY <1>1, <1>2, <1>4, <2>2
    <3> QED
      BY <1>1, <1>3, <2>2, <3>1
  <2> QED
    BY <1>1, <1>2, <2>1, <2>2
<1> QED
  BY <1>1, <1>4 DEF Increasing, u

\* So do larger batches.
LEMMA IncreasingConcat ==
  ASSUME NEW s \in Seq(Messages), NEW t \in Seq(Messages),
         Increasing(s), Increasing(t), Before(ToSet(s), ToSet(t))
  PROVE  s \o t \in Seq(Messages) /\ Increasing(s \o t)
<1> DEFINE u == s \o t
<1>1. /\ u \in Seq(Messages) /\ Len(u) = Len(s) + Len(t)
      /\ \A i \in 1..(Len(s) + Len(t)) :
           u[i] = IF i <= Len(s) THEN s[i] ELSE t[i - Len(s)]
      /\ Len(s) \in Nat /\ Len(t) \in Nat
  BY ConcatProperties
<1>2. /\ DOMAIN u = 1..(Len(s) + Len(t))
      /\ DOMAIN s = 1..Len(s) /\ DOMAIN t = 1..Len(t)
  BY <1>1
<1>3. /\ \A i \in 1..Len(s) : u[i] = s[i] /\ s[i] \in ToSet(s)
      /\ \A i \in DOMAIN u : i > Len(s) =>
           /\ i - Len(s) \in 1..Len(t) /\ u[i] = t[i - Len(s)]
           /\ t[i - Len(s)] \in ToSet(t)
  BY <1>1, <1>2 DEF ToSet
<1> HIDE DEF u
<1>4. ASSUME NEW i \in DOMAIN u, NEW j \in DOMAIN u, i < j
      PROVE  u[i] < u[j]
  <2>0. i \in 1..(Len(s) + Len(t)) /\ j \in 1..(Len(s) + Len(t))
    BY <1>2
  <2>1. CASE j <= Len(s)
    <3>1. i \in 1..Len(s) /\ j \in 1..Len(s)
      BY <1>1, <1>4, <2>0, <2>1
    <3> QED
      BY <1>2, <1>3, <1>4, <3>1 DEF Increasing
  <2>2. CASE i <= Len(s) /\ j > Len(s)
    <3>1. i \in 1..Len(s)
      BY <1>1, <2>0, <2>2
    <3> QED
      BY <1>3, <2>2, <3>1 DEF Before
  <2>3. CASE i > Len(s)
    <3>1. /\ i - Len(s) \in 1..Len(t) /\ j - Len(s) \in 1..Len(t)
          /\ u[i] = t[i - Len(s)] /\ u[j] = t[j - Len(s)]
          /\ i - Len(s) < j - Len(s)
      BY <1>1, <1>3, <1>4, <2>0, <2>3
    <3> QED
      BY <1>2, <3>1 DEF Increasing
  <2> QED
    BY <1>1, <2>0, <2>1, <2>2, <2>3
<1> QED
  BY <1>1, <1>4 DEF Increasing, u

\* The owners of a queue in order are a batch in order.
LEMMA IncreasingOwners ==
  ASSUME Types,
         \A i, j \in 1..Len(pending) : i < j => pending[i].owner < pending[j].owner
  PROVE  /\ Owners(pending, Len(pending)) \in Seq(Messages)
         /\ Increasing(Owners(pending, Len(pending)))
         /\ \A m : m \in ToSet(Owners(pending, Len(pending))) <=>
                     \E i \in 1..Len(pending) : pending[i].owner = m
<1> DEFINE o == Owners(pending, Len(pending))
<1>1. pending \in Seq(Entry) /\ Len(pending) \in 0..Len(pending)
  BY Typed
<1>2. /\ o \in Seq(Messages) /\ Len(o) = Len(pending)
      /\ \A i \in 1..Len(pending) : o[i] = pending[i].owner
      /\ \A m : m \in ToSet(o) <=> \E i \in 1..Len(pending) : pending[i].owner = m
  BY <1>1, OwnersOf
<1>3. DOMAIN o = 1..Len(pending)
  BY <1>2
<1> QED
  BY <1>2, <1>3 DEF Increasing

\* Fewer entries, ends and turns than before, and a gate that has not moved on.
LEMMA OneTurnFrame ==
  ASSUME OneTurn, scheduled' \subseteq scheduled, generation' = generation,
         \A x \in ended' : x \in ended \/ x.by # "provider",
         turn' # NoTurn => turn # NoTurn, Carrying' => Carrying,
         Taken' => Taken \/ ~Waited
  PROVE  OneTurn'
<1>1. /\ Waited' => Waited
      /\ Coming' => Coming
      /\ \A e \in scheduled' : e \in scheduled /\ (Current(e)' <=> Current(e))
  BY DEF Waited, Coming, Current
<1> QED
  BY <1>1 DEF OneTurn

\* Nothing is queued, and what is scheduled is only cancelled.
LEMMA QueueOrderVacant ==
  ASSUME Vacant'
  PROVE  QueueOrder'
  BY DEF Vacant, Waited, QueueOrder

\* Nothing new is scheduled, queued or handed over.
LEMMA QueueOrderFrame ==
  ASSUME QueueOrder, scheduled' \subseteq scheduled, generation' = generation,
         pending' \in {pending, <<>>}, handed' = handed
  PROVE  QueueOrder'
<1>1. \A i \in 1..Len(pending') : i \in 1..Len(pending) /\ pending'[i] = pending[i]
  OBVIOUS
<1>2. \A e \in scheduled' : e \in scheduled /\ (Current(e)' <=> Current(e))
  BY DEF Current
<1> QED
  BY <1>1, <1>2 DEF QueueOrder

\* Whatever is somewhere was accepted before a message that is new.
LEMMA EarlierThanNew ==
  ASSUME Types, Books, session = "chat", NEW m \in Messages, status[m] = "new"
  PROVE  /\ \A n \in ToSet(handed) \cap Messages : n < m
         /\ \A e \in scheduled : \A n \in ToSet(e.messages) : n < m
         /\ \A i \in 1..Len(pending) : pending[i].owner < m
<1>1. \A n \in Messages : status[n] # "new" => n < m
  BY DEF Books, FateFits
<1>2. \A n \in ToSet(handed) \cap Messages : status[n] # "new"
  BY DEF Books, FateFits
<1>3. \A e \in scheduled : \A n \in ToSet(e.messages) :
        n \in Messages /\ status[n] # "new"
  BY Elsewhere
<1>4. \A i \in 1..Len(pending) :
        pending[i].owner \in Messages /\ status[pending[i].owner] # "new"
  BY Elsewhere
<1> QED
  BY <1>1, <1>2, <1>3, <1>4

\* A send is admitted.
LEMMA SendAdmitOrder ==
  ASSUME Orderly, NEW m \in Messages, NEW strict \in BOOLEAN, SendAdmit(m, strict)
  PROVE  Ordered'
<1>0. /\ IInv /\ Types /\ Books /\ TypeOK /\ session = "chat"
      /\ OneTurn /\ Tended /\ OrderFits
  BY DEF Orderly, IInv, Types
<1>1. /\ gate.op = "free" /\ status[m] = "new"
      /\ UNCHANGED <<session, mode, provider, closed, generation, scheduled,
                     turn, ended, handed>>
  BY <1>0, SendAdmitFrame, SendAdmitOutcome
<1>2. \/ UNCHANGED <<gate, active, pending>>
      \/ /\ provider = "up"
         /\ (turn = NoTurn /\ active) \/ (turn # NoTurn /\ mode = "queue")
         /\ pending' = Append(pending, Queued(m))
         /\ UNCHANGED <<gate, active>>
      \/ /\ provider = "up"
         /\ \/ turn = NoTurn /\ ~active
            \/ turn # NoTurn /\ mode = "steer" /\ active' = active
         /\ gate'.op = "send" /\ gate'.was = (turn # NoTurn)
         /\ UNCHANGED pending
  BY <1>0, <1>1, SendAdmitFrame, SendAdmitOutcome
<1>3. /\ Waited' <=> Waited
      /\ Coming' <=> Coming
      /\ Followed' <=> Followed
      /\ ~Carrying /\ ~Sending /\ ~Taken /\ ~Held("send") /\ ~Held("steering")
  BY <1>1 DEF Waited, Coming, Followed, Current, Carrying, Sending, Taken, Held
<1>4. provider = "up" => ~closed
  BY <1>0 DEF IInv, SwapFits
<1>5. CASE UNCHANGED <<gate, active, pending>>
  <2>1. /\ Held("send")' <=> Held("send")
        /\ Held("steering")' <=> Held("steering")
        /\ Carrying' <=> Carrying
        /\ Sending' <=> Sending
        /\ Taken' <=> Taken
    BY <1>5 DEF Held, Carrying, Sending, Taken
  <2>2. OneTurn'
    BY <1>0, <1>1, <2>1, OneTurnFrame
  <2>3. Tended'
    BY <1>0, <1>1, <1>3, <1>5, <2>1 DEF Tended, Vacant
  <2>4. OrderFits'
    BY <1>0, <1>1, <1>3, <1>5, <2>1, QueueOrderFrame DEF OrderFits
  <2> QED
    BY <2>2, <2>3, <2>4 DEF Ordered
<1>6. CASE /\ provider = "up"
           /\ (turn = NoTurn /\ active) \/ (turn # NoTurn /\ mode = "queue")
           /\ pending' = Append(pending, Queued(m))
           /\ UNCHANGED <<gate, active>>
  <2>1. /\ ~Held("send")' /\ ~Held("steering")' /\ ~Carrying' /\ ~Sending'
        /\ ~Taken'
    BY <1>3, <1>6 DEF Held, Carrying, Sending, Taken
  <2>2. OneTurn'
    BY <1>0, <1>1, <2>1, OneTurnFrame
  <2>3. Tended'
    <3>1. Followed
      BY <1>0, <1>3, <1>4, <1>6 DEF Tended, Followed
    <3>2. Waited => active
      BY <1>0, <1>6 DEF OneTurn
    <3> QED
      BY <1>0, <1>1, <1>3, <1>6, <2>1, <3>1, <3>2 DEF Tended
  <2>4. OrderFits'
    <3>1. /\ pending \in Seq(Entry) /\ Len(pending) \in Nat
          /\ Len(pending') = Len(pending) + 1
          /\ pending'[Len(pending) + 1] = Queued(m)
          /\ \A i \in 1..Len(pending) : pending'[i] = pending[i]
      BY <1>0, <1>6, Typed, QueuedTypes, AppendProperties
    <3>2. \A i \in 1..Len(pending') :
            \/ i \in 1..Len(pending) /\ pending'[i] = pending[i]
            \/ i = Len(pending) + 1 /\ pending'[i].owner = m
      BY <3>1, QueuedTypes
    <3>3. ASSUME active PROVE QueueOrder'
      <4>1. QueueOrder
        BY <1>0, <1>3, <3>3 DEF OrderFits
      <4>2. /\ \A n \in ToSet(handed) : n < m
            /\ \A e \in scheduled : \A n \in ToSet(e.messages) : n < m
            /\ \A i \in 1..Len(pending) : pending[i].owner < m
        <5>1. ToSet(handed) \subseteq Messages
          BY <1>0, ElementsOf DEF OrderFits
        <5> QED
          BY <1>0, <1>1, <5>1, EarlierThanNew
      <4>3. \A e \in scheduled : Current(e)' <=> Current(e)
        BY <1>1 DEF Current
      <4>4. \A e \in scheduled' : Current(e)' =>
              /\ Increasing(e.messages) /\ Before(ToSet(handed'), ToSet(e.messages))
              /\ \A i \in 1..Len(pending') :
                   Before(ToSet(e.messages), {pending'[i].owner})
        BY <1>1, <3>2, <4>1, <4>2, <4>3 DEF QueueOrder, Before
      <4>5. \A i \in 1..Len(pending') : Before(ToSet(handed'), {pending'[i].owner})
        BY <1>1, <3>2, <4>1, <4>2 DEF QueueOrder, Before
      <4>6. \A i, j \in 1..Len(pending') :
              i < j => pending'[i].owner < pending'[j].owner
        <5> SUFFICES ASSUME NEW i \in 1..Len(pending'), NEW j \in 1..Len(pending'),
                            i < j
                     PROVE  pending'[i].owner < pending'[j].owner
          OBVIOUS
        <5>1. i \in 1..Len(pending) /\ pending'[i] = pending[i]
          BY <3>1
        <5>2. CASE j \in 1..Len(pending)
          BY <3>1, <4>1, <5>1, <5>2 DEF QueueOrder
        <5>3. CASE pending'[j].owner = m
          BY <4>2, <5>1, <5>3
        <5> QED
          BY <3>2, <5>2, <5>3
      <4> QED
        BY <4>4, <4>5, <4>6 DEF QueueOrder
    <3> QED
      BY <1>0, <1>1, <1>6, <2>1, <3>3 DEF OrderFits
  <2> QED
    BY <2>2, <2>3, <2>4 DEF Ordered
<1>7. CASE /\ provider = "up"
           /\ \/ turn = NoTurn /\ ~active
              \/ turn # NoTurn /\ mode = "steer" /\ active' = active
           /\ gate'.op = "send" /\ gate'.was = (turn # NoTurn)
           /\ UNCHANGED pending
  <2>1. /\ Held("send")' /\ ~Held("steering")' /\ ~Carrying' /\ ~Taken'
        /\ Sending' <=> turn = NoTurn
        /\ gate'.was <=> turn # NoTurn
    BY <1>7 DEF Held, Carrying, Sending, Taken
  <2>2. OneTurn'
    BY <1>0, <1>1, <2>1, OneTurnFrame
  <2>3. turn # NoTurn => Vacant /\ Vacant'
    BY <1>0, <1>1, <1>3, <1>7 DEF Tended, OneTurn, Vacant
  <2>4. Tended'
    <3>1. pending # <<>> => Followed /\ ~Waited
      BY <1>0, <1>4, <1>7, <2>3 DEF Tended, Vacant
    <3> QED
      BY <1>0, <1>1, <1>3, <1>7, <2>1, <2>3, <3>1 DEF Tended, Followed
  <2>5. OrderFits'
    BY <1>0, <1>1, <1>7, <2>1, <2>3, QueueOrderVacant DEF OrderFits
  <2> QED
    BY <2>2, <2>4, <2>5 DEF Ordered
<1> QED
  BY <1>2, <1>5, <1>6, <1>7

\* A message that is steered, or starts a turn, is the newest there is.
LEMMA SendOrder ==
  ASSUME Orderly, ~crossed', SendSteer \/ SendStart \/ SendRefused
  PROVE  Ordered'
<1>0. /\ IInv /\ Types /\ Books /\ TypeOK /\ session = "chat"
      /\ OneTurn /\ Tended /\ OrderFits
  BY DEF Orderly, IInv, Types
<1>1. /\ Held("send") /\ gate.message \in Messages
      /\ UNCHANGED <<session, mode, provider, closed, generation, scheduled,
                     ended, pending>>
      /\ ~Carrying /\ ~Taken /\ ~Held("steering")
  BY <1>0, SendSteerEffect, SendStartEffect, SendRefusedEffect
  DEF Held, Carrying, Taken
<1>2. /\ Waited' <=> Waited
      /\ Coming' <=> Coming
      /\ gate.was => Vacant /\ Vacant'
  BY <1>0, <1>1 DEF Waited, Coming, Current, Tended, Vacant
<1>3. gate.was \in BOOLEAN /\ (Sending <=> ~gate.was)
  BY <1>0, <1>1 DEF Types, GateTypes, Sending
<1>4. handed' \in Seq(Messages) /\ Increasing(handed')
  <2>1. \A x \in ToSet(handed) : x < gate.message
    <3>1. \A n \in Messages : status[n] # "new" => n <= gate.message
      BY <1>0, <1>1 DEF Books, GateFits
    <3>2. gate.message \notin ToSet(handed)
      BY <1>0, <1>1 DEF Books, GateFits, Fresh
    <3>3. \A n \in ToSet(handed) : n \in Messages /\ status[n] # "new"
      <4>1. ToSet(handed) \subseteq Messages
        BY <1>0, ElementsOf DEF OrderFits
      <4> QED
        BY <1>0, <4>1 DEF Books, FateFits
    <3>4. \A n \in ToSet(handed) : n \in Nat /\ gate.message \in Nat
      BY <1>1, <3>3, Numbers
    <3> QED
      BY <3>1, <3>2, <3>3, <3>4
  <2>2. handed' \in {handed, Append(handed, gate.message)}
    BY <1>0, SendSteerEffect, SendStartEffect, SendRefusedEffect
  <2>3. handed \in Seq(Messages) /\ Increasing(handed)
    BY <1>0 DEF OrderFits
  <2> QED
    BY <1>1, <2>1, <2>2, <2>3, IncreasingAppend
<1>5. CASE SendSteer
  <2>1. /\ gate.was /\ turn # NoTurn /\ turn' # NoTurn /\ active' = active
        /\ gate'.op = "steering"
    BY <1>0, <1>5, SendSteerEffect DEF Held
  <2>2. /\ ~Held("send")' /\ Held("steering")' /\ ~Carrying' /\ ~Taken'
        /\ ~Sending'
    BY <2>1 DEF Held, Carrying, Taken, Sending
  <2>3. OneTurn'
    BY <1>0, <1>1, <2>1, <2>2, OneTurnFrame
  <2>4. Tended'
    BY <1>2, <2>1, <2>2 DEF Tended, Followed, Vacant
  <2>5. OrderFits'
    BY <1>2, <1>4, <2>1, <2>2, QueueOrderVacant DEF OrderFits
  <2> QED
    BY <2>3, <2>4, <2>5 DEF Ordered
<1>6. CASE SendStart
  <2>1. /\ turn = NoTurn /\ gate'.op = "free"
        /\ \/ turn' = NoTurn
           \/ ~(~active \/ ended # {} \/ \E e \in scheduled : Current(e))
        /\ turn'.live => turn' # NoTurn
        /\ active' = active \/ (gate.was => active' = active)
        /\ ~gate.was => turn'.live \/ ~active'
    BY <1>0, <1>6, SendStartEffect, EmptyTyped DEF Current
  <2>2. /\ ~Held("send")' /\ ~Held("steering")' /\ ~Carrying' /\ ~Taken'
        /\ ~Sending'
    BY <2>1 DEF Held, Carrying, Taken, Sending
  <2>3. turn' # NoTurn => active /\ ~Coming /\ ~Waited /\ Vacant /\ Vacant'
    <3> SUFFICES ASSUME turn' # NoTurn
                 PROVE  active /\ ~Coming /\ ~Waited /\ Vacant /\ Vacant'
      OBVIOUS
    <3>1. active /\ ~Coming /\ ~Waited
      BY <2>1 DEF Coming, Waited
    <3>2. pending = <<>>
      BY <1>0, <1>1, <2>1, <3>1 DEF Tended, Followed
    <3> QED
      BY <1>1, <1>2, <3>1, <3>2 DEF Vacant
  <2>4. OneTurn'
    <3>1. CASE turn' = NoTurn
      BY <1>0, <1>1, <2>2, <3>1, OneTurnFrame
    <3>2. CASE turn' # NoTurn
      <4>1. \A e \in scheduled : Current(e)' <=> Current(e)
        BY <1>1 DEF Current
      <4> QED
        BY <1>0, <1>1, <1>2, <2>2, <2>3, <3>2, <4>1 DEF OneTurn
    <3> QED
      BY <3>1, <3>2
  <2>5. active' => turn' # NoTurn \/ (gate.was /\ active)
    BY <1>3, <2>1
  <2>6. Tended'
    <3>1. CASE turn' # NoTurn
      BY <2>2, <2>3, <3>1 DEF Tended, Followed, Vacant
    <3>2. CASE turn' = NoTurn
      <4>1. active' => Followed' \/ closed'
        BY <1>0, <1>1, <1>2, <1>3, <2>1, <2>5, <3>2 DEF Tended, Followed
      <4>2. pending' # <<>> => Followed'
        BY <1>0, <1>1, <1>2, <2>1 DEF Tended, Followed
      <4>3. ~(pending' # <<>> /\ Waited')
        BY <1>0, <1>1, <1>2 DEF Tended
      <4> QED
        BY <2>2, <3>2, <4>1, <4>2, <4>3 DEF Tended
    <3> QED
      BY <3>1, <3>2
  <2>7. OrderFits'
    BY <1>2, <1>4, <2>2, <2>3, <2>5, QueueOrderVacant DEF OrderFits
  <2> QED
    BY <2>4, <2>6, <2>7 DEF Ordered
<1>7. CASE SendRefused
  <2>1. /\ turn' = turn /\ gate'.op = "free"
        /\ gate.was => active' = active
        /\ ~gate.was => ~active'
    BY <1>0, <1>7, SendRefusedEffect
  <2>2. /\ ~Held("send")' /\ ~Held("steering")' /\ ~Carrying' /\ ~Taken'
        /\ ~Sending'
    BY <2>1 DEF Held, Carrying, Taken, Sending
  <2>3. OneTurn'
    BY <1>0, <1>1, <2>1, <2>2, OneTurnFrame
  <2>4. Followed' <=> Followed
    BY <1>2, <2>1 DEF Followed
  <2>5. Tended'
    BY <1>0, <1>1, <1>2, <1>3, <2>1, <2>2, <2>4 DEF Tended
  <2>6. OrderFits'
    BY <1>2, <1>3, <1>4, <2>1, <2>2, QueueOrderVacant DEF OrderFits
  <2> QED
    BY <2>3, <2>5, <2>6 DEF Ordered
<1> QED
  BY <1>5, <1>6, <1>7

\* The answer to a steered message.
LEMMA SteerReplyOrder ==
  ASSUME Orderly, SteerReply
  PROVE  Ordered'
<1>0. /\ IInv /\ Types /\ Books /\ TypeOK /\ session = "chat"
      /\ OneTurn /\ Tended /\ OrderFits
  BY DEF Orderly, IInv, Types
<1>1. /\ Held("steering") /\ active' = active /\ (turn' = NoTurn <=> turn = NoTurn)
      /\ gate'.op = "free"
      /\ UNCHANGED <<mode, closed, pending, generation, scheduled, ended, handed>>
  BY <1>0, SteerReplyEffect
<1>2. /\ Waited' <=> Waited
      /\ Coming' <=> Coming
      /\ Followed' <=> Followed
      /\ Vacant /\ Vacant'
      /\ ~Sending /\ ~Taken /\ ~Carrying
  BY <1>0, <1>1
  DEF Waited, Coming, Current, Tended, Vacant, Followed, Sending, Taken, Carrying,
      Held
<1>3. /\ ~Held("send")' /\ ~Held("steering")' /\ ~Carrying' /\ ~Taken'
      /\ ~Sending'
  BY <1>1 DEF Held, Carrying, Taken, Sending
<1>4. OneTurn'
  BY <1>0, <1>1, <1>3, OneTurnFrame
<1>5. Tended'
  BY <1>0, <1>1, <1>2, <1>3 DEF Tended, Vacant
<1>6. OrderFits'
  BY <1>0, <1>1, <1>2, <1>3, QueueOrderVacant DEF OrderFits
<1> QED
  BY <1>4, <1>5, <1>6 DEF Ordered

\* A turn ends, by itself or with its provider; or the provider changes.
LEMMA TurnEndsOrder ==
  ASSUME Orderly, TurnEnds \/ Reconfigure \/ Close \/ Replace \/ Recover
  PROVE  Ordered'
<1>0. /\ IInv /\ Types /\ Books /\ TypeOK /\ session = "chat"
      /\ OneTurn /\ Tended /\ OrderFits
  BY DEF Orderly, IInv, Types
<1>1. /\ UNCHANGED <<gate, active, pending, generation, scheduled, handed>>
      /\ closed => closed'
      /\ turn' # NoTurn => mode' = mode
  <2>1. CASE TurnEnds
    BY <1>0, <2>1, TurnEndsEffect
  <2>2. CASE Reconfigure \/ Close \/ Replace \/ Recover
    <3>1. turn' # NoTurn => mode' = mode
      BY <2>2 DEF Reconfigure, Close, Replace, Recover
    <3> QED
      BY <1>0, <2>2, <3>1, HarnessEffect
  <2> QED
    BY <2>1, <2>2
<1>2. \/ turn' = turn /\ ended' = ended
      \/ /\ turn # NoTurn /\ turn' = NoTurn
         /\ \E x \in Ends : ended' = ended \cup {x} /\ x.by = "provider"
  BY <1>0, TurnEndsEffect, HarnessEffect
<1>3. /\ Waited' <=> Waited
      /\ Followed => Followed'
      /\ Carrying' <=> Carrying
      /\ Sending' <=> Sending
      /\ Taken' <=> Taken
      /\ Held("send")' <=> Held("send")
      /\ Held("steering")' <=> Held("steering")
      /\ gate' = gate
  BY <1>1, <1>2 DEF Waited, Coming, Current, Followed, Carrying, Sending, Taken, Held
<1>4. OneTurn'
  <2>1. CASE turn' = turn /\ ended' = ended
    BY <1>0, <1>1, <1>3, <2>1, OneTurnFrame
  <2>2. CASE /\ turn # NoTurn /\ turn' = NoTurn
             /\ \E x \in Ends : ended' = ended \cup {x} /\ x.by = "provider"
    <3>1. ~Coming /\ ~Waited /\ ~Carrying
      BY <1>0, <2>2 DEF OneTurn
    <3>2. \A e, f \in ended' : e.by = "provider" /\ f.by = "provider" => e = f
      BY <2>2, <3>1 DEF Coming
    <3>3. \A e \in scheduled' : ~Current(e)'
      BY <1>3, <3>1 DEF Waited
    <3> QED
      BY <1>3, <2>2, <3>1, <3>2, <3>3 DEF OneTurn
  <2> QED
    BY <1>2, <2>1, <2>2
<1>5. Tended'
  <2>1. turn' # NoTurn => turn # NoTurn
    BY <1>2
  <2> QED
    BY <1>0, <1>1, <1>3, <2>1 DEF Tended, Vacant
<1>6. OrderFits'
  BY <1>0, <1>1, <1>3, QueueOrderFrame DEF OrderFits
<1> QED
  BY <1>4, <1>5, <1>6 DEF Ordered

\* The wrapper decides what follows the turn.
LEMMA TerminalOrder ==
  ASSUME Orderly, NEW e \in ended, TerminalEvent(e)
  PROVE  Ordered'
<1>0. /\ IInv /\ Types /\ Books /\ TypeOK /\ session = "chat" /\ QueueFits
      /\ OneTurn /\ Tended /\ OrderFits /\ StartFits /\ ChatFits
  BY DEF Orderly, IInv, Types, Books
<1>1. /\ UNCHANGED <<session, mode, closed, generation, turn, handed>>
      /\ gate' = gate \/ (e.by = "start" /\ gate'.op = "free")
      /\ ended' = ended \ {e}
      /\ \/ TakeNext(e) /\ active' = active
         \/ pending = <<>> /\ active' = FALSE /\ UNCHANGED <<pending, scheduled>>
  BY <1>0, TerminalEffect, EmptyTyped DEF ChatFits
<1>2. e.by = "provider" \/ (e.by = "start" /\ gate.op = "failing")
  <2>1. e.by \in {"provider", "start"}
    <3>1. e \in Ends
      BY <1>0, Typed
    <3> QED
      BY <3>1 DEF Ends
  <2> QED
    BY <1>0, <2>1 DEF StartFits, Held
<1>3. CASE TakeNext(e) /\ active' = active
  <2>1. pending # <<>> /\ gate.op # "failing"
    BY <1>0, <1>3, TakeNextEffect DEF ChatFits
  <2>2. e.by = "provider" /\ gate' = gate /\ Coming
    BY <1>1, <1>2, <2>1 DEF Coming
  <2>3. /\ ~Waited /\ ~Carrying /\ turn = NoTurn /\ ~Taken
        /\ \A x \in ended' : x.by # "provider"
    BY <1>0, <1>1, <2>1, <2>2 DEF OneTurn, ChatFits, Taken, Held, Carrying
  <2>4. PICK n \in Entry :
          /\ scheduled' = scheduled \cup {n} /\ n.generation = generation
          /\ pending' = <<>> /\ n.messages = Owners(pending, Len(pending))
    BY <1>0, <1>3, TakeNextEffect
  <2>5. /\ Held("send")' <=> Held("send")
        /\ Held("steering")' <=> Held("steering")
        /\ Carrying' <=> Carrying
        /\ Sending' <=> Sending
        /\ Taken' <=> Taken
        /\ ~Coming' /\ Waited' /\ Followed'
        /\ \A f \in scheduled' : Current(f)' => f = n
    BY <1>1, <2>2, <2>3, <2>4
    DEF Held, Carrying, Sending, Taken, Coming, Waited, Followed, Current
  <2>6. OneTurn'
    BY <1>1, <2>3, <2>5 DEF OneTurn, Coming
  <2>7. ~((Held("send") /\ gate.was) \/ Held("steering"))
    BY <1>0, <2>1 DEF Tended, Vacant
  <2>8. Tended'
    BY <2>2, <2>4, <2>5, <2>7 DEF Tended
  <2>9. OrderFits'
    <3>1. ASSUME active /\ ~Sending PROVE QueueOrder'
      <4>1. QueueOrder
        BY <1>0, <3>1 DEF OrderFits
      <4>2. /\ Increasing(n.messages)
            /\ \A m : m \in ToSet(n.messages) <=>
                        \E i \in 1..Len(pending) : pending[i].owner = m
        BY <1>0, <2>4, <4>1, IncreasingOwners DEF QueueOrder
      <4>3. Before(ToSet(handed'), ToSet(n.messages))
        BY <1>1, <4>1, <4>2 DEF QueueOrder, Before
      <4>4. \A i \in 1..Len(pending') : FALSE
        BY <2>4
      <4> QED
        BY <2>5, <4>2, <4>3, <4>4 DEF QueueOrder
    <3> QED
      BY <1>0, <1>1, <1>3, <2>2, <2>3, <2>5, <3>1 DEF OrderFits
  <2> QED
    BY <2>6, <2>8, <2>9 DEF Ordered
<1>4. CASE pending = <<>> /\ active' = FALSE /\ UNCHANGED <<pending, scheduled>>
  <2>1. /\ Carrying' => Carrying /\ gate' = gate
        /\ Taken' => Taken
        /\ Held("send")' => Held("send") /\ gate' = gate
        /\ Held("steering")' => Held("steering")
    BY <1>1 DEF Held, Carrying, Taken
  <2>2. OneTurn'
    BY <1>0, <1>1, <1>4, <2>1, OneTurnFrame
  <2>3. Waited' <=> Waited
    BY <1>1, <1>4 DEF Waited, Current
  <2>4. Tended'
    BY <1>0, <1>4, <2>1, <2>3 DEF Tended, Vacant
  <2>5. OrderFits'
    BY <1>0, <1>1, <1>4, <2>1 DEF OrderFits
  <2> QED
    BY <2>2, <2>4, <2>5 DEF Ordered
<1> QED
  BY <1>1, <1>3, <1>4

\* A goroutine takes the gate, or finds that its entry is not to be started.
LEMMA AcquireOrder ==
  ASSUME Orderly, NEW e \in scheduled, QueuedAcquire(e)
  PROVE  Ordered'
<1>0. /\ IInv /\ Types /\ Books /\ TypeOK /\ session = "chat" /\ QueueFits
      /\ ScheduledFits /\ OneTurn /\ Tended /\ OrderFits
  BY DEF Orderly, IInv, Types, Books
<1>1. /\ gate.op = "free" /\ scheduled' = scheduled \ {e}
      /\ UNCHANGED <<mode, closed, active, generation, turn, ended, handed>>
  BY <1>0, AcquireCancels, AcquireKeeps
<1>2. /\ ~Held("send") /\ ~Held("steering") /\ ~Carrying /\ ~Taken /\ ~Sending
      /\ Coming' <=> Coming
      /\ Waited' => Waited
      /\ \A f \in scheduled' : f \in scheduled /\ (Current(f)' <=> Current(f))
  BY <1>1 DEF Held, Carrying, Taken, Sending, Coming, Waited, Current
<1>3. CASE ~Valid(e)
  <2>1. gate' = gate /\ pending' = pending
    BY <1>0, <1>3, AcquireCancels
  <2>2. /\ ~Held("send")' /\ ~Held("steering")' /\ ~Carrying' /\ ~Taken'
        /\ ~Sending'
    BY <1>2, <2>1 DEF Held, Carrying, Taken, Sending
  <2>3. OneTurn'
    BY <1>0, <1>1, <2>2, OneTurnFrame
  <2>4. Tended'
    <3>1. CASE Current(e)
      <4>1. closed \/ ~active
        BY <1>3, <3>1 DEF Valid, Current
      <4>2. Waited
        BY <3>1 DEF Waited
      <4>3. pending # <<>> => active
        BY <1>0, <4>2 DEF Tended
      <4> QED
        BY <1>0, <1>1, <1>2, <2>1, <2>2, <4>1, <4>3 DEF Tended
    <3>2. CASE ~Current(e)
      <4>1. Waited' <=> Waited
        BY <1>1, <1>2, <3>2 DEF Waited
      <4>2. Followed' <=> Followed
        BY <1>1, <1>2, <4>1 DEF Followed
      <4> QED
        BY <1>0, <1>1, <1>2, <2>1, <2>2, <4>1, <4>2 DEF Tended
    <3> QED
      BY <3>1, <3>2
  <2>5. OrderFits'
    BY <1>0, <1>1, <1>2, <2>1, <2>2, QueueOrderFrame DEF OrderFits
  <2> QED
    BY <2>3, <2>4, <2>5 DEF Ordered
<1>4. CASE Valid(e)
  <2>1. /\ active /\ ~closed /\ e.generation = generation /\ gate'.op = "queued"
        /\ e \in Entry /\ pending' = <<>>
        /\ gate'.entry.messages = e.messages \o Owners(pending, Len(pending))
    BY <1>0, <1>4, AcquireKeeps, AcquireEffect
  <2>2. Current(e) /\ Waited
    BY <2>1 DEF Current, Waited
  <2>3. ~Waited' /\ turn = NoTurn /\ ~Coming
    BY <1>0, <1>1, <1>2, <2>2 DEF OneTurn, Waited
  <2>4. /\ ~Held("send")' /\ ~Held("steering")' /\ Carrying' /\ Taken'
        /\ ~Sending' /\ Vacant'
    BY <2>1, <2>3 DEF Held, Carrying, Taken, Sending, Vacant
  <2>5. OneTurn'
    BY <1>0, <1>1, <1>2, <2>3 DEF OneTurn
  <2>6. Tended'
    BY <2>1, <2>4 DEF Tended, Vacant
  <2>7. QueueOrder /\ Increasing(e.messages) /\ e.messages \in Seq(Messages)
    BY <1>0, <1>2, <2>1, <2>2 DEF OrderFits, QueueOrder, Entry
  <2>8. /\ Owners(pending, Len(pending)) \in Seq(Messages)
        /\ Increasing(Owners(pending, Len(pending)))
        /\ \A m : m \in ToSet(Owners(pending, Len(pending))) <=>
                    \E i \in 1..Len(pending) : pending[i].owner = m
    BY <1>0, <2>7, IncreasingOwners DEF QueueOrder
  <2>9. Before(ToSet(e.messages), ToSet(Owners(pending, Len(pending))))
    BY <2>2, <2>7, <2>8 DEF QueueOrder, Before
  <2>10. Increasing(gate'.entry.messages)
    BY <2>1, <2>7, <2>8, <2>9, IncreasingConcat
  <2>11. Before(ToSet(handed'), ToSet(gate'.entry.messages))
    <3>1. ToSet(gate'.entry.messages)
            = ToSet(e.messages) \cup ToSet(Owners(pending, Len(pending)))
      BY <2>1, <2>7, <2>8, ElementsOfConcat
    <3>2. Before(ToSet(handed), ToSet(e.messages))
      BY <2>2, <2>7 DEF QueueOrder
    <3>3. Before(ToSet(handed), ToSet(Owners(pending, Len(pending))))
      BY <2>7, <2>8 DEF QueueOrder, Before
    <3> QED
      BY <1>1, <3>1, <3>2, <3>3 DEF Before
  <2>12. OrderFits'
    BY <1>0, <1>1, <2>4, <2>10, <2>11, QueueOrderVacant DEF OrderFits
  <2> QED
    BY <2>5, <2>6, <2>12 DEF Ordered
<1> QED
  BY <1>3, <1>4

\* Queued work is prepared, refused, or handed over.
LEMMA QueuedOrder ==
  ASSUME Orderly, ~crossed',
         QueuedPrepare \/ QueuedUnreserved \/ QueuedClosed \/ QueuedSend
  PROVE  Ordered'
<1>0. /\ IInv /\ Types /\ Books /\ TypeOK /\ session = "chat"
      /\ OneTurn /\ Tended /\ OrderFits /\ ChatFits
  BY DEF Orderly, IInv, Types
<1>1. /\ Carrying /\ gate.entry \in Entry
      /\ gate'.op \in {"free", "ready", "failing"}
      /\ UNCHANGED <<mode, closed, generation, scheduled>>
      /\ turn' = turn \/ QueuedSend
  <2>1. CASE QueuedPrepare
    BY <1>0, <2>1, PrepareEffect DEF Carrying
  <2>2. CASE QueuedUnreserved
    BY <1>0, <2>2, UnreservedEffect DEF Carrying
  <2>3. CASE QueuedClosed
    BY <1>0, <2>3, ClosedEffect DEF Carrying
  <2>4. CASE QueuedSend
    BY <1>0, <2>4, QueuedSendEffect DEF Carrying
  <2> QED
    BY <2>1, <2>2, <2>3, <2>4
<1>2. /\ pending = <<>> /\ Taken /\ ~Waited /\ turn = NoTurn /\ ~Coming
      /\ ~Sending
  BY <1>0, <1>1
  DEF ChatFits, Taken, OneTurn, Carrying, Held, Sending
<1>3. pending' = <<>>
  BY <1>0, <1>2, PrepareEffect, UnreservedEffect, ClosedEffect, QueuedSendEffect
<1>4. /\ ~Waited' /\ Vacant' /\ ~Held("send")' /\ ~Held("steering")' /\ ~Sending'
      /\ Carrying' <=> gate'.op = "ready"
      /\ \A f \in scheduled' : ~Current(f)'
  BY <1>1, <1>2, <1>3 DEF Waited, Current, Vacant, Held, Sending, Carrying
<1>5. \A x \in ended' : x \in ended \/ x.by # "provider"
  BY <1>0, PrepareEffect, UnreservedEffect, ClosedEffect, QueuedSendEffect
<1>6. ~Coming'
  BY <1>2, <1>5 DEF Coming
<1>7. turn' # NoTurn => ~Carrying'
  <2>1. QueuedSend => gate'.op # "ready"
    BY <1>0, QueuedSendEffect
  <2> QED
    BY <1>1, <1>2, <1>4, <2>1
<1>8. OneTurn'
  BY <1>4, <1>6, <1>7 DEF OneTurn, Coming
<1>9. active' => turn' # NoTurn \/ closed' \/ gate'.op \in {"ready", "failing"}
  <2>1. CASE QueuedPrepare
    BY <1>0, <1>1, <2>1, PrepareEffect
  <2>2. CASE QueuedUnreserved
    BY <1>0, <2>2, UnreservedEffect
  <2>3. CASE QueuedClosed
    BY <1>0, <2>3, ClosedEffect
  <2>4. CASE QueuedSend
    BY <1>0, <2>4, QueuedSendEffect
  <2> QED
    BY <2>1, <2>2, <2>3, <2>4
<1>10. Tended'
  BY <1>3, <1>4, <1>9 DEF Tended, Followed, Taken
<1>11. OrderFits'
  <2>1. CASE QueuedPrepare \/ QueuedUnreserved \/ QueuedClosed
    <3>1. /\ handed' = handed
          /\ gate'.op = "ready" => gate'.entry = gate.entry
      BY <1>0, <2>1, PrepareEffect, UnreservedEffect, ClosedEffect
    <3> QED
      BY <1>0, <1>1, <1>4, <3>1, QueueOrderVacant DEF OrderFits
  <2>2. CASE QueuedSend
    <3>1. /\ gate'.op # "ready"
          /\ handed' = handed \/ handed' = handed \o gate.entry.messages
      BY <1>0, <2>2, QueuedSendEffect
    <3>2. gate.entry.messages \in Seq(Messages)
      BY <1>1 DEF Entry
    <3>3. handed' \in Seq(Messages) /\ Increasing(handed')
      BY <1>0, <1>1, <3>1, <3>2, IncreasingConcat DEF OrderFits
    <3> QED
      BY <1>4, <3>1, <3>3, QueueOrderVacant DEF OrderFits
  <2> QED
    BY <2>1, <2>2
<1> QED
  BY <1>8, <1>10, <1>11 DEF Ordered

\* An interruption leaves nothing of the current generation.
LEMMA InterruptOrder ==
  ASSUME Orderly, Interrupt
  PROVE  Ordered'
<1>0. /\ IInv /\ Types /\ Books /\ TypeOK /\ session = "chat"
      /\ OneTurn /\ Tended /\ OrderFits /\ ChatFits
  BY DEF Orderly, IInv, Types
<1>1. CASE InterruptFence
  <2>1. /\ gate.op = "free" /\ gate'.op = "interrupt" /\ pending' = <<>>
        /\ generation' = generation + 1 /\ generation \in Nat
        /\ UNCHANGED <<mode, closed, active, scheduled, turn, ended, handed>>
    BY <1>0, <1>1, FenceEffect
  <2>2. \A f \in scheduled' : ~Current(f)'
    <3> SUFFICES ASSUME NEW f \in scheduled PROVE f.generation # generation'
      BY <2>1 DEF Current
    <3>1. f \in Entry
      BY <1>0, Typed
    <3>2. f.generation \in Nat /\ f.generation <= generation
      BY <1>0, <3>1 DEF Books, ScheduledFits, EntryFits, Entry
    <3> QED
      BY <2>1, <3>2
  <2>3. /\ ~Waited' /\ Vacant' /\ Taken' /\ ~Carrying' /\ ~Sending'
        /\ ~Held("send")' /\ ~Held("steering")'
        /\ Coming' <=> Coming
    BY <2>1, <2>2 DEF Waited, Vacant, Taken, Carrying, Sending, Held, Coming
  <2>4. OneTurn'
    BY <1>0, <2>1, <2>2, <2>3 DEF OneTurn
  <2>5. Tended'
    BY <2>1, <2>3 DEF Tended
  <2>6. OrderFits'
    BY <1>0, <2>1, <2>3, QueueOrderVacant DEF OrderFits
  <2> QED
    BY <2>4, <2>5, <2>6 DEF Ordered
<1>2. CASE InterruptIdle \/ InterruptSignal \/ InterruptReturn
  <2>1. /\ gate.op \in {"interrupt", "stopping"}
        /\ gate'.op \in {"free", "stopping"}
        /\ \/ gate'.op = "free" /\ turn = NoTurn /\ active' = FALSE
           \/ turn # NoTurn /\ active' = active
        /\ UNCHANGED <<mode, closed, pending, generation, scheduled, turn, ended,
                       handed>>
    BY <1>0, <1>2, InterruptEffect
  <2>2. pending = <<>> /\ Taken /\ ~Waited
    BY <1>0, <2>1 DEF ChatFits, Taken, OneTurn
  <2>3. /\ ~Waited' /\ Vacant' /\ ~Carrying' /\ ~Sending'
        /\ ~Held("send")' /\ ~Held("steering")'
    BY <2>1, <2>2 DEF Waited, Vacant, Carrying, Sending, Held, Current
  <2>4. OneTurn'
    BY <1>0, <2>1, <2>2, <2>3, OneTurnFrame
  <2>5. Tended'
    BY <2>1, <2>2, <2>3 DEF Tended, Followed
  <2>6. OrderFits'
    BY <1>0, <2>1, <2>3, QueueOrderVacant DEF OrderFits
  <2> QED
    BY <2>4, <2>5, <2>6 DEF Ordered
<1> QED
  BY <1>1, <1>2 DEF Interrupt

\* Nothing else happens to a conversation.
LEMMA OrderStep ==
  ASSUME Orderly, [Next]_vars, ~crossed'
  PROVE  Ordered'
<1>0. /\ IInv /\ Types /\ TypeOK /\ session = "chat" /\ ChatFits
      /\ OneTurn /\ Tended /\ OrderFits
  BY DEF Orderly, IInv, Types
<1>1. CASE Send
  <2>1. CASE \E m \in Messages, strict \in BOOLEAN : SendAdmit(m, strict)
    BY <2>1, SendAdmitOrder
  <2>2. CASE SendSteer \/ SendStart \/ SendRefused
    BY <2>2, SendOrder
  <2>3. CASE SteerReply
    BY <2>3, SteerReplyOrder
  <2> QED
    BY <1>1, <2>1, <2>2, <2>3 DEF Send
<1>2. CASE TurnEnds \/ Reconfigure \/ Close \/ Replace \/ Recover
  BY <1>2, TurnEndsOrder
<1>3. CASE Emit
  <2>1. \A e \in ended : ~Continuation(e)
    BY <1>0, ContinuationEffect
  <2> QED
    BY <1>3, <2>1, TerminalOrder DEF Emit
<1>4. CASE StartQueued
  <2>1. \A e \in scheduled : ~ContinuationRefused(e)
    BY <1>0, ContinuationRefusedEffect
  <2> QED
    BY <1>4, <2>1, AcquireOrder, QueuedOrder DEF StartQueued
<1>5. CASE Interrupt
  BY <1>5, InterruptOrder
<1>6. CASE SendControl
  <2>1. CASE \E k \in Controls : ControlQueue(k) \/ ControlPropose(k)
    BY <1>0, <2>1 DEF ControlQueue, ControlPropose, Steerable
  <2>2. CASE ControlDeliver
    BY <1>0, <2>2, ControlDeliverEffect DEF ChatFits
  <2> QED
    BY <1>6, <2>1, <2>2 DEF SendControl
<1>7. CASE UNCHANGED vars
  <2>1. UNCHANGED <<mode, closed, gate, active, pending, generation, scheduled,
                    turn, ended, handed>>
    BY <1>7 DEF vars, harness, admission, adapter
  <2>2. /\ Waited' <=> Waited
        /\ Coming' <=> Coming
        /\ Carrying' <=> Carrying
        /\ Taken' <=> Taken
        /\ Sending' <=> Sending
        /\ Held("send")' <=> Held("send")
        /\ Held("steering")' <=> Held("steering")
    BY <2>1 DEF Waited, Coming, Current, Carrying, Taken, Sending, Held
  <2>3. OneTurn'
    BY <1>0, <2>1, <2>2, OneTurnFrame
  <2>4. Tended'
    BY <1>0, <2>1, <2>2 DEF Tended, Followed, Vacant
  <2>5. OrderFits'
    BY <1>0, <2>1, <2>2, QueueOrderFrame DEF OrderFits
  <2> QED
    BY <2>3, <2>4, <2>5 DEF Ordered
<1> QED
  BY <1>1, <1>2, <1>3, <1>4, <1>5, <1>6, <1>7 DEF Next

\* No message and no control reaches the provider twice, and messages reach it
\* in the order in which they were accepted, as long as no turn overtook the end
\* of another.
THEOREM SupervisorOnceInOrder == Spec => []OnceInOrder
<1>1. Init => StartFits /\ ChatOrder
  <2> SUFFICES ASSUME Init PROVE StartFits /\ ChatOrder
    OBVIOUS
  <2>1. /\ ended = {} /\ scheduled = {} /\ pending = <<>> /\ handed = <<>>
        /\ turn = NoTurn /\ active = FALSE /\ gate = Free
    BY DEF Init
  <2>2. /\ ~Held("send") /\ ~Held("steering") /\ ~Carrying /\ ~Taken
    BY <2>1 DEF Held, Carrying, Taken, Free
  <2>3. handed \in Seq(Messages) /\ Increasing(handed)
    BY <2>1 DEF Increasing
  <2> QED
    BY <2>1, <2>2, <2>3
    DEF StartFits, ChatOrder, Ordered, OneTurn, Tended, OrderFits, Waited, Coming
<1>2. /\ IInv /\ [Next]_vars /\ StartFits /\ ChatOrder
      => StartFits' /\ ChatOrder'
  <2> SUFFICES ASSUME IInv, [Next]_vars, StartFits, ChatOrder
               PROVE  StartFits' /\ ChatOrder'
    OBVIOUS
  <2>1. ASSUME session = "chat", ~crossed' PROVE Ordered'
    BY <2>1, CrossedStays, OrderStep DEF ChatOrder, Ordered, Orderly
  <2> QED
    BY <2>1, CrossedStays, StartStep DEF ChatOrder
<1>3. IInv /\ ChatOrder => OnceInOrder
  <2> SUFFICES ASSUME IInv, ChatOrder PROVE OnceInOrder
    OBVIOUS
  <2>1. IsInjective(handed) /\ session \in {"chat", "job"}
    BY Typed DEF IInv, Books, FateFits
  <2>2. CASE session = "chat"
    BY <2>1, <2>2 DEF OnceInOrder, ChatOrder, Ordered, OrderFits, Increasing
  <2>3. CASE session = "job"
    <3>1. \A i \in DOMAIN handed : handed[i] \in Messages => handed[i] = 1
      <4> SUFFICES ASSUME NEW i \in DOMAIN handed, handed[i] \in Messages,
                          handed[i] # 1
                   PROVE  FALSE
        OBVIOUS
      <4>1. handed[i] \in ToSet(handed)
        BY DEF ToSet
      <4>2. status[handed[i]] = "new"
        BY <2>3 DEF IInv, JobFits
      <4> QED
        BY <4>1, <4>2 DEF IInv, Books, FateFits
    <3>2. \A i, j \in DOMAIN handed :
            handed[i] \in Messages /\ handed[j] \in Messages => i = j
      BY <2>1, <3>1 DEF IsInjective
    <3>3. \A i \in DOMAIN handed : i \in Nat
      BY ElementsOf, Typed DEF IInv
    <3>4. \A i, j \in DOMAIN handed :
            ~(i < j /\ {handed[i], handed[j]} \subseteq Messages)
      BY <3>2, <3>3
    <3> QED
      BY <2>1, <3>4 DEF OnceInOrder
  <2> QED
    BY <2>1, <2>2, <2>3
<1> QED
  BY <1>1, <1>2, <1>3, SupervisorInvariant, PTL DEF Spec

=============================================================================
