--------------------------- MODULE FollowupQueue ---------------------------
(***************************************************************************)
(* What the provider supervisor promises to the messages of one            *)
(* conversation, with turns, emitters, queues and goroutines left out: an  *)
(* accepted message waits until it is handed to the provider, or dropped   *)
(* without ever reaching it, and an interruption leaves none of the        *)
(* messages accepted before it waiting.  Who is told of a dropped message  *)
(* is not said here.                                                       *)
(***************************************************************************)
EXTENDS Naturals

CONSTANT Messages

VARIABLES
  fate,    \* fate[m]: where message m stands
  fenced   \* messages accepted before the last interruption

Fate == {"new", "waiting", "sent", "dropped"}

Init ==
  /\ fate = [m \in Messages |-> "new"]
  /\ fenced = {}

Move(M, from, to) ==
  /\ M # {}
  /\ \A m \in M : fate[m] = from
  /\ fate' = [m \in Messages |-> IF m \in M THEN to ELSE fate[m]]

\* A message is accepted.
Accept(M) == Move(M, "new", "waiting") /\ UNCHANGED fenced

\* Messages are handed to the provider together; a fenced one never is.
Deliver(M) ==
  /\ M \cap fenced = {}
  /\ Move(M, "waiting", "sent")
  /\ UNCHANGED fenced

\* Messages are given up without having reached the provider.
Drop(M) == Move(M, "waiting", "dropped") /\ UNCHANGED fenced

\* An interruption is admitted: it drops some of the messages that wait
\* at once, and fences the others.
Interrupt(M) ==
  /\ \A m \in M : fate[m] = "waiting"
  /\ fate' = [m \in Messages |-> IF m \in M THEN "dropped" ELSE fate[m]]
  /\ fenced' = {m \in Messages : fate[m] # "new"}

Next ==
  \/ \E M \in SUBSET Messages : Accept(M) \/ Deliver(M) \/ Drop(M) \/ Interrupt(M)

Spec == Init /\ [][Next]_<<fate, fenced>>

=============================================================================
