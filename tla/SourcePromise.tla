--------------------------- MODULE SourcePromise ---------------------------
(***************************************************************************)
(* What Spynel promises to the messages of one conversation, with history, *)
(* worker, jobs and scanner left out: a message is given to the provider   *)
(* once, and once more at most if its answer was lost; never after it was  *)
(* answered or stopped; and nobody is answered whom the provider has not   *)
(* been given, or has not refused on his own request.                      *)
(***************************************************************************)
CONSTANT Source

VARIABLES
  known,     \* messages in the conversation
  taken,     \* messages the provider may have acted on at their own request
  refused,   \* messages whose own request the provider refused
  retaken,   \* messages a recovery was attempted for
  halted,    \* messages whose turn the user stopped
  answered   \* messages with a final answer

vars == <<known, taken, refused, retaken, halted, answered>>

Init ==
  /\ known = {} /\ taken = {} /\ refused = {}
  /\ retaken = {} /\ halted = {} /\ answered = {}

Accept(s) ==
  /\ s \notin known
  /\ known' = known \cup {s}
  /\ UNCHANGED <<taken, refused, retaken, halted, answered>>

Take(S) ==
  /\ S \subseteq known \ (taken \cup retaken \cup halted \cup answered)
  /\ taken' = taken \cup S
  /\ UNCHANGED <<known, refused, retaken, halted, answered>>

\* The provider proves that it has not taken them; one that asked for itself is
\* told so, others wait again.
GiveBack(S, R) ==
  /\ S \subseteq taken \ answered
  /\ R \subseteq S
  /\ taken' = taken \ S
  /\ refused' = refused \cup R
  /\ UNCHANGED <<known, retaken, halted, answered>>

Retake(S) ==
  /\ S \subseteq known \ (retaken \cup halted \cup answered)
  /\ retaken' = retaken \cup S
  /\ UNCHANGED <<known, taken, refused, halted, answered>>

Halt(S) ==
  /\ S \subseteq taken \cup retaken
  /\ halted' = halted \cup S
  /\ UNCHANGED <<known, taken, refused, retaken, answered>>

Answer(S) ==
  /\ S \subseteq known \cap (taken \cup refused \cup retaken)
  /\ answered' = answered \cup S
  /\ UNCHANGED <<known, taken, refused, retaken, halted>>

\* The user clears the conversation.
Forget ==
  /\ known' = {} /\ taken' = {} /\ refused' = {}
  /\ retaken' = {} /\ halted' = {} /\ answered' = {}

Next ==
  \/ \E s \in Source : Accept(s)
  \/ \E S \in SUBSET Source :
       \/ Take(S) \/ Retake(S) \/ Halt(S) \/ Answer(S)
       \/ \E R \in SUBSET Source : GiveBack(S, R)
  \/ Forget

Spec == Init /\ [][Next]_vars

=============================================================================
