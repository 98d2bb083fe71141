---------------------------- MODULE OwnershipTerm ----------------------------
(***************************************************************************)
(* What the election promises to the rest of the program, with no lease    *)
(* file, clock or lock in sight.  Ownership of the workspace is a sequence *)
(* of numbered terms.  A durable admission runs under the term in force    *)
(* when it starts, and that term is neither replaced nor given up before   *)
(* the admission ends.  Ownerless work runs only while nobody holds a      *)
(* term, and no term is granted before it ends.                            *)
(***************************************************************************)
EXTENDS Naturals

CONSTANTS Proc, NoProc

VARIABLES
  holder,     \* the process whose term may admit durable work, or NoProc
  term,       \* the number of terms granted so far: the newest term
  admitted,   \* the term of the latest durable admission, 0 before the first
  running     \* "none", or the kind of fenced work in progress

vars == <<holder, term, admitted, running>>

Running == {"none", "owner", "ownerless"}

TypeOK ==
  /\ holder \in Proc \cup {NoProc}
  /\ term \in Nat
  /\ admitted \in Nat
  /\ running \in Running

Init ==
  /\ holder = NoProc
  /\ term = 0
  /\ admitted = 0
  /\ running = "none"

Grant(p) ==
  /\ running = "none"
  /\ holder' = p
  /\ term' = term + 1
  /\ UNCHANGED <<admitted, running>>

\* The holder gives its term up, or reserves the next one for a successor.
Revoke ==
  /\ running = "none"
  /\ holder' = NoProc
  /\ UNCHANGED <<term, admitted, running>>

BeginAdmission ==
  /\ running = "none"
  /\ holder # NoProc
  /\ running' = "owner"
  /\ admitted' = term
  /\ UNCHANGED <<holder, term>>

BeginOwnerless ==
  /\ running = "none"
  /\ holder = NoProc
  /\ running' = "ownerless"
  /\ UNCHANGED <<holder, term, admitted>>

End ==
  /\ running # "none"
  /\ running' = "none"
  /\ UNCHANGED <<holder, term, admitted>>

Next ==
  \/ \E p \in Proc : Grant(p)
  \/ Revoke
  \/ BeginAdmission
  \/ BeginOwnerless
  \/ End

Spec == Init /\ [][Next]_vars
=============================================================================
