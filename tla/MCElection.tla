----------------------------- MODULE MCElection -----------------------------
(* Three contenders in two environments and one detached worker process.   *)
(* One clock tick stands for 10 s: the constants keep the code's ratios.   *)
EXTENDS Election, TLC

CONSTANTS p1, p2, p3, w

MCEnv == [c \in {p1, p2, p3, w} |-> IF c = p3 THEN "container" ELSE "host"]

\* p1 and p2 are interchangeable: same environment, same role.
Symmetry == Permutations({p1, p2})
=============================================================================
