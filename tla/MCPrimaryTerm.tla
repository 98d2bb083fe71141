--------------------------- MODULE MCPrimaryTerm ---------------------------
(* Contending servers in one environment and one detached worker.          *)
EXTENDS PrimaryTerm

CONSTANTS p1, p2, p3, w

OneEnv == [c \in Participant |-> "host"]
=============================================================================
