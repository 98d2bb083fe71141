---------------------------- MODULE MCSupervisor ----------------------------
(***************************************************************************)
(* Small instances of Supervisor.  Three messages are the fewest for a     *)
(* batch of two behind an active turn; one queued control at a time is the *)
(* fewest that makes a second one meet the limit.                          *)
(***************************************************************************)
EXTENDS Supervisor

CONSTANTS k1, k2   \* model values: two controls

=============================================================================
