-------------------------- MODULE MCWorkerJournal --------------------------
(* Values for model checking WorkerJournal.tla on small instances. *)
EXTENDS WorkerJournal, TLC

CONSTANTS j1, j2

Symmetry == Permutations({j1, j2})
=============================================================================
