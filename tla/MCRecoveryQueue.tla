-------------------------- MODULE MCRecoveryQueue --------------------------
(* Small instances of RecoveryQueue for TLC. *)
EXTENDS RecoveryQueue, TLC

Symmetry == Permutations(Job) \cup Permutations(Worker)
=============================================================================
