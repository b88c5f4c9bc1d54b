-------------------------- MODULE MCExecutionQueue --------------------------
(* Instances of ExecutionQueue for TLC. *)
EXTENDS ExecutionQueue, TLC

CONSTANTS w1, w2, e1

\* Workers are interchangeable: the safety run identifies states up to their names.
WorkerSymmetry == Permutations({w1, w2})

=============================================================================
