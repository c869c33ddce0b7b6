--------------------------- MODULE MCModelRuntime ---------------------------
(* Instances of ModelRuntime for TLC.  Threads are interchangeable. *)
EXTENDS ModelRuntime, TLC

Symmetry == Permutations(Worker)
=============================================================================
