----------------------------- MODULE MCThreadPool ----------------------------
(* The owner of the pool, one more thread that waits, tasks as model values. *)
EXTENDS ThreadPool, TLC

Symmetry == Permutations(Tasks)
==============================================================================
