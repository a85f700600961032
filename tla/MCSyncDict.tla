----------------------------- MODULE MCSyncDict ------------------------------
(* c1 inserts or lists once, while c2 inserts twice and both remove.  The   *)
(* strings that are removed are interchangeable, and so are the others.     *)
EXTENDS SyncDict, TLC

CONSTANTS c1, c2

MCMaxCalls == (c1 :> 1) @@ (c2 :> 2)

Symmetry ==
  Permutations(Removable) \cup Permutations(Strings \ Removable)
==============================================================================
