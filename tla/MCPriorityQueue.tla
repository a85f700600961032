--------------------------- MODULE MCPriorityQueue ---------------------------
(* Six tasks (three levels of the heap); two of them share a priority and  *)
(* one reaches the ceiling of down_heap's minimum search.                  *)
EXTENDS PriorityQueue, TLC

CONSTANTS a, b, c, d, e, f

MCPriority == (a :> 0) @@ (b :> 1) @@ (c :> 2) @@ (d :> 2) @@ (e :> 3) @@ (f :> 4)
==============================================================================
