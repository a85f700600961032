------------------------------- MODULE TaskBag -------------------------------
(***************************************************************************)
(* What the thread pool relies on when it keeps its waiting tasks in the   *)
(* priority queue: nothing put in is lost, doubled or made up, and a pop   *)
(* of a queue that is not empty returns something.  The order in which     *)
(* tasks leave is left open.                                               *)
(***************************************************************************)
CONSTANTS Tasks, None

VARIABLES
  waiting,   \* the tasks in the queue
  popped     \* what the last pop returned

bagvars == <<waiting, popped>>

BagInit == waiting = {} /\ popped = None

Put(t) ==
  /\ t \notin waiting
  /\ waiting' = waiting \cup {t}
  /\ UNCHANGED popped

Take(t) ==
  /\ t \in waiting
  /\ waiting' = waiting \ {t}
  /\ popped' = t

TakeNothing == waiting = {} /\ popped' = None /\ UNCHANGED waiting

BagNext == (\E t \in Tasks : Put(t) \/ Take(t)) \/ TakeNothing

BagSpec == BagInit /\ [][BagNext]_bagvars
==============================================================================
