---------------------------- MODULE PriorityQueue ----------------------------
(***************************************************************************)
(* utils/priority_queue.c: an array kept as a heap of levels (1, 2, 4, ...  *)
(* cells) where every cell of a level should be no larger than every cell  *)
(* of the next one.  Every operation holds the queue's mutex from begin to *)
(* end; a round of the loops in up_heap and down_heap is a step.            *)
(***************************************************************************)
EXTENDS Naturals, FiniteSets

CONSTANTS
  Tasks,       \* the elements; a task is in the queue at most once
  Priority,    \* the priority each task is pushed with, lower is earlier
  Ceiling,     \* 0xffffffff of down_heap, scaled to the model's priorities
  None

ASSUME QueueAssumption ==
  /\ IsFiniteSet(Tasks) /\ Priority \in [Tasks -> Nat]
  /\ Ceiling \in Nat
  /\ None \notin Tasks

VARIABLES
  data,        \* the allocated cells: a task or None (malloc'ed, not written)
  num,         \* num_elements
  popped,      \* result of the last pop
  loop,        \* the loop that runs under the mutex: "none", "up" or "down"
  cur,         \* the cell whose element the loop moves
  level,       \* the first cell of the level it looks at
  ascending    \* history: no push so far went below a waiting priority

heapvars == <<loop, cur, level>>

vars == <<data, num, popped, heapvars, ascending>>

Cells(n) == 0 .. n - 1

Waiting == {data[i] : i \in Cells(num)}

Init ==
  /\ data = [i \in {} |-> None]
  /\ num = 0
  /\ popped = None
  /\ loop = "none" /\ cur = 0 /\ level = 0
  /\ ascending = TRUE

Prio(i) == Priority[data[i]]

Swap(i, j) == data' = [data EXCEPT ![i] = data[j], ![j] = data[i]]

Least(a, b) == IF a <= b THEN a ELSE b

Leave == loop' = "none" /\ cur' = 0 /\ level' = 0

Goto(to, cell, first) == loop' = to /\ cur' = cell /\ level' = first

------------------------------------------------------------------------------
(* priority_queue_push                                                      *)

(* Variants: the last element is not copied; the buffer is twice too large. *)
Resized_short(n) ==
  [i \in Cells(((n + 1) * 3) \div 2) |-> IF i + 1 < n THEN data[i] ELSE None]

Resized_large(n) ==
  [i \in Cells((n + 1) * 3) |-> IF i < n THEN data[i] ELSE None]

(* priority_queue_resize: a new buffer, the elements copied.  `capacity` is *)
(* never updated after init set it to 0, so every push takes this path.     *)
Resized(n) ==
  [i \in Cells(((n + 1) * 3) \div 2) |-> IF i < n THEN data[i] ELSE None]

(* up_heap starts at 1 << (log - 1), for log = 31 - __builtin_clz(size).    *)
Start(size) ==
  {b \in 1 .. size : 2 * b <= size /\ size < 4 * b /\ \E k \in 0 .. size : b = 2 ^ k}

Push(t) ==
  /\ loop = "none" /\ t \notin Waiting
  /\ data' = [Resized(num) EXCEPT ![num] = t]
  /\ num' = num + 1
  /\ ascending' = (ascending /\ \A u \in Waiting : Priority[u] <= Priority[t])
  /\ IF num = 0 THEN Leave ELSE \E b \in Start(num + 1) : Goto("up", num, b)
  /\ UNCHANGED popped

(* The last of the cells first .. end - 1 that hold their largest priority; *)
(* the cell `first` itself is looked at even when the range is empty.       *)
LastLargest(first, end) ==
  LET range == first .. end - 1 \cup {first}
  IN  {i \in range : \A j \in range : Prio(j) < Prio(i) \/ (Prio(j) = Prio(i) /\ j <= i)}

(* One round of up_heap: the element and the largest of a level.            *)
Up(top) ==
  /\ loop = "up"
  /\ top \in LastLargest(level, Least(2 * level + 1, num))
  /\ IF Prio(top) <= Prio(cur) THEN Leave /\ UNCHANGED data
     ELSE /\ Swap(cur, top)
          /\ IF level = 0 THEN Leave ELSE Goto("up", top, level \div 2)
  /\ UNCHANGED <<num, popped, ascending>>

------------------------------------------------------------------------------
(* priority_queue_pop                                                       *)

(* Variant: the last element is not moved to the root.                      *)
Pop_stays ==
  /\ loop = "none" /\ num > 0
  /\ num' = num - 1
  /\ popped' = data[0]
  /\ Goto("down", 0, 1)
  /\ UNCHANGED <<data, ascending>>

(* The last element moves to the root, and down_heap is given one cell more *)
(* than the queue now has, the one the element was copied from.             *)
Pop ==
  /\ loop = "none" /\ num > 0
  /\ num' = num - 1
  /\ popped' = data[0]
  /\ data' = [data EXCEPT ![0] = data[num - 1]]
  /\ Goto("down", 0, 1)
  /\ UNCHANGED ascending

PopEmpty ==
  /\ loop = "none" /\ num = 0
  /\ popped' = None
  /\ UNCHANGED <<data, num, heapvars, ascending>>

(* Variant: any cell below the ceiling ends the search.                     *)
FirstSmallest_first(range) ==
  LET low == {i \in range : Prio(i) < Ceiling}
  IN  IF low = {} THEN {0} ELSE {i \in low : \A j \in low : i <= j}

(* The first of the cells of `range` with their smallest priority, as far   *)
(* as one is below Ceiling; else cell 0.                                    *)
FirstSmallest(range) ==
  LET low == {i \in range : Prio(i) < Ceiling}
  IN  IF low = {} THEN {0}
      ELSE {i \in low : \A j \in low : Prio(i) < Prio(j) \/ (Prio(i) = Prio(j) /\ i <= j)}

(* One round of down_heap: the element and the smallest of a level.         *)
Down(low) ==
  LET size == num + 1
      end  == Least(2 * level + 1, size)
  IN  /\ loop = "down"
      /\ low \in FirstSmallest(level .. end - 1)
      /\ IF Prio(cur) <= Prio(low) THEN Leave /\ UNCHANGED data
         ELSE /\ Swap(cur, low)
              /\ IF end = size THEN Leave ELSE Goto("down", low, end)
      /\ UNCHANGED <<num, popped, ascending>>

Next ==
  \/ \E t \in Tasks : Push(t)
  \/ Pop \/ PopEmpty
  \/ \E i \in DOMAIN data : Up(i) \/ Down(i)

Spec == Init /\ [][Next]_vars

------------------------------------------------------------------------------
TypeOK ==
  /\ \E n \in 0 .. (3 * (Cardinality(Tasks) + 1)) \div 2 :
       data \in [Cells(n) -> Tasks \cup {None}]
  /\ num \in 0 .. Cardinality(Tasks)
  /\ popped \in Tasks \cup {None}
  /\ loop \in {"none", "up", "down"}
  /\ cur \in Nat /\ level \in Nat
  /\ ascending \in BOOLEAN

(* Every cell in use lies in the buffer and was written: swapping with the  *)
(* stale copy behind the last element never brings that copy, or memory     *)
(* nobody initialised, back into the queue, and no task appears twice.      *)
CellsSound ==
  /\ Cells(num) \subseteq DOMAIN data
  /\ None \notin Waiting
  /\ Cardinality(Waiting) = num

(* The queue implements the bag: no task is lost or returned twice, and the *)
(* rounds of the loops neither add nor take away anything.                  *)
Bag == INSTANCE TaskBag WITH waiting <- Waiting

ImplementsBag == Bag!BagSpec

Smallest(t, S) == \A u \in S : Priority[t] <= Priority[u]

(* As long as tasks were pushed in ascending order of priority, a pop       *)
(* returns a task with the lowest priority waiting.                         *)
AscendingPopsLowest ==
  [][num' < num /\ ascending => Smallest(popped', Waiting)]_vars

(* The claim of the PushPrio test: a pop returns the lowest priority.       *)
PopsLowest == [][num' < num => Smallest(popped', Waiting)]_vars
==============================================================================
