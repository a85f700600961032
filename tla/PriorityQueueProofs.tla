------------------------ MODULE PriorityQueueProofs -------------------------
(***************************************************************************)
(* What holds of the priority queue for any set of tasks and whatever their *)
(* priorities, above the ceiling too: the cells in use are sound although   *)
(* up_heap and down_heap exchange cells, one of them behind the queue, and  *)
(* the queue implements the bag.                                           *)
(***************************************************************************)
EXTENDS PriorityQueue, FiniteSetTheorems, WellFoundedInduction, TLAPS

Room == (3 * (Cardinality(Tasks) + 1)) \div 2

Types ==
  /\ \E n \in 0 .. Room : data \in [Cells(n) -> Tasks \cup {None}]
  /\ num \in Nat /\ popped \in Tasks \cup {None}
  /\ loop \in {"none", "up", "down"} /\ cur \in Nat /\ level \in Nat
  /\ ascending \in BOOLEAN

(* The first n cells of d are in the buffer, written, and no two the same.  *)
Sound(d, n) ==
  /\ \A i \in Cells(n) : i \in DOMAIN d /\ d[i] \in Tasks
  /\ \A i, j \in Cells(n) : d[i] = d[j] => i = j

Elements(d, n) == {d[i] : i \in Cells(n)}

(* While an element sinks, the cell behind the queue holds a copy of it.   *)
(* Only what is smaller changes places with it, so the copy stays there.   *)
LoopInv ==
  /\ loop = "up" => cur \in Cells(num) /\ level \in Cells(num)
  /\ loop = "down" =>
       /\ num \in DOMAIN data /\ data[num] \in Tasks /\ data[cur] = data[num]
       /\ cur \in Cells(num) \/ (num = 0 /\ cur = 0)
       /\ level # 0

IInv == Types /\ Sound(data, num) /\ LoopInv

-----------------------------------------------------------------------------
(* Cells that are sound hold as many tasks as there are cells.              *)
LEMMA Counted ==
  ASSUME NEW d, NEW n \in Nat, Sound(d, n)
  PROVE  Cardinality(Elements(d, n)) = n /\ n <= Cardinality(Tasks)
<1> DEFINE f == [i \in Cells(n) |-> d[i]]
<1>1. f \in Bijection(Cells(n), Elements(d, n))
  <2>1. f \in Injection(Cells(n), Elements(d, n))
    BY DEF Injection, IsInjective, Elements, Sound
  <2>2. f \in Surjection(Cells(n), Elements(d, n))
    BY DEF Surjection, Elements
  <2>3. QED
    BY <2>1, <2>2 DEF Bijection
<1>2. IsFiniteSet(Cells(n)) /\ Cardinality(Cells(n)) = n
  BY FS_Interval, 0 \in Int, n - 1 \in Int DEF Cells
<1>3. Cardinality(Elements(d, n)) = n
  <2> HIDE DEF f
  <2>1. ExistsBijection(Cells(n), Elements(d, n))
    BY <1>1 DEF ExistsBijection
  <2>2. QED
    BY <1>2, <2>1, FS_Bijection
<1>4. Elements(d, n) \subseteq Tasks
  BY DEF Elements, Sound
<1>5. QED
  BY <1>3, <1>4, QueueAssumption, FS_Subset

(* Two of these cells change places.                                        *)
Exchange(d, i, j) == [d EXCEPT ![i] = d[j], ![j] = d[i]]

LEMMA Exchanged ==
  ASSUME NEW m \in Nat, NEW d \in [Cells(m) -> Tasks \cup {None}], NEW n \in Nat, Sound(d, n),
         NEW i \in Cells(n), NEW j \in Cells(n)
  PROVE  /\ Exchange(d, i, j) \in [Cells(m) -> Tasks \cup {None}]
         /\ Sound(Exchange(d, i, j), n)
         /\ Elements(Exchange(d, i, j), n) = Elements(d, n)
         /\ Exchange(d, i, j)[j] = d[i]
         /\ \A k \in Cells(m) \ {i, j} : Exchange(d, i, j)[k] = d[k]
<1> DEFINE e == Exchange(d, i, j)
<1>0. e = [d EXCEPT ![i] = d[j], ![j] = d[i]]
  BY DEF Exchange
<1> HIDE DEF e
<1>1. i \in Cells(m) /\ j \in Cells(m) /\ DOMAIN e = Cells(m)
  BY <1>0 DEF Sound
<1>2. e[i] = d[j] /\ e[j] = d[i] /\ \A k \in Cells(m) \ {i, j} : e[k] = d[k]
  BY <1>0, <1>1
<1>3. e \in [Cells(m) -> Tasks \cup {None}]
  BY <1>0, <1>1
<1>4. \A k \in Cells(n) : k \in Cells(m) /\ e[k] \in Tasks
  BY <1>2 DEF Sound
<1>5. \A k, l \in Cells(n) : e[k] = e[l] => k = l
  BY <1>2, <1>4 DEF Sound
<1>6. \A k \in Cells(n) : \E l \in Cells(n) : e[k] = d[l]
  BY <1>2, <1>4
<1>7. \A k \in Cells(n) : \E l \in Cells(n) : d[k] = e[l]
  BY <1>2, <1>4
<1>8. Elements(e, n) = Elements(d, n)
  <2>1. \A x \in Elements(e, n) : x \in Elements(d, n)
    BY <1>6 DEF Elements
  <2>2. \A x \in Elements(d, n) : x \in Elements(e, n)
    <3>1. TAKE x \in Elements(d, n)
    <3>2. PICK k \in Cells(n) : x = d[k]
      BY DEF Elements
    <3>3. PICK l \in Cells(n) : d[k] = e[l]
      BY <1>7
    <3>4. QED
      BY <3>2, <3>3 DEF Elements
  <2>3. QED
    BY <2>1, <2>2
<1>9. QED
  BY <1>1, <1>2, <1>3, <1>4, <1>5, <1>8 DEF Sound, e

-----------------------------------------------------------------------------
LEMMA Created == Init => IInv
<1> SUFFICES ASSUME Init PROVE IInv
  OBVIOUS
<1> USE DEF Init
<1>1. Cardinality(Tasks) \in Nat
  BY QueueAssumption, FS_CardinalityType
<1>2. 0 \in 0 .. Room /\ Cells(0) = {}
  BY <1>1 DEF Room, Cells
<1>3. data \in [Cells(0) -> Tasks \cup {None}]
  BY <1>2
<1>4. Sound(data, num) /\ LoopInv
  BY <1>2 DEF Sound, LoopInv
<1>5. QED
  BY <1>2, <1>3, <1>4 DEF IInv, Types

(* A push: the elements are copied to the new buffer, with one more.        *)
LEMMA Pushed ==
  ASSUME IInv, NEW t \in Tasks, Push(t)
  PROVE  IInv' /\ Waiting' = Waiting \cup {t}
<1> USE DEF IInv, Types
<1> DEFINE m == ((num + 1) * 3) \div 2
<1>1. num \in Nat /\ num' = num + 1 /\ m \in Nat /\ num < m
  BY DEF Push
<1>2. data' = [i \in Cells(m) |-> IF i = num THEN t ELSE IF i < num THEN data[i] ELSE None]
  BY <1>1 DEF Push, Resized, Cells
<1>3. data' \in [Cells(m) -> Tasks \cup {None}]
  BY <1>2 DEF Sound, Cells
<1> HIDE DEF m
<1>4. data'[num] = t /\ \A i \in Cells(num) : data'[i] = data[i]
  BY <1>1, <1>2 DEF Cells
<1>5. Cells(num') = Cells(num) \cup {num} /\ Cells(num') \subseteq Cells(m)
  BY <1>1 DEF Cells
<1>6. \A i \in Cells(num) : data[i] # t
  BY DEF Push, Waiting
<1>7. Sound(data', num')
  BY <1>3, <1>4, <1>5, <1>6 DEF Sound
<1>8. num + 1 <= Cardinality(Tasks) /\ Cardinality(Tasks) \in Nat
  BY <1>1, <1>7, Counted, QueueAssumption, FS_CardinalityType
<1>9. m \in 0 .. Room
  BY <1>1, <1>8 DEF m, Room
<1>10. LoopInv' /\ loop' \in {"none", "up"} /\ cur' \in Nat /\ level' \in Nat
  <2>1. CASE num = 0
    BY <2>1 DEF Push, Leave, LoopInv
  <2>2. CASE num # 0
    <3>1. PICK b \in Start(num + 1) : Goto("up", num, b)
      BY <2>2 DEF Push
    <3>2. b \in 1 .. num + 1 /\ 2 * b <= num + 1
      BY DEF Start
    <3>3. b \in Cells(num') /\ num \in Cells(num') /\ b \in Nat
      BY <1>1, <3>2 DEF Cells
    <3>4. QED
      BY <1>1, <3>1, <3>3 DEF Goto, LoopInv
  <2>3. QED
    BY <2>1, <2>2
<1>11. Waiting' = Waiting \cup {t}
  BY <1>4, <1>5 DEF Waiting
<1>12. QED
  BY <1>1, <1>3, <1>7, <1>9, <1>10, <1>11 DEF Push

(* A pop, up to the loop: the last element is copied to the root.           *)
LEMMA Popped ==
  ASSUME IInv, Pop
  PROVE  IInv' /\ popped' \in Waiting /\ Waiting' = Waiting \ {popped'}
<1> USE DEF IInv, Types
<1> DEFINE k == num - 1
<1>1. /\ num \in Nat /\ num > 0 /\ k \in Nat /\ num' = k
      /\ Cells(num) = Cells(k) \cup {k} /\ 0 \in Cells(num) /\ k \in Cells(num)
      /\ (k > 0 => 0 \in Cells(k)) /\ Cells(k) \subseteq Cells(num) /\ k \notin Cells(k)
  BY DEF Pop, Cells
<1> HIDE DEF k
<1>2. PICK n \in 0 .. Room : data \in [Cells(n) -> Tasks \cup {None}]
  OBVIOUS
<1>3. data' = [data EXCEPT ![0] = data[k]] /\ popped' = data[0]
  BY DEF Pop, k
<1>4. Cells(num) \subseteq Cells(n) /\ \A i \in Cells(num) : data[i] \in Tasks
  BY <1>2 DEF Sound
<1>5. data' \in [Cells(n) -> Tasks \cup {None}] /\ data'[0] = data[k] /\ data'[k] = data[k]
      /\ \A i \in Cells(num) : i # 0 => data'[i] = data[i]
  BY <1>1, <1>2, <1>3, <1>4
<1>6. Sound(data', k)
  <2>1. \A i \in Cells(k) : i \in DOMAIN data' /\ data'[i] \in Tasks
    BY <1>1, <1>4, <1>5
  <2>2. \A i, j \in Cells(k) : data'[i] = data'[j] => i = j
    BY <1>1, <1>5 DEF Sound
  <2>3. QED
    BY <2>1, <2>2 DEF Sound
<1>7. LoopInv'
  BY <1>1, <1>2, <1>4, <1>5 DEF Pop, Goto, LoopInv
<1>8. popped' \in Waiting
  BY <1>1, <1>3 DEF Waiting
<1>9. Waiting' = Waiting \ {popped'}
  <2>1. \A i \in Cells(k) : data'[i] \in Waiting /\ data'[i] # data[0]
    BY <1>1, <1>5 DEF Sound, Waiting
  <2>2. \A i \in Cells(num) : data[i] # data[0] => \E j \in Cells(k) : data'[j] = data[i]
    <3>1. ASSUME NEW i \in Cells(num), data[i] # data[0], i # k
          PROVE  \E j \in Cells(k) : data'[j] = data[i]
      BY <1>1, <1>5, <3>1
    <3>2. data[k] # data[0] => 0 \in Cells(k)
      BY <1>1
    <3>3. QED
      BY <1>5, <3>1, <3>2
  <2>3. QED
    BY <1>1, <1>3, <2>1, <2>2 DEF Waiting
<1>10. QED
  BY <1>1, <1>2, <1>4, <1>5, <1>6, <1>7, <1>8, <1>9 DEF Pop, Goto

(* A round of a loop exchanges two cells in use, or none.                   *)
LEMMA Risen ==
  ASSUME IInv, NEW i \in DOMAIN data, Up(i)
  PROVE  IInv' /\ Waiting' = Waiting
<1> USE DEF IInv, Types
<1>1. num \in Nat /\ cur \in Cells(num) /\ level \in Cells(num) /\ num' = num
  BY DEF Up, LoopInv
<1>2. PICK n \in 0 .. Room : data \in [Cells(n) -> Tasks \cup {None}]
  OBVIOUS
<1>3. i \in Cells(num)
  BY <1>1 DEF Up, LastLargest, Least, Cells
<1>4. level \div 2 \in Cells(num) /\ level \in Nat /\ cur \in Nat /\ i \in Nat
  BY <1>1, <1>3 DEF Cells
<1>5. LoopInv' /\ loop' \in {"none", "up"} /\ cur' \in Nat /\ level' \in Nat
  BY <1>1, <1>3, <1>4 DEF Up, LoopInv, Leave, Goto
<1>6. CASE data' = data
  BY <1>1, <1>5, <1>6 DEF Up, Waiting
<1>7. CASE Swap(cur, i)
  <2>1. n \in Nat /\ data' = Exchange(data, cur, i)
    BY <1>7 DEF Swap, Exchange
  <2>2. /\ data' \in [Cells(n) -> Tasks \cup {None}] /\ Sound(data', num)
        /\ Elements(data', num) = Elements(data, num)
    <3>1. n \in Nat /\ Sound(data, num)
      OBVIOUS
    <3>2. QED
      BY ONLY <1>1, <1>2, <1>3, <2>1, <3>1, Exchanged
  <2>3. QED
    BY <1>1, <1>5, <2>2 DEF Up, Waiting, Elements
<1>8. QED
  BY <1>6, <1>7 DEF Up

LEMMA Sunk ==
  ASSUME IInv, NEW i \in DOMAIN data, Down(i)
  PROVE  IInv' /\ Waiting' = Waiting
<1> USE DEF IInv, Types
<1> DEFINE end == Least(2 * level + 1, num + 1)
<1>1. /\ num \in Nat /\ num \in DOMAIN data /\ data[num] \in Tasks /\ data[cur] = data[num]
      /\ cur \in Cells(num) \/ (num = 0 /\ cur = 0)
      /\ level \in Nat /\ level # 0 /\ num' = num
  BY DEF Down, LoopInv
<1>2. PICK n \in 0 .. Room : data \in [Cells(n) -> Tasks \cup {None}]
  OBVIOUS
<1>3. i \in {0} \cup (level .. end - 1) /\ end \in Nat /\ end # 0 /\ end <= num + 1
  BY <1>1 DEF Down, FirstSmallest, Least
<1>4. i \in Nat /\ i <= num
  BY <1>1, <1>3
<1>5. CASE data' = data /\ Leave
  BY <1>1, <1>5 DEF Down, Leave, LoopInv, Waiting
<1>6. CASE /\ ~(Prio(cur) <= Prio(i)) /\ Swap(cur, i)
           /\ IF end = num + 1 THEN Leave ELSE Goto("down", i, end)
  <2>1. \A t \in Tasks : Priority[t] <= Priority[t]
    BY QueueAssumption
  <2>2. data[i] # data[num]
    BY <1>1, <1>6, <2>1 DEF Prio
  <2>3. i # num
    BY <2>2
  <2>4. num # 0 /\ cur \in Cells(num) /\ i \in Cells(num)
    BY <1>1, <1>4, <2>3 DEF Cells
  <2>5. n \in Nat /\ data' = Exchange(data, cur, i)
    BY <1>6 DEF Swap, Exchange
  <2>6. /\ data' \in [Cells(n) -> Tasks \cup {None}] /\ Sound(data', num)
        /\ Elements(data', num) = Elements(data, num)
        /\ data'[i] = data[cur] /\ \A k \in Cells(n) \ {cur, i} : data'[k] = data[k]
    <3>1. n \in Nat /\ Sound(data, num)
      OBVIOUS
    <3>2. QED
      BY ONLY <1>1, <1>2, <2>4, <2>5, <3>1, Exchanged
  <2>7. num \notin Cells(num) /\ num \in Cells(n)
    BY <1>1, <1>2 DEF Cells
  <2>8. data'[num] = data[num]
    BY <2>4, <2>6, <2>7
  <2>9. LoopInv' /\ loop' \in {"none", "down"} /\ cur' \in Nat /\ level' \in Nat
    BY <1>1, <1>3, <1>4, <1>6, <2>4, <2>6, <2>7, <2>8 DEF LoopInv, Leave, Goto
  <2>10. QED
    BY <1>1, <2>6, <2>9 DEF Down, Waiting, Elements
<1>7. QED
  BY <1>5, <1>6 DEF Down

LEMMA Step == IInv /\ [Next]_vars => IInv'
<1> SUFFICES ASSUME IInv, [Next]_vars PROVE IInv'
  OBVIOUS
<1>1. CASE PopEmpty
  BY <1>1 DEF PopEmpty, IInv, Types, LoopInv, heapvars
<1>2. CASE UNCHANGED vars
  BY <1>2 DEF vars, IInv, Types, LoopInv, heapvars
<1>3. QED
  BY <1>1, <1>2, Pushed, Popped, Risen, Sunk DEF Next

LEMMA InvHolds == Spec => []IInv
  BY Created, Step, PTL DEF Spec

-----------------------------------------------------------------------------
LEMMA SoundCells == IInv => CellsSound /\ num <= Cardinality(Tasks)
<1> SUFFICES ASSUME IInv PROVE CellsSound /\ num <= Cardinality(Tasks)
  OBVIOUS
<1> USE DEF IInv, Types
<1>1. Cardinality(Elements(data, num)) = num /\ num <= Cardinality(Tasks)
  BY Counted
<1>2. Waiting = Elements(data, num)
  BY DEF Waiting, Elements
<1>3. QED
  BY <1>1, <1>2, QueueAssumption DEF CellsSound, Elements, Sound

(* Length and cells of the queue are in the bounds of their types whatever  *)
(* is pushed and popped: a buffer is never larger than the push that filled *)
(* it made it.                                                              *)
THEOREM TypesHold == Spec => []TypeOK
<1>1. IInv => TypeOK
  <2> SUFFICES ASSUME IInv PROVE TypeOK
    OBVIOUS
  <2>1. num \in 0 .. Cardinality(Tasks)
    BY SoundCells, QueueAssumption, FS_CardinalityType DEF IInv, Types
  <2>2. QED
    BY <2>1 DEF IInv, Types, TypeOK, Room
<1>2. QED
  BY <1>1, InvHolds, PTL

(* No cell in use is unwritten memory or a stale copy, for any number of    *)
(* tasks and any priorities: also when one reaches the ceiling, and the     *)
(* order of the queue is lost.                                              *)
THEOREM CellsAreSound == Spec => []CellsSound
  BY InvHolds, SoundCells, PTL

(* The queue implements the bag: a push puts its task in, a pop takes one   *)
(* out that was in, and the rounds of the loops are invisible.              *)
THEOREM QueueImplementsBag == Spec => ImplementsBag
<1>1. Init => Bag!BagInit
  BY DEF Init, Bag!BagInit, Waiting, Cells
<1>2. IInv /\ [Next]_vars => [Bag!BagNext]_(Bag!bagvars)
  <2> SUFFICES ASSUME IInv, [Next]_vars PROVE [Bag!BagNext]_(Bag!bagvars)
    OBVIOUS
  <2>1. ASSUME NEW t \in Tasks, Push(t) PROVE Bag!Put(t)
    BY <2>1, Pushed DEF Push, Bag!Put
  <2>2. CASE Pop
    <3>1. popped' \in Tasks /\ Waiting' = Waiting \ {popped'} /\ popped' \in Waiting
      BY <2>2, Popped DEF IInv, Sound, Waiting
    <3>2. QED
      BY <3>1 DEF Bag!BagNext, Bag!Take
  <2>3. CASE PopEmpty
    <3>1. Cells(0) = {}
      BY DEF Cells
    <3>2. QED
      BY <2>3, <3>1 DEF PopEmpty, Waiting, Bag!BagNext, Bag!TakeNothing
  <2>4. ASSUME NEW i \in DOMAIN data, Up(i) \/ Down(i) PROVE UNCHANGED Bag!bagvars
    BY <2>4, Risen, Sunk DEF Up, Down, Bag!bagvars
  <2>5. CASE UNCHANGED vars
    BY <2>5 DEF vars, Waiting, Bag!bagvars
  <2>6. QED
    BY <2>1, <2>2, <2>3, <2>4, <2>5 DEF Next, Bag!BagNext
<1>3. QED
  BY <1>1, <1>2, InvHolds, PTL DEF Spec, ImplementsBag, Bag!BagSpec

-----------------------------------------------------------------------------
(* The order of the queue.  A level begins at 1, and behind a level that    *)
(* begins at l the next one begins at 2 * l + 1.                            *)
Levels ==
  UNION {S \in SUBSET Nat : \A m \in S : m = 1 \/ \E p \in S : m = 2 * p + 1}

LEMMA LeastNatural ==
  ASSUME NEW T, T \subseteq Nat, T # {}
  PROVE  \E x \in T : \A y \in T : x <= y
<1> DEFINE R == OpToRel(<, Nat)
<1>1. \A x, y \in Nat : <<x, y>> \in R <=> x < y
  BY DEF OpToRel
<1>2. IsWellFoundedOn(R, Nat)
  BY NatLessThanWellFounded
<1> HIDE DEF R
<1>3. PICK x \in T : \A y \in T : ~(<<y, x>> \in R)
  BY <1>2, WFMin
<1>4. ASSUME NEW y \in T PROVE x <= y
  <2>1. x \in Nat /\ y \in Nat /\ ~(y < x)
    BY <1>1, <1>3
  <2>2. QED
    BY <2>1
<1>5. QED
  BY <1>4

LEMMA LevelsBegin ==
  /\ Levels \subseteq Nat \ {0} /\ 1 \in Levels
  /\ \A l \in Levels : 2 * l + 1 \in Levels
  /\ \A l \in Levels : l = 1 \/ \E p \in Levels : l = 2 * p + 1
<1>1. Levels \subseteq Nat /\ \A l \in Levels : l = 1 \/ \E p \in Levels : l = 2 * p + 1
  BY DEF Levels
<1>2. ASSUME NEW S \in SUBSET Nat, \A m \in S : m = 1 \/ \E p \in S : m = 2 * p + 1
      PROVE  S \subseteq Levels
  BY <1>2 DEF Levels
<1>3. 1 \in Levels
  BY <1>2, {1} \in SUBSET Nat
<1>4. ASSUME NEW l \in Levels PROVE 2 * l + 1 \in Levels
  <2> DEFINE S == Levels \cup {2 * l + 1}
  <2>1. S \in SUBSET Nat
    BY <1>1
  <2>2. \A m \in S : m = 1 \/ \E p \in S : m = 2 * p + 1
    BY <1>1
  <2> HIDE DEF S
  <2>3. S \subseteq Levels
    BY <1>2, <2>1, <2>2
  <2>4. QED
    BY <2>3 DEF S
<1>5. 0 \notin Levels
  BY <1>1
<1>6. QED
  BY <1>1, <1>3, <1>4, <1>5

(* No level begins between two that follow each other.                      *)
LEMMA LevelsApart ==
  ASSUME NEW l \in Levels, NEW m \in Levels, l < m
  PROVE  2 * l + 1 <= m
<1> DEFINE T == {k \in Levels : \E n \in Levels : k < n /\ ~(2 * k + 1 <= n)}
<1>1. CASE T = {}
  BY <1>1
<1>2. CASE T # {}
  <2>1. T \subseteq Nat
    BY LevelsBegin
  <2>2. PICK k \in T : \A j \in T : k <= j
    BY <1>2, <2>1, LeastNatural
  <2>3. PICK n \in Levels : k < n /\ ~(2 * k + 1 <= n)
    OBVIOUS
  <2>4. k \in Nat /\ n \in Nat /\ k # 0 /\ k \in Levels
    BY LevelsBegin
  <2>5. PICK p \in Levels : n = 2 * p + 1
    BY <2>3, <2>4, LevelsBegin
  <2>6. p \in Nat /\ p # 0
    BY LevelsBegin
  <2>7. k # 1
    BY <2>3, <2>5, <2>6
  <2>8. PICK q \in Levels : k = 2 * q + 1
    BY <2>4, <2>7, LevelsBegin
  <2>9. q \in Nat /\ q < k /\ q < p
    BY <2>3, <2>4, <2>5, <2>6, <2>8, LevelsBegin
  <2>10. q \notin T
    BY <2>2, <2>4, <2>9
  <2>11. 2 * q + 1 <= p
    BY <2>9, <2>10
  <2>12. QED
    BY <2>3, <2>4, <2>5, <2>6, <2>8, <2>9, <2>11
<1>3. QED
  BY <1>1, <1>2

(* Cell j is in a level behind that of cell i.                              *)
Behind(i, j) == \E l \in Levels : i < l /\ l <= j

(* No cell but the one excepted is larger than one in a level behind.       *)
InOrder(d, n, except) ==
  \A i, j \in Cells(n) : Behind(i, j) /\ i \notin except => Priority[d[i]] <= Priority[d[j]]

(* While an element sinks it is in the level in front of the one looked at, *)
(* and what is out of order is that element.                                *)
OrderInv ==
  ascending =>
    /\ loop \in {"none", "up"} => InOrder(data, num, {})
    /\ loop = "up" => \A i \in Cells(num) : Prio(i) <= Prio(cur)
    /\ loop = "down" =>
         /\ InOrder(data, num, {cur})
         /\ level \in Levels /\ cur < level
         /\ \A l \in Levels : l < level => l <= cur
         /\ level <= num \/ cur = 0

LEMMA PushKeepsOrder ==
  ASSUME IInv, OrderInv, NEW t \in Tasks, Push(t)
  PROVE  OrderInv'
<1> USE DEF IInv, Types
<1>1. CASE ~ascending'
  BY <1>1 DEF OrderInv
<1>2. CASE ascending'
  <2>1. /\ ascending /\ loop = "none" /\ num \in Nat /\ num' = num + 1
        /\ \A u \in Waiting : Priority[u] <= Priority[t]
    BY <1>2 DEF Push
  <2>2. data'[num] = t /\ \A i \in Cells(num) : data'[i] = data[i]
    <3>1. num < ((num + 1) * 3) \div 2 /\ ((num + 1) * 3) \div 2 \in Nat
      BY <2>1
    <3>2. QED
      BY <2>1, <3>1 DEF Push, Resized, Cells
  <2>3. /\ Cells(num') = Cells(num) \cup {num} /\ num \notin Cells(num)
        /\ \A i \in Cells(num) : i \in Nat /\ i < num
    BY <2>1 DEF Cells
  <2>4. \A i \in Cells(num) : data[i] \in Waiting /\ Priority[data[i]] <= Priority[t]
    BY <2>1 DEF Waiting
  <2>5. Priority[t] <= Priority[t]
    BY QueueAssumption
  <2>6. \A i \in Cells(num') : Priority[data'[i]] <= Priority[t]
    BY <2>2, <2>3, <2>4, <2>5
  <2>7. \A i \in Cells(num) : ~Behind(num, i)
    BY <2>1, <2>3, LevelsBegin DEF Behind
  <2>8. ~Behind(num, num)
    BY <2>1, LevelsBegin DEF Behind
  <2>9. InOrder(data, num, {})
    BY <2>1 DEF OrderInv
  <2>10. InOrder(data', num', {})
    <3> SUFFICES ASSUME NEW i \in Cells(num'), NEW j \in Cells(num'), Behind(i, j)
                 PROVE  Priority[data'[i]] <= Priority[data'[j]]
      BY DEF InOrder
    <3>1. CASE j = num
      BY <3>1, <2>2, <2>6
    <3>2. CASE j # num
      <4>1. j \in Cells(num) /\ i \in Cells(num)
        BY <3>2, <2>3, <2>7
      <4>2. QED
        BY <4>1, <2>2, <2>9 DEF InOrder
    <3>3. QED
      BY <3>1, <3>2
  <2>11. CASE num = 0
    BY <2>11, <2>10 DEF Push, Leave, OrderInv
  <2>12. CASE num # 0
    <3>1. PICK b \in Start(num + 1) : Goto("up", num, b)
      BY <2>12 DEF Push
    <3>2. \A i \in Cells(num') : Prio(i)' <= Prio(cur)'
      BY <2>2, <2>6, <3>1 DEF Prio, Goto
    <3>3. QED
      BY <2>10, <3>1, <3>2 DEF OrderInv, Goto
  <2>13. QED
    BY <2>11, <2>12
<1>3. QED
  BY <1>1, <1>2

LEMMA PopKeepsOrder ==
  ASSUME IInv, OrderInv, Pop
  PROVE  OrderInv' /\ (ascending => Smallest(popped', Waiting))
<1> SUFFICES ASSUME ascending PROVE OrderInv' /\ Smallest(popped', Waiting)
  BY DEF Pop, OrderInv
<1> USE DEF IInv, Types
<1>1. /\ num \in Nat /\ num > 0 /\ num' = num - 1 /\ loop = "none" /\ popped' = data[0]
      /\ loop' = "down" /\ cur' = 0 /\ level' = 1
  BY DEF Pop, Goto
<1>2. InOrder(data, num, {})
  BY <1>1 DEF OrderInv
<1>3. /\ 0 \in Cells(num) /\ Cells(num') \subseteq Cells(num)
      /\ \A i \in Cells(num) : i \in Nat
  BY <1>1 DEF Cells
<1>4. \A i \in Cells(num) : i # 0 => Behind(0, i)
  BY <1>3, LevelsBegin DEF Behind
<1>5. \A i \in Cells(num) : Priority[data[0]] <= Priority[data[i]]
  <2>1. Priority[data[0]] <= Priority[data[0]]
    BY <1>3, QueueAssumption DEF Sound
  <2>2. QED
    BY <1>2, <1>3, <1>4, <2>1 DEF InOrder
<1>6. Smallest(popped', Waiting)
  BY <1>1, <1>5 DEF Smallest, Waiting
<1>7. \A i \in Cells(num) : i # 0 => data'[i] = data[i]
  BY <1>3 DEF Pop, Sound
<1>8. InOrder(data', num', {0})
  <2> SUFFICES ASSUME NEW i \in Cells(num'), NEW j \in Cells(num'), Behind(i, j), i # 0
               PROVE  Priority[data'[i]] <= Priority[data'[j]]
    BY DEF InOrder
  <2>1. j # 0
    BY <1>3, LevelsBegin DEF Behind
  <2>2. QED
    BY <1>2, <1>3, <1>7, <2>1 DEF InOrder
<1>9. 1 \in Levels /\ \A l \in Levels : ~(l < 1)
  BY LevelsBegin
<1>10. QED
  BY <1>1, <1>6, <1>8, <1>9 DEF OrderInv

(* A push in ascending order is the largest where it is, and does not rise. *)
LEMMA RiseKeepsOrder ==
  ASSUME IInv, OrderInv, NEW i \in DOMAIN data, Up(i)
  PROVE  OrderInv'
<1> USE DEF IInv, Types
<1> SUFFICES ASSUME ascending PROVE OrderInv'
  BY DEF Up, OrderInv
<1>1. num \in Nat /\ cur \in Cells(num) /\ level \in Cells(num) /\ loop = "up"
  BY DEF Up, LoopInv
<1>2. i \in Cells(num)
  BY <1>1 DEF Up, LastLargest, Least, Cells
<1>3. Prio(i) <= Prio(cur)
  BY <1>1, <1>2 DEF OrderInv
<1>4. QED
  BY <1>1, <1>3 DEF Up, Leave, OrderInv

(* A round of down_heap, with the element it finds in the level.            *)
LEMMA SinkKeepsOrder ==
  ASSUME \A t \in Tasks : Priority[t] < Ceiling,
         IInv, OrderInv, NEW i \in DOMAIN data, Down(i)
  PROVE  OrderInv'
<1> USE DEF IInv, Types
<1> SUFFICES ASSUME ascending PROVE OrderInv'
  BY DEF Down, OrderInv
<1> DEFINE end == Least(2 * level + 1, num + 1)
<1>1. /\ num \in Nat /\ num' = num /\ loop = "down" /\ cur \in Nat /\ ascending' = ascending
      /\ data[cur] = data[num] /\ data[num] \in Tasks
      /\ \A k \in Cells(num) : data[k] \in Tasks
      /\ cur \in Cells(num) \/ (num = 0 /\ cur = 0)
  BY DEF Down, LoopInv, Sound
<1>2. /\ InOrder(data, num, {cur}) /\ level \in Levels /\ level \in Nat /\ level # 0 /\ cur < level
      /\ \A l \in Levels : l < level => l <= cur
      /\ level <= num \/ cur = 0
  BY <1>1, LevelsBegin DEF OrderInv
<1>3. /\ i \in FirstSmallest(level .. end - 1)
      /\ IF Prio(cur) <= Prio(i) THEN Leave /\ UNCHANGED data
         ELSE /\ Swap(cur, i)
              /\ IF end = num + 1 THEN Leave ELSE Goto("down", i, end)
  BY DEF Down
<1>4. /\ end \in Nat /\ end <= num + 1 /\ end <= 2 * level + 1
      /\ end = num + 1 \/ end = 2 * level + 1
  BY <1>1, <1>2 DEF Least
<1> HIDE DEF end
<1>5. /\ \A k \in level .. end - 1 : k \in 0 .. num
      /\ \A k \in 0 .. num : k \in Cells(num) \/ k = num
      /\ \A k \in Cells(num) : k \in Nat /\ k < num /\ k \in 0 .. num
  BY <1>1, <1>2, <1>4 DEF Cells
<1>6. \A k \in 0 .. num : data[k] \in Tasks /\ Prio(k) \in Nat /\ Prio(k) < Ceiling
  BY <1>1, <1>5, QueueAssumption DEF Prio
<1>7. CASE num < level
  <2>1. cur = 0
    BY <1>1, <1>2, <1>7
  <2>2. i = 0
    BY <1>1, <1>2, <1>3, <1>4, <1>7 DEF FirstSmallest
  <2>3. 0 \in 0 .. num
    BY <1>1
  <2>4. Prio(cur) <= Prio(i)
    BY <1>6, <2>1, <2>2, <2>3
  <2>5. \A k, j \in Cells(num) : ~(k = cur /\ Behind(k, j))
    BY <1>2, <1>5, <1>7, LevelsBegin DEF Behind
  <2>6. InOrder(data, num, {})
    BY <1>2, <2>5 DEF InOrder
  <2>7. QED
    BY <1>1, <1>3, <2>4, <2>6 DEF Leave, OrderInv
<1>8. CASE level <= num
  <2>1. /\ i \in level .. end - 1
        /\ \A k \in level .. end - 1 : Prio(i) <= Prio(k)
    <3>1. {k \in level .. end - 1 : Prio(k) < Ceiling} = level .. end - 1
      BY <1>5, <1>6
    <3>2. level \in level .. end - 1
      BY <1>1, <1>2, <1>4, <1>8
    <3>3. i \in {k \in level .. end - 1 : \A j \in level .. end - 1 :
                    Prio(k) < Prio(j) \/ (Prio(k) = Prio(j) /\ k <= j)}
      BY <1>3, <3>1, <3>2 DEF FirstSmallest
    <3>4. ASSUME NEW k \in level .. end - 1 PROVE Prio(i) <= Prio(k)
      BY <3>3, <1>5, <1>6
    <3>5. QED
      BY <3>3, <3>4
  <2>2. i \in Nat /\ i \in 0 .. num /\ level <= i /\ i < end
    BY <1>2, <1>4, <1>5, <2>1
  \* What is behind the sinking element is in the level looked at or behind it.
  <2>3. ASSUME NEW j \in Cells(num), level <= j PROVE Prio(i) <= Prio(j)
    <3>1. CASE j < end
      BY <3>1, <1>5, <1>2, <1>4, <2>1, <2>3
    <3>2. CASE end <= j
      <4>1. end = 2 * level + 1
        BY <3>2, <1>4, <1>5, <1>1
      <4>2. i \in Cells(num) /\ i # cur
        BY <3>2, <1>1, <1>2, <1>4, <1>5, <2>2 DEF Cells
      <4>3. Behind(i, j)
        BY <3>2, <4>1, <1>2, <1>5, <2>2, LevelsBegin DEF Behind
      <4>4. QED
        BY <4>2, <4>3, <1>2 DEF InOrder, Prio
    <3>3. QED
      BY <3>1, <3>2, <1>4, <1>5
  <2>4. ASSUME NEW j \in Cells(num), Behind(cur, j) PROVE level <= j
    BY <2>4, <1>2, <1>5, LevelsBegin DEF Behind
  <2>5. CASE Prio(cur) <= Prio(i)
    <3>1. \A j \in Cells(num) : Behind(cur, j) => Prio(cur) <= Prio(j)
      <4>1. cur \in 0 .. num
        BY <1>1, <1>5
      <4>2. QED
        BY <1>5, <1>6, <2>2, <2>3, <2>4, <2>5, <4>1
    <3>2. InOrder(data, num, {})
      BY <1>2, <3>1 DEF InOrder, Prio
    <3>3. QED
      BY <1>1, <1>3, <2>5, <3>2 DEF Leave, OrderInv
  <2>6. CASE ~(Prio(cur) <= Prio(i))
    <3>1. i # num
      BY <1>1, <1>6, <2>6, <2>2 DEF Prio
    <3>2. i \in Cells(num) /\ cur \in Cells(num) /\ cur # i
      BY <1>1, <1>2, <1>5, <2>2, <3>1 DEF Cells
    <3>3. Prio(i) < Prio(cur)
      BY <1>5, <1>6, <2>6, <3>2
    <3>4. /\ data'[cur] = data[i] /\ data'[i] = data[cur]
          /\ \A k \in Cells(num) : k # cur /\ k # i => data'[k] = data[k]
      BY <1>3, <2>6, <3>2 DEF Swap, Sound
    <3>5. InOrder(data', num, {i})
      <4> SUFFICES ASSUME NEW k \in Cells(num), NEW j \in Cells(num), Behind(k, j), k # i
                   PROVE  Priority[data'[k]] <= Priority[data'[j]]
        BY DEF InOrder
      <4> USE DEF Prio
      <4>1. /\ Prio(i) \in Nat /\ Prio(j) \in Nat /\ Prio(k) \in Nat /\ Prio(cur) \in Nat
            /\ i \in Nat /\ j \in Nat /\ k \in Nat
        BY <1>5, <1>6, <3>2
      <4>2. CASE k = cur
        <5>1. level <= j
          BY <4>2, <2>4
        <5>2. j # cur
          BY <5>1, <1>2, <4>1
        <5>3. Prio(i) <= Prio(j)
          BY <5>1, <2>3
        <5>4. QED
          BY <4>1, <4>2, <5>2, <5>3, <3>3, <3>4
      <4>3. CASE k # cur /\ j = cur
        <5>1. Behind(k, i)
          BY <4>1, <4>3, <1>2, <2>2, LevelsBegin DEF Behind
        <5>2. QED
          BY <4>3, <5>1, <1>2, <3>2, <3>4 DEF InOrder
      <4>4. CASE k # cur /\ j = i
        <5>1. Prio(k) <= Prio(i)
          BY <4>4, <1>2, <3>2 DEF InOrder
        <5>2. QED
          BY <4>1, <4>4, <5>1, <3>3, <3>4
      <4>5. CASE k # cur /\ j # cur /\ j # i
        BY <4>5, <1>2, <3>4 DEF InOrder
      <4>6. QED
        BY <4>2, <4>3, <4>4, <4>5
    <3>6. CASE end = num + 1
      <4>1. \A k, j \in Cells(num) : ~(k = i /\ Behind(k, j))
        <5> SUFFICES ASSUME NEW j \in Cells(num), NEW l \in Levels, i < l, l <= j PROVE FALSE
          BY DEF Behind
        <5>1. l \in Nat /\ level < l
          BY <1>2, <2>2, LevelsBegin
        <5>2. 2 * level + 1 <= l
          BY <1>2, <5>1, LevelsApart
        <5>3. QED
          BY <1>1, <1>2, <1>4, <1>5, <3>6, <5>1, <5>2
      <4>2. InOrder(data', num, {})
        BY <3>5, <4>1 DEF InOrder
      <4>3. QED
        BY <1>1, <1>3, <2>6, <3>6, <4>2 DEF Leave, OrderInv
    <3>7. CASE end # num + 1
      <4>1. /\ end = 2 * level + 1 /\ end \in Levels /\ end <= num
        <5>1. end = 2 * level + 1 /\ end <= num
          BY <1>1, <1>2, <1>4, <3>7
        <5>2. 2 * level + 1 \in Levels
          BY <1>2, LevelsBegin
        <5>3. QED
          BY <5>1, <5>2
      <4>2. ASSUME NEW l \in Levels, l < end PROVE l <= i
        <5>1. ~(level < l)
          BY <4>1, <4>2, <1>2, LevelsApart, LevelsBegin
        <5>2. QED
          BY <5>1, <1>2, <2>2, LevelsBegin
      <4>3. loop' = "down" /\ cur' = i /\ level' = end
        BY <1>3, <2>6, <3>7 DEF Goto
      <4>4. QED
        BY <1>1, <2>2, <3>5, <4>1, <4>2, <4>3 DEF OrderInv
    <3>8. QED
      BY <3>6, <3>7
  <2>7. QED
    BY <2>5, <2>6
<1>9. QED
  BY <1>1, <1>2, <1>7, <1>8

(* As long as no priority reaches the ceiling and no push goes below one    *)
(* that waits, each pop returns a task of the lowest priority, although     *)
(* the levels up_heap looks at are not those that down_heap keeps.          *)
THEOREM AscendingPopsAreLowest ==
  ASSUME \A t \in Tasks : Priority[t] < Ceiling
  PROVE  Spec => AscendingPopsLowest
<1> DEFINE Inv == IInv /\ OrderInv
           Lowest == num' < num /\ ascending => Smallest(popped', Waiting)
<1>1. Init => Inv
  <2>1. Init => OrderInv
    BY DEF Init, OrderInv, InOrder, Cells
  <2>2. QED
    BY <2>1, Created
<1>2. Inv /\ [Next]_vars => Inv' /\ [Lowest]_vars
  <2> SUFFICES ASSUME IInv, OrderInv, [Next]_vars PROVE OrderInv' /\ [Lowest]_vars
    BY Step
  <2>0. num \in Nat
    BY DEF IInv, Types
  <2>1. ASSUME NEW t \in Tasks, Push(t) PROVE OrderInv' /\ Lowest
    <3>1. OrderInv'
      BY <2>1, PushKeepsOrder
    <3>2. num' = num + 1
      BY <2>1 DEF Push
    <3>3. QED
      BY <2>0, <3>1, <3>2
  <2>2. CASE Pop
    BY <2>2, PopKeepsOrder
  <2>3. CASE PopEmpty
    BY <2>0, <2>3 DEF PopEmpty, heapvars, OrderInv, Prio
  <2>4. ASSUME NEW i \in DOMAIN data, Up(i) PROVE OrderInv' /\ Lowest
    <3>1. OrderInv'
      BY <2>4, RiseKeepsOrder
    <3>2. num' = num
      BY <2>4 DEF Up
    <3>3. QED
      BY <2>0, <3>1, <3>2
  <2>5. ASSUME NEW i \in DOMAIN data, Down(i) PROVE OrderInv' /\ Lowest
    <3>1. OrderInv'
      BY <2>5, SinkKeepsOrder
    <3>2. num' = num
      BY <2>5 DEF Down
    <3>3. QED
      BY <2>0, <3>1, <3>2
  <2>6. CASE UNCHANGED vars
    BY <2>6 DEF vars, heapvars, OrderInv, Prio
  <2>7. QED
    BY <2>1, <2>2, <2>3, <2>4, <2>5, <2>6 DEF Next
<1>3. QED
  BY <1>1, <1>2, PTL DEF Spec, AscendingPopsLowest
=============================================================================
