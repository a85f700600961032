--------------------------- MODULE RecordEditProofs ---------------------------
(***************************************************************************)
(* What is proved about editing a record: the moves of a memory file, on   *)
(* which everything that edits a record rests, and, whatever is edited,    *)
(* that a record stays one that a reader walks from its first field to the *)
(* end of the memory, with the iterator and the inserters at places the    *)
(* reader comes to.  Those places are the heart of the argument: a set of  *)
(* them, closed under the steps of a reader, is in the inductive invariant *)
(* (Good), and every edit is shown to leave such a set behind.             *)
(*                                                                         *)
(* Memory files.  What the moves do to the cells, for every memory, every  *)
(* offset within it and every number of cells.  Nothing depends on the     *)
(* width of a cell, so that a cell is any natural number here.             *)
(***************************************************************************)
EXTENDS RecordEdit, WellFoundedInduction, SequenceTheorems, TLAPS

Cell == Nat

LEMMA Difference ==
  ASSUME NEW a \in Nat, NEW b \in Nat, a <= b
  PROVE  \E n \in Nat : n = b - a /\ a + n = b /\ b - n = a
<1>1. b - a \in Nat /\ a + (b - a) = b /\ b - (b - a) = a
  OBVIOUS
<1>2. QED
  BY <1>1

LEMMA ZerosAreZero ==
  ASSUME NEW n \in Nat
  PROVE  /\ Zeros(n) \in Seq(Cell)
         /\ Len(Zeros(n)) = n
         /\ \A i \in 1 .. n : Zeros(n)[i] = 0
  BY DEF Zeros, Cell

LEMMA ThreeParts ==
  ASSUME NEW a \in Seq(Cell), NEW b \in Seq(Cell), NEW c \in Seq(Cell)
  PROVE  /\ a \o b \o c \in Seq(Cell)
         /\ Len(a \o b \o c) = Len(a) + Len(b) + Len(c)
         /\ \A i \in 1 .. Len(a) + Len(b) + Len(c) :
              (a \o b \o c)[i] =
                IF i <= Len(a) THEN a[i]
                ELSE IF i <= Len(a) + Len(b) THEN b[i - Len(a)]
                ELSE c[i - Len(a) - Len(b)]
<1>1. /\ a \o b \in Seq(Cell) /\ Len(a \o b) = Len(a) + Len(b)
      /\ \A i \in 1 .. Len(a) + Len(b) :
           (a \o b)[i] = IF i <= Len(a) THEN a[i] ELSE b[i - Len(a)]
  OBVIOUS
<1> DEFINE ab == a \o b
<1>2. /\ ab \o c \in Seq(Cell) /\ Len(ab \o c) = Len(ab) + Len(c)
      /\ \A i \in 1 .. Len(ab) + Len(c) :
           (ab \o c)[i] = IF i <= Len(ab) THEN ab[i] ELSE c[i - Len(ab)]
  BY <1>1
<1> HIDE DEF ab
<1>3. /\ ab \o c \in Seq(Cell) /\ Len(ab \o c) = Len(a) + Len(b) + Len(c)
      /\ \A i \in 1 .. Len(a) + Len(b) + Len(c) :
           (ab \o c)[i] = IF i <= Len(a) THEN a[i]
                          ELSE IF i <= Len(a) + Len(b) THEN b[i - Len(a)]
                          ELSE c[i - Len(a) - Len(b)]
  BY <1>1, <1>2 DEF ab
<1>4. QED
  BY <1>3 DEF ab

(* A move to the right lengthens the used cells, leaves what is in front of *)
(* the offset where it is, gives zero cells and shifts the rest.            *)
THEOREM MoveRightMoves ==
  ASSUME NEW m \in Seq(Cell), NEW pos \in 0 .. Len(m), NEW n \in Nat
  PROVE  /\ MoveRight(m, pos, n) \in Seq(Cell)
         /\ Len(MoveRight(m, pos, n)) = Len(m) + n
         /\ \A i \in Nat :
              CellAt(MoveRight(m, pos, n), i) =
                IF i < pos THEN CellAt(m, i)
                ELSE IF i < pos + n THEN 0 ELSE CellAt(m, i - n)
<1> DEFINE front == SubSeq(m, 1, pos)
           back  == SubSeq(m, pos + 1, Len(m))
           hole  == Zeros(n)
           moved == front \o hole \o back
<1>1. /\ front \in Seq(Cell) /\ Len(front) = pos
      /\ \A i \in 1 .. pos : front[i] = m[i]
  OBVIOUS
<1>2. /\ back \in Seq(Cell) /\ Len(back) = Len(m) - pos
      /\ \A i \in 1 .. Len(m) - pos : back[i] = m[pos + i]
  OBVIOUS
<1>3. hole \in Seq(Cell) /\ Len(hole) = n /\ \A i \in 1 .. n : hole[i] = 0
  BY ZerosAreZero
<1>7. MoveRight(m, pos, n) = moved
  BY DEF MoveRight
<1> HIDE DEF front, back, hole
<1>4. /\ moved \in Seq(Cell) /\ Len(moved) = Len(m) + n
      /\ \A i \in 1 .. Len(m) + n :
           moved[i] = IF i <= pos THEN front[i]
                      ELSE IF i <= pos + n THEN hole[i - pos]
                      ELSE back[i - pos - n]
  <2>1. /\ moved \in Seq(Cell) /\ Len(moved) = Len(front) + Len(hole) + Len(back)
        /\ \A i \in 1 .. Len(front) + Len(hole) + Len(back) :
             moved[i] = IF i <= Len(front) THEN front[i]
                        ELSE IF i <= Len(front) + Len(hole) THEN hole[i - Len(front)]
                        ELSE back[i - Len(front) - Len(hole)]
    BY <1>1, <1>2, <1>3, ThreeParts, ZenonT(60)
  <2>2. Len(front) = pos /\ Len(hole) = n /\ Len(back) = Len(m) - pos
    BY <1>1, <1>2, <1>3
  <2> HIDE DEF moved
  <2>3. Len(front) + Len(hole) + Len(back) = Len(m) + n
    BY <2>2
  <2>4. \A i \in 1 .. Len(m) + n :
           moved[i] = IF i <= pos THEN front[i]
                      ELSE IF i <= pos + n THEN hole[i - pos]
                      ELSE back[i - pos - n]
    BY <2>1, <2>2, <2>3
  <2>5. QED
    BY <2>1, <2>3, <2>4
<1> HIDE DEF moved
<1>5. ASSUME NEW i \in Nat
      PROVE  CellAt(moved, i) = IF i < pos THEN CellAt(m, i)
                                ELSE IF i < pos + n THEN 0 ELSE CellAt(m, i - n)
  <2>1. CASE i < pos
    BY <2>1, <1>1, <1>4 DEF CellAt
  <2>2. CASE pos <= i /\ i < pos + n
    BY <2>2, <1>3, <1>4 DEF CellAt
  <2>3. CASE pos + n <= i
    <3>1. CASE i < Len(m) + n
      <4>1. moved[i + 1] = back[i + 1 - pos - n]
        BY <2>3, <3>1, <1>4
      <4>2. back[i + 1 - pos - n] = m[i + 1 - n]
        <5>1. PICK k \in 1 .. Len(m) - pos : k = i + 1 - pos - n
          BY <2>3, <3>1
        <5>2. back[k] = m[pos + k] /\ pos + k = i + 1 - n
          BY <1>2, <5>1
        <5>3. QED
          BY <5>1, <5>2
      <4>3. QED
        BY <2>3, <3>1, <4>1, <4>2, <1>4 DEF CellAt
    <3>2. CASE i >= Len(m) + n
      BY <2>3, <3>2, <1>4 DEF CellAt
    <3>3. QED
      BY <3>1, <3>2
  <2>4. QED
    BY <2>1, <2>2, <2>3
<1>6. QED
  BY <1>4, <1>5, <1>7

(* Closing a gap leaves what is in front of it and brings the rest forward. *)
THEOREM MoveLeftMoves ==
  ASSUME NEW m \in Seq(Cell), NEW pos \in 0 .. Len(m), NEW n \in Nat,
         pos + n <= Len(m)
  PROVE  /\ MoveLeft(m, pos, n) \in Seq(Cell)
         /\ Len(MoveLeft(m, pos, n)) = Len(m) - n
         /\ \A i \in Nat :
              CellAt(MoveLeft(m, pos, n), i) =
                IF i < pos THEN CellAt(m, i) ELSE CellAt(m, i + n)
<1> DEFINE front == SubSeq(m, 1, pos)
           back  == SubSeq(m, pos + n + 1, Len(m))
           moved == front \o back
<1>1. /\ front \in Seq(Cell) /\ Len(front) = pos
      /\ \A i \in 1 .. pos : front[i] = m[i]
  OBVIOUS
<1>2. /\ back \in Seq(Cell) /\ Len(back) = Len(m) - pos - n
      /\ \A i \in 1 .. Len(m) - pos - n : back[i] = m[pos + n + i]
  OBVIOUS
<1>3. MoveLeft(m, pos, n) = moved
  BY DEF MoveLeft
<1> HIDE DEF front, back
<1>4. /\ moved \in Seq(Cell) /\ Len(moved) = Len(m) - n
      /\ \A i \in 1 .. Len(m) - n :
           moved[i] = IF i <= pos THEN front[i] ELSE back[i - pos]
  BY <1>1, <1>2
<1> HIDE DEF moved
<1>5. ASSUME NEW i \in Nat
      PROVE  CellAt(moved, i) = IF i < pos THEN CellAt(m, i) ELSE CellAt(m, i + n)
  <2>1. CASE i < pos
    BY <2>1, <1>1, <1>4 DEF CellAt
  <2>2. CASE pos <= i /\ i + n < Len(m)
    <3>1. moved[i + 1] = back[i + 1 - pos]
      BY <2>2, <1>4
    <3>2. back[i + 1 - pos] = m[i + n + 1]
      BY <2>2, <1>2
    <3>3. QED
      BY <2>2, <3>1, <3>2, <1>4 DEF CellAt
  <2>3. CASE pos <= i /\ i + n >= Len(m)
    BY <2>3, <1>4 DEF CellAt
  <2>4. QED
    BY <2>1, <2>2, <2>3
<1>6. QED
  BY <1>3, <1>4, <1>5

LEMMA LeastNatural ==
  ASSUME NEW T, T \subseteq Nat, T # {}
  PROVE  \E x \in T : \A y \in T : x <= y
<1> DEFINE R == OpToRel(<, Nat)
<1>1. \A x, y \in Nat : <<x, y>> \in R <=> x < y
  BY DEF OpToRel
<1>2. IsWellFoundedOn(R, Nat)
  BY Zenon, NatLessThanWellFounded
<1> HIDE DEF R
<1>3. PICK x \in T : \A y \in T : ~(<<y, x>> \in R)
  BY <1>2, WFMin
<1>4. ASSUME NEW y \in T PROVE x <= y
  <2>1. x \in Nat /\ y \in Nat
    OBVIOUS
  <2>2. ~(y < x)
    BY Zenon, <2>1, <1>1, <1>3
  <2>3. QED
    BY <2>1, <2>2
<1>5. QED
  BY <1>4

(* Ensuring space: the cells asked for are free afterwards, and the hole    *)
(* opened for them, at most as large as what was asked for, shifts every    *)
(* other cell and overwrites none.                                          *)
THEOREM EnsuredSpaceIsFree ==
  ASSUME NEW m \in Seq(Cell), NEW pos \in 0 .. Len(m), NEW n \in Nat
  PROVE  /\ EnsureSpace(m, pos, n) \in Seq(Cell)
         /\ \A i \in pos .. pos + n - 1 : CellAt(EnsureSpace(m, pos, n), i) = 0
         /\ \E k \in 0 .. n :
              /\ Len(EnsureSpace(m, pos, n)) = Len(m) + k
              /\ \A i \in Nat :
                   CellAt(EnsureSpace(m, pos, n), i) =
                     IF i < pos THEN CellAt(m, i)
                     ELSE IF i < pos + k THEN 0 ELSE CellAt(m, i - k)
<1> DEFINE used  == {i \in 0 .. n - 1 : CellAt(m, pos + i) # 0}
           first == CHOOSE i \in used : \A j \in used : i <= j
<1>1. CASE used = {}
  <2>1. EnsureSpace(m, pos, n) = m
    BY <1>1 DEF EnsureSpace
  <2>2. \A i \in pos .. pos + n - 1 : CellAt(m, i) = 0
    <3>1. SUFFICES ASSUME NEW i \in pos .. pos + n - 1, CellAt(m, i) # 0 PROVE FALSE
      OBVIOUS
    <3>2. i - pos \in 0 .. n - 1 /\ pos + (i - pos) = i
      OBVIOUS
    <3>3. QED
      BY <1>1, <3>1, <3>2
  <2>3. \A i \in Nat : CellAt(m, i) =
           IF i < pos THEN CellAt(m, i)
           ELSE IF i < pos + 0 THEN 0 ELSE CellAt(m, i - 0)
    OBVIOUS
  <2>4. 0 \in 0 .. n /\ Len(m) = Len(m) + 0
    OBVIOUS
  <2>5. QED
    BY Zenon, <2>1, <2>2, <2>3, <2>4
<1>2. CASE used # {}
  <2> DEFINE k == n - first
             moved == MoveRight(m, pos, k)
  <2>1. first \in used /\ \A j \in used : first <= j
    <3>1. used \subseteq Nat
      OBVIOUS
    <3>2. \E x \in used : \A y \in used : x <= y
      BY <1>2, <3>1, LeastNatural
    <3>3. QED
      BY <3>2
  <2>2. EnsureSpace(m, pos, n) = moved
    BY <1>2 DEF EnsureSpace
  <2>3. first \in 0 .. n - 1 /\ \A i \in 0 .. first - 1 : CellAt(m, pos + i) = 0
    <3>1. first \in 0 .. n - 1
      BY <2>1
    <3> HIDE DEF first
    <3>2. ASSUME NEW i \in 0 .. first - 1, CellAt(m, pos + i) # 0 PROVE FALSE
      <4>1. i \in 0 .. n - 1 /\ ~(first <= i)
        BY <3>1
      <4>2. i \in used
        BY <3>2, <4>1
      <4>3. QED
        BY <4>1, <4>2, <2>1
    <3>3. QED
      BY <3>1, <3>2
  <2> HIDE DEF first
  <2>4. k \in 1 .. n /\ k \in Nat
    BY <2>3
  <2>5. /\ moved \in Seq(Cell) /\ Len(moved) = Len(m) + k
        /\ \A i \in Nat : CellAt(moved, i) =
             IF i < pos THEN CellAt(m, i)
             ELSE IF i < pos + k THEN 0 ELSE CellAt(m, i - k)
    BY <2>4, MoveRightMoves
  <2>6. ASSUME NEW i \in pos .. pos + n - 1 PROVE CellAt(moved, i) = 0
    <3>1. CASE i < pos + k
      BY <3>1, <2>4, <2>5
    <3>2. CASE i >= pos + k
      <4>1. CellAt(moved, i) = CellAt(m, i - k)
        BY <3>2, <2>4, <2>5
      <4>2. i - k - pos \in 0 .. first - 1 /\ pos + (i - k - pos) = i - k
        BY <3>2, <2>3
      <4>3. QED
        BY <4>1, <4>2, <2>3
    <3>3. QED
      BY <3>1, <3>2, <2>4
  <2> HIDE DEF k, moved
  <2>7. \E kk \in 0 .. n :
          /\ Len(moved) = Len(m) + kk
          /\ \A i \in Nat : CellAt(moved, i) =
               IF i < pos THEN CellAt(m, i)
               ELSE IF i < pos + kk THEN 0 ELSE CellAt(m, i - kk)
    <3>1. k \in 0 .. n
      BY <2>4
    <3>2. WITNESS k \in 0 .. n
    <3>3. QED
      BY <2>5
  <2>8. QED
    BY <2>2, <2>5, <2>6, <2>7, Zenon
<1>3. QED
  BY <1>1, <1>2

(* Using the cells up to a position changes none of them.                   *)
LEMMA SkipUses ==
  ASSUME NEW m \in Seq(Cell), NEW pos \in Nat
  PROVE  /\ Skip(m, pos) \in Seq(Cell)
         /\ Len(Skip(m, pos)) = IF pos > Len(m) THEN pos ELSE Len(m)
         /\ \A i \in Nat : CellAt(Skip(m, pos), i) = CellAt(m, i)
<1>1. CASE pos <= Len(m)
  BY <1>1 DEF Skip
<1>2. CASE pos > Len(m)
  <2> DEFINE zeros == Zeros(pos - Len(m))
             skipped == m \o zeros
  <2>0. pos - Len(m) \in Nat
    BY <1>2
  <2>1. /\ zeros \in Seq(Cell) /\ Len(zeros) = pos - Len(m)
        /\ \A i \in 1 .. pos - Len(m) : zeros[i] = 0
    BY <2>0, ZerosAreZero
  <2>2. Skip(m, pos) = skipped
    BY <1>2 DEF Skip
  <2> HIDE DEF zeros
  <2>3. /\ skipped \in Seq(Cell) /\ Len(skipped) = pos
        /\ \A i \in 1 .. pos :
             skipped[i] = IF i <= Len(m) THEN m[i] ELSE zeros[i - Len(m)]
    BY <1>2, <2>1
  <2> HIDE DEF skipped
  <2>4. \A i \in Nat : CellAt(skipped, i) = CellAt(m, i)
    BY <1>2, <2>1, <2>3 DEF CellAt
  <2>5. QED
    BY <1>2, <2>2, <2>3, <2>4
<1>3. QED
  BY <1>1, <1>2

(* A write replaces the cells it covers and no other, behind the used cells *)
(* as well as among them.                                                   *)
THEOREM WriteOverwrites ==
  ASSUME NEW m \in Seq(Cell), NEW pos \in Nat, NEW cells \in Seq(Cell)
  PROVE  /\ Write(m, pos, cells) \in Seq(Cell)
         /\ \A i \in Nat :
              CellAt(Write(m, pos, cells), i) =
                IF i >= pos /\ i < pos + Len(cells) THEN cells[i - pos + 1]
                ELSE CellAt(m, i)
<1> DEFINE used    == Skip(m, pos)
           front   == SubSeq(used, 1, pos)
           back    == SubSeq(m, pos + Len(cells) + 1, Len(m))
           written == front \o cells \o back
           behind  == IF Len(m) > pos + Len(cells)
                      THEN Len(m) - pos - Len(cells) ELSE 0
<1>1. Write(m, pos, cells) = written
  BY DEF Write
<1>2. /\ used \in Seq(Cell) /\ Len(used) >= pos /\ Len(used) >= Len(m) /\ Len(used) \in Nat
      /\ \A i \in Nat : CellAt(used, i) = CellAt(m, i)
  BY SkipUses
<1> HIDE DEF used
<1>3. front \in Seq(Cell) /\ Len(front) = pos /\ \A i \in 1 .. pos : front[i] = used[i]
  BY <1>2
<1>4. /\ back \in Seq(Cell) /\ Len(back) = behind
      /\ \A i \in 1 .. behind : back[i] = m[pos + Len(cells) + i]
  OBVIOUS
<1>5. /\ behind \in Nat
      /\ Len(m) > pos + Len(cells) => behind = Len(m) - pos - Len(cells)
      /\ Len(m) <= pos + Len(cells) => behind = 0
  OBVIOUS
<1> HIDE DEF front, back, behind
<1>6. /\ written \in Seq(Cell) /\ Len(written) = Len(front) + Len(cells) + Len(back)
      /\ \A i \in 1 .. Len(front) + Len(cells) + Len(back) :
           written[i] = IF i <= Len(front) THEN front[i]
                        ELSE IF i <= Len(front) + Len(cells) THEN cells[i - Len(front)]
                        ELSE back[i - Len(front) - Len(cells)]
  BY <1>3, <1>4, ThreeParts, ZenonT(60)
<1> HIDE DEF written
<1>7. /\ Len(written) = pos + Len(cells) + behind
      /\ \A i \in 1 .. pos + Len(cells) + behind :
           written[i] = IF i <= pos THEN front[i]
                        ELSE IF i <= pos + Len(cells) THEN cells[i - pos]
                        ELSE back[i - pos - Len(cells)]
  BY <1>3, <1>4, <1>6
<1>8. ASSUME NEW i \in Nat
      PROVE  CellAt(written, i) =
               IF i >= pos /\ i < pos + Len(cells) THEN cells[i - pos + 1]
               ELSE CellAt(m, i)
  <2>0. Len(cells) \in Nat /\ Len(m) \in Nat
    OBVIOUS
  <2>1. CASE i < pos
    <3>1. CellAt(written, i) = used[i + 1]
      BY <2>0, <2>1, <1>3, <1>5, <1>7 DEF CellAt
    <3>2. CellAt(used, i) = used[i + 1]
      BY <2>1, <1>2 DEF CellAt
    <3>3. QED
      BY <2>1, <3>1, <3>2, <1>2
  <2>2. CASE i >= pos /\ i < pos + Len(cells)
    BY <2>0, <2>2, <1>5, <1>7 DEF CellAt
  <2>3. CASE i >= pos + Len(cells)
    <3>1. CASE i < Len(m)
      <4>1. behind = Len(m) - pos - Len(cells)
        BY <2>0, <2>3, <3>1, <1>5
      <4>2. written[i + 1] = back[i + 1 - pos - Len(cells)]
        <5>1. /\ i + 1 \in 1 .. pos + Len(cells) + behind
              /\ ~(i + 1 <= pos) /\ ~(i + 1 <= pos + Len(cells))
          BY <2>0, <2>3, <3>1, <4>1
        <5>2. QED
          BY <5>1, <1>7
      <4>3. back[i + 1 - pos - Len(cells)] = m[i + 1]
        BY <2>0, <2>3, <3>1, <4>1, <1>4, SMTT(60)
      <4>4. QED
        BY <2>0, <2>3, <3>1, <4>1, <4>2, <4>3, <1>7 DEF CellAt
    <3>2. CASE i >= Len(m)
      <4>1. i >= Len(written)
        BY <2>0, <2>3, <3>2, <1>5, <1>7
      <4>2. QED
        BY <2>0, <2>3, <3>2, <4>1, <1>5, <1>7 DEF CellAt
    <3>3. QED
      BY <3>1, <3>2
  <2>4. QED
    BY <2>0, <2>1, <2>2, <2>3
<1>9. QED
  BY <1>1, <1>6, <1>8

(* A value of one or two blocks is read back from its blocks.               *)
LEMMA BlocksOfValue ==
  ASSUME NEW value \in 0 .. Radix * Radix - 1
  PROVE  /\ Blocks(value) \in Seq(Cell)
         /\ \/ /\ value < Radix
               /\ Len(Blocks(value)) = 1
               /\ Blocks(value)[1] = value
            \/ /\ Len(Blocks(value)) = 2
               /\ Blocks(value)[1] >= Radix
               /\ (Blocks(value)[1] - Radix) * Radix + Blocks(value)[2] = value
<1>1. Radix \in Nat /\ Radix > 1
  BY RadixAssumption
<1>2. CASE value < Radix
  BY <1>1, <1>2 DEF Blocks, Cell
<1>3. CASE value >= Radix
  <2> DEFINE high == value \div Radix
             low  == value % Radix
  <2>1. high \in Nat /\ low \in Nat /\ high * Radix + low = value
    BY <1>1, <1>3
  <2>2. Blocks(value) = <<Radix + high, low>>
    BY <1>1, <1>3 DEF Blocks
  <2> HIDE DEF high, low
  <2>3. (Radix + high) - Radix = high
    BY <1>1, <2>1
  <2>4. QED
    BY <1>1, <2>1, <2>2, <2>3 DEF Cell
<1>4. QED
  BY <1>1, <1>2, <1>3

(* Updating a counter in place, whether it gains a block, loses one or       *)
(* keeps its length: the new value is read back, what stands in front stays, *)
(* and every cell behind the counter is still there, right behind it.        *)
THEOREM CounterUpdated ==
  ASSUME NEW m \in Seq(Cell), NEW pos \in Nat,
         UintvarAt(m, pos).end <= Len(m),
         NEW value \in 0 .. Radix * Radix - 1
  PROVE  LET new == UpdateUintvar(m, pos, value) IN
         /\ new \in Seq(Cell)
         /\ UintvarAt(new, pos).value = value
         /\ \A i \in 0 .. pos - 1 : CellAt(new, i) = CellAt(m, i)
         /\ \A i \in Nat : CellAt(new, UintvarAt(new, pos).end + i)
                           = CellAt(m, UintvarAt(m, pos).end + i)
<1> DEFINE now    == UintvarAt(m, pos).end - pos
           cells  == Blocks(value)
           then   == Len(cells)
           room   == IF now < then THEN MoveRight(m, pos, then - now)
                     ELSE IF now > then THEN MoveLeft(m, pos, now - then)
                     ELSE m
           new    == Write(room, pos, cells)
<1>1. UpdateUintvar(m, pos, value) = new
  BY DEF UpdateUintvar
<1>2. cells \in Seq(Cell) /\ then \in {1, 2}
  BY BlocksOfValue
<1>3. now \in {1, 2} /\ UintvarAt(m, pos).end = pos + now /\ pos + now <= Len(m)
  BY DEF UintvarAt
<1>4. \/ value < Radix /\ then = 1 /\ cells[1] = value
      \/ then = 2 /\ cells[1] >= Radix /\ (cells[1] - Radix) * Radix + cells[2] = value
  BY BlocksOfValue
<1> HIDE DEF now, cells
<1>5. /\ room \in Seq(Cell)
      /\ \A i \in 0 .. pos - 1 : CellAt(room, i) = CellAt(m, i)
      /\ \A i \in Nat : CellAt(room, pos + then + i) = CellAt(m, pos + now + i)
  <2>1. then \in Nat /\ now \in Nat /\ pos \in 0 .. Len(m)
    BY <1>2, <1>3
  <2> HIDE DEF then
  <2>2. CASE now < then
    <3>1. then - now \in Nat /\ room = MoveRight(m, pos, then - now)
      BY <2>1, <2>2
    <3> HIDE DEF room
    <3>2. /\ room \in Seq(Cell)
          /\ \A i \in Nat : CellAt(room, i) =
               IF i < pos THEN CellAt(m, i)
               ELSE IF i < pos + (then - now) THEN 0 ELSE CellAt(m, i - (then - now))
      BY ZenonT(60), <2>1, <3>1, MoveRightMoves
    <3>3. ASSUME NEW i \in Nat
          PROVE  CellAt(room, pos + then + i) = CellAt(m, pos + now + i)
      <4>1. /\ pos + then + i \in Nat
            /\ pos + then + i >= pos + (then - now)
            /\ pos + then + i >= pos
            /\ pos + then + i - (then - now) = pos + now + i
        BY <2>1
      <4>2. QED
        BY <2>1, <3>1, <3>2, <4>1
    <3>4. QED
      BY <2>1, <3>2, <3>3
  <2>3. CASE now > then
    <3>1. now - then \in Nat /\ pos + (now - then) <= Len(m)
          /\ room = MoveLeft(m, pos, now - then)
      BY <2>1, <2>3, <1>3
    <3> HIDE DEF room
    <3>2. /\ room \in Seq(Cell)
          /\ \A i \in Nat : CellAt(room, i) =
               IF i < pos THEN CellAt(m, i) ELSE CellAt(m, i + (now - then))
      BY ZenonT(60), <2>1, <3>1, MoveLeftMoves
    <3>3. ASSUME NEW i \in Nat
          PROVE  CellAt(room, pos + then + i) = CellAt(m, pos + now + i)
      <4>1. /\ pos + then + i \in Nat
            /\ pos + then + i >= pos
            /\ pos + then + i + (now - then) = pos + now + i
        BY <2>1
      <4>2. QED
        BY <2>1, <3>1, <3>2, <4>1
    <3>4. QED
      BY <2>1, <3>2, <3>3
  <2>4. CASE now = then
    BY <2>1, <2>4
  <2>5. QED
    BY <2>1, <2>2, <2>3, <2>4
<1> HIDE DEF room
<1>6. /\ new \in Seq(Cell)
      /\ \A i \in Nat : CellAt(new, i) =
           IF i >= pos /\ i < pos + then THEN cells[i - pos + 1] ELSE CellAt(room, i)
  BY <1>2, <1>5, WriteOverwrites
<1> HIDE DEF new
<1>7. UintvarAt(new, pos).value = value /\ UintvarAt(new, pos).end = pos + then
  <2>1. Radix \in Nat /\ then \in {1, 2}
    BY RadixAssumption, <1>2
  <2>2. CellAt(new, pos) = cells[1] /\ (then = 2 => CellAt(new, pos + 1) = cells[2])
    BY <1>6, <2>1
  <2>3. cells[1] \in Nat
    BY <1>2, <2>1 DEF Cell
  <2>4. CASE value < Radix /\ then = 1 /\ cells[1] = value
    BY <2>1, <2>2, <2>3, <2>4 DEF UintvarAt
  <2>5. CASE then = 2 /\ cells[1] >= Radix
             /\ (cells[1] - Radix) * Radix + cells[2] = value
    <3>1. ~(CellAt(new, pos) < Radix)
      BY <2>1, <2>2, <2>3, <2>5
    <3>2. UintvarAt(new, pos) =
            [value |-> (cells[1] - Radix) * Radix + cells[2], end |-> pos + 2]
      BY <2>2, <2>5, <3>1 DEF UintvarAt
    <3>3. QED
      BY <2>5, <3>2
  <2>6. QED
    BY <1>4, <2>4, <2>5
<1>8. \A i \in 0 .. pos - 1 : CellAt(new, i) = CellAt(m, i)
  BY <1>2, <1>5, <1>6
<1>9. ASSUME NEW i \in Nat
      PROVE  CellAt(new, pos + then + i) = CellAt(m, pos + now + i)
  <2>1. pos + then + i \in Nat /\ ~(pos + then + i < pos + then)
    BY <1>2
  <2>2. CellAt(new, pos + then + i) = CellAt(room, pos + then + i)
    BY <2>1, <1>6
  <2>3. QED
    BY <2>2, <1>5
<1>10. QED
  BY <1>1, <1>3, <1>6, <1>7, <1>8, <1>9

-----------------------------------------------------------------------------
(***************************************************************************)
(* JSON.  The stream that the code lets through is compared with two trails *)
(* along it: the brackets the code had open before each token, and the     *)

-----------------------------------------------------------------------------
(***************************************************************************)
(* Readers. A step of a reader that stands soundly moves it forward within  *)
(* the memory, past a field or out of its container.                        *)
(***************************************************************************)

Kinds == {"array", "object"}

Readers == [pos : Nat, open : Seq(Kinds)]

EndMarker(r) == IF Kind(r) = "array" THEN ARRAY_END ELSE OBJECT_END

(* q is the first used cell from p on.                                     *)
Free(m, p, q) ==
  /\ q \in Nat /\ p <= q /\ q < Len(m) /\ CellAt(m, q) # 0
  /\ \A x \in p .. q - 1 : CellAt(m, x) = 0

Fits(column) == column.num <= column.cap

(* A reader at the end of its container, or in front of a field without a  *)
(* free cell in between.                                                   *)
Ending(m, r) == \E q : Free(m, r.pos, q) /\ CellAt(m, q) = EndMarker(r)

Holding(m, r) ==
  /\ CellAt(m, r.pos) \notin {0, EndMarker(r)}
  /\ Step(m, r).pos <= Len(m)
  /\ CellAt(m, ValueAt(r)) = COLUMN_U8 => Fits(ColumnAt(m, ValueAt(r)))

Sound(m, r) == r.open # <<>> /\ (Ending(m, r) \/ Holding(m, r))

LEMMA CellType == \A m \in Seq(Nat) : \A x \in Nat : CellAt(m, x) \in Nat
  BY DEF CellAt

LEMMA FirstUsedIs ==
  ASSUME NEW m \in Seq(Nat), NEW p \in Nat, NEW q, Free(m, p, q)
  PROVE  FirstUsed(m, p) = q
<1>1. CASE p = q
  BY <1>1 DEF Free, FirstUsed
<1>2. CASE p # q
  <2>1. q \in p .. Len(m) /\ p < q /\ CellAt(m, p) = 0 /\ p < Len(m)
    BY <1>2 DEF Free
  <2>2. ASSUME NEW x \in p .. Len(m), CellAt(m, x) # 0 \/ x = Len(m),
               \A y \in p .. x - 1 : CellAt(m, y) = 0
        PROVE  x = q
    <3>1. CASE x < q
      BY <2>2, <3>1 DEF Free
    <3>2. CASE q < x
      <4>1. q \in p .. x - 1
        BY <2>1, <3>2
      <4>2. QED
        BY <2>2, <4>1 DEF Free
    <3>3. QED
      BY <2>1, <3>1, <3>2
  <2>3. CellAt(m, q) # 0 /\ \A y \in p .. q - 1 : CellAt(m, y) = 0
    BY DEF Free
  <2>4. QED
    BY <2>1, <2>2, <2>3 DEF FirstUsed
<1>3. QED
  BY <1>1, <1>2

LEMMA ReaderFields == \A pos, open : Reader(pos, open).pos = pos /\ Reader(pos, open).open = open
  BY DEF Reader

LEMMA ReaderType == \A pos \in Nat : \A open \in Seq(Kinds) : Reader(pos, open) \in Readers
  BY DEF Reader, Readers

LEMMA ReaderIs == \A r \in Readers : r = Reader(r.pos, r.open) /\ r.pos \in Nat /\ r.open \in Seq(Kinds)
  BY DEF Reader, Readers

LEMMA KindType == \A r \in Readers : r.open # <<>> => Len(r.open) \in Nat \ {0} /\ Kind(r) \in Kinds
  BY DEF Readers, Kind

LEMMA Popped2 ==
  ASSUME NEW r \in Readers, r.open # <<>>, NEW p \in Nat
  PROVE  /\ OutOf(r, p) \in Readers /\ OutOf(r, p).pos = p
         /\ Len(OutOf(r, p).open) = Len(r.open) - 1
         /\ \A k \in 1 .. Len(r.open) - 1 : OutOf(r, p).open[k] = r.open[k]
<1> DEFINE s == SubSeq(r.open, 1, Len(r.open) - 1)
<1>1. r.open \in Seq(Kinds) /\ Len(r.open) \in Nat \ {0}
  BY DEF Readers
<1>2. s \in Seq(Kinds) /\ Len(s) = Len(r.open) - 1 /\ \A k \in 1 .. Len(r.open) - 1 : s[k] = r.open[k]
  BY <1>1
<1> HIDE DEF s
<1>3. OutOf(r, p) = Reader(p, s)
  BY DEF OutOf, s
<1>4. QED
  BY <1>2, <1>3, ReaderFields, ReaderType

LEMMA Pushed2 ==
  ASSUME NEW r \in Readers, NEW kind \in Kinds, NEW p \in Nat
  PROVE  /\ Into(r, kind, p) \in Readers /\ Into(r, kind, p).pos = p
         /\ Into(r, kind, p).open = Append(r.open, kind)
         /\ Len(Into(r, kind, p).open) = Len(r.open) + 1
         /\ Into(r, kind, p).open[Len(r.open) + 1] = kind
         /\ \A k \in 1 .. Len(r.open) : Into(r, kind, p).open[k] = r.open[k]
<1>1. PICK s : s = Append(r.open, kind)
  OBVIOUS
<1>2. r.open \in Seq(Kinds)
  BY DEF Readers
<1>3. s \in Seq(Kinds) /\ Len(s) = Len(r.open) + 1 /\ s[Len(r.open) + 1] = kind
      /\ \A k \in 1 .. Len(r.open) : s[k] = r.open[k]
  BY <1>1, <1>2
<1>4. Into(r, kind, p) = Reader(p, s)
  BY <1>1 DEF Into
<1>5. Reader(p, s) \in Readers /\ Reader(p, s).pos = p /\ Reader(p, s).open = s
  BY <1>3, ReaderFields, ReaderType
<1>6. QED
  BY <1>1, <1>3, <1>4, <1>5

LEMMA EndingStep ==
  ASSUME NEW m \in Seq(Nat), NEW r \in Readers, r.open # <<>>, NEW q, Free(m, r.pos, q), CellAt(m, q) = EndMarker(r)
  PROVE  NoneLeft(m, r) /\ Step(m, r) = OutOf(r, q + 1) /\ q \in Nat
<1>1. r.pos \in Nat /\ q \in Nat /\ FirstUsed(m, r.pos) = q
  BY FirstUsedIs, ReaderIs DEF Free
<1>2. Kind(r) = "array" \/ (Kind(r) = "object" /\ (r.pos = q \/ CellAt(m, r.pos) = 0))
  BY <1>1, KindType DEF Kinds, Free
<1>3. NoneLeft(m, r)
  BY <1>1, <1>2 DEF NoneLeft, EndMarker
<1>4. QED
  BY <1>1, <1>3 DEF Step

LEMMA HoldingStep ==
  ASSUME NEW m \in Seq(Nat), NEW r \in Readers, r.open # <<>>, CellAt(m, r.pos) \notin {0, EndMarker(r)}
  PROVE  /\ ~NoneLeft(m, r) /\ Free(m, r.pos, r.pos) /\ ValueAt(r) \in Nat /\ r.pos <= ValueAt(r)
         /\ MarkerAt(m, r) = ValueAt(r)
         /\ Step(m, r) = Passed(m, r, ValueAt(r), ValueAt(r))
<1>1. r.pos \in Nat /\ r.pos < Len(m) /\ CellAt(m, r.pos) # 0
  BY ReaderIs DEF CellAt
<1>2. Free(m, r.pos, r.pos)
  BY <1>1 DEF Free
<1>3. FirstUsed(m, r.pos) = r.pos
  BY <1>1, <1>2, FirstUsedIs
<1>4. Kind(r) \in Kinds
  BY KindType
<1>5. ~NoneLeft(m, r)
  BY <1>1, <1>3, <1>4 DEF NoneLeft, EndMarker, Kinds
<1>6. MarkerAt(m, r) = ValueAt(r) /\ ValueAt(r) \in Nat /\ r.pos <= ValueAt(r)
  BY <1>1, <1>3, <1>4 DEF MarkerAt, ValueAt
<1>7. QED
  BY <1>2, <1>5, <1>6 DEF Step

LEMMA CounterType ==
  ASSUME NEW m \in Seq(Nat), NEW p \in Nat
  PROVE  /\ UintvarAt(m, p).value \in Nat /\ UintvarAt(m, p).end \in {p + 1, p + 2}
<1>1. Radix \in Nat /\ CellAt(m, p) \in Nat /\ CellAt(m, p + 1) \in Nat
  BY SMTT(60), RadixAssumption, CellType
<1>2. CASE CellAt(m, p) < Radix
  BY <1>1, <1>2 DEF UintvarAt
<1>3. CASE ~(CellAt(m, p) < Radix)
  <2>1. CellAt(m, p) - Radix \in Nat
    BY <1>1, <1>3
  <2>2. (CellAt(m, p) - Radix) * Radix \in Nat
    BY <1>1, <2>1
  <2>3. QED
    BY <1>1, <1>3, <2>2 DEF UintvarAt
<1>4. QED
  BY <1>2, <1>3

LEMMA ColumnType ==
  ASSUME NEW m \in Seq(Nat), NEW p \in Nat
  PROVE  /\ ColumnAt(m, p).num \in Nat /\ ColumnAt(m, p).cap \in Nat
         /\ ColumnAt(m, p).cap_off \in Nat /\ ColumnAt(m, p).payload \in Nat
         /\ p + 1 < ColumnAt(m, p).cap_off /\ ColumnAt(m, p).cap_off < ColumnAt(m, p).payload
         /\ ColumnAt(m, p).cap_off = UintvarAt(m, p + 1).end
         /\ ColumnAt(m, p).num = UintvarAt(m, p + 1).value
         /\ ColumnAt(m, p).cap = UintvarAt(m, ColumnAt(m, p).cap_off).value
         /\ ColumnAt(m, p).payload = UintvarAt(m, ColumnAt(m, p).cap_off).end
<1>1. UintvarAt(m, p + 1).value \in Nat /\ UintvarAt(m, p + 1).end \in {p + 2, p + 3}
  BY CounterType
<1>2. PICK o \in Nat : o = UintvarAt(m, p + 1).end /\ p + 1 < o
  BY <1>1
<1>3. UintvarAt(m, o).value \in Nat /\ UintvarAt(m, o).end \in {o + 1, o + 2}
  BY CounterType
<1>4. UintvarAt(m, o).end \in Nat /\ o < UintvarAt(m, o).end
  BY <1>3
<1>5. ColumnAt(m, p) = [num |-> UintvarAt(m, p + 1).value, cap |-> UintvarAt(m, o).value, cap_off |-> o, payload |-> UintvarAt(m, o).end]
  BY <1>2 DEF ColumnAt
<1>6. QED
  BY <1>1, <1>2, <1>3, <1>4, <1>5

LEMMA MarkersDiffer ==
  /\ ARRAY_BEGIN # OBJECT_BEGIN /\ ARRAY_BEGIN # U8 /\ ARRAY_BEGIN # COLUMN_U8 /\ OBJECT_BEGIN # U8
  /\ OBJECT_BEGIN # COLUMN_U8 /\ U8 # COLUMN_U8
  BY DEF ARRAY_BEGIN, OBJECT_BEGIN, U8, COLUMN_U8

(* The arms of Passed.                                                     *)
LEMMA PassedArms ==
  ASSUME NEW m, NEW r, NEW p, NEW q
  PROVE  /\ CellAt(m, q) = ARRAY_BEGIN => Passed(m, r, p, q) = Into(r, "array", p + 1)
         /\ CellAt(m, q) = OBJECT_BEGIN => Passed(m, r, p, q) = Into(r, "object", p + 1)
         /\ CellAt(m, q) = U8 => Passed(m, r, p, q) = Reader(q + 2, r.open)
         /\ CellAt(m, q) = COLUMN_U8 => Passed(m, r, p, q) = Reader(ColumnAt(m, p).payload + ColumnAt(m, p).cap, r.open)
         /\ CellAt(m, q) \notin {ARRAY_BEGIN, OBJECT_BEGIN, U8, COLUMN_U8} => Passed(m, r, p, q) = Reader(q + 1, r.open)
  BY MarkersDiffer DEF Passed

LEMMA PassedForward ==
  ASSUME NEW m \in Seq(Nat), NEW r \in Readers, NEW v \in Nat
  PROVE  Passed(m, r, v, v) \in Readers /\ v < Passed(m, r, v, v).pos
<1>1. r.open \in Seq(Kinds)
  BY ReaderIs
<1>2. CASE CellAt(m, v) \in {ARRAY_BEGIN, OBJECT_BEGIN}
  BY <1>2, PassedArms, Pushed2, MarkersDiffer DEF Kinds
<1>3. CASE CellAt(m, v) = COLUMN_U8
  <2>0. /\ ColumnAt(m, v).payload \in Nat /\ ColumnAt(m, v).cap \in Nat /\ ColumnAt(m, v).cap_off \in Nat
        /\ v + 1 < ColumnAt(m, v).cap_off /\ ColumnAt(m, v).cap_off < ColumnAt(m, v).payload
    BY ColumnType
  <2>1. ColumnAt(m, v).payload + ColumnAt(m, v).cap \in Nat /\ v < ColumnAt(m, v).payload + ColumnAt(m, v).cap
    BY <2>0
  <2>2. QED
    BY <1>1, <1>3, <2>1, PassedArms, ReaderFields, ReaderType
<1>4. CASE CellAt(m, v) \notin {ARRAY_BEGIN, OBJECT_BEGIN, COLUMN_U8}
  <2>1. \E k \in {1, 2} : Passed(m, r, v, v) = Reader(v + k, r.open)
    BY <1>4, PassedArms
  <2>2. QED
    BY <1>1, <2>1, ReaderFields, ReaderType
<1>5. QED
  BY <1>2, <1>3, <1>4

LEMMA Forward ==
  ASSUME NEW m \in Seq(Nat), NEW r \in Readers, Sound(m, r)
  PROVE  /\ Step(m, r) \in Readers /\ r.pos < Step(m, r).pos /\ Step(m, r).pos <= Len(m)
         /\ NoneLeft(m, r) <=> Ending(m, r)
<1>1. r.pos \in Nat /\ r.open # <<>>
  BY ReaderIs DEF Sound
<1>2. CASE Ending(m, r)
  <2>1. PICK q : Free(m, r.pos, q) /\ CellAt(m, q) = EndMarker(r)
    BY <1>2 DEF Ending
  <2>2. NoneLeft(m, r) /\ Step(m, r) = OutOf(r, q + 1) /\ q \in Nat
    BY <1>1, <2>1, EndingStep
  <2>3. q + 1 \in Nat /\ r.pos < q + 1 /\ q + 1 <= Len(m)
    BY <1>1, <2>1, <2>2 DEF Free
  <2>4. QED
    BY <1>1, <1>2, <2>2, <2>3, Popped2
<1>3. CASE Holding(m, r)
  <2>1. /\ ~NoneLeft(m, r) /\ ValueAt(r) \in Nat /\ r.pos <= ValueAt(r)
        /\ Step(m, r) = Passed(m, r, ValueAt(r), ValueAt(r)) /\ Step(m, r).pos <= Len(m)
    BY <1>1, <1>3, HoldingStep DEF Holding
  <2>2. Step(m, r) \in Readers /\ ValueAt(r) < Step(m, r).pos
    BY <2>1, PassedForward
  <2>3. ~Ending(m, r)
    <3>1. SUFFICES ASSUME NEW q, Free(m, r.pos, q), CellAt(m, q) = EndMarker(r) PROVE FALSE
      BY DEF Ending
    <3>2. NoneLeft(m, r)
      BY <1>1, <3>1, EndingStep
    <3>3. QED
      BY <2>1, <3>2
  <2>4. r.pos < Step(m, r).pos
    BY <1>1, <2>1, <2>2, ReaderIs
  <2>5. QED
    BY <2>1, <2>2, <2>3, <2>4
<1>4. QED
  BY <1>2, <1>3 DEF Sound

-----------------------------------------------------------------------------
(***************************************************************************)
(* Replacing cells. What an edit does to the memory comes down to cells of  *)
(* a part of it that others stand for, with what is in front unmoved and    *)
(* what is behind moved as a whole.                                         *)
(***************************************************************************)

(* In m1 the cells from a up to e stand for those of m from a up to b, what *)
(* is in front of them is the same, and so is what is behind the free cells *)
(* that follow, of which there may be more or fewer.                        *)
Replaced(m, m1, a, b, e, q, d) ==
  /\ m1 \in Seq(Nat) /\ d \in Int /\ e \in Nat /\ a \in Nat /\ b \in Nat
  /\ Free(m, b, q) /\ a <= b /\ a <= e /\ e <= q + d
  /\ Len(m1) = Len(m) + d
  /\ \A x \in Nat : x < a => CellAt(m1, x) = CellAt(m, x)
  /\ \A x \in Nat : e <= x /\ x < q + d => CellAt(m1, x) = 0
  /\ \A x \in Nat : q <= x => CellAt(m1, x + d) = CellAt(m, x)
  /\ q = b => q + d = e

LEMMA Unchanged ==
  ASSUME NEW m \in Seq(Nat), NEW a \in Nat, NEW b \in Nat, NEW q, a <= b, Free(m, b, q)
  PROVE  Replaced(m, m, a, b, b, q, 0)
  BY DEF Replaced, Free

LEMMA ReplacedFree ==
  ASSUME NEW m \in Seq(Nat), NEW m1, NEW a, NEW b, NEW e, NEW q, NEW d, Replaced(m, m1, a, b, e, q, d)
  PROVE  Free(m1, e, q + d) /\ e <= Len(m1) /\ q \in Nat
<1>1. /\ q \in Nat /\ d \in Int /\ e \in Nat /\ q < Len(m) /\ CellAt(m, q) # 0 /\ e <= q + d /\ Len(m1) = Len(m) + d
      /\ CellAt(m1, q + d) = CellAt(m, q)
  BY DEF Replaced, Free
<1>2. q + d \in Nat /\ q + d < Len(m1) /\ e <= Len(m1)
  BY <1>1
<1>3. \A x \in e .. q + d - 1 : CellAt(m1, x) = 0
  BY <1>1 DEF Replaced
<1>4. QED
  BY <1>1, <1>2, <1>3 DEF Free

LEMMA ReplacedType ==
  ASSUME NEW m \in Seq(Nat), NEW m1, NEW a, NEW b, NEW e, NEW q, NEW d, Replaced(m, m1, a, b, e, q, d)
  PROVE  /\ m1 \in Seq(Nat) /\ q \in Nat /\ d \in Int /\ e \in Nat /\ a \in Nat /\ b \in Nat
         /\ a <= b /\ b <= q /\ a <= e /\ e <= q + d /\ e <= Len(m1) /\ q < Len(m)
         /\ Len(m) \in Nat /\ Len(m1) \in Nat /\ Len(m1) = Len(m) + d
<1>1. /\ m1 \in Seq(Nat) /\ d \in Int /\ e \in Nat /\ a \in Nat /\ b \in Nat
      /\ a <= b /\ a <= e /\ e <= q + d /\ Len(m1) = Len(m) + d /\ Free(m, b, q)
  BY DEF Replaced
<1>2. b <= q /\ q < Len(m) /\ q \in Nat
  BY <1>1 DEF Free
<1>3. e <= Len(m1)
  BY ReplacedFree
<1>4. QED
  BY <1>1, <1>2, <1>3

LEMMA Widened ==
  ASSUME NEW m \in Seq(Nat), NEW m1, NEW a, NEW b, NEW e, NEW q, NEW d, Replaced(m, m1, a, b, e, q, d),
         NEW p \in Nat, a <= p, p <= e, NEW n \in Nat
  PROVE  Replaced(m, MoveRight(m1, p, n), a, b, e + n, q, d + n)
<1>1. PICK m2 : m2 = MoveRight(m1, p, n)
  OBVIOUS
<1>2. p \in 0 .. Len(m1) /\ m1 \in Seq(Nat) /\ q \in Nat /\ d \in Int /\ e \in Nat /\ a \in Nat /\ b \in Nat /\ a <= e /\ e <= q + d
  BY ReplacedType
<1>3. /\ m2 \in Seq(Nat) /\ Len(m2) = Len(m1) + n
      /\ \A i \in Nat : CellAt(m2, i) = IF i < p THEN CellAt(m1, i)
                                        ELSE IF i < p + n THEN 0 ELSE CellAt(m1, i - n)
  BY ZenonT(60), <1>1, <1>2, MoveRightMoves DEF Cell
<1>4. \A x \in Nat : x < a => CellAt(m2, x) = CellAt(m, x)
  BY <1>2, <1>3 DEF Replaced
<1>5. ASSUME NEW x \in Nat, e + n <= x, x < q + (d + n) PROVE CellAt(m2, x) = 0
  <2>1. x - n \in Nat /\ ~(x < p) /\ ~(x < p + n) /\ e <= x - n /\ x - n < q + d
    BY <1>2, <1>5
  <2>2. QED
    BY <2>1, <1>3 DEF Replaced
<1>6. ASSUME NEW x \in Nat, q <= x PROVE CellAt(m2, x + (d + n)) = CellAt(m, x)
  <2>1. PICK i \in Nat : i = x + (d + n) /\ ~(i < p) /\ ~(i < p + n) /\ i - n = x + d
    BY <1>2, <1>6
  <2>2. CellAt(m2, x + (d + n)) = CellAt(m1, x + d)
    BY <2>1, <1>3
  <2>3. QED
    BY <2>2, <1>6 DEF Replaced
<1>7. /\ Free(m, b, q) /\ a <= b /\ a <= e + n /\ e + n <= q + (d + n) /\ Len(m2) = Len(m) + (d + n)
      /\ q = b => q + (d + n) = e + n
      /\ e + n \in Nat /\ d + n \in Int /\ Len(m) \in Nat
  BY <1>2, <1>3 DEF Replaced
<1>8. QED
  BY <1>1, <1>2, <1>3, <1>4, <1>5, <1>6, <1>7 DEF Replaced

LEMMA Narrowed ==
  ASSUME NEW m \in Seq(Nat), NEW m1, NEW a, NEW b, NEW e, NEW q, NEW d, Replaced(m, m1, a, b, e, q, d),
         NEW p \in Nat, NEW n \in Nat, a <= p, p + n <= e
  PROVE  Replaced(m, MoveLeft(m1, p, n), a, b, e - n, q, d - n)
<1>1. PICK m2 : m2 = MoveLeft(m1, p, n)
  OBVIOUS
<1>2. p \in 0 .. Len(m1) /\ p + n <= Len(m1) /\ m1 \in Seq(Nat) /\ q \in Nat /\ d \in Int /\ e \in Nat /\ a \in Nat /\ b \in Nat /\ a <= e /\ e <= q + d
  BY ReplacedType
<1>3. /\ m2 \in Seq(Nat) /\ Len(m2) = Len(m1) - n
      /\ \A i \in Nat : CellAt(m2, i) = IF i < p THEN CellAt(m1, i) ELSE CellAt(m1, i + n)
  BY ZenonT(60), <1>1, <1>2, MoveLeftMoves DEF Cell
<1>4. \A x \in Nat : x < a => CellAt(m2, x) = CellAt(m, x)
  BY <1>2, <1>3 DEF Replaced
<1>5. ASSUME NEW x \in Nat, e - n <= x, x < q + (d - n) PROVE CellAt(m2, x) = 0
  <2>1. x + n \in Nat /\ ~(x < p) /\ e <= x + n /\ x + n < q + d
    BY <1>2, <1>5
  <2>2. QED
    BY <2>1, <1>3 DEF Replaced
<1>6. ASSUME NEW x \in Nat, q <= x PROVE CellAt(m2, x + (d - n)) = CellAt(m, x)
  <2>1. x + (d - n) \in Nat /\ ~(x + (d - n) < p) /\ x + (d - n) + n = x + d
    BY <1>2, <1>6
  <2>2. CellAt(m2, x + (d - n)) = CellAt(m1, x + d)
    BY <2>1, <1>3
  <2>3. QED
    BY <2>2, <1>6 DEF Replaced
<1>7. /\ Free(m, b, q) /\ a <= b /\ a <= e - n /\ e - n <= q + (d - n) /\ Len(m2) = Len(m) + (d - n)
      /\ q = b => q + (d - n) = e - n
      /\ e - n \in Nat /\ d - n \in Int /\ Len(m) \in Nat
  BY <1>2, <1>3 DEF Replaced
<1>8. QED
  BY <1>1, <1>2, <1>3, <1>4, <1>5, <1>6, <1>7 DEF Replaced

(* Free cells are closed.                                                  *)
LEMMA GapClosed ==
  ASSUME NEW m \in Seq(Nat), NEW p \in Nat, NEW q, Free(m, p, q)
  PROVE  Replaced(m, MoveLeft(m, p, q - p), p, p, p, q, p - q)
<1>1. PICK m2 : m2 = MoveLeft(m, p, q - p)
  OBVIOUS
<1>2. p \in 0 .. Len(m) /\ q - p \in Nat /\ p + (q - p) <= Len(m) /\ q \in Nat /\ p <= q /\ Len(m) \in Nat
  BY DEF Free
<1>3. /\ m2 \in Seq(Nat) /\ Len(m2) = Len(m) - (q - p)
      /\ \A i \in Nat : CellAt(m2, i) = IF i < p THEN CellAt(m, i) ELSE CellAt(m, i + (q - p))
  BY ZenonT(60), <1>1, <1>2, MoveLeftMoves DEF Cell
<1>4. ASSUME NEW x \in Nat, q <= x PROVE CellAt(m2, x + (p - q)) = CellAt(m, x)
  <2>1. x + (p - q) \in Nat /\ ~(x + (p - q) < p) /\ x + (p - q) + (q - p) = x
    BY <1>2, <1>4
  <2>2. QED
    BY <2>1, <1>3
<1>5. \A x \in Nat : x < p => CellAt(m2, x) = CellAt(m, x)
  BY <1>2, <1>3
<1>6. /\ p - q \in Int /\ p <= q + (p - q) /\ Len(m2) = Len(m) + (p - q) /\ q + (p - q) = p
  BY <1>2, <1>3
<1>7. QED
  BY <1>1, <1>2, <1>3, <1>4, <1>5, <1>6 DEF Replaced

LEMMA WrittenInside ==
  ASSUME NEW m \in Seq(Nat), NEW p \in Nat, NEW cells \in Seq(Nat), p + Len(cells) <= Len(m)
  PROVE  /\ Write(m, p, cells) \in Seq(Nat) /\ Len(Write(m, p, cells)) = Len(m)
         /\ \A i \in Nat : CellAt(Write(m, p, cells), i) =
                IF i >= p /\ i < p + Len(cells) THEN cells[i - p + 1] ELSE CellAt(m, i)
<1>1. Skip(m, p) = m
  BY DEF Skip
<1> DEFINE front == SubSeq(m, 1, p)
           back  == SubSeq(m, p + Len(cells) + 1, Len(m))
<1>2. front \in Seq(Cell) /\ Len(front) = p /\ back \in Seq(Cell) /\ Len(back) = Len(m) - p - Len(cells) /\ cells \in Seq(Cell)
  BY SMTT(60) DEF Cell
<1>3. Write(m, p, cells) = front \o cells \o back
  BY <1>1 DEF Write
<1> HIDE DEF front, back
<1>4. Len(front \o cells \o back) = Len(front) + Len(cells) + Len(back)
  BY ZenonT(60), <1>2, ThreeParts
<1>5. Len(Write(m, p, cells)) = Len(m)
  BY <1>2, <1>3, <1>4
<1>6. m \in Seq(Cell)
  BY DEF Cell
<1>7. QED
  BY ZenonT(60), <1>2, <1>5, <1>6, WriteOverwrites DEF Cell

CellsAt(m, p, cells) == \A x \in Nat : p <= x /\ x < p + Len(cells) => CellAt(m, x) = cells[x - p + 1]

LEMMA Overwritten ==
  ASSUME NEW m \in Seq(Nat), NEW m1, NEW a, NEW b, NEW e, NEW q, NEW d, Replaced(m, m1, a, b, e, q, d),
         NEW p \in Nat, NEW cells \in Seq(Nat), a <= p, p + Len(cells) <= e
  PROVE  /\ Replaced(m, Write(m1, p, cells), a, b, e, q, d)
         /\ \A i \in Nat : CellAt(Write(m1, p, cells), i) =
                IF i >= p /\ i < p + Len(cells) THEN cells[i - p + 1] ELSE CellAt(m1, i)
<1>1. PICK m2 : m2 = Write(m1, p, cells)
  OBVIOUS
<1>2. m1 \in Seq(Nat) /\ q \in Nat /\ d \in Int /\ e \in Nat /\ a \in Nat /\ b \in Nat /\ a <= e /\ e <= q + d /\ e <= Len(m1) /\ Len(cells) \in Nat
  BY ReplacedType
<1>3. /\ m2 \in Seq(Nat) /\ Len(m2) = Len(m1)
      /\ \A i \in Nat : CellAt(m2, i) = IF i >= p /\ i < p + Len(cells) THEN cells[i - p + 1] ELSE CellAt(m1, i)
  BY SMTT(60), <1>1, <1>2, WrittenInside
<1>4. \A x \in Nat : x < a => CellAt(m2, x) = CellAt(m, x)
  BY <1>2, <1>3 DEF Replaced
<1>5. ASSUME NEW x \in Nat, e <= x, x < q + d PROVE CellAt(m2, x) = 0
  BY <1>2, <1>3, <1>5 DEF Replaced
<1>6. ASSUME NEW x \in Nat, q <= x PROVE CellAt(m2, x + d) = CellAt(m, x)
  <2>1. x + d \in Nat /\ ~(x + d < p + Len(cells))
    BY <1>2, <1>6
  <2>2. QED
    BY <2>1, <1>3, <1>6 DEF Replaced
<1>7. Free(m, b, q) /\ a <= b /\ (q = b => q + d = e) /\ Len(m2) = Len(m) + d
  BY <1>3 DEF Replaced
<1>8. QED
  BY <1>1, <1>2, <1>3, <1>4, <1>5, <1>6, <1>7 DEF Replaced

LEMMA Ensured ==
  ASSUME NEW m \in Seq(Nat), NEW m1, NEW a, NEW b, NEW e, NEW q, NEW d, Replaced(m, m1, a, b, e, q, d),
         NEW n \in Nat
  PROVE  /\ \E k \in Nat : Replaced(m, EnsureSpace(m1, e, n), a, b, e + n, q, d + k)
         /\ \A x \in Nat : x < e => CellAt(EnsureSpace(m1, e, n), x) = CellAt(m1, x)
         /\ \A x \in Nat : e <= x /\ x < e + n => CellAt(EnsureSpace(m1, e, n), x) = 0
<1>1. PICK m2 : m2 = EnsureSpace(m1, e, n)
  OBVIOUS
<1>2. m1 \in Seq(Nat) /\ q \in Nat /\ d \in Int /\ e \in Nat /\ a \in Nat /\ b \in Nat /\ a <= e /\ e <= q + d /\ e \in 0 .. Len(m1) /\ Len(m) \in Nat
      /\ Len(m1) = Len(m) + d
  BY ReplacedType
<1>3a. m1 \in Seq(Cell) /\ e \in 0 .. Len(m1)
  BY <1>2 DEF Cell
<1>3b. /\ m2 \in Seq(Cell)
       /\ \A i \in e .. e + n - 1 : CellAt(m2, i) = 0
       /\ \E k \in 0 .. n :
            /\ Len(m2) = Len(m1) + k
            /\ \A i \in Nat : CellAt(m2, i) = IF i < e THEN CellAt(m1, i) ELSE IF i < e + k THEN 0 ELSE CellAt(m1, i - k)
  BY ZenonT(60), <1>1, <1>3a, EnsuredSpaceIsFree
<1>3. m2 \in Seq(Nat)
  BY <1>3b DEF Cell
<1>4. PICK k \in 0 .. n :
            /\ Len(m2) = Len(m1) + k
            /\ \A i \in Nat : CellAt(m2, i) = IF i < e THEN CellAt(m1, i) ELSE IF i < e + k THEN 0 ELSE CellAt(m1, i - k)
  BY <1>3b
<1>5. \A x \in Nat : e <= x /\ x < e + n => CellAt(m2, x) = 0
  <2>1. \A i \in e .. e + n - 1 : CellAt(m2, i) = 0
    BY <1>3b
  <2>2. QED
    BY <1>2, <2>1
<1>6. ASSUME NEW x \in Nat, q <= x PROVE CellAt(m2, x + (d + k)) = CellAt(m, x)
  <2>1. PICK i \in Nat : i = x + (d + k) /\ ~(i < e) /\ ~(i < e + k) /\ i - k = x + d
    BY <1>2, <1>4, <1>6
  <2>2. CellAt(m2, x + (d + k)) = CellAt(m1, x + d)
    BY <2>1, <1>4
  <2>3. QED
    BY <2>2, <1>6 DEF Replaced
<1>7. CellAt(m2, q + (d + k)) # 0 /\ q + (d + k) \in Nat /\ e <= q + (d + k)
  BY <1>2, <1>4, <1>6 DEF Replaced, Free
<1>8. e + n <= q + (d + k)
  BY <1>2, <1>4, <1>5, <1>7
<1>9. ASSUME NEW x \in Nat, e + n <= x, x < q + (d + k) PROVE CellAt(m2, x) = 0
  <2>1. x - k \in Nat /\ ~(x < e) /\ ~(x < e + k) /\ e <= x - k /\ x - k < q + d
    BY <1>2, <1>4, <1>9
  <2>2. QED
    BY <2>1, <1>4 DEF Replaced
<1>10. ASSUME q = b PROVE q + (d + k) = e + n
  BY <1>2, <1>4, <1>8, <1>10 DEF Replaced
<1>11. \A x \in Nat : x < a => CellAt(m2, x) = CellAt(m, x)
  BY <1>2, <1>4 DEF Replaced
<1>12. \A x \in Nat : x < e => CellAt(m2, x) = CellAt(m1, x)
  BY <1>4
<1>13. Free(m, b, q) /\ a <= b /\ a <= e + n /\ Len(m2) = Len(m) + (d + k) /\ d + k \in Int /\ e + n \in Nat
  BY <1>2, <1>4 DEF Replaced
<1>14. Replaced(m, m2, a, b, e + n, q, d + k)
  BY <1>2, <1>3, <1>6, <1>8, <1>9, <1>10, <1>11, <1>13 DEF Replaced
<1>15. QED
  BY <1>1, <1>4, <1>5, <1>12, <1>14

LEMMA PutThere ==
  ASSUME NEW m \in Seq(Nat), NEW m1, NEW a, NEW b, NEW e, NEW q, NEW d, Replaced(m, m1, a, b, e, q, d),
         NEW cells \in Seq(Nat)
  PROVE  /\ \E k \in Nat : Replaced(m, PutCells(m1, e, cells), a, b, e + Len(cells), q, d + k)
         /\ \A x \in Nat : x < e => CellAt(PutCells(m1, e, cells), x) = CellAt(m1, x)
         /\ CellsAt(PutCells(m1, e, cells), e, cells)
<1>1. PICK m2 : m2 = EnsureSpace(m1, e, Len(cells))
  OBVIOUS
<1>2. Len(cells) \in Nat /\ e \in Nat /\ a \in Nat /\ a <= e
  BY DEF Replaced
<1>2a. PICK n \in Nat : n = Len(cells)
  BY <1>2
<1>2b. \E k \in Nat : Replaced(m, EnsureSpace(m1, e, n), a, b, e + n, q, d + k)
  BY Ensured
<1>2c. \A x \in Nat : x < e => CellAt(EnsureSpace(m1, e, n), x) = CellAt(m1, x)
  BY Ensured
<1>3. PICK k \in Nat : Replaced(m, m2, a, b, e + Len(cells), q, d + k)
  BY <1>1, <1>2a, <1>2b
<1>4. \A x \in Nat : x < e => CellAt(m2, x) = CellAt(m1, x)
  BY <1>1, <1>2a, <1>2c
<1>5. /\ Replaced(m, Write(m2, e, cells), a, b, e + Len(cells), q, d + k)
      /\ \A i \in Nat : CellAt(Write(m2, e, cells), i) =
                IF i >= e /\ i < e + Len(cells) THEN cells[i - e + 1] ELSE CellAt(m2, i)
  BY SMTT(60), <1>2, <1>3, Overwritten
<1>6. PutCells(m1, e, cells) = Write(m2, e, cells)
  BY <1>1 DEF PutCells
<1>7. CellsAt(PutCells(m1, e, cells), e, cells)
  BY <1>2, <1>5, <1>6 DEF CellsAt
<1>8. QED
  BY <1>2, <1>4, <1>5, <1>6, <1>7

LEMMA BlocksRead ==
  ASSUME NEW value \in Nat
  PROVE  /\ Blocks(value) \in Seq(Nat)
         /\ \/ /\ value < Radix
               /\ Len(Blocks(value)) = 1
               /\ Blocks(value)[1] = value
            \/ /\ Len(Blocks(value)) = 2
               /\ Blocks(value)[1] >= Radix
               /\ (Blocks(value)[1] - Radix) * Radix + Blocks(value)[2] = value
<1>1. Radix \in Nat /\ Radix > 1
  BY RadixAssumption
<1>2. CASE value < Radix
  BY <1>1, <1>2 DEF Blocks
<1>3. CASE value >= Radix
  <2> DEFINE high == value \div Radix
             low  == value % Radix
  <2>1. high \in Nat /\ low \in Nat /\ high * Radix + low = value
    BY <1>1, <1>3
  <2>2. Blocks(value) = <<Radix + high, low>>
    BY <1>1, <1>3 DEF Blocks
  <2> HIDE DEF high, low
  <2>3. (Radix + high) - Radix = high
    BY <1>1, <2>1
  <2>4. QED
    BY <1>1, <2>1, <2>2, <2>3
<1>4. QED
  BY <1>1, <1>2, <1>3

(* A counter whose blocks stand at p is read back.                          *)
LEMMA BlocksAreRead ==
  ASSUME NEW m \in Seq(Nat), NEW p \in Nat, NEW value \in Nat,
         CellsAt(m, p, Blocks(value))
  PROVE  UintvarAt(m, p).value = value /\ UintvarAt(m, p).end = p + Len(Blocks(value)) /\ Len(Blocks(value)) \in {1, 2}
<1>1. PICK c : c = Blocks(value)
  OBVIOUS
<1>2. Radix \in Nat /\ Len(c) \in {1, 2} /\ c \in Seq(Nat)
  BY <1>1, RadixAssumption, BlocksRead
<1>30. \A x \in Nat : p <= x /\ x < p + Len(c) => CellAt(m, x) = c[x - p + 1]
  BY <1>1 DEF CellsAt
<1>3. CellAt(m, p) = c[1]
  BY <1>2, <1>30
<1>4. Len(c) = 2 => CellAt(m, p + 1) = c[2]
  BY <1>2, <1>30
<1>5. c[1] \in Nat
  BY <1>2
<1>6. CASE value < Radix /\ Len(c) = 1 /\ c[1] = value
  BY <1>1, <1>2, <1>3, <1>5, <1>6 DEF UintvarAt
<1>7. CASE Len(c) = 2 /\ c[1] >= Radix /\ (c[1] - Radix) * Radix + c[2] = value
  <2>1. ~(CellAt(m, p) < Radix)
    BY <1>2, <1>3, <1>5, <1>7
  <2>2. UintvarAt(m, p) = [value |-> (c[1] - Radix) * Radix + c[2], end |-> p + 2]
    BY <1>3, <1>4, <1>7, <2>1 DEF UintvarAt
  <2>3. QED
    BY <1>1, <1>7, <2>2
<1>8. QED
  BY <1>1, <1>6, <1>7, BlocksRead

Recounted(m, m1, m2, a, b, e, q, d, p, value, k) ==
  /\ k \in Int /\ UintvarAt(m2, p).value = value
  /\ Replaced(m, m2, a, b, e + k, q, d + k)
  /\ \A x \in Nat : x < p => CellAt(m2, x) = CellAt(m1, x)
  /\ \A x \in Nat : UintvarAt(m1, p).end <= x => CellAt(m2, x + k) = CellAt(m1, x)

LEMMA Counted ==
  ASSUME NEW m \in Seq(Nat), NEW m1, NEW a, NEW b, NEW e, NEW q, NEW d, Replaced(m, m1, a, b, e, q, d),
         NEW p \in Nat, a <= p, UintvarAt(m1, p).end <= e, NEW value \in Nat, NEW m2, m2 = UpdateUintvar(m1, p, value),
         NEW k, k = UintvarAt(m2, p).end - UintvarAt(m1, p).end
  PROVE  Recounted(m, m1, m2, a, b, e, q, d, p, value, k)
<1>1. PICK now : now = UintvarAt(m1, p).end - p
  OBVIOUS
<1>2. PICK cells : cells = Blocks(value)
  OBVIOUS
<1>3. PICK then : then = Len(cells)
  OBVIOUS
<1>4. /\ m1 \in Seq(Nat) /\ q \in Nat /\ d \in Int /\ e \in Nat /\ a \in Nat /\ b \in Nat /\ a <= e /\ e <= q + d /\ e <= Len(m1)
  BY ReplacedType
<1>5. now \in {1, 2} /\ UintvarAt(m1, p).end = p + now /\ cells \in Seq(Nat) /\ then \in {1, 2}
  <2>1. UintvarAt(m1, p).end \in {p + 1, p + 2}
    BY <1>4, CounterType
  <2>2. Blocks(value) \in Seq(Nat) /\ Len(Blocks(value)) \in {1, 2}
    BY BlocksRead
  <2>3. QED
    BY <1>1, <1>2, <1>3, <2>1, <2>2
<1>6. PICK room : room = (IF now < then THEN MoveRight(m1, p, then - now)
                          ELSE IF now > then THEN MoveLeft(m1, p, now - then) ELSE m1)
  OBVIOUS
<1>8. m2 = Write(room, p, cells)
  BY <1>1, <1>2, <1>3, <1>6 DEF UpdateUintvar
<1>9. /\ Replaced(m, room, a, b, e + (then - now), q, d + (then - now))
      /\ \A x \in Nat : x < p => CellAt(room, x) = CellAt(m1, x)
      /\ \A x \in Nat : p + now <= x => CellAt(room, x + (then - now)) = CellAt(m1, x)
  <2>1. CASE now < then
    <3>1. PICK n \in Nat : n = then - now
      BY <1>5, <2>1
    <3>2. room = MoveRight(m1, p, n) /\ p <= e /\ p \in 0 .. Len(m1)
      BY <1>4, <1>5, <1>6, <2>1, <3>1
    <3>3. Replaced(m, room, a, b, e + n, q, d + n)
      BY <3>1, <3>2, Widened
    <3>4. \A i \in Nat : CellAt(room, i) = IF i < p THEN CellAt(m1, i)
                                           ELSE IF i < p + n THEN 0 ELSE CellAt(m1, i - n)
      <4>1. m1 \in Seq(Cell) /\ p \in 0 .. Len(m1)
        BY <1>4, <3>2 DEF Cell
      <4>2. QED
        BY <3>2, <4>1, MoveRightMoves
    <3>5. ASSUME NEW x \in Nat, p + now <= x PROVE CellAt(room, x + n) = CellAt(m1, x)
      <4>1. x + n \in Nat /\ ~(x + n < p) /\ ~(x + n < p + n) /\ x + n - n = x
        BY <1>5, <3>5
      <4>2. QED
        BY <3>4, <4>1
    <3>6. QED
      BY <3>1, <3>3, <3>4, <3>5
  <2>2. CASE now > then
    <3>1. PICK n \in Nat : n = now - then
      BY <1>5, <2>2
    <3>2. room = MoveLeft(m1, p, n) /\ p + n <= e /\ p \in 0 .. Len(m1) /\ p + n <= Len(m1)
      BY SMTT(60), <1>4, <1>5, <1>6, <2>2, <3>1
    <3>3. Replaced(m, room, a, b, e - n, q, d - n)
      BY <3>1, <3>2, Narrowed
    <3>4. \A i \in Nat : CellAt(room, i) = IF i < p THEN CellAt(m1, i) ELSE CellAt(m1, i + n)
      <4>1. m1 \in Seq(Cell) /\ p \in 0 .. Len(m1) /\ p + n <= Len(m1)
        BY <1>4, <3>2 DEF Cell
      <4>2. QED
        BY <3>2, <4>1, MoveLeftMoves
    <3>5. ASSUME NEW x \in Nat, p + now <= x PROVE CellAt(room, x + (then - now)) = CellAt(m1, x)
      <4>1. x + (then - now) \in Nat /\ ~(x + (then - now) < p) /\ x + (then - now) + n = x
        BY <1>5, <3>1, <3>5
      <4>2. QED
        BY <3>4, <4>1
    <3>6. e + (then - now) = e - n /\ d + (then - now) = d - n
      BY <1>4, <1>5, <3>1
    <3>7. QED
      BY <3>3, <3>4, <3>5, <3>6
  <2>3. CASE now = then
    <3>1. room = m1 /\ then - now = 0 /\ e + 0 = e /\ d + 0 = d
      BY <1>4, <1>5, <1>6, <2>3
    <3>2. QED
      BY <3>1
  <2>4. QED
    BY <1>5, <2>1, <2>2, <2>3
<1>10. p + then <= e + (then - now) /\ then - now \in Int
  BY <1>4, <1>5
<1>11. /\ Replaced(m, m2, a, b, e + (then - now), q, d + (then - now))
       /\ \A i \in Nat : CellAt(m2, i) = IF i >= p /\ i < p + then THEN cells[i - p + 1] ELSE CellAt(room, i)
  BY <1>3, <1>5, <1>8, <1>9, <1>10, Overwritten
<1>12. m2 \in Seq(Nat)
  BY <1>11 DEF Replaced
<1>13. UintvarAt(m2, p).value = value /\ UintvarAt(m2, p).end = p + then
  <2>1. \A x \in Nat : p <= x /\ x < p + then => CellAt(m2, x) = cells[x - p + 1]
    BY <1>11
  <2>2. CellsAt(m2, p, Blocks(value))
    BY <1>2, <1>3, <2>1 DEF CellsAt
  <2>3. UintvarAt(m2, p).value = value /\ UintvarAt(m2, p).end = p + Len(Blocks(value))
    BY <1>12, <2>2, BlocksAreRead
  <2>4. QED
    BY <1>2, <1>3, <2>3
<1>15. k = then - now /\ k \in Int
  BY <1>5, <1>13
<1>16. \A x \in Nat : x < p => CellAt(m2, x) = CellAt(m1, x)
  BY <1>5, <1>9, <1>11
<1>17. ASSUME NEW x \in Nat, UintvarAt(m1, p).end <= x PROVE CellAt(m2, x + k) = CellAt(m1, x)
  <2>1. x + k \in Nat /\ ~(x + k < p + then) /\ p + now <= x
    BY SMTT(60), <1>5, <1>15, <1>17
  <2>2. CellAt(m2, x + k) = CellAt(room, x + k)
    BY <1>11, <2>1
  <2>3. QED
    BY <1>9, <1>15, <2>1, <2>2
<1>18. Replaced(m, m2, a, b, e + k, q, d + k)
  BY <1>11, <1>15
<1>19. QED
  BY <1>13, <1>15, <1>16, <1>17, <1>18 DEF Recounted

(* m2 comes of m1 by a change at e, so that what has been written now ends *)
(* at e1.                                                                  *)
Grown(m, m1, m2, a, b, e, e1, q) ==
  /\ \E d : Replaced(m, m2, a, b, e1, q, d)
  /\ \A x \in Nat : x < e => CellAt(m2, x) = CellAt(m1, x)

FreeCells(m, p, e) == \A x \in Nat : p <= x /\ x < e => CellAt(m, x) = 0

LEMMA Opened ==
  ASSUME NEW m \in Seq(Nat), NEW m1, NEW a, NEW b, NEW e, NEW q, NEW d, Replaced(m, m1, a, b, e, q, d),
         NEW n \in Nat, NEW m2, m2 = EnsureSpace(m1, e, n), NEW e1, e1 = e + n
  PROVE  Grown(m, m1, m2, a, b, e, e1, q) /\ FreeCells(m2, e, e1)
<1>1. \E k \in Nat : Replaced(m, EnsureSpace(m1, e, n), a, b, e + n, q, d + k)
  BY Ensured
<1>2. \A x \in Nat : x < e => CellAt(EnsureSpace(m1, e, n), x) = CellAt(m1, x)
  BY Ensured
<1>3. \A x \in Nat : e <= x /\ x < e + n => CellAt(EnsureSpace(m1, e, n), x) = 0
  BY Ensured
<1>4. QED
  BY <1>1, <1>2, <1>3 DEF Grown, FreeCells

LEMMA PutOn ==
  ASSUME NEW m \in Seq(Nat), NEW m1, NEW a, NEW b, NEW e, NEW q, NEW d, Replaced(m, m1, a, b, e, q, d),
         NEW cells \in Seq(Nat), NEW m2, m2 = PutCells(m1, e, cells), NEW e1, e1 = e + Len(cells)
  PROVE  Grown(m, m1, m2, a, b, e, e1, q) /\ CellsAt(m2, e, cells)
<1>1. \E k \in Nat : Replaced(m, PutCells(m1, e, cells), a, b, e + Len(cells), q, d + k)
  BY PutThere
<1>2. \A x \in Nat : x < e => CellAt(PutCells(m1, e, cells), x) = CellAt(m1, x)
  BY PutThere
<1>3. CellsAt(PutCells(m1, e, cells), e, cells)
  BY PutThere
<1>4. QED
  BY <1>1, <1>2, <1>3 DEF Grown

LEMMA Written ==
  ASSUME NEW m \in Seq(Nat), NEW m1, NEW a, NEW b, NEW e, NEW q, NEW d, Replaced(m, m1, a, b, e, q, d),
         NEW p \in Nat, NEW cells \in Seq(Nat), a <= p, p + Len(cells) <= e, NEW m2, m2 = Write(m1, p, cells)
  PROVE  /\ Grown(m, m1, m2, a, b, p, e, q) /\ CellsAt(m2, p, cells)
         /\ \A x \in Nat : x < p \/ p + Len(cells) <= x => CellAt(m2, x) = CellAt(m1, x)
<1>1. Replaced(m, Write(m1, p, cells), a, b, e, q, d)
  BY Overwritten
<1>2. \A i \in Nat : CellAt(Write(m1, p, cells), i) =
                IF i >= p /\ i < p + Len(cells) THEN cells[i - p + 1] ELSE CellAt(m1, i)
  BY Overwritten
<1>3. CellsAt(m2, p, cells)
  BY <1>2 DEF CellsAt
<1>4. \A x \in Nat : x < p \/ p + Len(cells) <= x => CellAt(m2, x) = CellAt(m1, x)
  <2>1. PICK n \in Nat : n = Len(cells)
    OBVIOUS
  <2>2. QED
    BY <1>2, <2>1
<1>5. Grown(m, m1, m2, a, b, p, e, q)
  BY <1>1, <1>4 DEF Grown
<1>6. QED
  BY <1>3, <1>4, <1>5

(* A counter written at the end of what has been written.                  *)
LEMMA CounterPut ==
  ASSUME NEW m \in Seq(Nat), NEW m1, NEW a, NEW b, NEW e, NEW q, NEW d, Replaced(m, m1, a, b, e, q, d),
         NEW value \in Nat, NEW m2, m2 = WriteUintvar(m1, e, value)
  PROVE  /\ UintvarAt(m2, e).value = value /\ UintvarAt(m2, e).end \in {e + 1, e + 2}
         /\ Grown(m, m1, m2, a, b, e, UintvarAt(m2, e).end, q)
         /\ value < Radix => UintvarAt(m2, e).end = e + 1
<1>1. PICK cells : cells = Blocks(value)
  OBVIOUS
<1>2. cells \in Seq(Nat) /\ Len(cells) \in {1, 2}
  BY <1>1, BlocksRead
<1>3. m2 = PutCells(m1, e, cells)
  BY <1>1 DEF WriteUintvar, PutCells
<1>4. PICK n \in Nat : n = Len(cells)
  BY <1>2
<1>5. e \in Nat
  BY ReplacedType
<1>6. PICK e1 \in Nat : e1 = e + n
  BY <1>5
<1>7. Grown(m, m1, m2, a, b, e, e1, q) /\ CellsAt(m2, e, cells)
  <2>1. cells \in Seq(Nat) /\ e1 = e + Len(cells)
    BY <1>2, <1>4, <1>6
  <2>2. QED
    BY <1>3, <2>1, PutOn
<1>8. m2 \in Seq(Nat)
  BY <1>7, ReplacedType DEF Grown
<1>9. UintvarAt(m2, e).value = value /\ UintvarAt(m2, e).end = e + Len(cells)
  <2>1. CellsAt(m2, e, Blocks(value))
    BY <1>1, <1>7
  <2>2. UintvarAt(m2, e).value = value /\ UintvarAt(m2, e).end = e + Len(Blocks(value))
    BY <1>5, <1>8, <2>1, BlocksAreRead
  <2>3. QED
    BY <1>1, <2>2
<1>10. value < Radix => Len(cells) = 1
  BY <1>1 DEF Blocks
<1>11. UintvarAt(m2, e).end = e1 /\ e1 \in {e + 1, e + 2} /\ (value < Radix => e1 = e + 1)
  BY <1>2, <1>4, <1>6, <1>9, <1>10
<1>12. QED
  BY <1>7, <1>9, <1>11

-----------------------------------------------------------------------------
(***************************************************************************)
(* Moving readers. Where all the cells a step looks at have been moved      *)
(* alike, the step is the same.                                             *)
(***************************************************************************)

Shift(r, d) == Reader(r.pos + d, r.open)

LEMMA ShiftIs ==
  ASSUME NEW r \in Readers, NEW d \in Int, 0 <= r.pos + d
  PROVE  Shift(r, d) \in Readers /\ Shift(r, d).pos = r.pos + d /\ Shift(r, d).open = r.open
<1>1. r.pos + d \in Nat /\ r.open \in Seq(Kinds)
  BY ReaderIs
<1>2. QED
  BY <1>1, ReaderType, ReaderFields DEF Shift

LEMMA CounterMoved ==
  ASSUME NEW m \in Seq(Nat), NEW m1 \in Seq(Nat), NEW p \in Nat, NEW o \in Nat, NEW d \in Int, o = p + d,
         \A x \in Nat : p <= x /\ x < UintvarAt(m, p).end => CellAt(m1, x + d) = CellAt(m, x)
  PROVE  UintvarAt(m1, o).value = UintvarAt(m, p).value /\ UintvarAt(m1, o).end = UintvarAt(m, p).end + d
<1>1. UintvarAt(m, p).end \in {p + 1, p + 2}
  BY CounterType
<1>2. CellAt(m1, o) = CellAt(m, p)
  BY <1>1
<1>3. CASE CellAt(m, p) < Radix
  BY <1>2, <1>3 DEF UintvarAt
<1>4. CASE ~(CellAt(m, p) < Radix)
  <2>1. UintvarAt(m, p).end = p + 2
    BY <1>4 DEF UintvarAt
  <2>2. PICK y \in Nat : y = p + 1
    OBVIOUS
  <2>3. CellAt(m1, y + d) = CellAt(m, y) /\ y + d = o + 1
    BY <2>1, <2>2
  <2>4. CellAt(m1, o + 1) = CellAt(m, p + 1)
    BY <2>2, <2>3
  <2>5. UintvarAt(m1, o).value = UintvarAt(m, p).value /\ UintvarAt(m1, o).end = o + 2
    BY <1>2, <1>4, <2>4 DEF UintvarAt
  <2>6. QED
    BY <2>1, <2>5
<1>5. QED
  BY <1>3, <1>4

LEMMA ColumnMoved ==
  ASSUME NEW m \in Seq(Nat), NEW m1 \in Seq(Nat), NEW v \in Nat, NEW w \in Nat, NEW d \in Int, w = v + d,
         \A x \in Nat : v <= x /\ x < ColumnAt(m, v).payload => CellAt(m1, x + d) = CellAt(m, x)
  PROVE  /\ ColumnAt(m1, w).num = ColumnAt(m, v).num /\ ColumnAt(m1, w).cap = ColumnAt(m, v).cap
         /\ ColumnAt(m1, w).cap_off = ColumnAt(m, v).cap_off + d
         /\ ColumnAt(m1, w).payload = ColumnAt(m, v).payload + d
<1>1. PICK o \in Nat : o = ColumnAt(m, v).cap_off
  BY ColumnType
<1>2. PICK p \in Nat : p = ColumnAt(m, v).payload
  BY ColumnType
<1>3. v + 1 < o /\ o < p /\ o = UintvarAt(m, v + 1).end /\ p = UintvarAt(m, o).end
  BY <1>1, <1>2, ColumnType
<1>4. PICK v1 \in Nat : v1 = v + 1
  OBVIOUS
<1>5. PICK w1 \in Nat : w1 = w + 1 /\ w1 = v1 + d
  BY <1>4
<1>6. PICK o1 \in Nat : o1 = o + d
  BY <1>3
<1>7. \A x \in Nat : v1 <= x /\ x < UintvarAt(m, v1).end => CellAt(m1, x + d) = CellAt(m, x)
  BY <1>2, <1>3, <1>4
<1>8. UintvarAt(m1, w1).value = UintvarAt(m, v1).value /\ UintvarAt(m1, w1).end = UintvarAt(m, v1).end + d
  <2>1. w1 = v1 + d
    BY <1>5
  <2>2. QED
    BY <1>7, <2>1, CounterMoved
<1>9. \A x \in Nat : o <= x /\ x < UintvarAt(m, o).end => CellAt(m1, x + d) = CellAt(m, x)
  BY <1>2, <1>3
<1>10. UintvarAt(m1, o1).value = UintvarAt(m, o).value /\ UintvarAt(m1, o1).end = UintvarAt(m, o).end + d
  BY <1>6, <1>9, CounterMoved
<1>11. ColumnAt(m1, w).cap_off = o1
  <2>1. UintvarAt(m, v1).end = o /\ ColumnAt(m1, w).cap_off = UintvarAt(m1, w1).end
    BY <1>3, <1>4, <1>5, ColumnType
  <2>2. QED
    BY <1>6, <1>8, <2>1
<1>12. /\ ColumnAt(m1, w).num = UintvarAt(m1, w1).value /\ ColumnAt(m1, w).cap = UintvarAt(m1, o1).value
       /\ ColumnAt(m1, w).payload = UintvarAt(m1, o1).end
  <2>1. /\ ColumnAt(m1, w).num = UintvarAt(m1, w + 1).value
        /\ ColumnAt(m1, w).cap = UintvarAt(m1, ColumnAt(m1, w).cap_off).value
        /\ ColumnAt(m1, w).payload = UintvarAt(m1, ColumnAt(m1, w).cap_off).end
    BY ColumnType
  <2>2. QED
    BY <1>5, <1>11, <2>1
<1>13. /\ ColumnAt(m, v).num = UintvarAt(m, v1).value /\ ColumnAt(m, v).cap = UintvarAt(m, o).value
       /\ p = UintvarAt(m, o).end
  BY ZenonT(60), <1>1, <1>2, <1>4, ColumnType
<1>14. QED
  BY <1>1, <1>2, <1>6, <1>8, <1>10, <1>11, <1>12, <1>13

LEMMA StepMoved ==
  ASSUME NEW m \in Seq(Nat), NEW m1 \in Seq(Nat), NEW r \in Readers, Sound(m, r), NEW d \in Int,
         0 <= r.pos + d, Step(m, r).pos + d <= Len(m1),
         \A x \in Nat : r.pos <= x /\ x < Step(m, r).pos => CellAt(m1, x + d) = CellAt(m, x)
  PROVE  Sound(m1, Shift(r, d)) /\ Step(m1, Shift(r, d)) = Shift(Step(m, r), d)
<1>1. PICK s \in Readers : s = Shift(r, d) /\ s.pos = r.pos + d /\ s.open = r.open
  BY ShiftIs
<1>2. /\ r.pos \in Nat /\ s.pos \in Nat /\ r.open # <<>> /\ Kind(s) = Kind(r) /\ EndMarker(s) = EndMarker(r)
      /\ Kind(r) \in Kinds /\ r.open \in Seq(Kinds)
  BY <1>1, ReaderIs, KindType DEF Kind, EndMarker, Sound
<1>3. Step(m, r) \in Readers /\ r.pos < Step(m, r).pos /\ Step(m, r).pos \in Nat
  BY Forward, ReaderIs
<1>4. CellAt(m1, s.pos) = CellAt(m, r.pos)
  BY <1>1, <1>2, <1>3
<1>5. CASE Ending(m, r)
  <2>1. PICK q \in Nat : Free(m, r.pos, q) /\ CellAt(m, q) = EndMarker(r)
    BY <1>5 DEF Ending, Free
  <2>2. Step(m, r) = OutOf(r, q + 1) /\ r.pos <= q
    BY <1>2, <2>1, EndingStep DEF Free
  <2>3. Step(m, r).pos = q + 1
    BY <2>2, ReaderFields DEF OutOf
  <2>4. PICK t \in Nat : t = q + d
    BY <1>2, <2>2, <1>1
  <2>5. CellAt(m1, t) = CellAt(m, q) /\ s.pos <= t /\ t < Len(m1)
    BY <1>1, <1>2, <2>2, <2>3, <2>4
  <2>6. ASSUME NEW x \in s.pos .. t - 1 PROVE CellAt(m1, x) = 0
    <3>1. PICK y \in Nat : y = x - d
      BY <1>1, <1>2, <2>6
    <3>2. r.pos <= y /\ y < q /\ y + d = x
      BY <1>1, <1>2, <2>4, <2>6, <3>1
    <3>3. CellAt(m1, y + d) = CellAt(m, y) /\ CellAt(m, y) = 0
      BY <1>2, <2>1, <2>3, <3>2 DEF Free
    <3>4. QED
      BY <3>2, <3>3
  <2>7. Free(m1, s.pos, t) /\ CellAt(m1, t) = EndMarker(s)
    BY <1>2, <2>1, <2>5, <2>6 DEF Free
  <2>8. Step(m1, s) = OutOf(s, t + 1)
    BY <1>1, <1>2, <2>7, EndingStep
  <2>9. OutOf(s, t + 1) = Shift(OutOf(r, q + 1), d)
    <3>1. t + 1 = (q + 1) + d
      BY <2>4
    <3>2. QED
      BY ZenonT(60), <1>1, <3>1, ReaderFields DEF OutOf, Shift
  <2>10. Sound(m1, s)
    BY <1>1, <1>2, <2>7 DEF Sound, Ending
  <2>11. QED
    BY <1>1, <2>2, <2>8, <2>9, <2>10
<1>6. CASE Holding(m, r)
  <2>1. PICK v \in Nat : v = ValueAt(r)
    BY <1>2, <1>6, HoldingStep DEF Holding
  <2>2. r.pos <= v /\ Step(m, r) = Passed(m, r, v, v) /\ v < Step(m, r).pos
    BY <1>2, <1>6, <2>1, HoldingStep, PassedForward DEF Holding
  <2>3. PICK w \in Nat : w = v + d /\ w = ValueAt(s)
    <3>1. v + d \in Nat
      BY <1>1, <1>2, <2>2
    <3>2. v + d = ValueAt(s)
      BY <1>1, <1>2, <2>1 DEF ValueAt
    <3>3. QED
      BY <3>1, <3>2
  <2>4. CellAt(m1, w) = CellAt(m, v)
    BY <2>2, <2>3
  <2>5. CellAt(m1, s.pos) \notin {0, EndMarker(s)}
    BY <1>2, <1>4, <1>6 DEF Holding
  <2>6. Step(m1, s) = Passed(m1, s, w, w)
    BY <1>1, <1>2, <2>3, <2>5, HoldingStep
  <2>7. /\ Passed(m1, s, w, w) = Shift(Passed(m, r, v, v), d)
        /\ CellAt(m1, w) = COLUMN_U8 => Fits(ColumnAt(m1, w))
    <3>1. CASE CellAt(m, v) = ARRAY_BEGIN
      <4>1. Passed(m1, s, w, w) = Into(s, "array", w + 1) /\ Passed(m, r, v, v) = Into(r, "array", v + 1)
        BY <2>4, <3>1, PassedArms
      <4>2. w + 1 = (v + 1) + d /\ CellAt(m1, w) # COLUMN_U8
        BY <2>3, <2>4, <3>1, MarkersDiffer
      <4>3. QED
        BY <1>1, <4>1, <4>2, ReaderFields DEF Into, Shift
    <3>2. CASE CellAt(m, v) = OBJECT_BEGIN
      <4>1. Passed(m1, s, w, w) = Into(s, "object", w + 1) /\ Passed(m, r, v, v) = Into(r, "object", v + 1)
        BY <2>4, <3>2, PassedArms
      <4>2. w + 1 = (v + 1) + d /\ CellAt(m1, w) # COLUMN_U8
        BY <2>3, <2>4, <3>2, MarkersDiffer
      <4>3. QED
        BY <1>1, <4>1, <4>2, ReaderFields DEF Into, Shift
    <3>3. CASE CellAt(m, v) = U8
      <4>1. Passed(m1, s, w, w) = Reader(w + 2, s.open) /\ Passed(m, r, v, v) = Reader(v + 2, r.open)
        BY <2>4, <3>3, PassedArms
      <4>2. w + 2 = (v + 2) + d /\ CellAt(m1, w) # COLUMN_U8
        BY <2>3, <2>4, <3>3, MarkersDiffer
      <4>3. QED
        BY <1>1, <4>1, <4>2, ReaderFields DEF Shift
    <3>4. CASE CellAt(m, v) \notin {ARRAY_BEGIN, OBJECT_BEGIN, U8, COLUMN_U8}
      <4>1. Passed(m1, s, w, w) = Reader(w + 1, s.open) /\ Passed(m, r, v, v) = Reader(v + 1, r.open)
        BY <2>4, <3>4, PassedArms
      <4>2. w + 1 = (v + 1) + d /\ CellAt(m1, w) # COLUMN_U8
        BY <2>3, <2>4, <3>4
      <4>3. QED
        BY <1>1, <4>1, <4>2, ReaderFields DEF Shift
    <3>5. CASE CellAt(m, v) = COLUMN_U8
      <4>1. PICK p \in Nat, c \in Nat, n \in Nat : p = ColumnAt(m, v).payload /\ c = ColumnAt(m, v).cap /\ n = ColumnAt(m, v).num
        BY ColumnType
      <4>2. Passed(m, r, v, v) = Reader(p + c, r.open)
        BY <3>5, <4>1, PassedArms
      <4>3. Step(m, r).pos = p + c
        BY <2>2, <4>2, ReaderFields
      <4>4. \A x \in Nat : v <= x /\ x < p => CellAt(m1, x + d) = CellAt(m, x)
        BY SMTT(60), <1>2, <2>2, <4>3
      <4>5. ColumnAt(m1, w).num = n /\ ColumnAt(m1, w).cap = c /\ ColumnAt(m1, w).payload = p + d
        BY <2>3, <4>1, <4>4, ColumnMoved
      <4>6. Passed(m1, s, w, w) = Reader((p + d) + c, s.open)
        BY <2>4, <3>5, <4>5, PassedArms
      <4>7. (p + d) + c = (p + c) + d
        BY <4>1
      <4>8. n <= c
        BY <1>6, <2>1, <3>5, <4>1 DEF Holding, Fits
      <4>9. QED
        BY <1>1, <4>2, <4>5, <4>6, <4>7, <4>8, ReaderFields DEF Shift, Fits
    <3>6. QED
      BY <3>1, <3>2, <3>3, <3>4, <3>5
  <2>8. Step(m1, s) = Shift(Step(m, r), d)
    BY <2>2, <2>6, <2>7
  <2>9. Step(m1, s).pos <= Len(m1)
    BY <1>3, <2>8, ReaderFields DEF Shift
  <2>10. Holding(m1, s)
    BY <2>3, <2>5, <2>7, <2>9 DEF Holding
  <2>11. QED
    BY <1>1, <1>2, <2>8, <2>10 DEF Sound
<1>7. QED
  BY <1>5, <1>6 DEF Sound

-----------------------------------------------------------------------------
(***************************************************************************)
(* Places. The offsets a reader of a record comes to, each with the         *)
(* containers open there, are a set that every edit changes in a part only. *)
(***************************************************************************)

(* The places of a reader of the record: where a step from one leads to the *)
(* next, from the start of the outermost array to the end of the memory.    *)
Places(m, P) ==
  /\ m \in Seq(Nat)
  /\ P \subseteq Readers
  /\ CellAt(m, 1) = ARRAY_BEGIN
  /\ Reader(2, <<"array">>) \in P
  /\ \A r \in P : r.pos >= 2
  /\ \A r \in P : r.open = <<>> => r.pos = Len(m)
  /\ \A r \in P : r.open # <<>> => Sound(m, r) /\ Step(m, r) \in P
  /\ \A r, s \in P : r.pos < s.pos => Step(m, r).pos <= s.pos
  /\ \A r, s \in P : r.pos = s.pos => r = s

(* Places that go from the place r to the offset e.                        *)
Path(m, r, e, N) ==
  /\ N \subseteq Readers
  /\ r \in N
  /\ \A s \in N : r.pos <= s.pos /\ s.pos <= e
  /\ \A s \in N : s.pos < e => Sound(m, s) /\ Step(m, s) \in N
  /\ \A s, t \in N : s.pos < t.pos => Step(m, s).pos <= t.pos
  /\ \A s, t \in N : s.pos = t.pos => s = t

LEMMA PlaceType ==
  ASSUME NEW m \in Seq(Nat), NEW P, Places(m, P), NEW r \in P
  PROVE  /\ r \in Readers /\ r.pos \in Nat /\ r.pos >= 2 /\ r.pos <= Len(m) /\ r.open \in Seq(Kinds)
         /\ r.open # <<>> => /\ Sound(m, r) /\ Step(m, r) \in P /\ r.pos < Step(m, r).pos
                             /\ Step(m, r).pos \in Nat /\ Step(m, r).pos <= Len(m) /\ r.pos < Len(m)
<1>1. r \in Readers /\ r.pos \in Nat /\ r.open \in Seq(Kinds) /\ r.pos >= 2
  BY ReaderIs DEF Places
<1>2. CASE r.open = <<>>
  <2>1. r.pos = Len(m)
    BY <1>2 DEF Places
  <2>2. QED
    BY <1>1, <1>2, <2>1
<1>3. CASE r.open # <<>>
  <2>1. Sound(m, r) /\ Step(m, r) \in P
    BY <1>3 DEF Places
  <2>2. Step(m, r) \in Readers /\ r.pos < Step(m, r).pos /\ Step(m, r).pos <= Len(m)
    BY <1>1, <2>1, Forward
  <2>3. Step(m, r).pos \in Nat
    BY <2>2, ReaderIs
  <2>4. QED
    BY <1>1, <2>1, <2>2, <2>3
<1>4. QED
  BY <1>2, <1>3

(* m1 has the cells of m in front of a, and those from b on, d cells later. *)
Around(m, m1, a, b, d) ==
  /\ m1 \in Seq(Nat) /\ d \in Int /\ a <= b /\ a <= b + d /\ Len(m1) = Len(m) + d
  /\ \A x \in Nat : x < a => CellAt(m1, x) = CellAt(m, x)
  /\ \A x \in Nat : b <= x => CellAt(m1, x + d) = CellAt(m, x)

LEMMA Spliced ==
  ASSUME NEW m \in Seq(Nat), NEW P, Places(m, P), NEW m1, NEW A \in P, NEW B \in P, NEW d,
         Around(m, m1, A.pos, B.pos, d),
         NEW N, Path(m1, A, B.pos + d, N), Shift(B, d) \in N
  PROVE  LET P1 == {r \in P : r.pos < A.pos} \cup N \cup {Shift(r, d) : r \in {x \in P : B.pos <= x.pos}}
         IN  Places(m1, P1)
<1> DEFINE Kept == {r \in P : r.pos < A.pos}
           Later == {x \in P : B.pos <= x.pos}
           Moved2 == {Shift(r, d) : r \in Later}
           P1 == Kept \cup N \cup Moved2
<1>0. /\ A \in Readers /\ A.pos \in Nat /\ A.pos >= 2 /\ A.pos <= Len(m)
      /\ B \in Readers /\ B.pos \in Nat /\ B.pos <= Len(m) /\ Len(m) \in Nat
  BY PlaceType
<1>0a. PICK a \in Nat, b \in Nat, L \in Nat : a = A.pos /\ b = B.pos /\ L = Len(m)
  BY <1>0
<1>1. a >= 2 /\ a <= L /\ b <= L /\ d \in Int /\ a <= b /\ a <= b + d /\ m1 \in Seq(Nat) /\ Len(m1) = L + d
  BY <1>0, <1>0a DEF Around
<1>2. PICK e \in Nat : e = b + d /\ a <= e /\ e <= L + d
  BY <1>1
<1>2a. e = B.pos + d
  BY <1>0a, <1>2
<1>3. N \subseteq Readers /\ A \in N /\ \A s \in N : a <= s.pos /\ s.pos <= e /\ s.pos \in Nat
  BY <1>0a, <1>2a, ReaderIs DEF Path
<1>4. ASSUME NEW r \in Kept
      PROVE  /\ r \in P /\ r \in Readers /\ r.pos \in Nat /\ r.pos < a /\ r.pos >= 2 /\ r.open # <<>>
             /\ Sound(m1, r) /\ Step(m1, r) = Step(m, r) /\ Step(m1, r).pos <= a /\ Step(m1, r) \in P1
  <2>1. r \in P /\ r.pos < a /\ r \in Readers /\ r.pos \in Nat /\ r.pos >= 2
    BY <1>0a, PlaceType
  <2>2. r.open # <<>>
    <3>1. ASSUME r.open = <<>> PROVE FALSE
      <4>1. r.pos = L
        BY <1>0a, <2>1, <3>1 DEF Places
      <4>2. QED
        BY <1>1, <2>1, <4>1
    <3>2. QED
      BY <3>1
  <2>3. Sound(m, r) /\ Step(m, r) \in P /\ Step(m, r).pos \in Nat
    BY <2>1, <2>2, PlaceType
  <2>4. Step(m, r).pos <= a
    BY <1>0a, <2>1 DEF Places
  <2>4a. PICK n \in Nat, z \in Nat : n = r.pos /\ z = Step(m, r).pos
    BY <2>1, <2>3
  <2>4b. PICK o \in Int : o = 0
    OBVIOUS
  <2>5. \A x \in Nat : r.pos <= x /\ x < Step(m, r).pos => CellAt(m1, x + o) = CellAt(m, x)
    <3>1. SUFFICES ASSUME NEW x \in Nat, x < z PROVE CellAt(m1, x + o) = CellAt(m, x)
      BY <2>4a
    <3>2. x < a /\ x + o = x
      BY <2>4, <2>4a, <2>4b, <3>1
    <3>3. QED
      BY <1>0a, <3>2 DEF Around
  <2>6. 0 <= r.pos + o /\ Step(m, r).pos + o <= Len(m1) /\ r.pos + o = r.pos /\ Step(m, r).pos + o = Step(m, r).pos
    BY <1>1, <1>2, <2>4, <2>4a, <2>4b
  <2>7. Sound(m1, Shift(r, o)) /\ Step(m1, Shift(r, o)) = Shift(Step(m, r), o)
    BY <1>1, <2>1, <2>3, <2>5, <2>6, StepMoved
  <2>8. Shift(r, o) = r /\ Shift(Step(m, r), o) = Step(m, r)
    <3>1. Step(m, r) \in Readers
      BY <2>3, PlaceType
    <3>2. QED
      BY <2>1, <2>6, <3>1, ReaderIs DEF Shift
  <2>9. CASE Step(m, r).pos < a
    BY <1>0a, <2>1, <2>2, <2>3, <2>4, <2>7, <2>8, <2>9
  <2>10. CASE Step(m, r).pos = a
    <3>1. Step(m, r) = A
      BY <1>0a, <2>3, <2>10 DEF Places
    <3>2. QED
      BY <1>3, <2>1, <2>2, <2>3, <2>4, <2>7, <2>8, <3>1
  <2>11. QED
    BY SMTT(60), <1>1, <2>3, <2>4, <2>9, <2>10
<1>5. ASSUME NEW t \in Moved2
      PROVE  \E r \in P : /\ t = Shift(r, d) /\ b <= r.pos /\ r \in Readers /\ r.pos \in Nat
                          /\ t \in Readers /\ t.pos = r.pos + d /\ t.open = r.open /\ e <= t.pos /\ t.pos \in Nat
                          /\ t.open = <<>> => t.pos = Len(m1)
                          /\ t.open # <<>> => /\ Sound(m1, t) /\ Step(m1, t) = Shift(Step(m, r), d)
                                              /\ Step(m, r) \in P /\ r.pos < Step(m, r).pos /\ Step(m, r).pos \in Nat
                                              /\ Step(m1, t).pos = Step(m, r).pos + d /\ Step(m1, t) \in P1
  <2>1. PICK r \in P : t = Shift(r, d) /\ b <= r.pos
    BY <1>0a
  <2>2. r \in Readers /\ r.pos \in Nat /\ r.pos <= Len(m)
    BY PlaceType
  <2>3. 0 <= r.pos + d /\ r.pos + d \in Nat /\ e <= r.pos + d
    <3>1. PICK n \in Nat : n = r.pos /\ b <= n
      BY <2>1, <2>2
    <3>2. QED
      BY <1>1, <1>2, <3>1
  <2>4. t \in Readers /\ t.pos = r.pos + d /\ t.open = r.open
    BY <1>1, <2>1, <2>2, <2>3, ShiftIs
  <2>5. CASE r.open = <<>>
    <3>1. r.pos = L
      BY <1>0a, <2>5 DEF Places
    <3>2. t.pos = Len(m1)
      BY <1>1, <2>4, <3>1
    <3>3. QED
      BY <2>1, <2>2, <2>3, <2>4, <2>5, <3>1, <3>2
  <2>6. CASE r.open # <<>>
    <3>1. /\ Sound(m, r) /\ Step(m, r) \in P /\ r.pos < Step(m, r).pos
          /\ Step(m, r).pos \in Nat /\ Step(m, r).pos <= Len(m) /\ Step(m, r) \in Readers
      BY <2>6, PlaceType
    <3>2. Step(m, r).pos + d <= Len(m1) /\ 0 <= Step(m, r).pos + d
      <4>1. PICK n \in Nat, z \in Nat : n = r.pos /\ z = Step(m, r).pos /\ n < z /\ z <= L /\ 0 <= n + d
        BY <1>0a, <2>2, <2>3, <3>1
      <4>2. QED
        BY <1>1, <4>1
    <3>3. \A x \in Nat : r.pos <= x /\ x < Step(m, r).pos => CellAt(m1, x + d) = CellAt(m, x)
      <4>1. SUFFICES ASSUME NEW x \in Nat, r.pos <= x PROVE CellAt(m1, x + d) = CellAt(m, x)
        OBVIOUS
      <4>2. b <= x
        <5>1. PICK n \in Nat : n = r.pos
          BY <2>2
        <5>2. QED
          BY <2>1, <4>1, <5>1
      <4>3. QED
        BY <1>0a, <4>2 DEF Around
    <3>4. Sound(m1, t) /\ Step(m1, t) = Shift(Step(m, r), d)
      BY <1>1, <2>1, <2>2, <2>3, <3>1, <3>2, <3>3, StepMoved
    <3>5. Step(m1, t).pos = Step(m, r).pos + d
      BY <1>1, <3>1, <3>2, <3>4, ShiftIs
    <3>6. Step(m, r) \in Later
      <4>1. PICK n \in Nat, z \in Nat : n = r.pos /\ z = Step(m, r).pos /\ n < z /\ b <= n
        BY <2>1, <2>2, <3>1
      <4>2. b <= z
        BY <4>1
      <4>3. QED
        BY <1>0a, <3>1, <4>1, <4>2
    <3>7. Step(m1, t) \in P1
      BY <3>4, <3>6
    <3>8. QED
      BY <2>1, <2>2, <2>3, <2>4, <2>6, <3>1, <3>4, <3>5, <3>7
  <2>7. QED
    BY <2>5, <2>6
<1>6. ASSUME NEW s \in N, s.pos < e
      PROVE  /\ s.open # <<>> /\ Sound(m1, s) /\ Step(m1, s) \in N /\ Step(m1, s).pos <= e
  <2>1. Sound(m1, s) /\ Step(m1, s) \in N
    BY <1>2a, <1>6 DEF Path
  <2>2. QED
    BY <1>3, <2>1 DEF Sound
<1>7. ASSUME NEW s \in N, s.pos = e PROVE s = Shift(B, d) /\ s \in Moved2
  <2>1. 0 <= B.pos + d /\ d \in Int
    BY <1>1, <1>2, <1>2a
  <2>2. Shift(B, d).pos = e
    BY <1>0, <1>2a, <2>1, ShiftIs
  <2>3. s = Shift(B, d)
    BY <1>7, <2>2 DEF Path
  <2>4. B \in Later
    BY <1>0
  <2>5. QED
    BY <2>3, <2>4
<1>8. ASSUME NEW r \in P1 PROVE \/ r \in Kept \/ (r \in N /\ r.pos < e) \/ r \in Moved2
  BY <1>3, <1>7
<1>8a. \A r \in P : r.pos < a => r \in Kept
  BY <1>0a
<1> HIDE DEF Kept, Moved2, P1
<1>8b. /\ \A r \in Kept : r.pos \in Nat /\ r.pos < a
       /\ \A r \in Moved2 : r.pos \in Nat /\ e <= r.pos
  BY <1>4, <1>5
<1>9. P1 \subseteq Readers
  BY <1>3, <1>4, <1>5 DEF P1
<1>10. CellAt(m1, 1) = ARRAY_BEGIN
  <2>1. 1 < A.pos
    BY <1>0, <1>0a, <1>1
  <2>2. CellAt(m1, 1) = CellAt(m, 1)
    BY <2>1 DEF Around
  <2>3. QED
    BY <2>2 DEF Places
<1>11. Reader(2, <<"array">>) \in P1
  <2>1. PICK r \in P : r = Reader(2, <<"array">>) /\ r.pos = 2
    BY ReaderFields DEF Places
  <2>2. CASE a = 2
    <3>1. A = r
      BY <1>0a, <2>1, <2>2 DEF Places
    <3>2. QED
      BY <1>3, <2>1, <3>1 DEF P1
  <2>3. CASE a # 2
    <3>1. 2 < a
      BY <1>1, <2>3
    <3>2. r \in Kept
      BY <1>8a, <2>1, <3>1
    <3>3. QED
      BY <2>1, <3>2 DEF P1
  <2>4. QED
    BY <2>2, <2>3
<1>12. \A r \in P1 : r.pos >= 2
  <2>1. ASSUME NEW r \in P1 PROVE r.pos >= 2
    <3>1. CASE r \in Kept
      BY <1>4, <3>1
    <3>2. CASE r \notin Kept
      <4>1. r.pos \in Nat /\ a <= r.pos
        BY <1>2, <1>3, <1>8, <1>8b, <3>2
      <4>2. QED
        BY <1>1, <4>1
    <3>3. QED
      BY <3>1, <3>2
  <2>2. QED
    BY <2>1
<1>13. \A r \in P1 : r.open = <<>> => r.pos = Len(m1)
  BY <1>4, <1>5, <1>6, <1>8
<1>14. \A r \in P1 : r.open # <<>> => Sound(m1, r) /\ Step(m1, r) \in P1
  BY <1>4, <1>5, <1>6, <1>8 DEF P1
<1>15. ASSUME NEW r \in P1, NEW s \in P1, r.pos < s.pos PROVE Step(m1, r).pos <= s.pos
  <2>0. s.pos \in Nat /\ r.pos \in Nat
    BY <1>9, ReaderIs
  <2>1. CASE r \in Kept
    <3>1. Step(m1, r).pos \in Nat /\ Step(m1, r).pos <= a /\ r \in P /\ Step(m1, r) = Step(m, r)
      BY <1>4, <1>9, <2>1, ReaderIs
    <3>2. CASE s \in Kept
      BY <1>4, <1>15, <3>1, <3>2 DEF Places
    <3>3. CASE s \notin Kept
      <4>1. a <= s.pos
        BY <1>2, <1>3, <1>8, <1>8b, <3>3
      <4>2. QED
        BY <1>1, <2>0, <3>1, <4>1
    <3>4. QED
      BY <3>2, <3>3
  <2>2. CASE r \in N /\ r.pos < e
    <3>1. Step(m1, r).pos <= e /\ Step(m1, r).pos \in Nat
      BY <1>3, <1>6, <2>2
    <3>2. CASE s \in Kept
      BY <1>3, <1>8b, <1>15, <2>0, <2>2, <3>2
    <3>3. CASE s \in N
      BY <1>15, <2>2, <3>3 DEF Path
    <3>4. CASE s \in Moved2
      <4>1. e <= s.pos
        BY <1>8b, <3>4
      <4>2. QED
        BY <2>0, <3>1, <4>1
    <3>5. QED
      BY <1>8, <3>2, <3>3, <3>4
  <2>3. CASE r \in Moved2
    <3>1. PICK x \in P : /\ r.pos = x.pos + d /\ x.pos \in Nat /\ e <= r.pos
                         /\ r.open = <<>> => r.pos = Len(m1)
                         /\ r.open # <<>> => Step(m1, r).pos = Step(m, x).pos + d /\ Step(m, x).pos \in Nat
      BY <1>5, <2>3
    <3>2. s \notin Kept /\ ~(s \in N /\ s.pos < e)
      BY <1>2, <1>8b, <1>15, <2>0, <2>3
    <3>3. PICK y \in P : s.pos = y.pos + d /\ y.pos \in Nat
      BY <1>5, <1>8, <3>2
    <3>3a. y.pos <= L
      BY <1>0a, PlaceType
    <3>3b. PICK i \in Nat, j \in Nat : i = x.pos /\ j = y.pos /\ r.pos = i + d /\ s.pos = j + d /\ j <= L
      BY <3>1, <3>3, <3>3a
    <3>4. x.pos < y.pos
      BY <1>1, <1>15, <3>3b
    <3>5. Step(m, x).pos <= y.pos
      BY <3>4 DEF Places
    <3>6. r.open # <<>>
      <4>1. ASSUME r.open = <<>> PROVE FALSE
        <5>1. r.pos = L + d
          BY <1>1, <3>1, <4>1
        <5>2. QED
          BY <1>1, <1>15, <3>3b, <5>1
      <4>2. QED
        BY <4>1
    <3>7. PICK z \in Nat : z = Step(m, x).pos /\ Step(m1, r).pos = z + d
      BY <3>1, <3>6
    <3>8. QED
      BY <1>1, <3>3b, <3>5, <3>7
  <2>4. QED
    BY <1>8, <2>1, <2>2, <2>3
<1>16. ASSUME NEW r \in P1, NEW s \in P1, r.pos = s.pos PROVE r = s
  <2>0. s.pos \in Nat /\ r.pos \in Nat
    BY <1>9, ReaderIs
  <2>1. CASE r.pos < a
    <3>1. r \in Kept /\ s \in Kept
      BY <1>2, <1>3, <1>8, <1>8b, <1>16, <2>0, <2>1
    <3>2. QED
      BY <1>4, <1>16, <3>1 DEF Places
  <2>2. CASE a <= r.pos /\ r.pos < e
    <3>1. r \in N /\ s \in N
      BY <1>2, <1>8, <1>8b, <1>16, <2>0, <2>2
    <3>2. QED
      BY <1>16, <3>1 DEF Path
  <2>3. CASE e <= r.pos
    <3>1. r \in Moved2 /\ s \in Moved2
      BY <1>2, <1>8, <1>8b, <1>16, <2>0, <2>3
    <3>2. PICK x \in P : r = Shift(x, d) /\ r.pos = x.pos + d /\ x.pos \in Nat
      BY <1>5, <3>1
    <3>3. PICK y \in P : s = Shift(y, d) /\ s.pos = y.pos + d /\ y.pos \in Nat
      BY <1>5, <3>1
    <3>4. x.pos = y.pos
      BY <1>1, <1>16, <3>2, <3>3
    <3>5. x = y
      BY <3>4 DEF Places
    <3>6. QED
      BY <3>2, <3>3, <3>5
  <2>4. QED
    BY <1>1, <2>0, <2>1, <2>2, <2>3
<1>17. Places(m1, P1)
  <2>1. m1 \in Seq(Nat)
    BY DEF Around
  <2>2. QED
    BY <1>9, <1>10, <1>11, <1>12, <1>13, <1>14, <1>15, <1>16, <2>1 DEF Places
<1>18. QED
  BY <1>17 DEF P1, Kept, Moved2

LEMMA FreeIsUnique ==
  ASSUME NEW m \in Seq(Nat), NEW p \in Nat, NEW q, NEW t, Free(m, p, q), Free(m, p, t)
  PROVE  q = t
  BY FirstUsedIs

(* What has been written ends at g, or at e when only free cells follow e   *)
(* and nothing but the end of its container follows B.                      *)
EndsAt(m, m1, a, B, g, e) ==
  /\ e \in Nat
  /\ \/ e = g
     \/ a <= e /\ e <= g /\ Ending(m, B) /\ \A x \in Nat : e <= x /\ x < g => CellAt(m1, x) = 0

Keeps(P, P1, a) == \A r \in P : r.pos < a => r \in P1

(* N has been put in place of what was between A and B.                     *)
Rebuilt(m, m1, A, B, g, q, d, e, N) ==
  /\ B.open # <<>>
  /\ Replaced(m, m1, A.pos, B.pos, g, q, d) /\ EndsAt(m, m1, A.pos, B, g, e)
  /\ Path(m1, A, e, N) /\ Reader(e, B.open) \in N

LEMMA Respliced ==
  ASSUME NEW m \in Seq(Nat), NEW P, Places(m, P), NEW m1, NEW A \in P, NEW B \in P,
         NEW g, NEW q, NEW d, NEW e, NEW N, Rebuilt(m, m1, A, B, g, q, d, e, N)
  PROVE  \E P1 : Places(m1, P1) /\ N \subseteq P1 /\ Keeps(P, P1, A.pos)
<1>0. /\ B.open # <<>>
      /\ Replaced(m, m1, A.pos, B.pos, g, q, d) /\ EndsAt(m, m1, A.pos, B, g, e)
      /\ Path(m1, A, e, N) /\ Reader(e, B.open) \in N
  BY DEF Rebuilt
<1> USE <1>0
<1>1. /\ m1 \in Seq(Nat) /\ q \in Nat /\ d \in Int /\ e \in Nat /\ A.pos \in Nat /\ B.pos \in Nat
      /\ A.pos <= B.pos /\ B.pos <= q /\ A.pos <= e /\ e <= q + d /\ e <= Len(m1) /\ q < Len(m) /\ g \in Nat
      /\ Len(m) \in Nat /\ Len(m1) \in Nat /\ Len(m1) = Len(m) + d
  <2>1. /\ m1 \in Seq(Nat) /\ q \in Nat /\ d \in Int /\ g \in Nat /\ A.pos \in Nat /\ B.pos \in Nat
        /\ A.pos <= B.pos /\ B.pos <= q /\ A.pos <= g /\ g <= q + d /\ g <= Len(m1) /\ q < Len(m)
        /\ Len(m) \in Nat /\ Len(m1) \in Nat /\ Len(m1) = Len(m) + d
    BY ReplacedType
  <2>2. A.pos <= e /\ e <= g /\ e \in Nat
    BY <2>1 DEF EndsAt
  <2>3. PICK v \in Nat : v = g
    BY <2>1
  <2>4. e <= q + d /\ e <= Len(m1)
    BY <2>1, <2>2, <2>3
  <2>5. QED
    BY <2>1, <2>2, <2>3, <2>4
<1>2. /\ B \in Readers /\ Sound(m, B) /\ Step(m, B) \in P /\ A \in Readers /\ B.open \in Seq(Kinds)
  BY PlaceType
<1>3. Free(m, B.pos, q) /\ Free(m1, e, q + d)
  <2>1. Free(m, B.pos, q) /\ Free(m1, g, q + d)
    BY ReplacedFree DEF Replaced
  <2>2. PICK f : f = q + d
    OBVIOUS
  <2>3. Free(m1, g, f)
    BY <2>1, <2>2
  <2>4. /\ f \in Nat /\ g <= f /\ f < Len(m1) /\ CellAt(m1, f) # 0
        /\ \A x \in g .. f - 1 : CellAt(m1, x) = 0
    BY <2>3 DEF Free
  <2>5. PICK v \in Nat : v = g
    BY <1>1
  <2>6. ASSUME NEW x \in e .. f - 1 PROVE CellAt(m1, x) = 0
    <3>1. x \in Nat /\ e <= x /\ x <= f - 1
      BY <1>1, <2>4
    <3>2. CASE x < v
      <4>1. e # g
        BY <2>5, <3>1, <3>2
      <4>2. \A y \in Nat : e <= y /\ y < g => CellAt(m1, y) = 0
        BY <4>1 DEF EndsAt
      <4>3. QED
        BY <2>5, <3>1, <3>2, <4>2
    <3>3. CASE ~(x < v)
      <4>1. x \in v .. f - 1
        BY <2>4, <3>1, <3>3
      <4>2. QED
        BY <2>4, <2>5, <4>1
    <3>4. QED
      BY <3>2, <3>3
  <2>7. e <= f
    BY <1>1, <2>2
  <2>8. Free(m1, e, f)
    BY <2>4, <2>6, <2>7 DEF Free
  <2>9. QED
    BY <2>1, <2>2, <2>8
<1>4. \A x \in Nat : x < A.pos => CellAt(m1, x) = CellAt(m, x)
  BY DEF Replaced
<1>5. \A x \in Nat : q <= x => CellAt(m1, x + d) = CellAt(m, x)
  BY DEF Replaced
<1>6. CASE ~Ending(m, B)
  <2>1. q = B.pos
    <3>1. Free(m, B.pos, B.pos)
      BY <1>2, <1>6, HoldingStep DEF Holding, Sound
    <3>2. QED
      BY <1>1, <1>3, <3>1, FreeIsUnique
  <2>2. e = B.pos + d
    <3>1. e = g
      BY <1>6 DEF EndsAt
    <3>2. QED
      BY <2>1, <3>1 DEF Replaced
  <2>3. Around(m, m1, A.pos, B.pos, d)
    BY <1>1, <1>4, <1>5, <2>1 DEF Around
  <2>4. Shift(B, d) \in N /\ Path(m1, A, B.pos + d, N)
    BY <2>2 DEF Shift
  <2>5. PICK P1 : P1 = {r \in P : r.pos < A.pos} \cup N \cup {Shift(r, d) : r \in {x \in P : B.pos <= x.pos}}
    OBVIOUS
  <2>6. Places(m1, P1)
    BY <2>3, <2>4, <2>5, Spliced
  <2>7. QED
    BY <2>5, <2>6 DEF Keeps
<1>7. CASE Ending(m, B)
  <2>1. PICK t : Free(m, B.pos, t) /\ CellAt(m, t) = EndMarker(B)
    BY <1>7 DEF Ending
  <2>2. t = q
    BY <1>1, <1>3, <2>1, FreeIsUnique
  <2>3. PICK C \in P : C = Step(m, B)
    BY <1>2
  <2>4. C = OutOf(B, q + 1) /\ C.pos = q + 1 /\ C \in Readers
    <3>1. C = OutOf(B, q + 1)
      BY <1>2, <2>1, <2>2, <2>3, EndingStep
    <3>2. PICK n \in Nat : n = q + 1
      BY <1>1
    <3>3. OutOf(B, n) \in Readers /\ OutOf(B, n).pos = n
      BY <1>2, Popped2
    <3>4. QED
      BY <3>1, <3>2, <3>3
  <2>5. PICK E \in N : E = Reader(e, B.open)
    OBVIOUS
  <2>6. E \in Readers /\ E.pos = e /\ E.open = B.open /\ E.open # <<>> /\ EndMarker(E) = EndMarker(B)
    BY ZenonT(60), <1>1, <1>2, <2>5, ReaderFields, ReaderType DEF EndMarker, Kind
  <2>7. PICK f \in Nat : f = q + d
    BY <1>1
  <2>8. Free(m1, E.pos, f) /\ CellAt(m1, f) = EndMarker(E)
    BY <1>1, <1>3, <1>5, <2>1, <2>2, <2>6, <2>7
  <2>9. Step(m1, E) = OutOf(E, f + 1)
    BY <1>1, <2>6, <2>8, EndingStep
  <2>10. OutOf(E, f + 1) = Shift(C, d)
    <3>1. f + 1 = (q + 1) + d
      BY <1>1, <2>7
    <3>2. QED
      BY <2>4, <2>6, <3>1, ReaderFields DEF OutOf, Shift
  <2>11. PICK S \in Readers : S = Shift(C, d) /\ S.pos = f + 1 /\ e < S.pos
    <3>1. 0 <= C.pos + d /\ C.pos + d = f + 1
      <4>1. C.pos + d = f + 1
        <5>1. (q + 1) + d = f + 1
          BY <1>1, <2>7
        <5>2. QED
          BY <2>4, <5>1
      <4>2. QED
        BY <2>7, <4>1
    <3>2. Shift(C, d) \in Readers /\ Shift(C, d).pos = f + 1
      BY <1>1, <2>4, <3>1, ShiftIs
    <3>3. e < f + 1
      BY <1>1, <2>7
    <3>4. QED
      BY <3>2, <3>3
  <2>12. PICK N1 : N1 = N \cup {S}
    OBVIOUS
  <2>13. Sound(m1, E)
    BY <2>6, <2>8 DEF Sound, Ending
  <2>14. \A s \in N : s \in Readers /\ s.pos \in Nat /\ A.pos <= s.pos /\ s.pos <= e
    BY ReaderIs DEF Path
  <2>15. ASSUME NEW s \in N, s.pos = e PROVE s = E
    BY <2>6, <2>15 DEF Path
  <2>16. ASSUME NEW s \in N
         PROVE  /\ Sound(m1, s) /\ Step(m1, s) \in N1 /\ Step(m1, s).pos <= f + 1
    <3>1. CASE s.pos < e
      <4>1. Sound(m1, s) /\ Step(m1, s) \in N
        BY <3>1 DEF Path
      <4>2. PICK z \in Nat : z = Step(m1, s).pos /\ z <= e
        BY <2>14, <4>1
      <4>3. z <= f + 1
        BY <1>1, <2>7, <4>2
      <4>4. QED
        BY <2>12, <4>1, <4>2, <4>3
    <3>2. CASE s.pos = e
      BY <2>9, <2>10, <2>11, <2>12, <2>13, <2>15, <3>2
    <3>3. QED
      BY <1>1, <2>14, <3>1, <3>2
  <2>17. Path(m1, A, f + 1, N1)
    <3>1. N1 \subseteq Readers /\ A \in N1
      BY <2>11, <2>12 DEF Path
    <3>2. ASSUME NEW s \in N1 PROVE A.pos <= s.pos /\ s.pos <= f + 1
      BY SMTT(60), <1>1, <2>7, <2>11, <2>12, <2>14
    <3>3. ASSUME NEW s \in N1, s.pos < f + 1 PROVE Sound(m1, s) /\ Step(m1, s) \in N1
      <4>1. s \in N
        BY <2>11, <2>12, <3>3
      <4>2. QED
        BY <2>16, <4>1
    <3>4. ASSUME NEW s \in N1, NEW u \in N1, s.pos < u.pos PROVE Step(m1, s).pos <= u.pos
      <4>1. s \in N
        <5>1. u.pos <= f + 1
          BY <3>2
        <5>2. S.pos = f + 1
          BY <2>11
        <5>3. s # S
          <6>1. s \in Readers /\ s.pos \in Nat /\ u \in Readers /\ u.pos \in Nat
            BY <3>1, ReaderIs
          <6>2. QED
            BY <3>4, <5>1, <5>2, <6>1
        <5>4. QED
          BY <2>12, <5>3
      <4>2. CASE u \in N
        BY <3>4, <4>1, <4>2 DEF Path
      <4>3. CASE u = S
        BY <2>11, <2>16, <4>1, <4>3
      <4>4. QED
        BY <2>12, <4>2, <4>3
    <3>5. ASSUME NEW s \in N1, NEW u \in N1, s.pos = u.pos PROVE s = u
      <4>1. CASE s \in N /\ u \in N
        BY <3>5, <4>1 DEF Path
      <4>2. CASE s = S /\ u = S
        BY <4>2
      <4>3. QED
        BY <1>1, <2>11, <2>12, <2>14, <3>5, <4>1, <4>2
    <3>6. QED
      BY <3>1, <3>2, <3>3, <3>4, <3>5 DEF Path
  <2>18. f + 1 = C.pos + d
    <3>1. (q + 1) + d = f + 1
      BY <1>1, <2>7
    <3>2. QED
      BY <2>4, <3>1
  <2>19. Around(m, m1, A.pos, C.pos, d)
    <3>1. A.pos <= C.pos /\ A.pos <= C.pos + d /\ q <= C.pos
      <4>1. PICK n \in Nat, c \in Nat : n = A.pos /\ c = C.pos /\ c = q + 1 /\ n <= q /\ n <= q + d
        <5>1. q + 1 \in Nat /\ A.pos <= q + d /\ A.pos <= q
          BY SMTT(60), <1>1
        <5>2. QED
          BY <1>1, <2>4, <5>1
      <4>2. n <= c /\ n <= c + d /\ q <= c
        BY SMTT(60), <1>1, <4>1
      <4>3. QED
        BY <4>1, <4>2
    <3>2. ASSUME NEW x \in Nat, C.pos <= x PROVE q <= x
      <4>1. q + 1 <= x
        BY <2>4, <3>2
      <4>2. QED
        BY <1>1, <4>1
    <3>3. QED
      BY <1>1, <1>4, <1>5, <3>1, <3>2 DEF Around
  <2>20. PICK P1 : P1 = {r \in P : r.pos < A.pos} \cup N1 \cup {Shift(r, d) : r \in {x \in P : C.pos <= x.pos}}
    OBVIOUS
  <2>21. Places(m1, P1)
    <3>1. Path(m1, A, C.pos + d, N1)
      BY <2>17, <2>18
    <3>2. Shift(C, d) \in N1
      BY <2>11, <2>12
    <3>3. QED
      BY <2>19, <2>20, <3>1, <3>2, Spliced
  <2>22. QED
    BY <2>12, <2>20, <2>21 DEF Keeps
<1>8. QED
  BY <1>2, <1>6, <1>7 DEF Sound

-----------------------------------------------------------------------------
(***************************************************************************)
(* Reading on. What the recursive functions of the model compute, and that  *)
(* leaving a field or a container ends at a place.                          *)
(***************************************************************************)

(* Doing the same again and again.                                         *)
Repeats(f, g, x, N) == f[0] = x /\ \A n \in 1 .. N : f[n] = g[f[n - 1]]

Alike(f, h, N) == f[0] = h[0] /\ \A n \in 1 .. N : f[n - 1] = h[n - 1] => f[n] = h[n]

LEMMA Iterated ==
  ASSUME NEW S, NEW g \in [S -> S], NEW x \in S, NEW N \in Nat
  PROVE  \E f \in [0 .. N -> S] : Repeats(f, g, x, N)
<1> USE DEF Repeats
<1> DEFINE Has(k) == \E f \in [0 .. k -> S] : f[0] = x /\ \A n \in 1 .. k : f[n] = g[f[n - 1]]
<1>1. SUFFICES ASSUME ~Has(N) PROVE FALSE
  OBVIOUS
<1>2. PICK T : T = {k \in Nat : ~Has(k)}
  OBVIOUS
<1>3. PICK k \in T : \A y \in T : k <= y
  BY <1>1, <1>2, LeastNatural
<1>4. k \in Nat /\ ~Has(k)
  BY <1>2, <1>3
<1>5. CASE k = 0
  <2>1. PICK f : f = [n \in 0 .. 0 |-> x]
    OBVIOUS
  <2>2. f \in [0 .. 0 -> S] /\ f[0] = x
    BY <2>1
  <2>3. Has(0)
    BY <2>2
  <2>4. QED
    BY <1>4, <1>5, <2>3
<1>6. CASE k # 0
  <2>1. PICK j \in Nat : k = j + 1
    BY <1>4, <1>6
  <2>2. Has(j)
    <3>1. j \notin T
      BY <1>3, <1>4, <2>1
    <3>2. QED
      BY <1>2, <3>1
  <2>3. PICK f \in [0 .. j -> S] : f[0] = x /\ \A n \in 1 .. j : f[n] = g[f[n - 1]]
    BY <2>2
  <2>4. PICK h : h = [n \in 0 .. k |-> IF n <= j THEN f[n] ELSE g[f[j]]]
    OBVIOUS
  <2>5. \A n \in 0 .. j : h[n] = f[n]
    BY <2>1, <2>4
  <2>6. h[k] = g[f[j]] /\ f[j] \in S
    BY <2>1, <2>4
  <2>7. h \in [0 .. k -> S]
    BY <2>1, <2>4, <2>6
  <2>8. ASSUME NEW n \in 1 .. k PROVE h[n] = g[h[n - 1]]
    <3>1. PICK i \in 0 .. j : i = n - 1
      BY <2>1
    <3>2. h[i] = f[i]
      BY <2>5
    <3>3. CASE n <= j
      <4>1. n \in 1 .. j /\ n \in 0 .. j
        BY <2>1, <3>3
      <4>2. h[n] = f[n] /\ f[n] = g[f[n - 1]]
        BY <2>3, <2>5, <4>1
      <4>3. QED
        BY <3>1, <3>2, <4>2
    <3>4. CASE ~(n <= j)
      <4>1. n = k /\ i = j
        BY <2>1, <3>1, <3>4
      <4>2. QED
        BY <2>6, <3>1, <3>2, <4>1
    <3>5. QED
      BY <3>3, <3>4
  <2>9. h[0] = x
    BY <2>3, <2>5
  <2>10. Has(k)
    BY <2>7, <2>8, <2>9
  <2>11. QED
    BY <1>4, <2>10
<1>7. QED
  BY <1>5, <1>6

LEMMA SameIterates ==
  ASSUME NEW N \in Nat, NEW f, NEW h, Alike(f, h, N)
  PROVE  \A n \in 0 .. N : f[n] = h[n]
<1> USE DEF Alike
<1>1. SUFFICES ASSUME NEW z \in 0 .. N, f[z] # h[z] PROVE FALSE
  OBVIOUS
<1>2. PICK T : T = {k \in 0 .. N : f[k] # h[k]}
  OBVIOUS
<1>3. PICK k \in T : \A y \in T : k <= y
  <2>1. T \subseteq Nat /\ T # {}
    BY <1>1, <1>2
  <2>2. QED
    BY <2>1, LeastNatural
<1>4. k \in 0 .. N /\ f[k] # h[k] /\ k # 0
  BY <1>2, <1>3
<1>5. PICK j \in 0 .. N : j = k - 1 /\ k \in 1 .. N
  BY <1>4
<1>6. j \notin T
  BY <1>3, <1>4, <1>5
<1>7. f[j] = h[j]
  BY <1>2, <1>6
<1>8. f[k] = h[k]
  BY <1>5, <1>7
<1>9. QED
  BY <1>4, <1>8

(* What rises with every step until something is done has been done after   *)
(* as many steps as there are values for it.                                *)
LEMMA DoneAtLast ==
  ASSUME NEW N \in Nat, NEW D, NEW w, \A n \in 0 .. N : w[n] \in Nat,
         \A n \in 1 .. N : n - 1 \in D => n \in D,
         \A n \in 1 .. N : n \notin D => w[n - 1] < w[n],
         \A n \in 0 .. N : n \notin D => w[n] < N
  PROVE  N \in D
<1>1. ASSUME NEW z \in 0 .. N, z \notin D, w[z] < z PROVE FALSE
  <2>1. PICK T : T = {k \in 0 .. N : k \notin D /\ w[k] < k}
    OBVIOUS
  <2>2. PICK k \in T : \A y \in T : k <= y
    <3>1. T \subseteq Nat /\ T # {}
      BY <1>1, <2>1
    <3>2. QED
      BY <3>1, LeastNatural
  <2>3. k \in 0 .. N /\ k \notin D /\ w[k] < k /\ w[k] \in Nat
    BY <2>1, <2>2
  <2>4. k # 0
    BY <2>3
  <2>5. PICK j \in 0 .. N : j = k - 1 /\ k \in 1 .. N
    BY <2>3, <2>4
  <2>6. j \notin D /\ w[j] < w[k] /\ w[j] \in Nat
    BY <2>3, <2>5
  <2>7. j \notin T
    BY <2>2, <2>3, <2>5
  <2>8. ~(w[j] < j)
    BY <2>1, <2>6, <2>7
  <2>9. QED
    BY <2>3, <2>5, <2>6, <2>8
<1>2. SUFFICES ASSUME N \notin D PROVE FALSE
  OBVIOUS
<1>3. N \in 0 .. N
  OBVIOUS
<1>4. w[N] < N
  BY <1>2, <1>3
<1>5. QED
  BY <1>1, <1>2, <1>3, <1>4

LEMMA ReadOnIs ==
  ASSUME NEW m \in Seq(Nat), NEW S, NEW s0 \in S, \A s \in S : Step(m, s) \in S
  PROVE  \E f \in [0 .. Len(m) -> S] :
            /\ f[0] = s0
            /\ \A n \in 1 .. Len(m) : f[n] = Step(m, f[n - 1])
            /\ ReadOn(m, s0) = f[Len(m)].pos
<1>1. PICK L \in Nat : L = Len(m)
  OBVIOUS
<1>2. PICK g : g = [s \in S |-> Step(m, s)]
  OBVIOUS
<1>3. g \in [S -> S]
  BY <1>2
<1>4. PICK f \in [0 .. L -> S] : f[0] = s0 /\ \A n \in 1 .. L : f[n] = g[f[n - 1]]
  <2>1. PICK f \in [0 .. L -> S] : Repeats(f, g, s0, L)
    BY <1>3, Iterated
  <2>2. QED
    BY <2>1 DEF Repeats
<1>5. ASSUME NEW n \in 1 .. L PROVE f[n] = Step(m, f[n - 1])
  <2>1. f[n - 1] \in S
    <3>1. n - 1 \in 0 .. L
      OBVIOUS
    <3>2. QED
      BY <3>1
  <2>2. QED
    BY <1>2, <1>4, <2>1
<1>6. f = [n \in 0 .. L |-> IF n = 0 THEN s0 ELSE Step(m, f[n - 1])]
  <2>1. \A n \in 0 .. L : f[n] = IF n = 0 THEN s0 ELSE Step(m, f[n - 1])
    <3>1. SUFFICES ASSUME NEW n \in 0 .. L PROVE f[n] = IF n = 0 THEN s0 ELSE Step(m, f[n - 1])
      OBVIOUS
    <3>2. CASE n = 0
      BY <1>4, <3>2
    <3>3. CASE n # 0
      <4>1. n \in 1 .. L
        BY <3>3
      <4>2. QED
        BY <1>5, <3>3, <4>1
    <3>4. QED
      BY <3>2, <3>3
  <2>2. QED
    BY <2>1
<1>7. PICK h : h = CHOOSE h1 : h1 = [n \in 0 .. L |-> IF n = 0 THEN s0 ELSE Step(m, h1[n - 1])]
  OBVIOUS
<1>8. h = [n \in 0 .. L |-> IF n = 0 THEN s0 ELSE Step(m, h[n - 1])]
  BY <1>6, <1>7, Zenon
<1>9. ReadOn(m, s0) = h[L].pos
  BY <1>1, <1>7, Zenon DEF ReadOn
<1>10. \A n \in 0 .. L : f[n] = h[n]
  <2>1. f[0] = h[0]
    <3>1. 0 \in 0 .. L
      OBVIOUS
    <3>2. h[0] = s0
      BY <1>8, <3>1
    <3>3. QED
      BY <1>4, <3>2
  <2>2. ASSUME NEW n \in 1 .. L, f[n - 1] = h[n - 1] PROVE f[n] = h[n]
    <3>1. n \in 0 .. L /\ n # 0
      OBVIOUS
    <3>2. h[n] = Step(m, h[n - 1])
      BY <1>8, <3>1
    <3>3. QED
      BY <1>5, <2>2, <3>2
  <2>3. \A n \in 1 .. L : f[n - 1] = h[n - 1] => f[n] = h[n]
    BY <2>2
  <2>4. Alike(f, h, L)
    BY <2>1, <2>3 DEF Alike
  <2>5. QED
    BY <2>4, SameIterates
<1>11. L \in 0 .. L
  OBVIOUS
<1>12. ReadOn(m, s0) = f[L].pos
  BY <1>9, <1>10, <1>11
<1>13. QED
  BY <1>1, <1>4, <1>5, <1>12

(* s reads what r reads and knows of all but the k outermost containers.   *)
Under(s, r, k) ==
  /\ s.pos = r.pos
  /\ Len(r.open) = k + Len(s.open)
  /\ \A i \in 1 .. Len(s.open) : r.open[k + i] = s.open[i]

LEMMA StepUnder ==
  ASSUME NEW m \in Seq(Nat), NEW s \in Readers, NEW r \in Readers, NEW k \in Nat, Under(s, r, k),
         s.open # <<>>, Sound(m, r)
  PROVE  /\ Step(m, s) \in Readers /\ Under(Step(m, s), Step(m, r), k)
         /\ \A i \in 1 .. k : Step(m, r).open[i] = r.open[i]
<1>1. /\ s.open \in Seq(Kinds) /\ r.open \in Seq(Kinds) /\ s.pos = r.pos /\ s.pos \in Nat /\ r.open # <<>>
  BY ReaderIs DEF Under, Sound
<1>2. PICK l \in Nat \ {0} : l = Len(s.open)
  BY <1>1
<1>3. /\ Len(r.open) = k + l /\ k + l \in Nat /\ \A i \in 1 .. l : r.open[k + i] = s.open[i]
  BY <1>2 DEF Under
<1> PICK K \in Nat \ {0} : K = k + l
  OBVIOUS
<1> PICK K1 \in Nat : K1 = K + 1
  OBVIOUS
<1>4. Kind(s) = Kind(r) /\ EndMarker(s) = EndMarker(r) /\ ValueAt(s) = ValueAt(r)
  <2>1. s.open[l] = r.open[k + l]
    BY <1>3
  <2>2. Kind(s) = Kind(r)
    BY <1>2, <1>3, <2>1 DEF Kind
  <2>3. QED
    BY <1>1, <2>2 DEF EndMarker, ValueAt
<1>5. CASE Ending(m, r)
  <2>1. PICK q \in Nat : Free(m, r.pos, q) /\ CellAt(m, q) = EndMarker(r)
    BY <1>5 DEF Ending, Free
  <2>2. PICK n \in Nat : n = q + 1
    OBVIOUS
  <2>3. Step(m, r) = OutOf(r, n)
    BY <1>1, <2>1, <2>2, EndingStep
  <2>4. Step(m, s) = OutOf(s, n)
    BY <1>1, <1>4, <2>1, <2>2, EndingStep
  <2>5. /\ OutOf(r, n).pos = n /\ Len(OutOf(r, n).open) = k + l - 1
        /\ \A i \in 1 .. k + l - 1 : OutOf(r, n).open[i] = r.open[i]
    <3>1. Len(r.open) = K
      BY <1>3
    <3>2. /\ OutOf(r, n).pos = n /\ Len(OutOf(r, n).open) = K - 1
          /\ \A i \in 1 .. K - 1 : OutOf(r, n).open[i] = r.open[i]
      <4>1. /\ OutOf(r, n).pos = n /\ Len(OutOf(r, n).open) = Len(r.open) - 1
            /\ \A i \in 1 .. Len(r.open) - 1 : OutOf(r, n).open[i] = r.open[i]
        BY ZenonT(60), <1>1, Popped2
      <4>2. QED
        BY <3>1, <4>1
    <3>3. QED
      BY SMTT(60), <3>2
  <2>6. /\ OutOf(s, n) \in Readers /\ OutOf(s, n).pos = n /\ Len(OutOf(s, n).open) = l - 1
        /\ \A i \in 1 .. l - 1 : OutOf(s, n).open[i] = s.open[i]
    BY <1>1, <1>2, Popped2
  <2>7. ASSUME NEW i \in 1 .. l - 1 PROVE OutOf(r, n).open[k + i] = OutOf(s, n).open[i]
    <3>1. PICK j \in 1 .. k + l - 1 : j = k + i
      <4>1. k + i \in 1 .. k + l - 1
        OBVIOUS
      <4>2. QED
        BY <4>1, Zenon
    <3>2. i \in 1 .. l
      OBVIOUS
    <3>3. QED
      BY <1>3, <2>5, <2>6, <3>1, <3>2
  <2>8. k + l - 1 = k + (l - 1) /\ \A i \in 1 .. k : i \in 1 .. k + l - 1
    OBVIOUS
  <2>9. QED
    BY <2>3, <2>4, <2>5, <2>6, <2>7, <2>8 DEF Under
<1>6. CASE Holding(m, r)
  <2>1. PICK v \in Nat : v = ValueAt(r)
    BY <1>1, <1>6, HoldingStep DEF Holding
  <2>2. Step(m, r) = Passed(m, r, v, v)
    BY <1>1, <1>6, <2>1, HoldingStep DEF Holding
  <2>3. Step(m, s) = Passed(m, s, v, v)
    BY <1>1, <1>4, <1>6, <2>1, HoldingStep DEF Holding
  <2>4. ASSUME NEW x \in Nat, Passed(m, r, v, v) = Reader(x, r.open), Passed(m, s, v, v) = Reader(x, s.open)
        PROVE  /\ Step(m, s) \in Readers /\ Under(Step(m, s), Step(m, r), k)
               /\ \A i \in 1 .. k : Step(m, r).open[i] = r.open[i]
    <3>1. /\ Step(m, r).pos = x /\ Step(m, r).open = r.open /\ Step(m, s).pos = x /\ Step(m, s).open = s.open
          /\ Step(m, s) \in Readers
      BY <1>1, <2>2, <2>3, <2>4, ReaderFields, ReaderType
    <3>2. QED
      BY <3>1 DEF Under
  <2>5. ASSUME NEW x \in Nat, NEW kind \in Kinds, Passed(m, r, v, v) = Into(r, kind, x), Passed(m, s, v, v) = Into(s, kind, x)
        PROVE  /\ Step(m, s) \in Readers /\ Under(Step(m, s), Step(m, r), k)
               /\ \A i \in 1 .. k : Step(m, r).open[i] = r.open[i]
    <3>1. PICK R : R = Step(m, r)
      OBVIOUS
    <3>2. PICK T : T = Step(m, s)
      OBVIOUS
    <3>3. /\ R.pos = x /\ Len(R.open) = k + l + 1 /\ R.open[k + l + 1] = kind
          /\ \A i \in 1 .. k + l : R.open[i] = r.open[i]
      <4>1. Len(r.open) = K /\ R = Into(r, kind, x)
        BY <1>3, <2>2, <2>5, <3>1
      <4>2. /\ R.pos = x /\ Len(R.open) = K + 1 /\ R.open[K + 1] = kind
            /\ \A i \in 1 .. K : R.open[i] = r.open[i]
        <5>1. /\ R.pos = x /\ Len(R.open) = Len(r.open) + 1 /\ R.open[Len(r.open) + 1] = kind
              /\ \A i \in 1 .. Len(r.open) : R.open[i] = r.open[i]
          <6>1. /\ Into(r, kind, x).pos = x /\ Len(Into(r, kind, x).open) = Len(r.open) + 1
                /\ Into(r, kind, x).open[Len(r.open) + 1] = kind
                /\ \A i \in 1 .. Len(r.open) : Into(r, kind, x).open[i] = r.open[i]
            BY Pushed2
          <6>2. QED
            BY <4>1, <6>1
        <5>2. QED
          BY <4>1, <5>1
      <4>3. k + l + 1 = K + 1
        OBVIOUS
      <4>4. QED
        BY <4>2, <4>3
    <3>4. /\ T \in Readers /\ T.pos = x /\ Len(T.open) = l + 1 /\ T.open[l + 1] = kind
          /\ \A i \in 1 .. l : T.open[i] = s.open[i]
      BY SMTT(60), <1>2, <2>3, <2>5, <3>2, Pushed2
    <3>5. ASSUME NEW i \in 1 .. l + 1 PROVE R.open[k + i] = T.open[i]
      <4>1. CASE i = l + 1
        <5>1. k + i = k + l + 1
          BY <4>1
        <5>2. QED
          BY <3>3, <3>4, <4>1, <5>1
      <4>2. CASE i # l + 1
        <5>1. i \in 1 .. l /\ k + i \in 1 .. k + l
          BY <4>2
        <5>2. QED
          BY <1>3, <3>3, <3>4, <5>1
      <4>3. QED
        BY <4>1, <4>2
    <3>6. \A i \in 1 .. k : R.open[i] = r.open[i]
      BY <3>3
    <3>7. k + l + 1 = k + (l + 1)
      OBVIOUS
    <3>8. Under(T, R, k)
      BY <3>3, <3>4, <3>5, <3>7 DEF Under
    <3>9. QED
      BY <3>1, <3>2, <3>4, <3>6, <3>8
  <2>6. CASE CellAt(m, v) \in {ARRAY_BEGIN, OBJECT_BEGIN}
    <3>1. PICK kind \in Kinds : Passed(m, r, v, v) = Into(r, kind, v + 1) /\ Passed(m, s, v, v) = Into(s, kind, v + 1)
      BY <2>6, PassedArms DEF Kinds
    <3>2. v + 1 \in Nat
      OBVIOUS
    <3>3. QED
      BY <2>5, <3>1, <3>2
  <2>7. CASE CellAt(m, v) \notin {ARRAY_BEGIN, OBJECT_BEGIN}
    <3>1. PICK x : Passed(m, r, v, v) = Reader(x, r.open) /\ Passed(m, s, v, v) = Reader(x, s.open)
      <4>1. CASE CellAt(m, v) = U8
        BY <4>1, PassedArms
      <4>2. CASE CellAt(m, v) = COLUMN_U8
        BY <4>2, PassedArms
      <4>3. CASE CellAt(m, v) \notin {U8, COLUMN_U8}
        BY SMTT(60), <2>7, <4>3, PassedArms
      <4>4. QED
        BY <4>1, <4>2, <4>3
    <3>2. x \in Nat
      <4>1. Passed(m, r, v, v) \in Readers
        BY PassedForward
      <4>2. QED
        BY SMTT(60), <3>1, <4>1, ReaderFields, ReaderIs
    <3>3. QED
      BY <2>4, <3>1, <3>2
  <2>8. QED
    BY <2>6, <2>7
<1>7. QED
  BY <1>5, <1>6 DEF Sound

(* All places from R up to B are in more than k containers.                *)
Inside(P, R, B, k) == \A t \in P : R.pos <= t.pos /\ t.pos < B.pos => Len(t.open) > k

LEMMA InsideStep ==
  ASSUME NEW m \in Seq(Nat), NEW P, Places(m, P), NEW R \in P, NEW r \in P, NEW k \in Nat, Inside(P, R, r, k),
         r.open # <<>>, Len(r.open) > k
  PROVE  Inside(P, R, Step(m, r), k)
<1>1. SUFFICES ASSUME NEW t \in P, R.pos <= t.pos, t.pos < Step(m, r).pos PROVE Len(t.open) > k
  BY DEF Inside
<1>2. PICK x \in Nat, y \in Nat, n \in Nat : x = t.pos /\ y = r.pos /\ n = Step(m, r).pos
  <2>1. t.pos \in Nat /\ r.pos \in Nat /\ Step(m, r).pos \in Nat
    BY PlaceType
  <2>2. QED
    BY <2>1
<1>3. CASE x < y
  BY <1>1, <1>2, <1>3 DEF Inside
<1>4. CASE x = y
  <2>1. t = r
    BY <1>2, <1>4 DEF Places
  <2>2. QED
    BY <2>1
<1>5. CASE y < x
  <2>1. n <= x
    BY <1>2, <1>5 DEF Places
  <2>2. QED
    BY <1>1, <1>2, <2>1
<1>6. QED
  BY <1>2, <1>3, <1>4, <1>5


(* Reading on from what a place reads, in as many of its containers as are *)
(* to be left, ends at a place in those that are not.                      *)
LEMMA Exit ==
  ASSUME NEW m \in Seq(Nat), NEW P, Places(m, P), NEW R \in P, NEW s0 \in Readers, NEW k \in Nat, Under(s0, R, k)
  PROVE  \E B \in P :
            /\ B.pos = ReadOn(m, s0) /\ Len(B.open) = k /\ \A i \in 1 .. k : B.open[i] = R.open[i]
            /\ R.pos <= B.pos /\ (s0.open # <<>> => R.pos < B.pos)
            /\ Inside(P, R, B, k)
<1> DEFINE Reads(s, r) == /\ Under(s, r, k) /\ R.pos <= r.pos /\ (s = s0 \/ R.pos < r.pos)
                          /\ \A i \in 1 .. k : r.open[i] = R.open[i]
                          /\ Inside(P, R, r, k)
<1>1. PICK S : S = {s \in Readers : \E r \in P : Reads(s, r)}
  OBVIOUS
<1>2. R \in Readers /\ R.pos \in Nat /\ Len(m) \in Nat
  BY PlaceType
<1>3. s0 \in S
  <2>1. Inside(P, R, R, k)
    <3>1. \A t \in P : t.pos \in Nat
      BY PlaceType
    <3>2. QED
      BY <1>2, <3>1 DEF Inside
  <2>2. QED
    BY <1>1, <1>2, <2>1
<1>4. ASSUME NEW s \in S PROVE s \in Readers /\ s.pos \in Nat /\ s.open \in Seq(Kinds)
  BY <1>1, ReaderIs
<1>5. ASSUME NEW s \in S, s.open # <<>>
      PROVE  /\ Step(m, s) \in S /\ s.pos < Step(m, s).pos /\ s.pos < Len(m) /\ Step(m, s).pos \in Nat
  <2>1. PICK r \in P : Reads(s, r)
    BY <1>1
  <2>2. r \in Readers /\ r.pos \in Nat /\ s.pos = r.pos /\ Len(r.open) = k + Len(s.open) /\ r.open \in Seq(Kinds)
    BY <2>1, PlaceType DEF Under
  <2>3. Len(s.open) > 0
    BY <1>4, <1>5
  <2>4. r.open # <<>>
    <3>1. PICK l \in Nat : l = Len(s.open) /\ l > 0
      BY <1>4, <2>3
    <3>2. Len(r.open) # 0
      BY <2>2, <3>1
    <3>3. QED
      BY <2>2, <3>2
  <2>5. Sound(m, r) /\ Step(m, r) \in P /\ r.pos < Step(m, r).pos /\ r.pos < Len(m) /\ Step(m, r).pos \in Nat
    BY <2>4, PlaceType
  <2>6. /\ Step(m, s) \in Readers /\ Under(Step(m, s), Step(m, r), k)
        /\ \A i \in 1 .. k : Step(m, r).open[i] = r.open[i]
    BY <1>4, <1>5, <2>1, <2>2, <2>5, StepUnder
  <2>7. Step(m, s).pos = Step(m, r).pos
    BY <2>6 DEF Under
  <2>8. R.pos < Step(m, r).pos
    BY <1>2, <2>1, <2>2, <2>5
  <2>8a. Inside(P, R, Step(m, r), k)
    <3>1. PICK l \in Nat : l = Len(s.open) /\ l > 0
      BY <1>4, <2>3
    <3>2. Len(r.open) > k
      BY <2>2, <3>1
    <3>3. QED
      BY <2>1, <2>4, <3>2, InsideStep
  <2>9. Reads(Step(m, s), Step(m, r))
    BY <1>2, <2>1, <2>5, <2>6, <2>8, <2>8a
  <2>10. Step(m, s) \in S
    BY <1>1, <2>5, <2>6, <2>9
  <2>11. QED
    BY <2>2, <2>5, <2>7, <2>10
<1>6. ASSUME NEW s \in S PROVE Step(m, s) \in S
  <2>1. CASE s.open = <<>>
    BY <2>1 DEF Step
  <2>2. CASE s.open # <<>>
    BY <2>2, <1>5
  <2>3. QED
    BY <2>1, <2>2
<1>7. PICK N \in Nat : N = Len(m)
  BY <1>2
<1>8. PICK f \in [0 .. N -> S] :
        f[0] = s0 /\ (\A n \in 1 .. N : f[n] = Step(m, f[n - 1])) /\ ReadOn(m, s0) = f[N].pos
  BY <1>3, <1>6, <1>7, ReadOnIs
<1>9. PICK D : D = {n \in 0 .. N : f[n].open = <<>>}
  OBVIOUS
<1>10. PICK w : w = [n \in 0 .. N |-> f[n].pos]
  OBVIOUS
<1>11. ASSUME NEW n \in 0 .. N PROVE w[n] \in Nat /\ f[n] \in S
  BY <1>4, <1>10
<1>12. ASSUME NEW n \in 1 .. N PROVE (n - 1 \in D => n \in D) /\ (n \notin D => w[n - 1] < w[n])
  <2>1. PICK j \in 0 .. N : j = n - 1 /\ n \in 0 .. N
    OBVIOUS
  <2>2. f[n] = Step(m, f[j]) /\ f[j] \in S
    BY <1>8, <2>1
  <2>3. CASE f[j].open = <<>>
    <3>1. f[n] = f[j]
      BY <2>2, <2>3 DEF Step
    <3>2. n \in D
      BY <1>9, <2>1, <2>3, <3>1
    <3>3. QED
      BY <3>2
  <2>4. CASE f[j].open # <<>>
    <3>1. f[j].pos < f[n].pos
      BY <1>5, <2>2, <2>4
    <3>2. j \notin D
      BY <1>9, <2>4
    <3>3. QED
      BY <1>10, <2>1, <3>1, <3>2
  <2>5. QED
    BY <2>3, <2>4
<1>13. ASSUME NEW n \in 0 .. N, n \notin D PROVE w[n] < N
  <2>1. f[n].open # <<>> /\ f[n] \in S
    BY <1>9, <1>13
  <2>2. f[n].pos < N
    BY <1>5, <1>7, <2>1
  <2>3. QED
    BY <1>10, <2>2
<1>14. N \in D
  BY <1>11, <1>12, <1>13, DoneAtLast
<1>15. N \in 0 .. N
  OBVIOUS
<1>16. f[N].open = <<>> /\ f[N] \in S
  BY <1>9, <1>14, <1>15
<1>17. PICK B \in P : Reads(f[N], B)
  BY <1>1, <1>16
<1>18. Len(B.open) = k /\ B.pos = f[N].pos
  <2>1. Len(B.open) = k + Len(f[N].open) /\ Len(f[N].open) = 0
    BY <1>16, <1>17 DEF Under
  <2>2. QED
    BY <1>17, <2>1 DEF Under
<1>19. s0.open # <<>> => R.pos < B.pos
  BY <1>16, <1>17
<1>20. QED
  BY <1>8, <1>17, <1>18, <1>19

(* The same number of the same containers.                                 *)
LEMMA SameOpen ==
  ASSUME NEW a \in Seq(Kinds), NEW b \in Seq(Kinds), Len(a) = Len(b), \A i \in 1 .. Len(a) : a[i] = b[i]
  PROVE  a = b
  OBVIOUS

(* Behind a field and all that it contains.                                *)
LEMMA FieldExit ==
  ASSUME NEW m \in Seq(Nat), NEW P, Places(m, P), NEW A \in P, A.open # <<>>, Holding(m, A)
  PROVE  \E B \in P :
            /\ B.pos = FieldEnd(m, ValueAt(A), ValueAt(A)) /\ B.open = A.open
            /\ Step(m, A).pos <= B.pos
            /\ Inside(P, Step(m, A), B, Len(A.open))
<1>1. A \in Readers /\ A.open \in Seq(Kinds) /\ Step(m, A) \in P /\ Step(m, A) \in Readers
  BY PlaceType
<1>2. PICK v \in Nat : v = ValueAt(A) /\ Step(m, A) = Passed(m, A, v, v)
  BY <1>1, HoldingStep DEF Holding
<1>3. PICK k \in Nat : k = Len(A.open)
  BY <1>1
<1>4. PICK r0 : r0 = Reader(v, <<>>)
  OBVIOUS
<1>5. r0 \in Readers /\ r0.open = <<>> /\ Len(r0.open) = 0
  <2>1. <<>> \in Seq(Kinds) /\ 0 <= v
    OBVIOUS
  <2>2. r0 \in Readers /\ r0.open = <<>>
    BY <1>4, <2>1, ReaderType, ReaderFields
  <2>3. QED
    BY <2>2
<1>50. r0 \in Readers
  BY <1>5
<1>6. PICK s0 : s0 = Passed(m, r0, v, v)
  OBVIOUS
<1>7. PICK R \in P : R = Step(m, A)
  BY <1>1
<1>8. s0 \in Readers
  BY <1>5, <1>6, PassedForward
<1>9. ASSUME NEW x, Passed(m, A, v, v) = Reader(x, A.open), Passed(m, r0, v, v) = Reader(x, r0.open)
      PROVE  Under(s0, R, k) /\ \A i \in 1 .. k : R.open[i] = A.open[i]
  <2>1. R.pos = x /\ R.open = A.open /\ s0.pos = x /\ s0.open = <<>>
    BY <1>2, <1>5, <1>6, <1>7, <1>9, ReaderFields
  <2>2. Len(s0.open) = 0
    BY <2>1
  <2>3. QED
    BY <1>3, <2>1, <2>2 DEF Under
<1>10. ASSUME NEW x \in Nat, NEW kind \in Kinds, Passed(m, A, v, v) = Into(A, kind, x), Passed(m, r0, v, v) = Into(r0, kind, x)
      PROVE  Under(s0, R, k) /\ \A i \in 1 .. k : R.open[i] = A.open[i]
  <2>1. /\ Into(A, kind, x).pos = x /\ Len(Into(A, kind, x).open) = Len(A.open) + 1
        /\ Into(A, kind, x).open[Len(A.open) + 1] = kind
        /\ \A i \in 1 .. Len(A.open) : Into(A, kind, x).open[i] = A.open[i]
    BY <1>1, Pushed2
  <2>2. /\ Into(r0, kind, x).pos = x /\ Len(Into(r0, kind, x).open) = Len(r0.open) + 1
        /\ Into(r0, kind, x).open[Len(r0.open) + 1] = kind
    BY <1>50, Pushed2
  <2>3. R = Into(A, kind, x) /\ s0 = Into(r0, kind, x)
    BY <1>2, <1>6, <1>7, <1>10
  <2>4. R.pos = x /\ Len(R.open) = k + 1 /\ R.open[k + 1] = kind /\ \A i \in 1 .. k : R.open[i] = A.open[i]
    BY <1>3, <2>1, <2>3
  <2>5. s0.pos = x /\ Len(s0.open) = 1 /\ s0.open[1] = kind
    BY <1>5, <2>2, <2>3
  <2>6. \A i \in 1 .. 1 : R.open[k + i] = s0.open[i]
    BY <2>4, <2>5
  <2>7. QED
    BY <2>4, <2>5, <2>6 DEF Under
<1>11. Under(s0, R, k) /\ \A i \in 1 .. k : R.open[i] = A.open[i]
  <2>1. CASE CellAt(m, v) \in {ARRAY_BEGIN, OBJECT_BEGIN}
    <3>1. PICK kind \in Kinds : Passed(m, A, v, v) = Into(A, kind, v + 1) /\ Passed(m, r0, v, v) = Into(r0, kind, v + 1)
      BY <2>1, PassedArms DEF Kinds
    <3>2. v + 1 \in Nat
      OBVIOUS
    <3>3. QED
      BY <1>10, <3>1, <3>2
  <2>2. CASE CellAt(m, v) \notin {ARRAY_BEGIN, OBJECT_BEGIN}
    <3>1. PICK x : Passed(m, A, v, v) = Reader(x, A.open) /\ Passed(m, r0, v, v) = Reader(x, r0.open)
      <4>1. CASE CellAt(m, v) = U8
        BY SMTT(60), <4>1, PassedArms
      <4>2. CASE CellAt(m, v) = COLUMN_U8
        <5>1. PICK c : c = ColumnAt(m, v).payload + ColumnAt(m, v).cap
          OBVIOUS
        <5>2. Passed(m, A, v, v) = Reader(c, A.open) /\ Passed(m, r0, v, v) = Reader(c, r0.open)
          BY <4>2, <5>1, PassedArms
        <5>3. QED
          BY <5>2
      <4>3. CASE CellAt(m, v) \notin {U8, COLUMN_U8}
        <5>1. Passed(m, A, v, v) = Reader(v + 1, A.open) /\ Passed(m, r0, v, v) = Reader(v + 1, r0.open)
          <6>1. CellAt(m, v) \notin {ARRAY_BEGIN, OBJECT_BEGIN, U8, COLUMN_U8}
            BY <2>2, <4>3
          <6>2. QED
            BY <6>1, PassedArms
        <5>2. QED
          BY <5>1
      <4>4. QED
        BY <4>1, <4>2, <4>3
    <3>2. QED
      BY <1>9, <3>1
  <2>3. QED
    BY <2>1, <2>2
<1>12. PICK B \in P : /\ B.pos = ReadOn(m, s0) /\ Len(B.open) = k /\ (\A i \in 1 .. k : B.open[i] = R.open[i])
                      /\ R.pos <= B.pos /\ Inside(P, R, B, k)
  BY <1>8, <1>11, Exit
<1>13. B.open \in Seq(Kinds)
  BY PlaceType
<1>14. B.open = A.open
  BY <1>1, <1>3, <1>11, <1>12, <1>13, SameOpen
<1>15. ReadOn(m, s0) = FieldEnd(m, ValueAt(A), ValueAt(A))
  BY <1>2, <1>4, <1>6 DEF FieldEnd
<1>16. QED
  BY <1>3, <1>7, <1>12, <1>14, <1>15

(* Behind the end of the container that a place is in.                     *)
LEMMA ContainerExit ==
  ASSUME NEW m \in Seq(Nat), NEW P, Places(m, P), NEW A \in P, A.open # <<>>
  PROVE  \E B \in P :
            /\ B.pos = ContainerEndAt(m, A.pos, Kind(A)) /\ Len(B.open) = Len(A.open) - 1
            /\ \A i \in 1 .. Len(A.open) - 1 : B.open[i] = A.open[i]
            /\ A.pos < B.pos
<1>1. A \in Readers /\ A.open \in Seq(Kinds) /\ A.pos \in Nat
  BY PlaceType
<1>2. PICK k \in Nat : Len(A.open) = k + 1
  <2>1. Len(A.open) \in Nat \ {0}
    BY <1>1
  <2>2. PICK n \in Nat \ {0} : n = Len(A.open)
    BY <2>1
  <2>3. n - 1 \in Nat /\ n = (n - 1) + 1
    BY <2>2
  <2>4. QED
    BY <2>2, <2>3
<1>3. Kind(A) \in Kinds /\ A.open[k + 1] = Kind(A)
  BY <1>1, <1>2, KindType DEF Kind
<1>4. PICK s0 : s0 = Reader(A.pos, <<Kind(A)>>)
  OBVIOUS
<1>5. <<Kind(A)>> \in Seq(Kinds) /\ Len(<<Kind(A)>>) = 1 /\ <<Kind(A)>>[1] = Kind(A) /\ <<Kind(A)>> # <<>>
  BY <1>3
<1>6. s0 \in Readers /\ s0.pos = A.pos /\ s0.open = <<Kind(A)>>
  BY <1>1, <1>4, <1>5, ReaderType, ReaderFields
<1>7. Under(s0, A, k)
  <2>1. \A i \in 1 .. 1 : A.open[k + i] = <<Kind(A)>>[i]
    BY <1>3, <1>5
  <2>2. QED
    BY <1>2, <1>5, <1>6, <2>1 DEF Under
<1>8. PICK B \in P : /\ B.pos = ReadOn(m, s0) /\ Len(B.open) = k /\ (\A i \in 1 .. k : B.open[i] = A.open[i])
                     /\ A.pos <= B.pos /\ (s0.open # <<>> => A.pos < B.pos)
  <2>1. s0 \in Readers
    BY <1>6
  <2>2. QED
    BY <1>7, <2>1, Exit
<1>9. k = Len(A.open) - 1
  BY <1>2
<1>10. QED
  BY <1>4, <1>5, <1>6, <1>8, <1>9 DEF ContainerEndAt

(* The fields of a container that follow each other without a free cell.   *)
NextSlot(m, kind, p) ==
  IF CellAt(m, p) \in {0, IF kind = "array" THEN ARRAY_END ELSE OBJECT_END} THEN p
  ELSE FieldEnd(m, ValueAt(Reader(p, <<kind>>)), ValueAt(Reader(p, <<kind>>)))

LEMMA SlotsEndIs ==
  ASSUME NEW m \in Seq(Nat), NEW S, NEW p \in S, NEW kind, \A s \in S : NextSlot(m, kind, s) \in S
  PROVE  \E f \in [0 .. Len(m) -> S] :
            /\ f[0] = p
            /\ \A n \in 1 .. Len(m) : f[n] = NextSlot(m, kind, f[n - 1])
            /\ SlotsEnd(m, p, kind) = f[Len(m)]
<1>1. PICK L \in Nat : L = Len(m)
  OBVIOUS
<1>2. PICK g : g = [s \in S |-> NextSlot(m, kind, s)]
  OBVIOUS
<1>3. g \in [S -> S]
  BY <1>2
<1>4. PICK f \in [0 .. L -> S] : f[0] = p /\ \A n \in 1 .. L : f[n] = g[f[n - 1]]
  <2>1. PICK f \in [0 .. L -> S] : Repeats(f, g, p, L)
    BY <1>3, Iterated
  <2>2. QED
    BY <2>1 DEF Repeats
<1>5. ASSUME NEW n \in 1 .. L PROVE f[n] = NextSlot(m, kind, f[n - 1])
  <2>1. f[n - 1] \in S
    <3>1. n - 1 \in 0 .. L
      OBVIOUS
    <3>2. QED
      BY <3>1
  <2>2. QED
    BY <1>2, <1>4, <2>1
<1>6. f = [n \in 0 .. L |-> IF n = 0 THEN p ELSE NextSlot(m, kind, f[n - 1])]
  <2>1. \A n \in 0 .. L : f[n] = IF n = 0 THEN p ELSE NextSlot(m, kind, f[n - 1])
    <3>1. SUFFICES ASSUME NEW n \in 0 .. L PROVE f[n] = IF n = 0 THEN p ELSE NextSlot(m, kind, f[n - 1])
      OBVIOUS
    <3>2. CASE n = 0
      BY <1>4, <3>2
    <3>3. CASE n # 0
      <4>1. n \in 1 .. L
        BY <3>3
      <4>2. QED
        BY <1>5, <3>3, <4>1
    <3>4. QED
      BY <3>2, <3>3
  <2>2. QED
    BY <2>1
<1>7. PICK h : h = CHOOSE h1 : h1 = [n \in 0 .. L |-> IF n = 0 THEN p ELSE NextSlot(m, kind, h1[n - 1])]
  OBVIOUS
<1>8. h = [n \in 0 .. L |-> IF n = 0 THEN p ELSE NextSlot(m, kind, h[n - 1])]
  BY <1>6, <1>7, Zenon
<1>9. SlotsEnd(m, p, kind) = h[L]
  BY <1>1, <1>7, Zenon DEF SlotsEnd, NextSlot
<1>10. \A n \in 0 .. L : f[n] = h[n]
  <2>1. f[0] = h[0]
    <3>1. 0 \in 0 .. L
      OBVIOUS
    <3>2. h[0] = p
      BY <1>8, <3>1
    <3>3. QED
      BY <1>4, <3>2
  <2>2. ASSUME NEW n \in 1 .. L, f[n - 1] = h[n - 1] PROVE f[n] = h[n]
    <3>1. n \in 0 .. L /\ n # 0
      OBVIOUS
    <3>2. h[n] = NextSlot(m, kind, h[n - 1])
      BY <1>8, <3>1
    <3>3. QED
      BY <1>5, <2>2, <3>2
  <2>3. Alike(f, h, L)
    BY <2>1, <2>2 DEF Alike
  <2>4. QED
    BY <2>3, SameIterates
<1>11. L \in 0 .. L
  OBVIOUS
<1>12. SlotsEnd(m, p, kind) = f[L]
  BY <1>9, <1>10, <1>11
<1>13. QED
  BY <1>1, <1>4, <1>5, <1>12

(* From A up to E no free cell is met but in containers within.             *)
Filled(m, P, A, E) ==
  \A t \in P : A.pos <= t.pos /\ t.pos < E.pos /\ CellAt(m, t.pos) = 0 => Len(t.open) > Len(A.open)

LEMMA FilledStep ==
  ASSUME NEW m \in Seq(Nat), NEW P, Places(m, P), NEW A \in P, NEW E \in P, Filled(m, P, A, E),
         E.open = A.open, E.open # <<>>, CellAt(m, E.pos) # 0, NEW B, Inside(P, Step(m, E), B, Len(E.open))
  PROVE  Filled(m, P, A, B)
<1>1. SUFFICES ASSUME NEW t \in P, A.pos <= t.pos, t.pos < B.pos, CellAt(m, t.pos) = 0 PROVE Len(t.open) > Len(A.open)
  BY DEF Filled
<1>2. PICK x \in Nat, y \in Nat, n \in Nat : x = t.pos /\ y = E.pos /\ n = Step(m, E).pos
  <2>1. t.pos \in Nat /\ E.pos \in Nat /\ Step(m, E).pos \in Nat
    BY PlaceType
  <2>2. QED
    BY <2>1
<1>3. CASE x < y
  BY <1>1, <1>2, <1>3 DEF Filled
<1>4. CASE x = y
  BY <1>1, <1>2, <1>4
<1>5. CASE y < x
  <2>1. n <= x
    BY <1>2, <1>5 DEF Places
  <2>2. Len(t.open) > Len(E.open)
    BY <1>1, <1>2, <2>1 DEF Inside
  <2>3. QED
    BY <2>2
<1>6. QED
  BY <1>2, <1>3, <1>4, <1>5

LEMMA SlotsExit ==
  ASSUME NEW m \in Seq(Nat), NEW P, Places(m, P), NEW A \in P, A.open # <<>>
  PROVE  \E E \in P : /\ E.open = A.open /\ E.pos = SlotsEnd(m, A.pos, Kind(A)) /\ Ending(m, E) /\ A.pos <= E.pos
                      /\ Filled(m, P, A, E)
<1>1. PICK S : S = {p \in Nat : \E E \in P : E.pos = p /\ E.open = A.open /\ A.pos <= p /\ Filled(m, P, A, E)}
  OBVIOUS
<1>2. A \in Readers /\ A.pos \in Nat /\ Len(m) \in Nat
  BY PlaceType
<1>3. A.pos \in S
  <2>1. Filled(m, P, A, A)
    <3>1. \A t \in P : t.pos \in Nat
      BY PlaceType
    <3>2. QED
      BY <1>2, <3>1 DEF Filled
  <2>2. QED
    BY <1>1, <1>2, <2>1
<1>4. PICK kind : kind = Kind(A)
  OBVIOUS
<1>5. PICK end : end = IF kind = "array" THEN ARRAY_END ELSE OBJECT_END
  OBVIOUS
<1>6. ASSUME NEW p \in S, CellAt(m, p) \notin {0, end}
      PROVE  NextSlot(m, kind, p) \in S /\ p < NextSlot(m, kind, p) /\ p < Len(m)
  <2>1. PICK E \in P : E.pos = p /\ E.open = A.open /\ A.pos <= p /\ Filled(m, P, A, E)
    BY <1>1
  <2>2. E \in Readers /\ E.open # <<>> /\ Sound(m, E) /\ E.pos < Step(m, E).pos /\ E.pos < Len(m) /\ Step(m, E).pos \in Nat /\ p \in Nat
    BY <2>1, PlaceType
  <2>3. Kind(E) = kind /\ EndMarker(E) = end
    BY <1>4, <1>5, <2>1 DEF Kind, EndMarker
  <2>4. ~Ending(m, E)
    <3>1. SUFFICES ASSUME NEW q, Free(m, p, q), CellAt(m, q) = end PROVE FALSE
      BY <2>1, <2>3 DEF Ending
    <3>2. CASE q = p
      BY <1>6, <3>1, <3>2
    <3>3. CASE q # p
      BY <1>6, <2>2, <3>1, <3>3 DEF Free
    <3>4. QED
      BY <3>2, <3>3
  <2>5. Holding(m, E)
    BY <2>2, <2>4 DEF Sound
  <2>6. PICK B \in P : /\ B.pos = FieldEnd(m, ValueAt(E), ValueAt(E)) /\ B.open = E.open
                       /\ Step(m, E).pos <= B.pos /\ Inside(P, Step(m, E), B, Len(E.open))
    BY <2>2, <2>5, FieldExit
  <2>7. B.pos \in Nat
    BY PlaceType
  <2>8. NextSlot(m, kind, p) = B.pos
    <3>1. ValueAt(Reader(p, <<kind>>)) = ValueAt(E)
      <4>1. Kind(Reader(p, <<kind>>)) = kind
        <5>1. Len(<<kind>>) = 1 /\ <<kind>>[1] = kind
          OBVIOUS
        <5>2. QED
          BY ZenonT(60), <5>1, ReaderFields DEF Kind
      <4>2. QED
        BY <2>1, <2>3, <4>1, ReaderFields DEF ValueAt
    <3>2. NextSlot(m, kind, p) = FieldEnd(m, ValueAt(Reader(p, <<kind>>)), ValueAt(Reader(p, <<kind>>)))
      BY <1>5, <1>6 DEF NextSlot
    <3>3. QED
      BY <2>6, <3>1, <3>2
  <2>9. p < B.pos /\ A.pos <= B.pos
    BY <1>2, <2>1, <2>2, <2>6, <2>7
  <2>9a. Filled(m, P, A, B)
    <3>1. CellAt(m, E.pos) # 0
      BY <1>6, <2>1
    <3>2. QED
      BY <2>1, <2>2, <2>6, <3>1, FilledStep
  <2>10. B.pos \in S
    BY <1>1, <2>1, <2>6, <2>7, <2>9, <2>9a
  <2>11. QED
    BY <2>1, <2>2, <2>8, <2>9, <2>10
<1>7. ASSUME NEW p \in S PROVE NextSlot(m, kind, p) \in S
  <2>1. CASE CellAt(m, p) \in {0, end}
    BY <1>5, <2>1 DEF NextSlot
  <2>2. CASE CellAt(m, p) \notin {0, end}
    BY <2>2, <1>6
  <2>3. QED
    BY <2>1, <2>2
<1>8. PICK N \in Nat : N = Len(m)
  BY <1>2
<1>9. PICK f \in [0 .. N -> S] :
        f[0] = A.pos /\ (\A n \in 1 .. N : f[n] = NextSlot(m, kind, f[n - 1])) /\ SlotsEnd(m, A.pos, kind) = f[N]
  <2>1. PICK a \in S : a = A.pos
    BY <1>3
  <2>2. PICK f \in [0 .. N -> S] :
          f[0] = a /\ (\A n \in 1 .. N : f[n] = NextSlot(m, kind, f[n - 1])) /\ SlotsEnd(m, a, kind) = f[N]
    BY <1>7, <1>8, SlotsEndIs
  <2>3. QED
    BY <2>1, <2>2
<1>10. PICK D : D = {n \in 0 .. N : CellAt(m, f[n]) \in {0, end}}
  OBVIOUS
<1>11. ASSUME NEW n \in 0 .. N PROVE f[n] \in Nat /\ f[n] \in S
  BY <1>1
<1>12. ASSUME NEW n \in 1 .. N PROVE (n - 1 \in D => n \in D) /\ (n \notin D => f[n - 1] < f[n])
  <2>1. PICK j \in 0 .. N : j = n - 1 /\ n \in 0 .. N
    OBVIOUS
  <2>2. f[n] = NextSlot(m, kind, f[j]) /\ f[j] \in S
    BY <1>9, <2>1
  <2>3. CASE CellAt(m, f[j]) \in {0, end}
    <3>1. f[n] = f[j]
      BY <1>5, <2>2, <2>3 DEF NextSlot
    <3>2. n \in D
      BY <1>10, <2>1, <2>3, <3>1
    <3>3. QED
      BY <3>2
  <2>4. CASE CellAt(m, f[j]) \notin {0, end}
    <3>1. f[j] < f[n]
      BY <1>6, <2>2, <2>4
    <3>2. j \notin D
      BY <1>10, <2>4
    <3>3. QED
      BY <2>1, <3>1, <3>2
  <2>5. QED
    BY <2>3, <2>4
<1>13. ASSUME NEW n \in 0 .. N, n \notin D PROVE f[n] < N
  <2>1. CellAt(m, f[n]) \notin {0, end} /\ f[n] \in S
    BY <1>10, <1>13
  <2>2. QED
    BY <1>6, <1>8, <2>1
<1>14. N \in D
  BY <1>11, <1>12, <1>13, DoneAtLast
<1>15. N \in 0 .. N
  OBVIOUS
<1>16. CellAt(m, f[N]) \in {0, end} /\ f[N] \in S
  BY <1>10, <1>14, <1>15
<1>17. PICK E \in P : E.pos = f[N] /\ E.open = A.open /\ A.pos <= E.pos /\ Filled(m, P, A, E)
  BY <1>1, <1>16
<1>18. Ending(m, E)
  <2>1. Sound(m, E)
    BY <1>17, PlaceType
  <2>2. EndMarker(E) = end
    BY <1>4, <1>5, <1>17 DEF Kind, EndMarker
  <2>3. ~Holding(m, E)
    BY <1>16, <1>17, <2>2 DEF Holding
  <2>4. QED
    BY <2>1, <2>3 DEF Sound
<1>19. QED
  BY <1>4, <1>9, <1>17, <1>18

-----------------------------------------------------------------------------
(***************************************************************************)
(* Writing at a place: a field, a container, or nothing any more.           *)
(***************************************************************************)

LEMMA PlaceFree ==
  ASSUME NEW m \in Seq(Nat), NEW P, Places(m, P), NEW B \in P, B.open # <<>>
  PROVE  \E q : Free(m, B.pos, q)
<1>1. Sound(m, B) /\ B \in Readers
  BY PlaceType
<1>2. CASE Ending(m, B)
  BY <1>2 DEF Ending
<1>3. CASE Holding(m, B)
  <2>1. Free(m, B.pos, B.pos)
    BY <1>1, <1>3, HoldingStep DEF Holding
  <2>2. QED
    BY <2>1
<1>4. QED
  BY <1>1, <1>2, <1>3 DEF Sound

(* Before anything has been replaced.                                      *)
LEMMA Untouched ==
  ASSUME NEW m \in Seq(Nat), NEW P, Places(m, P), NEW A \in P, NEW B \in P, B.open # <<>>, A.pos <= B.pos
  PROVE  \E q : Free(m, B.pos, q) /\ Replaced(m, m, A.pos, B.pos, B.pos, q, 0)
<1>1. PICK q : Free(m, B.pos, q)
  BY PlaceFree
<1>2. A.pos \in Nat /\ B.pos \in Nat
  BY PlaceType
<1>3. PICK a \in Nat, b \in Nat : a = A.pos /\ b = B.pos
  BY <1>2
<1>4. Replaced(m, m, a, b, b, q, 0)
  BY <1>1, <1>3, Unchanged
<1>5. QED
  BY <1>1, <1>3, <1>4

LEMMA PathOne ==
  ASSUME NEW m, NEW A \in Readers
  PROVE  Path(m, A, A.pos, {A})
<1>1. A.pos \in Nat
  BY ReaderIs
<1>2. QED
  BY <1>1 DEF Path

LEMMA PathTwo ==
  ASSUME NEW m \in Seq(Nat), NEW A \in Readers, Sound(m, A)
  PROVE  Path(m, A, Step(m, A).pos, {A, Step(m, A)})
<1>1. PICK E : E = Step(m, A)
  OBVIOUS
<1>2. E \in Readers /\ A.pos < E.pos /\ A.pos \in Nat /\ E.pos \in Nat
  BY <1>1, Forward, ReaderIs
<1>3. PICK N : N = {A, E}
  OBVIOUS
<1>4. \A s \in N : s = A \/ s = E
  BY <1>3
<1>5. N \subseteq Readers /\ A \in N /\ E \in N
  BY <1>2, <1>3
<1>6. \A s \in N : A.pos <= s.pos /\ s.pos <= E.pos
  BY <1>2, <1>4
<1>7. \A s \in N : s.pos < E.pos => Sound(m, s) /\ Step(m, s) \in N
  BY <1>1, <1>2, <1>4, <1>5
<1>8. \A s, t \in N : s.pos < t.pos => Step(m, s).pos <= t.pos
  BY SMTT(60), <1>1, <1>2, <1>4
<1>9. \A s, t \in N : s.pos = t.pos => s = t
  BY <1>2, <1>4
<1>10. Path(m, A, E.pos, N)
  BY <1>5, <1>6, <1>7, <1>8, <1>9 DEF Path
<1>11. QED
  BY <1>1, <1>3, <1>10

LEMMA PathThree ==
  ASSUME NEW m \in Seq(Nat), NEW A \in Readers, NEW I, NEW E, Sound(m, A), I = Step(m, A), Sound(m, I), E = Step(m, I)
  PROVE  Path(m, A, E.pos, {A, I, E})
<1>2. I \in Readers /\ A.pos < I.pos /\ A.pos \in Nat /\ I.pos \in Nat
  BY Forward, ReaderIs
<1>0. E \in Readers /\ I.pos < E.pos /\ E.pos \in Nat
  BY <1>2, Forward, ReaderIs
<1>3. PICK N : N = {A, I, E}
  OBVIOUS
<1>4. \A s \in N : s = A \/ s = I \/ s = E
  BY <1>3
<1>5. N \subseteq Readers /\ A \in N /\ I \in N /\ E \in N
  BY <1>0, <1>2, <1>3
<1>60. A.pos < E.pos
  BY <1>0, <1>2
<1>6. \A s \in N : A.pos <= s.pos /\ s.pos <= E.pos
  BY <1>0, <1>2, <1>4, <1>60
<1>7. \A s \in N : s.pos < E.pos => Sound(m, s) /\ Step(m, s) \in N
  BY <1>0, <1>2, <1>4, <1>5
<1>8. \A s, t \in N : s.pos < t.pos => Step(m, s).pos <= t.pos
  <2>1. SUFFICES ASSUME NEW s \in N, NEW t \in N, s.pos < t.pos PROVE Step(m, s).pos <= t.pos
    OBVIOUS
  <2>2. CASE s = A
    <3>1. t = I \/ t = E
      BY <1>2, <1>4, <2>1, <2>2
    <3>2. QED
      BY <1>0, <1>2, <2>2, <3>1
  <2>3. CASE s = I
    <3>1. t = E
      BY <1>0, <1>2, <1>4, <2>1, <2>3
    <3>2. QED
      BY <1>0, <2>3, <3>1
  <2>4. CASE s = E
    BY <1>0, <1>2, <1>4, <1>60, <2>1, <2>4
  <2>5. QED
    BY <1>4, <2>2, <2>3, <2>4
<1>9. \A s, t \in N : s.pos = t.pos => s = t
  BY <1>0, <1>2, <1>4, <1>60
<1>10. Path(m, A, E.pos, N)
  BY <1>5, <1>6, <1>7, <1>8, <1>9 DEF Path
<1>11. QED
  BY <1>3, <1>10

(* A field that ends at e stands at A, in the container that B is in.      *)
Spans(m1, A, B, e) == /\ A.open = B.open /\ B.open # <<>>
                      /\ Sound(m1, A) /\ Step(m1, A) = Reader(e, A.open)

(* A field has taken the place of what was between A and B.                *)
LEMMA FieldPlaced ==
  ASSUME NEW m \in Seq(Nat), NEW P, Places(m, P), NEW A \in P, NEW B \in P,
         NEW m1, NEW g, NEW q, NEW d, Replaced(m, m1, A.pos, B.pos, g, q, d),
         NEW e, EndsAt(m, m1, A.pos, B, g, e), Spans(m1, A, B, e)
  PROVE  \E P1 : Places(m1, P1) /\ A \in P1 /\ Reader(e, A.open) \in P1 /\ Keeps(P, P1, A.pos)
<1>1. m1 \in Seq(Nat) /\ A \in Readers
  BY PlaceType, ReplacedType
<1>2. PICK N : N = {A, Reader(e, A.open)}
  OBVIOUS
<1>3. Path(m1, A, e, N)
  <2>1. Step(m1, A).pos = e
    BY ReaderFields DEF Spans
  <2>2. Path(m1, A, Step(m1, A).pos, {A, Step(m1, A)})
    BY <1>1, PathTwo DEF Spans
  <2>3. QED
    BY <1>2, <2>1, <2>2 DEF Spans
<1>4. Reader(e, B.open) \in N /\ B.open # <<>>
  BY <1>2 DEF Spans
<1>5. PICK P1 : Places(m1, P1) /\ N \subseteq P1 /\ Keeps(P, P1, A.pos)
  <2>1. Rebuilt(m, m1, A, B, g, q, d, e, N)
    BY <1>3, <1>4 DEF Rebuilt
  <2>2. QED
    BY <2>1, Respliced
<1>6. A \in P1 /\ Reader(e, A.open) \in P1
  BY <1>2, <1>5
<1>7. QED
  BY <1>5, <1>6

(* An empty container has been put at A.                                   *)
LEMMA ContainerPlaced ==
  ASSUME NEW m \in Seq(Nat), NEW P, Places(m, P), NEW A \in P, A.open # <<>>,
         NEW m1, NEW e, NEW q, NEW d, Replaced(m, m1, A.pos, A.pos, e, q, d),
         NEW I, Sound(m1, A), I = Step(m1, A), Sound(m1, I), Step(m1, I) = Reader(e, A.open)
  PROVE  \E P1 : Places(m1, P1) /\ A \in P1 /\ I \in P1 /\ Keeps(P, P1, A.pos)
<1>1. m1 \in Seq(Nat) /\ A \in Readers /\ e \in Nat
  BY PlaceType, ReplacedType
<1>2. PICK N : N = {A, I, Reader(e, A.open)}
  OBVIOUS
<1>3. Path(m1, A, e, N)
  <2>1. Step(m1, I).pos = e
    BY ReaderFields
  <2>2. PICK E : E = Step(m1, I)
    OBVIOUS
  <2>3. Path(m1, A, E.pos, {A, I, E})
    BY <1>1, <2>2, PathThree
  <2>4. QED
    BY <1>2, <2>1, <2>2, <2>3
<1>4. Reader(e, A.open) \in N
  BY <1>2
<1>5. EndsAt(m, m1, A.pos, A, e, e)
  BY <1>1 DEF EndsAt
<1>6. PICK P1 : Places(m1, P1) /\ N \subseteq P1 /\ Keeps(P, P1, A.pos)
  <2>1. Rebuilt(m, m1, A, A, e, q, d, e, N)
    BY <1>3, <1>4, <1>5 DEF Rebuilt
  <2>2. QED
    BY <2>1, Respliced
<1>7. A \in P1 /\ I \in P1
  BY <1>2, <1>6
<1>8. QED
  BY <1>6, <1>7

(* What was between A and B is gone.                                       *)
LEMMA NothingPlaced ==
  ASSUME NEW m \in Seq(Nat), NEW P, Places(m, P), NEW A \in P, NEW B \in P, B.open # <<>>, A.open = B.open,
         NEW m1, NEW q, NEW d, Replaced(m, m1, A.pos, B.pos, A.pos, q, d)
  PROVE  \E P1 : Places(m1, P1) /\ A \in P1 /\ Keeps(P, P1, A.pos)
<1>1. m1 \in Seq(Nat) /\ A \in Readers /\ A.pos \in Nat
  BY PlaceType, ReplacedType
<1>2. PICK N : N = {A}
  OBVIOUS
<1>3. Path(m1, A, A.pos, N)
  BY <1>1, <1>2, PathOne
<1>4. Reader(A.pos, B.open) \in N
  BY <1>1, <1>2, ReaderIs
<1>5. EndsAt(m, m1, A.pos, B, A.pos, A.pos)
  BY <1>1 DEF EndsAt
<1>6. PICK P1 : Places(m1, P1) /\ N \subseteq P1 /\ Keeps(P, P1, A.pos)
  <2>1. PICK e \in Nat : e = A.pos
    BY <1>1
  <2>2. Rebuilt(m, m1, A, B, e, q, d, e, N)
    BY <1>3, <1>4, <1>5, <2>1 DEF Rebuilt
  <2>3. QED
    BY <2>2, Respliced
<1>7. A \in P1
  BY <1>2, <1>6
<1>8. QED
  BY <1>6, <1>7

(* In an object, a field's name starts where the field does.               *)
Entitled(m, A) == Kind(A) = "object" => CellAt(m, A.pos) \notin {0, OBJECT_END}

LEMMA MarkersAreUsed ==
  /\ {NULL, TRUE_, U8, ARRAY_BEGIN, OBJECT_BEGIN, COLUMN_U8} \subseteq Nat
  /\ 0 \notin {NULL, TRUE_, U8, ARRAY_BEGIN, OBJECT_BEGIN, COLUMN_U8}
  /\ ARRAY_END \notin {NULL, TRUE_, U8, ARRAY_BEGIN, OBJECT_BEGIN, COLUMN_U8}
  /\ {NULL, TRUE_} \cap {U8, ARRAY_BEGIN, OBJECT_BEGIN, COLUMN_U8} = {}
  /\ ARRAY_END \in Nat \ {0} /\ OBJECT_END \in Nat \ {0}
  BY DEF NULL, TRUE_, U8, ARRAY_BEGIN, OBJECT_BEGIN, COLUMN_U8, ARRAY_END, OBJECT_END

LEMMA FieldStarts ==
  ASSUME NEW m \in Seq(Nat), NEW A \in Readers, A.open # <<>>, NEW v, v = ValueAt(A), Entitled(m, A),
         CellAt(m, v) \notin {0, ARRAY_END}
  PROVE  /\ CellAt(m, A.pos) \notin {0, EndMarker(A)} /\ Step(m, A) = Passed(m, A, v, v)
         /\ v \in Nat /\ A.pos <= v
<1>1. Kind(A) \in {"array", "object"}
  BY KindType DEF Kinds
<1>2. CASE Kind(A) = "array"
  <2>1. v = A.pos /\ EndMarker(A) = ARRAY_END
    BY <1>2 DEF ValueAt, EndMarker
  <2>2. QED
    BY <2>1, HoldingStep
<1>3. CASE Kind(A) = "object"
  <2>1. EndMarker(A) = OBJECT_END
    BY <1>3 DEF EndMarker
  <2>2. CellAt(m, A.pos) \notin {0, EndMarker(A)}
    BY <1>3, <2>1 DEF Entitled
  <2>3. QED
    BY <2>2, HoldingStep
<1>4. QED
  BY <1>1, <1>2, <1>3

LEMMA FieldSpans ==
  ASSUME NEW m \in Seq(Nat), NEW A \in Readers, A.open # <<>>, NEW v, v = ValueAt(A), Entitled(m, A),
         NEW e, (CellAt(m, v) \in {NULL, TRUE_} /\ e = v + 1) \/ (CellAt(m, v) = U8 /\ e = v + 2),
         e <= Len(m)
  PROVE  Sound(m, A) /\ Step(m, A) = Reader(e, A.open)
<1>1. CellAt(m, v) \notin {0, ARRAY_END, COLUMN_U8}
  BY MarkersAreUsed, MarkersDiffer
<1>2. CellAt(m, A.pos) \notin {0, EndMarker(A)} /\ Step(m, A) = Passed(m, A, v, v)
  BY <1>1, FieldStarts
<1>3. Step(m, A) = Reader(e, A.open)
  <2>1. CASE CellAt(m, v) \in {NULL, TRUE_} /\ e = v + 1
    <3>1. CellAt(m, v) \notin {ARRAY_BEGIN, OBJECT_BEGIN, U8, COLUMN_U8}
      BY <2>1, MarkersAreUsed
    <3>2. QED
      BY <1>2, <2>1, <3>1, PassedArms
  <2>2. CASE CellAt(m, v) = U8 /\ e = v + 2
    BY <1>2, <2>2, PassedArms
  <2>3. QED
    BY <2>1, <2>2
<1>4. Holding(m, A)
  BY <1>1, <1>2, <1>3, ReaderFields DEF Holding
<1>5. QED
  BY <1>3, <1>4 DEF Sound

LEMMA NamePut ==
  ASSUME NEW m \in Seq(Nat), NEW A \in Readers, A.open # <<>>, NEW q, Free(m, A.pos, q),
         NEW m1,
         \/ Kind(A) = "array" /\ m1 = m
         \/ Kind(A) = "object" /\ \E key \in 1 .. Radix - 1 : key # OBJECT_END /\ m1 = WriteUintvar(m, A.pos, key)
  PROVE  (\E d : Replaced(m, m1, A.pos, A.pos, ValueAt(A), q, d)) /\ Entitled(m1, A)
<1>1. PICK a \in Nat : a = A.pos
  BY ReaderIs
<1>2. Replaced(m, m, a, a, a, q, 0)
  BY <1>1, Unchanged
<1>3. CASE Kind(A) = "array" /\ m1 = m
  <2>1. ValueAt(A) = a
    BY <1>1, <1>3 DEF ValueAt
  <2>2. QED
    BY <1>1, <1>2, <1>3, <2>1 DEF Entitled
<1>4. CASE Kind(A) = "object" /\ \E key \in 1 .. Radix - 1 : key # OBJECT_END /\ m1 = WriteUintvar(m, A.pos, key)
  <2>1. PICK key \in 1 .. Radix - 1 : key # OBJECT_END /\ m1 = WriteUintvar(m, A.pos, key)
    BY <1>4
  <2>2. key \in Nat /\ key < Radix /\ key # 0
    BY <2>1, RadixAssumption
  <2>3. PICK z : z = 0
    OBVIOUS
  <2>4. m1 = WriteUintvar(m, a, key) /\ Replaced(m, m, a, a, a, q, z)
    BY <1>1, <1>2, <2>1, <2>3
  <2>5. /\ UintvarAt(m1, a).value = key /\ UintvarAt(m1, a).end = a + 1
        /\ Grown(m, m, m1, a, a, a, UintvarAt(m1, a).end, q)
    BY <2>2, <2>4, CounterPut
  <2>6. PICK e \in Nat : e = a + 1
    OBVIOUS
  <2>7. PICK d : Replaced(m, m1, a, a, e, q, d)
    BY <2>5, <2>6 DEF Grown
  <2>70. m1 \in Seq(Nat)
    BY <2>7, ReplacedType
  <2>8. CellAt(m1, a) = key
    <3>1. CellAt(m1, a) \in Nat
      BY <2>70, CellType
    <3>2. UintvarAt(m1, a).end # a + 2
      BY <2>5
    <3>3. CellAt(m1, a) < Radix
      BY <3>2 DEF UintvarAt
    <3>4. QED
      BY <2>5, <3>3 DEF UintvarAt
  <2>9. ValueAt(A) = a + 1
    BY <1>1, <1>4 DEF ValueAt
  <2>10. Entitled(m1, A)
    BY <1>1, <2>1, <2>2, <2>8 DEF Entitled
  <2>11. QED
    BY <1>1, <2>6, <2>7, <2>9, <2>10
<1>5. QED
  BY <1>3, <1>4

Scalars == {<<NULL>>, <<TRUE_>>} \cup {<<U8, x>> : x \in Nat}

LEMMA ScalarIs ==
  ASSUME NEW cells \in Scalars
  PROVE  /\ cells \in Seq(Nat)
         /\ (cells[1] \in {NULL, TRUE_} /\ Len(cells) = 1) \/ (cells[1] = U8 /\ Len(cells) = 2)
<1>1. CASE cells \in {<<NULL>>, <<TRUE_>>}
  <2>1. PICK x \in Nat : cells = <<x>> /\ x \in {NULL, TRUE_}
    BY <1>1, MarkersAreUsed
  <2>2. cells \in Seq(Nat) /\ cells[1] = x /\ Len(cells) = 1
    BY <2>1
  <2>3. QED
    BY <2>1, <2>2
<1>2. CASE cells \in {<<U8, x>> : x \in Nat}
  <2>1. PICK x \in Nat, u \in Nat : cells = <<u, x>> /\ u = U8
    BY <1>2, MarkersAreUsed
  <2>2. cells \in Seq(Nat) /\ cells[1] = u /\ Len(cells) = 2
    BY <2>1
  <2>3. QED
    BY <2>1, <2>2
<1>3. QED
  BY <1>1, <1>2 DEF Scalars

LEMMA FieldPut ==
  ASSUME NEW m \in Seq(Nat), NEW P, Places(m, P), NEW A \in P, NEW B \in P, A.open = B.open, B.open # <<>>,
         NEW m1, NEW v, v = ValueAt(A), NEW q, NEW d, Replaced(m, m1, A.pos, B.pos, v, q, d), Entitled(m1, A),
         NEW cells \in Scalars
  PROVE  \E P1 : /\ Places(PutCells(m1, v, cells), P1) /\ A \in P1 /\ Reader(v + Len(cells), A.open) \in P1
                 /\ Keeps(P, P1, A.pos)
<1>1. PICK m2 : m2 = PutCells(m1, v, cells)
  OBVIOUS
<1>2. A \in Readers /\ A.pos \in Nat /\ v \in Nat /\ A.pos <= v
  BY PlaceType, ReplacedType
<1>3. PICK n \in Nat : n = Len(cells) /\ n # 0
  BY ScalarIs
<1>4. cells \in Seq(Nat) /\ ((cells[1] \in {NULL, TRUE_} /\ n = 1) \/ (cells[1] = U8 /\ n = 2))
  BY <1>3, ScalarIs
<1>6. PICK e \in Nat : e = v + n
  BY <1>2
<1>5. Grown(m, m1, m2, A.pos, B.pos, v, e, q) /\ CellsAt(m2, v, cells)
  <2>1. cells \in Seq(Nat) /\ e = v + Len(cells)
    BY <1>3, <1>4, <1>6
  <2>2. QED
    BY <1>1, <2>1, PutOn
<1>7. PICK d1 : Replaced(m, m2, A.pos, B.pos, e, q, d1)
  BY <1>5 DEF Grown
<1>8. CellAt(m2, v) = cells[1]
  <2>1. v <= v /\ v < v + n /\ v - v + 1 = 1
    BY <1>2, <1>3
  <2>2. CellAt(m2, v) = cells[v - v + 1]
    BY <1>2, <1>3, <1>5, <2>1 DEF CellsAt
  <2>3. QED
    BY <2>1, <2>2
<1>9. Entitled(m2, A)
  <2>1. CASE Kind(A) = "object"
    <3>1. A.pos < v
      BY <1>2, <2>1 DEF ValueAt
    <3>2. CellAt(m2, A.pos) = CellAt(m1, A.pos)
      BY <1>2, <1>5, <3>1 DEF Grown
    <3>3. QED
      BY <3>2 DEF Entitled
  <2>2. QED
    BY <2>1 DEF Entitled
<1>10. m2 \in Seq(Nat) /\ e <= Len(m2)
  BY <1>7, ReplacedType
<1>11. Sound(m2, A) /\ Step(m2, A) = Reader(e, A.open)
  <2>1. (CellAt(m2, v) \in {NULL, TRUE_} /\ e = v + 1) \/ (CellAt(m2, v) = U8 /\ e = v + 2)
    BY <1>4, <1>6, <1>8
  <2>2. QED
    BY <1>2, <1>9, <1>10, <2>1, FieldSpans
<1>12. Spans(m2, A, B, e)
  BY <1>11 DEF Spans
<1>13. EndsAt(m, m2, A.pos, B, e, e)
  BY DEF EndsAt
<1>14. \E P1 : Places(m2, P1) /\ A \in P1 /\ Reader(e, A.open) \in P1 /\ Keeps(P, P1, A.pos)
  BY <1>7, <1>12, <1>13, FieldPlaced
<1>15. QED
  BY <1>1, <1>3, <1>6, <1>14

Begin(kind) == IF kind = "array" THEN ARRAY_BEGIN ELSE OBJECT_BEGIN

End(kind) == IF kind = "array" THEN ARRAY_END ELSE OBJECT_END

LEMMA ContainerPut ==
  ASSUME NEW m \in Seq(Nat), NEW P, Places(m, P), NEW A \in P, A.open # <<>>,
         NEW m1, NEW v, v = ValueAt(A), NEW q, NEW d, Replaced(m, m1, A.pos, A.pos, v, q, d), Entitled(m1, A),
         NEW kind \in Kinds, NEW cap \in Nat, NEW m2, m2 = PutContainer(m1, v, Begin(kind), End(kind), cap)
  PROVE  \E P1 : /\ Places(m2, P1) /\ A \in P1 /\ Into(A, kind, v + 1) \in P1
                 /\ Keeps(P, P1, A.pos)
<1>1. A \in Readers /\ A.pos \in Nat /\ v \in Nat /\ A.pos <= v /\ A.open \in Seq(Kinds)
  BY PlaceType, ReplacedType
<1>2. PICK i \in Nat, p \in Nat, e \in Nat : i = v + 1 /\ p = v + 1 + cap /\ e = v + 1 + (cap + 1) /\ e = p + 1
  BY <1>1
<1>3. PICK begin \in Nat \ {0} : begin = Begin(kind)
  BY MarkersAreUsed DEF Begin
<1>4. PICK end \in Nat \ {0} : end = End(kind)
  BY MarkersAreUsed DEF End
<1>5. PICK marked : marked = PutCells(m1, v, <<begin>>)
  OBVIOUS
<1>6. PICK opened1 : opened1 = EnsureSpace(marked, i, cap + 1)
  OBVIOUS
<1>7. m2 = Write(opened1, p, <<end>>)
  BY <1>2, <1>3, <1>4, <1>5, <1>6 DEF PutContainer
<1>8. <<begin>> \in Seq(Nat) /\ Len(<<begin>>) = 1 /\ <<begin>>[1] = begin
  OBVIOUS
<1>9. <<end>> \in Seq(Nat) /\ Len(<<end>>) = 1 /\ <<end>>[1] = end
  OBVIOUS
<1>10. Grown(m, m1, marked, A.pos, A.pos, v, i, q) /\ CellsAt(marked, v, <<begin>>)
  <2>1. <<begin>> \in Seq(Nat) /\ i = v + Len(<<begin>>)
    BY <1>2, <1>8
  <2>2. QED
    BY <1>5, <2>1, PutOn
<1>11. PICK d1 : Replaced(m, marked, A.pos, A.pos, i, q, d1)
  BY <1>10 DEF Grown
<1>12. Grown(m, marked, opened1, A.pos, A.pos, i, e, q) /\ FreeCells(opened1, i, e)
  <2>1. PICK n \in Nat : n = cap + 1
    OBVIOUS
  <2>2. e = i + n /\ opened1 = EnsureSpace(marked, i, n)
    BY <1>2, <1>6, <2>1
  <2>3. QED
    BY <1>11, <2>2, Opened
<1>13. PICK d2 : Replaced(m, opened1, A.pos, A.pos, e, q, d2)
  BY <1>12 DEF Grown
<1>14. /\ Grown(m, opened1, m2, A.pos, A.pos, p, e, q) /\ CellsAt(m2, p, <<end>>)
  <2>1. PICK a \in Nat : a = A.pos
    BY <1>1
  <2>2. a <= p /\ p + Len(<<end>>) <= e /\ <<end>> \in Seq(Nat)
    <3>1. PICK w \in Nat : w = v /\ a <= w
      BY <1>1, <2>1
    <3>4. p = w + 1 + cap /\ p + 1 <= e
      BY <1>2, <3>1
    <3>2. a <= p /\ p + 1 <= e
      BY <3>1, <3>4
    <3>3. QED
      BY <1>9, <3>2
  <2>3. Replaced(m, opened1, a, a, e, q, d2)
    BY <1>13, <2>1
  <2>4. Grown(m, opened1, m2, a, a, p, e, q) /\ CellsAt(m2, p, <<end>>)
    BY <1>7, <2>2, <2>3, Written
  <2>5. QED
    BY <2>1, <2>4
<1>15. PICK d3 : Replaced(m, m2, A.pos, A.pos, e, q, d3)
  BY <1>14 DEF Grown
<1>16. m2 \in Seq(Nat) /\ e <= Len(m2) /\ Len(m2) \in Nat
  BY <1>15, ReplacedType
<1>17. CellAt(m2, v) = begin
  <2>1. CellAt(marked, v) = begin
    <3>1. v <= v /\ v < v + 1 /\ v - v + 1 = 1
      BY <1>1
    <3>2. CellAt(marked, v) = <<begin>>[v - v + 1]
      BY <1>1, <1>8, <1>10, <3>1 DEF CellsAt
    <3>3. QED
      BY <1>8, <3>1, <3>2
  <2>2. v < i /\ v < p
    BY SMTT(60), <1>1, <1>2
  <2>3. QED
    BY <1>1, <1>12, <1>14, <2>1, <2>2 DEF Grown
<1>18. Entitled(m2, A)
  <2>1. CASE Kind(A) = "object"
    <3>1. A.pos < v /\ A.pos < i /\ A.pos < p
      <4>1. PICK a \in Nat : a = A.pos
        BY <1>1
      <4>2. v = a + 1
        BY <2>1, <4>1 DEF ValueAt
      <4>3. a < v /\ a < i /\ a < p
        BY <1>2, <4>2
      <4>4. QED
        BY <4>1, <4>3
    <3>2. CellAt(m2, A.pos) = CellAt(m1, A.pos)
      BY <1>1, <1>10, <1>12, <1>14, <3>1 DEF Grown
    <3>3. QED
      BY <3>2 DEF Entitled
  <2>2. QED
    BY <2>1 DEF Entitled
<1>19. Free(m2, i, p) /\ CellAt(m2, p) = end
  <2>1. CellAt(m2, p) = end
    <3>1. p <= p /\ p < p + 1 /\ p - p + 1 = 1
      BY <1>1
    <3>2. PICK j : j = p - p + 1 /\ j = 1
      BY <3>1
    <3>3. CellAt(m2, p) = <<end>>[j]
      BY <1>9, <1>14, <3>1, <3>2 DEF CellsAt
    <3>4. <<end>>[j] = end
      BY <3>2
    <3>5. QED
      BY <3>3, <3>4
  <2>2. ASSUME NEW x \in i .. p - 1 PROVE CellAt(m2, x) = 0
    <3>1. x \in Nat /\ i <= x /\ x < p /\ x < e
      <4>1. i \in Nat /\ p \in Nat /\ e \in Nat /\ e = p + 1
        BY <1>2
      <4>2. x \in Nat /\ i <= x /\ x < p
        BY SMTT(60), <4>1
      <4>3. QED
        BY SMTT(60), <4>1, <4>2
    <3>2. CellAt(opened1, x) = 0
      BY <1>12, <3>1 DEF FreeCells
    <3>3. CellAt(m2, x) = CellAt(opened1, x)
      BY <1>14, <3>1 DEF Grown
    <3>4. QED
      BY <3>2, <3>3
  <2>3. i <= p /\ p < Len(m2)
    BY SMTT(60), <1>2, <1>16
  <2>4. QED
    BY <2>1, <2>2, <2>3 DEF Free
<1>20. PICK I : I = Into(A, kind, i)
  OBVIOUS
<1>21. /\ I \in Readers /\ I.pos = i /\ Len(I.open) = Len(A.open) + 1 /\ I.open[Len(A.open) + 1] = kind
       /\ \A k \in 1 .. Len(A.open) : I.open[k] = A.open[k]
  <2>1. /\ Into(A, kind, i) \in Readers /\ Into(A, kind, i).pos = i /\ Len(Into(A, kind, i).open) = Len(A.open) + 1
        /\ Into(A, kind, i).open[Len(A.open) + 1] = kind
        /\ \A k \in 1 .. Len(A.open) : Into(A, kind, i).open[k] = A.open[k]
    BY <1>1, Pushed2
  <2>2. QED
    BY <1>20, <2>1
<1>22. PICK l \in Nat : l = Len(A.open)
  BY <1>1
<1>23. I.open # <<>> /\ Kind(I) = kind /\ EndMarker(I) = end
  <2>1. Len(I.open) = l + 1 /\ l + 1 # 0
    BY <1>21, <1>22
  <2>2. I.open # <<>>
    BY <2>1
  <2>3. Kind(I) = kind
    BY <1>21, <1>22, <2>1 DEF Kind
  <2>4. QED
    BY <1>4, <2>2, <2>3 DEF EndMarker, End
<1>24. Sound(m2, I)
  BY <1>19, <1>21, <1>23 DEF Sound, Ending
<1>25. Step(m2, I) = Reader(e, A.open)
  <2>1. Step(m2, I) = OutOf(I, p + 1)
    <3>1. Free(m2, I.pos, p) /\ CellAt(m2, p) = EndMarker(I)
      BY <1>19, <1>21, <1>23
    <3>2. I \in Readers /\ I.open # <<>>
      BY <1>21, <1>23
    <3>3. QED
      BY <1>16, <3>1, <3>2, EndingStep
  <2>2. PICK T : T = OutOf(I, e)
    OBVIOUS
  <2>3. /\ T \in Readers /\ T.pos = e /\ Len(T.open) = Len(I.open) - 1
        /\ \A k \in 1 .. Len(I.open) - 1 : T.open[k] = I.open[k]
    <3>1. /\ OutOf(I, e) \in Readers /\ OutOf(I, e).pos = e /\ Len(OutOf(I, e).open) = Len(I.open) - 1
          /\ \A k \in 1 .. Len(I.open) - 1 : OutOf(I, e).open[k] = I.open[k]
      <4>1. I \in Readers /\ I.open # <<>>
        BY <1>21, <1>23
      <4>2. QED
        BY <4>1, Popped2
    <3>2. QED
      BY <2>2, <3>1
  <2>4. Len(I.open) - 1 = l
    BY <1>21, <1>22
  <2>5. Len(T.open) = l /\ \A k \in 1 .. l : T.open[k] = A.open[k]
    BY <1>21, <1>22, <2>3, <2>4
  <2>6. T.open \in Seq(Kinds)
    BY <2>3, ReaderIs
  <2>7. T.open = A.open
    BY <1>1, <1>22, <2>5, <2>6, SameOpen
  <2>8. T = Reader(e, A.open)
    BY <2>3, <2>7, ReaderIs
  <2>9. QED
    BY <1>2, <2>1, <2>2, <2>8
<1>26. I = Step(m2, A) /\ Sound(m2, A)
  <2>1. CellAt(m2, v) \notin {0, ARRAY_END, COLUMN_U8} /\ CellAt(m2, v) = Begin(kind)
    BY <1>3, <1>17, MarkersAreUsed, MarkersDiffer DEF Begin
  <2>2. CellAt(m2, A.pos) \notin {0, EndMarker(A)} /\ Step(m2, A) = Passed(m2, A, v, v)
    BY <1>1, <1>16, <1>18, <2>1, FieldStarts
  <2>3. Step(m2, A) = I
    <3>1. CASE kind = "array"
      <4>1. CellAt(m2, v) = ARRAY_BEGIN
        BY <2>1, <3>1 DEF Begin
      <4>2. QED
        BY <1>2, <1>20, <2>2, <3>1, <4>1, PassedArms
    <3>2. CASE kind = "object"
      <4>1. CellAt(m2, v) = OBJECT_BEGIN
        BY <2>1, <3>2 DEF Begin
      <4>2. QED
        BY <1>2, <1>20, <2>2, <3>2, <4>1, PassedArms
    <3>3. QED
      BY <3>1, <3>2 DEF Kinds
  <2>4. i <= Len(m2)
    BY <1>2, <1>16
  <2>5. Holding(m2, A)
    BY <1>21, <2>1, <2>2, <2>3, <2>4 DEF Holding
  <2>6. QED
    BY <2>3, <2>5 DEF Sound
<1>27. \E P1 : Places(m2, P1) /\ A \in P1 /\ I \in P1 /\ Keeps(P, P1, A.pos)
  BY <1>15, <1>24, <1>25, <1>26, ContainerPlaced
<1>28. QED
  BY <1>2, <1>20, <1>27

-----------------------------------------------------------------------------
(***************************************************************************)
(* Columns. The counters of a column may take a block more or less when     *)
(* they change, which moves what is behind them.                            *)
(***************************************************************************)

SameTo(m1, m2, c) == \A x \in Nat : x < c => CellAt(m2, x) = CellAt(m1, x)

LEMMA CounterKept ==
  ASSUME NEW m1 \in Seq(Nat), NEW m2 \in Seq(Nat), NEW p \in Nat, SameTo(m1, m2, UintvarAt(m1, p).end)
  PROVE  UintvarAt(m2, p).value = UintvarAt(m1, p).value /\ UintvarAt(m2, p).end = UintvarAt(m1, p).end
<1>1. PICK z \in Int : z = 0
  OBVIOUS
<1>2. p = p + z
  BY <1>1
<1>3. ASSUME NEW x \in Nat, p <= x, x < UintvarAt(m1, p).end PROVE CellAt(m2, x + z) = CellAt(m1, x)
  BY <1>1, <1>3 DEF SameTo
<1>4. UintvarAt(m2, p).value = UintvarAt(m1, p).value /\ UintvarAt(m2, p).end = UintvarAt(m1, p).end + z
  BY <1>2, <1>3, CounterMoved
<1>5. UintvarAt(m1, p).end \in {p + 1, p + 2}
  BY CounterType, Zenon
<1>6. UintvarAt(m1, p).end \in Nat
  BY <1>5
<1>7. QED
  BY <1>1, <1>4, <1>6

LEMMA ColumnKept ==
  ASSUME NEW m1 \in Seq(Nat), NEW m2 \in Seq(Nat), NEW v \in Nat, SameTo(m1, m2, ColumnAt(m1, v).payload)
  PROVE  /\ ColumnAt(m2, v).num = ColumnAt(m1, v).num /\ ColumnAt(m2, v).cap = ColumnAt(m1, v).cap
         /\ ColumnAt(m2, v).cap_off = ColumnAt(m1, v).cap_off /\ ColumnAt(m2, v).payload = ColumnAt(m1, v).payload
<1>1. PICK z \in Int : z = 0
  OBVIOUS
<1>2. v = v + z
  BY <1>1
<1>3. ASSUME NEW x \in Nat, v <= x, x < ColumnAt(m1, v).payload PROVE CellAt(m2, x + z) = CellAt(m1, x)
  BY <1>1, <1>3 DEF SameTo
<1>4. /\ ColumnAt(m2, v).num = ColumnAt(m1, v).num /\ ColumnAt(m2, v).cap = ColumnAt(m1, v).cap
      /\ ColumnAt(m2, v).cap_off = ColumnAt(m1, v).cap_off + z
      /\ ColumnAt(m2, v).payload = ColumnAt(m1, v).payload + z
  BY <1>2, <1>3, ColumnMoved
<1>5. ColumnAt(m1, v).cap_off \in Nat /\ ColumnAt(m1, v).payload \in Nat
  BY ColumnType
<1>6. QED
  BY <1>1, <1>4, <1>5

(* The counters of a column may take more or fewer blocks when they change. *)
NumChanged(m1, m2, v, value, k) ==
  /\ k \in Int
  /\ ColumnAt(m2, v).num = value /\ ColumnAt(m2, v).cap = ColumnAt(m1, v).cap
  /\ ColumnAt(m2, v).payload = ColumnAt(m1, v).payload + k
  /\ \A x \in Nat : x <= v => CellAt(m2, x) = CellAt(m1, x)

LEMMA ColumnNumChanged ==
  ASSUME NEW m \in Seq(Nat), NEW m1, NEW a, NEW b, NEW e, NEW q, NEW d, Replaced(m, m1, a, b, e, q, d),
         NEW v \in Nat, a <= v, ColumnAt(m1, v).payload <= e, NEW value \in Nat, NEW p, p = v + 1,
         NEW m2, m2 = UpdateUintvar(m1, p, value)
  PROVE  \E k : NumChanged(m1, m2, v, value, k) /\ \E d1 : Replaced(m, m2, a, b, e + k, q, d1)
<1>1. m1 \in Seq(Nat) /\ e \in Nat /\ a \in Nat /\ p \in Nat
  BY ReplacedType
<1>2. PICK c \in Nat, o \in Nat : c = ColumnAt(m1, v).payload /\ o = ColumnAt(m1, v).cap_off
  BY <1>1, ColumnType
<1>3. /\ v + 1 < o /\ o < c /\ o = UintvarAt(m1, p).end
      /\ ColumnAt(m1, v).cap = UintvarAt(m1, o).value /\ c = UintvarAt(m1, o).end
  BY ZenonT(60), <1>1, <1>2, ColumnType
<1>4. PICK k : k = UintvarAt(m2, p).end - UintvarAt(m1, p).end
  OBVIOUS
<1>5. a <= p /\ UintvarAt(m1, p).end <= e
  BY <1>1, <1>2, <1>3
<1>6. /\ k \in Int /\ UintvarAt(m2, p).value = value
      /\ Replaced(m, m2, a, b, e + k, q, d + k)
      /\ \A x \in Nat : x < p => CellAt(m2, x) = CellAt(m1, x)
      /\ \A x \in Nat : UintvarAt(m1, p).end <= x => CellAt(m2, x + k) = CellAt(m1, x)
  <2>1. Recounted(m, m1, m2, a, b, e, q, d, p, value, k)
    BY <1>1, <1>4, <1>5, Counted
  <2>2. QED
    BY <2>1 DEF Recounted
<1>7. m2 \in Seq(Nat)
  BY <1>6, ReplacedType
<1>8. PICK o2 \in Nat : o2 = UintvarAt(m2, p).end /\ o2 = o + k
  <2>1. UintvarAt(m2, p).end \in {p + 1, p + 2}
    BY <1>1, <1>7, CounterType
  <2>2. PICK o2 \in Nat : o2 = UintvarAt(m2, p).end
    BY <1>1, <2>1
  <2>3. k = o2 - o
    BY <1>3, <1>4, <2>2
  <2>4. QED
    BY <2>2, <2>3
<1>9. UintvarAt(m2, o2).value = UintvarAt(m1, o).value /\ UintvarAt(m2, o2).end = UintvarAt(m1, o).end + k
  <2>1. \A x \in Nat : o <= x /\ x < UintvarAt(m1, o).end => CellAt(m2, x + k) = CellAt(m1, x)
    BY <1>3, <1>6
  <2>2. QED
    BY SMTT(60), <1>1, <1>6, <1>7, <1>8, <2>1, CounterMoved
<1>10. /\ ColumnAt(m2, v).num = value /\ ColumnAt(m2, v).cap = ColumnAt(m1, v).cap
       /\ ColumnAt(m2, v).payload = c + k
  <2>1. /\ ColumnAt(m2, v).cap_off = UintvarAt(m2, v + 1).end
        /\ ColumnAt(m2, v).num = UintvarAt(m2, v + 1).value
        /\ ColumnAt(m2, v).cap = UintvarAt(m2, ColumnAt(m2, v).cap_off).value
        /\ ColumnAt(m2, v).payload = UintvarAt(m2, ColumnAt(m2, v).cap_off).end
    BY <1>7, ColumnType
  <2>2. ColumnAt(m2, v).cap_off = o2
    BY <1>8, <2>1
  <2>3. QED
    BY <1>3, <1>6, <1>9, <2>1, <2>2
<1>11. \A x \in Nat : x <= v => CellAt(m2, x) = CellAt(m1, x)
  BY <1>6
<1>12. NumChanged(m1, m2, v, value, k)
  BY <1>2, <1>6, <1>10, <1>11 DEF NumChanged
<1>13. QED
  BY <1>6, <1>12

CapChanged(m1, m2, v, value, k) ==
  /\ k \in Int
  /\ ColumnAt(m2, v).num = ColumnAt(m1, v).num /\ ColumnAt(m2, v).cap = value
  /\ ColumnAt(m2, v).payload = ColumnAt(m1, v).payload + k
  /\ \A x \in Nat : x <= v => CellAt(m2, x) = CellAt(m1, x)

LEMMA ColumnCapChanged ==
  ASSUME NEW m \in Seq(Nat), NEW m1, NEW a, NEW b, NEW e, NEW q, NEW d, Replaced(m, m1, a, b, e, q, d),
         NEW v \in Nat, a <= v, ColumnAt(m1, v).payload <= e, NEW value \in Nat, NEW o, o = ColumnAt(m1, v).cap_off,
         NEW m2, m2 = UpdateUintvar(m1, o, value)
  PROVE  \E k : CapChanged(m1, m2, v, value, k) /\ \E d1 : Replaced(m, m2, a, b, e + k, q, d1)
<1>1. m1 \in Seq(Nat) /\ e \in Nat /\ a \in Nat
  BY ReplacedType
<1>2. PICK c \in Nat : c = ColumnAt(m1, v).payload
  BY <1>1, ColumnType
<1>3. /\ o \in Nat /\ v + 1 < o /\ o < c /\ o = UintvarAt(m1, v + 1).end
      /\ ColumnAt(m1, v).num = UintvarAt(m1, v + 1).value /\ c = UintvarAt(m1, o).end
  BY <1>1, <1>2, ColumnType
<1>4. PICK k : k = UintvarAt(m2, o).end - UintvarAt(m1, o).end
  OBVIOUS
<1>5. a <= o /\ UintvarAt(m1, o).end <= e
  BY <1>1, <1>2, <1>3
<1>6. /\ k \in Int /\ UintvarAt(m2, o).value = value
      /\ Replaced(m, m2, a, b, e + k, q, d + k)
      /\ \A x \in Nat : x < o => CellAt(m2, x) = CellAt(m1, x)
  <2>1. Recounted(m, m1, m2, a, b, e, q, d, o, value, k)
    BY <1>1, <1>3, <1>4, <1>5, Counted
  <2>2. QED
    BY <2>1 DEF Recounted
<1>7. m2 \in Seq(Nat)
  BY <1>6, ReplacedType
<1>8. PICK c2 \in Nat : c2 = UintvarAt(m2, o).end /\ c2 = c + k
  <2>1. UintvarAt(m2, o).end \in {o + 1, o + 2}
    BY <1>3, <1>7, CounterType
  <2>2. PICK c2 \in Nat : c2 = UintvarAt(m2, o).end
    BY <1>3, <2>1
  <2>3. k = c2 - c
    BY <1>3, <1>4, <2>2
  <2>4. QED
    BY <2>2, <2>3
<1>9. PICK p \in Nat, z \in Int : p = v + 1 /\ z = 0
  OBVIOUS
<1>10. UintvarAt(m2, p).value = UintvarAt(m1, p).value /\ UintvarAt(m2, p).end = o
  <2>1. ASSUME NEW x \in Nat, p <= x, x < UintvarAt(m1, p).end PROVE CellAt(m2, x + z) = CellAt(m1, x)
    BY <1>3, <1>6, <1>9, <2>1
  <2>2. p = p + z
    BY <1>9
  <2>3. UintvarAt(m2, p).value = UintvarAt(m1, p).value /\ UintvarAt(m2, p).end = UintvarAt(m1, p).end + z
    BY <1>1, <1>7, <2>1, <2>2, CounterMoved
  <2>4. QED
    BY <1>3, <1>9, <2>3
<1>11. /\ ColumnAt(m2, v).num = ColumnAt(m1, v).num /\ ColumnAt(m2, v).cap = value
       /\ ColumnAt(m2, v).payload = c + k
  <2>1. /\ ColumnAt(m2, v).cap_off = UintvarAt(m2, v + 1).end
        /\ ColumnAt(m2, v).num = UintvarAt(m2, v + 1).value
        /\ ColumnAt(m2, v).cap = UintvarAt(m2, ColumnAt(m2, v).cap_off).value
        /\ ColumnAt(m2, v).payload = UintvarAt(m2, ColumnAt(m2, v).cap_off).end
    BY <1>7, ColumnType
  <2>2. ColumnAt(m2, v).cap_off = o
    BY <1>9, <1>10, <2>1
  <2>3. QED
    BY <1>3, <1>6, <1>8, <1>9, <1>10, <2>1, <2>2
<1>12. ASSUME NEW x \in Nat, x <= v PROVE CellAt(m2, x) = CellAt(m1, x)
  <2>1. x < o
    BY <1>3, <1>12
  <2>2. QED
    BY <1>6, <2>1
<1>13. CapChanged(m1, m2, v, value, k)
  BY <1>2, <1>6, <1>11, <1>12 DEF CapChanged
<1>14. QED
  BY <1>6, <1>13

ColumnEnd(m, v) == ColumnAt(m, v).payload + ColumnAt(m, v).cap

LEMMA ColumnSpans ==
  ASSUME NEW m \in Seq(Nat), NEW A \in Readers, A.open # <<>>, NEW v, v = ValueAt(A), Entitled(m, A),
         CellAt(m, v) = COLUMN_U8, Fits(ColumnAt(m, v)), ColumnEnd(m, v) <= Len(m)
  PROVE  Holding(m, A) /\ Sound(m, A) /\ Step(m, A) = Reader(ColumnEnd(m, v), A.open)
<1>1. CellAt(m, v) \notin {0, ARRAY_END}
  BY MarkersAreUsed
<1>2. CellAt(m, A.pos) \notin {0, EndMarker(A)} /\ Step(m, A) = Passed(m, A, v, v)
  BY <1>1, FieldStarts
<1>3. Step(m, A) = Reader(ColumnEnd(m, v), A.open)
  BY <1>2, PassedArms DEF ColumnEnd
<1>4. Holding(m, A)
  BY <1>2, <1>3, ReaderFields DEF Holding
<1>5. QED
  BY <1>3, <1>4 DEF Sound

(* A place in front of a column.                                           *)
ColumnPlace(m, P, A, v) ==
  /\ A \in P /\ A.open # <<>> /\ Holding(m, A) /\ v = ValueAt(A) /\ CellAt(m, v) = COLUMN_U8

LEMMA ColumnPlaceIs ==
  ASSUME NEW m \in Seq(Nat), NEW P, Places(m, P), NEW A, NEW v, ColumnPlace(m, P, A, v)
  PROVE  /\ A \in Readers /\ A.pos \in Nat /\ v \in Nat /\ A.pos <= v /\ Entitled(m, A) /\ Fits(ColumnAt(m, v))
         /\ v < ColumnAt(m, v).payload /\ ColumnEnd(m, v) \in Nat
         /\ \E B \in P : /\ B.open = A.open /\ B.pos = ColumnEnd(m, v) /\ A.pos <= B.pos /\ B = Step(m, A)
                         /\ \E q : Replaced(m, m, A.pos, B.pos, B.pos, q, 0)
<1>1. A \in P /\ A.open # <<>> /\ Holding(m, A) /\ v = ValueAt(A) /\ CellAt(m, v) = COLUMN_U8
  BY DEF ColumnPlace
<1>2. A \in Readers /\ A.pos \in Nat /\ Step(m, A) \in P /\ A.pos < Step(m, A).pos
  BY <1>1, PlaceType
<1>3. v \in Nat /\ A.pos <= v /\ Step(m, A) = Passed(m, A, v, v) /\ CellAt(m, A.pos) \notin {0, EndMarker(A)}
  BY <1>1, <1>2, HoldingStep DEF Holding
<1>4. Entitled(m, A)
  BY <1>3 DEF Entitled, EndMarker
<1>5. Fits(ColumnAt(m, v))
  BY <1>1 DEF Holding
<1>6. Step(m, A) = Reader(ColumnEnd(m, v), A.open)
  BY <1>1, <1>3, PassedArms DEF ColumnEnd
<1>7. v < ColumnAt(m, v).payload /\ ColumnEnd(m, v) \in Nat
  <2>1. PICK c \in Nat, o \in Nat, p \in Nat : c = ColumnAt(m, v).cap /\ o = ColumnAt(m, v).cap_off /\ p = ColumnAt(m, v).payload
    BY <1>3, ColumnType
  <2>2. v + 1 < o /\ o < p
    BY <1>3, <2>1, ColumnType
  <2>3. QED
    BY <1>3, <2>1, <2>2 DEF ColumnEnd
<1>8. PICK B \in P : B = Step(m, A)
  BY <1>2
<1>9. B.open = A.open /\ B.pos = ColumnEnd(m, v) /\ A.pos <= B.pos
  <2>1. B.open = A.open /\ B.pos = ColumnEnd(m, v)
    BY <1>6, <1>8, ReaderFields
  <2>2. A.pos < B.pos /\ B.pos \in Nat
    BY <1>2, <1>7, <1>8, <2>1
  <2>3. QED
    BY <1>2, <2>1, <2>2
<1>10. \E q : Replaced(m, m, A.pos, B.pos, B.pos, q, 0)
  BY <1>1, <1>9, Untouched
<1>11. QED
  BY <1>2, <1>3, <1>4, <1>5, <1>7, <1>8, <1>9, <1>10

(* A column has taken the place of what was between A and B.               *)
LEMMA ColumnPlaced ==
  ASSUME NEW m \in Seq(Nat), NEW P, Places(m, P), NEW A \in P, NEW B \in P, A.open = B.open, B.open # <<>>,
         NEW m1, NEW g, NEW q, NEW d, Replaced(m, m1, A.pos, B.pos, g, q, d),
         NEW v, v = ValueAt(A), Entitled(m1, A), CellAt(m1, v) = COLUMN_U8, Fits(ColumnAt(m1, v)),
         ColumnEnd(m1, v) <= Len(m1), EndsAt(m, m1, A.pos, B, g, ColumnEnd(m1, v))
  PROVE  \E P1 : Places(m1, P1) /\ ColumnPlace(m1, P1, A, v) /\ Keeps(P, P1, A.pos)
                 /\ Reader(ColumnEnd(m1, v), A.open) \in P1
<1>1. m1 \in Seq(Nat) /\ A \in Readers /\ A.open # <<>>
  BY PlaceType, ReplacedType
<1>2. PICK e : e = ColumnEnd(m1, v)
  OBVIOUS
<1>3. Holding(m1, A) /\ Sound(m1, A) /\ Step(m1, A) = Reader(e, A.open)
  BY <1>1, <1>2, ColumnSpans
<1>4. Spans(m1, A, B, e)
  BY <1>3 DEF Spans
<1>5. EndsAt(m, m1, A.pos, B, g, e)
  BY <1>2
<1>6. PICK P1 : Places(m1, P1) /\ A \in P1 /\ Reader(e, A.open) \in P1 /\ Keeps(P, P1, A.pos)
  BY <1>4, <1>5, FieldPlaced
<1>7. ColumnPlace(m1, P1, A, v)
  BY <1>1, <1>3, <1>6 DEF ColumnPlace
<1>8. QED
  BY <1>2, <1>6, <1>7

LEMMA ColumnPut ==
  ASSUME NEW m \in Seq(Nat), NEW P, Places(m, P), NEW A \in P, A.open # <<>>, Ending(m, A),
         NEW m1, NEW v, v = ValueAt(A), NEW q, NEW d, Replaced(m, m1, A.pos, A.pos, v, q, d), Entitled(m1, A),
         NEW cap \in Nat, NEW m2, m2 = PutColumn(m1, v, cap)
  PROVE  \E P1 : Places(m2, P1) /\ ColumnPlace(m2, P1, A, v) /\ Keeps(P, P1, A.pos)
<1>1. A \in Readers /\ A.pos \in Nat /\ v \in Nat /\ A.pos <= v
  BY PlaceType, ReplacedType
<1>2. PICK p \in Nat, o \in Nat : p = v + 1 /\ o = v + 2
  BY <1>1
<1>3. PICK marked : marked = PutCells(m1, v, <<COLUMN_U8>>)
  OBVIOUS
<1>4. PICK counted : counted = WriteUintvar(marked, p, 0)
  OBVIOUS
<1>5. PICK capped : capped = WriteUintvar(counted, o, cap)
  OBVIOUS
<1>6. m2 = EnsureSpace(capped, ColumnAt(capped, v).payload, cap + ColumnSlack)
  BY <1>2, <1>3, <1>4, <1>5 DEF PutColumn
<1>7. Grown(m, m1, marked, A.pos, A.pos, v, p, q) /\ CellsAt(marked, v, <<COLUMN_U8>>)
  <2>1. <<COLUMN_U8>> \in Seq(Nat) /\ Len(<<COLUMN_U8>>) = 1
    BY MarkersAreUsed
  <2>2. p = v + Len(<<COLUMN_U8>>)
    BY <1>2, <2>1
  <2>3. QED
    BY <1>3, <2>1, <2>2, PutOn
<1>8. PICK d1 : Replaced(m, marked, A.pos, A.pos, p, q, d1)
  BY <1>7 DEF Grown
<1>9. /\ UintvarAt(counted, p).value = 0 /\ UintvarAt(counted, p).end = o
      /\ Grown(m, marked, counted, A.pos, A.pos, p, o, q)
  <2>1. PICK z \in Nat : z = 0 /\ z < Radix
    BY RadixAssumption
  <2>2. /\ UintvarAt(counted, p).value = z /\ UintvarAt(counted, p).end = p + 1
        /\ Grown(m, marked, counted, A.pos, A.pos, p, UintvarAt(counted, p).end, q)
    BY <1>4, <1>8, <2>1, CounterPut
  <2>3. p + 1 = o
    BY <1>1, <1>2
  <2>4. QED
    BY <2>1, <2>2, <2>3
<1>10. PICK d2 : Replaced(m, counted, A.pos, A.pos, o, q, d2)
  BY <1>9 DEF Grown
<1>11. PICK c : c = UintvarAt(capped, o).end
  OBVIOUS
<1>12. /\ UintvarAt(capped, o).value = cap /\ c \in {o + 1, o + 2} /\ c \in Nat
       /\ Grown(m, counted, capped, A.pos, A.pos, o, c, q)
  <2>1. /\ UintvarAt(capped, o).value = cap /\ UintvarAt(capped, o).end \in {o + 1, o + 2}
        /\ Grown(m, counted, capped, A.pos, A.pos, o, UintvarAt(capped, o).end, q)
    BY <1>5, <1>10, CounterPut
  <2>2. QED
    BY <1>11, <2>1
<1>13. PICK d3 : Replaced(m, capped, A.pos, A.pos, c, q, d3)
  BY <1>12 DEF Grown
<1>14. counted \in Seq(Nat) /\ capped \in Seq(Nat)
  BY <1>10, <1>13, ReplacedType
<1>15. UintvarAt(capped, p).value = 0 /\ UintvarAt(capped, p).end = o
  <2>1. SameTo(counted, capped, UintvarAt(counted, p).end)
    BY <1>9, <1>12 DEF Grown, SameTo
  <2>2. QED
    BY <1>2, <1>9, <1>14, <2>1, CounterKept
<1>16. ColumnAt(capped, v).num = 0 /\ ColumnAt(capped, v).cap = cap /\ ColumnAt(capped, v).payload = c
  <2>1. /\ ColumnAt(capped, v).cap_off = UintvarAt(capped, v + 1).end
        /\ ColumnAt(capped, v).num = UintvarAt(capped, v + 1).value
        /\ ColumnAt(capped, v).cap = UintvarAt(capped, ColumnAt(capped, v).cap_off).value
        /\ ColumnAt(capped, v).payload = UintvarAt(capped, ColumnAt(capped, v).cap_off).end
    BY <1>1, <1>14, ColumnType
  <2>2. ColumnAt(capped, v).cap_off = o /\ ColumnAt(capped, v).num = 0
    BY <1>2, <1>15, <2>1
  <2>3. QED
    BY <1>11, <1>12, <2>1, <2>2
<1>17. PICK n \in Nat : n = cap + ColumnSlack /\ cap <= n
  BY DEF ColumnSlack
<1>18. PICK g \in Nat : g = c + n
  BY <1>12
<1>19. Grown(m, capped, m2, A.pos, A.pos, c, g, q) /\ FreeCells(m2, c, g)
  <2>1. m2 = EnsureSpace(capped, c, n)
    BY <1>6, <1>16, <1>17
  <2>2. QED
    BY <1>13, <1>18, <2>1, Opened
<1>20. PICK d4 : Replaced(m, m2, A.pos, A.pos, g, q, d4)
  BY <1>19 DEF Grown
<1>21. m2 \in Seq(Nat) /\ g <= Len(m2) /\ Len(m2) \in Nat
  BY <1>20, ReplacedType
<1>22. ColumnAt(m2, v).num = 0 /\ ColumnAt(m2, v).cap = cap /\ ColumnAt(m2, v).payload = c
  <2>1. SameTo(capped, m2, ColumnAt(capped, v).payload)
    BY <1>16, <1>19 DEF Grown, SameTo
  <2>2. v \in Nat /\ m2 \in Seq(Nat)
    BY <1>1, <1>21
  <2>3. QED
    BY <1>14, <1>16, <2>1, <2>2, ColumnKept
<1>23. PICK e \in Nat : e = c + cap /\ e = ColumnEnd(m2, v) /\ c <= e /\ e <= g
  BY <1>12, <1>17, <1>18, <1>22 DEF ColumnEnd
<1>24. Fits(ColumnAt(m2, v))
  BY <1>22 DEF Fits
<1>25. PICK a \in Nat, w \in Nat : a = A.pos /\ w = v /\ a <= w /\ p = w + 1 /\ o = w + 2 /\ w < c
  BY SMTT(60), <1>1, <1>2, <1>12
<1>26. CellAt(m2, v) = COLUMN_U8
  <2>1. CellAt(marked, v) = COLUMN_U8
    <3>1. v <= v /\ v < v + 1 /\ v - v + 1 = 1
      BY <1>1
    <3>2. PICK cells : cells = <<COLUMN_U8>> /\ Len(cells) = 1 /\ cells[1] = COLUMN_U8
      <4>1. Len(<<COLUMN_U8>>) = 1 /\ <<COLUMN_U8>>[1] = COLUMN_U8
        OBVIOUS
      <4>2. QED
        BY <4>1, Zenon
    <3>3. CellAt(marked, v) = cells[v - v + 1]
      BY <1>1, <1>7, <3>1, <3>2 DEF CellsAt
    <3>4. QED
      BY <3>1, <3>2, <3>3
  <2>2. w < p /\ w < o /\ w < c
    BY <1>25
  <2>3. QED
    BY <1>9, <1>12, <1>19, <1>25, <2>1, <2>2 DEF Grown
<1>27. Entitled(m2, A)
  <2>1. CASE Kind(A) = "object"
    <3>1. a < w
      BY SMTT(60), <1>1, <1>25, <2>1 DEF ValueAt
    <3>2. a < p /\ a < o /\ a < c
      BY SMTT(60), <1>12, <1>25
    <3>3. CellAt(m2, a) = CellAt(m1, a)
      BY SMTT(60), <1>7, <1>9, <1>12, <1>19, <1>25, <3>1, <3>2 DEF Grown
    <3>4. QED
      BY <1>25, <3>3 DEF Entitled
  <2>2. QED
    BY <2>1 DEF Entitled
<1>28. EndsAt(m, m2, A.pos, A, g, e)
  <2>1. a <= e
    BY SMTT(60), <1>12, <1>23, <1>25
  <2>2. \A x \in Nat : e <= x /\ x < g => CellAt(m2, x) = 0
    BY <1>12, <1>19, <1>23 DEF FreeCells
  <2>3. QED
    BY <1>23, <1>25, <2>1, <2>2 DEF EndsAt
<1>29. ColumnEnd(m2, v) <= Len(m2) /\ EndsAt(m, m2, A.pos, A, g, ColumnEnd(m2, v))
  BY <1>21, <1>23, <1>28
<1>30. QED
  BY <1>20, <1>24, <1>26, <1>27, <1>29, ColumnPlaced

(* A column's marker stands at v, and in front of it the name that a        *)
(* property has.                                                           *)
ColumnHead(m, A, v) ==
  /\ A.pos \in Nat /\ v \in Nat /\ v = ValueAt(A) /\ A.pos <= v
  /\ Entitled(m, A) /\ CellAt(m, v) = COLUMN_U8

LEMMA HeadKept ==
  ASSUME NEW m1, NEW m2, NEW A, NEW v, ColumnHead(m1, A, v), NEW c \in Nat, v < c, SameTo(m1, m2, c)
  PROVE  ColumnHead(m2, A, v)
<1>1. PICK a \in Nat, w \in Nat : a = A.pos /\ w = v /\ a <= w
  BY DEF ColumnHead
<1>2. a < c /\ w < c
  BY <1>1
<1>3. CellAt(m2, a) = CellAt(m1, a) /\ CellAt(m2, w) = CellAt(m1, w)
  BY <1>2 DEF SameTo
<1>4. QED
  BY <1>1, <1>3 DEF ColumnHead, Entitled

LEMMA SameToLess ==
  ASSUME NEW m1, NEW m2, NEW c \in Nat, NEW c1 \in Nat, c1 <= c, SameTo(m1, m2, c)
  PROVE  SameTo(m1, m2, c1)
  BY DEF SameTo

LEMMA MovedSame ==
  ASSUME NEW m \in Seq(Nat), NEW p \in Nat, NEW n \in Nat
  PROVE  /\ p + n <= Len(m) => SameTo(m, MoveLeft(m, p, n), p)
         /\ p <= Len(m) => SameTo(m, MoveRight(m, p, n), p)
<1>1. Len(m) \in Nat
  OBVIOUS
<1>2. ASSUME p + n <= Len(m) PROVE SameTo(m, MoveLeft(m, p, n), p)
  <2>1. p \in 0 .. Len(m)
    BY <1>1, <1>2
  <2>2. \A i \in Nat : CellAt(MoveLeft(m, p, n), i) = IF i < p THEN CellAt(m, i) ELSE CellAt(m, i + n)
    BY <1>2, <2>1, MoveLeftMoves DEF Cell
  <2>3. QED
    BY <2>2 DEF SameTo
<1>3. ASSUME p <= Len(m) PROVE SameTo(m, MoveRight(m, p, n), p)
  <2>1. p \in 0 .. Len(m)
    BY <1>1, <1>3
  <2>2. \A i \in Nat : CellAt(MoveRight(m, p, n), i) = IF i < p THEN CellAt(m, i) ELSE IF i < p + n THEN 0 ELSE CellAt(m, i - n)
    BY <2>1, MoveRightMoves DEF Cell
  <2>3. QED
    BY <2>2 DEF SameTo
<1>4. QED
  BY <1>2, <1>3

(* What has been written is a column.                                      *)
LEMMA ColumnBack ==
  ASSUME NEW m \in Seq(Nat), NEW P, Places(m, P), NEW A \in P, NEW B \in P, A.open = B.open, B.open # <<>>,
         NEW m1, NEW e, NEW q, NEW d, Replaced(m, m1, A.pos, B.pos, e, q, d),
         NEW v, ColumnHead(m1, A, v), Fits(ColumnAt(m1, v)), e = ColumnEnd(m1, v)
  PROVE  \E P1 : Places(m1, P1) /\ ColumnPlace(m1, P1, A, v) /\ Keeps(P, P1, A.pos) /\ Reader(e, A.open) \in P1
<1>1. v = ValueAt(A) /\ Entitled(m1, A) /\ CellAt(m1, v) = COLUMN_U8
  BY DEF ColumnHead
<1>2. e \in Nat /\ e <= Len(m1)
  BY ReplacedType
<1>3. EndsAt(m, m1, A.pos, B, e, e)
  BY <1>2 DEF EndsAt
<1>4. ColumnEnd(m1, v) <= Len(m1) /\ EndsAt(m, m1, A.pos, B, e, ColumnEnd(m1, v))
  BY <1>2, <1>3
<1>5. QED
  BY <1>1, <1>4, ColumnPlaced

(* An element is written into the payload.                                 *)
LEMMA ElementWritten ==
  ASSUME NEW m \in Seq(Nat), NEW P, Places(m, P), NEW A \in P, NEW B \in P, A.open = B.open, B.open # <<>>,
         NEW m1, NEW e, NEW q, NEW d, Replaced(m, m1, A.pos, B.pos, e, q, d),
         NEW v, ColumnHead(m1, A, v), Fits(ColumnAt(m1, v)), e = ColumnEnd(m1, v),
         NEW p \in Nat, ColumnAt(m1, v).payload <= p, p < e, NEW x \in Nat, NEW m2, m2 = Write(m1, p, <<x>>)
  PROVE  \E P1 : Places(m2, P1) /\ ColumnPlace(m2, P1, A, v) /\ Keeps(P, P1, A.pos)
<1>1. m1 \in Seq(Nat) /\ e \in Nat /\ A.pos \in Nat /\ v \in Nat /\ A.pos <= v
  BY ReplacedType DEF ColumnHead
<1>2. PICK c \in Nat, a \in Nat, w \in Nat : c = ColumnAt(m1, v).payload /\ a = A.pos /\ w = v /\ a <= w
  BY <1>1, ColumnType
<1>3. w < c
  <2>1. PICK o \in Nat : o = ColumnAt(m1, v).cap_off
    BY <1>1, ColumnType
  <2>2. v + 1 < o /\ o < c
    BY <1>1, <1>2, <2>1, ColumnType
  <2>3. QED
    BY <1>2, <2>1, <2>2
<1>4. PICK cells : cells = <<x>>
  OBVIOUS
<1>5. cells \in Seq(Nat) /\ Len(cells) = 1
  BY <1>4
<1>6. a <= p /\ p + Len(cells) <= e
  BY SMTT(60), <1>1, <1>2, <1>3, <1>5
<1>7. Grown(m, m1, m2, A.pos, B.pos, p, e, q)
  <2>1. A.pos <= p /\ p + Len(cells) <= e /\ m2 = Write(m1, p, cells)
    BY <1>2, <1>4, <1>6
  <2>2. QED
    BY <1>5, <2>1, Written
<1>8. PICK d1 : Replaced(m, m2, A.pos, B.pos, e, q, d1)
  BY <1>7 DEF Grown
<1>9. m2 \in Seq(Nat)
  BY <1>8, ReplacedType
<1>10. SameTo(m1, m2, c)
  <2>1. SameTo(m1, m2, p)
    BY <1>7 DEF Grown, SameTo
  <2>2. c <= p
    BY <1>2
  <2>3. QED
    BY <2>1, <2>2, SameToLess
<1>11. ColumnHead(m2, A, v)
  <2>1. v < c
    BY <1>2, <1>3
  <2>2. QED
    BY <1>10, <2>1, HeadKept
<1>12. /\ ColumnAt(m2, v).num = ColumnAt(m1, v).num /\ ColumnAt(m2, v).cap = ColumnAt(m1, v).cap
       /\ ColumnAt(m2, v).payload = ColumnAt(m1, v).payload
  <2>1. SameTo(m1, m2, ColumnAt(m1, v).payload)
    BY <1>2, <1>10
  <2>2. QED
    BY <1>1, <1>9, <2>1, ColumnKept
<1>13. Fits(ColumnAt(m2, v)) /\ e = ColumnEnd(m2, v)
  BY <1>12 DEF Fits, ColumnEnd
<1>14. QED
  BY <1>8, <1>11, <1>13, ColumnBack

LEMMA ChangedHead ==
  ASSUME NEW m1, NEW m2, NEW A, NEW v, ColumnHead(m1, A, v), NEW value, NEW k,
         NumChanged(m1, m2, v, value, k) \/ CapChanged(m1, m2, v, value, k)
  PROVE  ColumnHead(m2, A, v)
<1>1. v \in Nat
  BY DEF ColumnHead
<1>2. \A x \in Nat : x <= v => CellAt(m2, x) = CellAt(m1, x)
  BY DEF NumChanged, CapChanged
<1>3. v + 1 \in Nat /\ v < v + 1
  BY <1>1
<1>4. SameTo(m1, m2, v + 1)
  BY <1>1, <1>2 DEF SameTo
<1>5. QED
  BY <1>3, <1>4, HeadKept

(* What push_in_column does to the column at v, as Push has it.            *)
Pushing(m, v, x, counted, cap, capped, grown, room, m2) ==
  /\ counted = UpdateUintvar(m, v + 1, ColumnAt(m, v).num + 1)
  /\ cap = ((ColumnAt(counted, v).cap + 1) * 17) \div 10
  /\ capped = UpdateUintvar(counted, ColumnAt(counted, v).cap_off, cap)
  /\ grown = EnsureSpace(capped, ColumnAt(capped, v).payload + ColumnAt(counted, v).num - 1,
                         cap - ColumnAt(counted, v).cap)
  /\ room = IF ColumnAt(counted, v).num > ColumnAt(counted, v).cap THEN grown ELSE counted
  /\ m2 = Write(room, ColumnAt(room, v).payload + ColumnAt(counted, v).num - 1, <<x>>)

LEMMA Pushed ==
  ASSUME NEW m \in Seq(Nat), NEW P, Places(m, P), NEW A, NEW v, ColumnPlace(m, P, A, v), NEW x \in Nat,
         NEW counted, NEW cap, NEW capped, NEW grown, NEW room, NEW m2,
         Pushing(m, v, x, counted, cap, capped, grown, room, m2)
  PROVE  \E P1 : Places(m2, P1) /\ ColumnPlace(m2, P1, A, v) /\ Keeps(P, P1, A.pos)
<1>1. /\ A \in Readers /\ A.pos \in Nat /\ v \in Nat /\ A.pos <= v /\ Entitled(m, A) /\ Fits(ColumnAt(m, v))
      /\ v < ColumnAt(m, v).payload /\ A \in P /\ v = ValueAt(A) /\ A.open # <<>> /\ CellAt(m, v) = COLUMN_U8
  BY ColumnPlaceIs DEF ColumnPlace
<1>2. PICK B, q : /\ B \in P /\ B.open = A.open /\ B.pos = ColumnEnd(m, v)
                        /\ Replaced(m, m, A.pos, B.pos, B.pos, q, 0)
  BY ColumnPlaceIs
<1>3. PICK num \in Nat, old \in Nat, c \in Nat : num = ColumnAt(m, v).num /\ old = ColumnAt(m, v).cap /\ c = ColumnAt(m, v).payload
  BY <1>1, ColumnType
<1>4. PICK e \in Nat : e = c + old /\ e = B.pos
  BY <1>2, <1>3 DEF ColumnEnd
<1>5. num <= old
  BY <1>1, <1>3 DEF Fits
<1>6. PICK num1 \in Nat : num1 = num + 1
  OBVIOUS
<1>7. PICK k : NumChanged(m, counted, v, num1, k) /\ \E d1 : Replaced(m, counted, A.pos, B.pos, e + k, q, d1)
  <2>1. PICK p : p = v + 1
    BY SMTT(60)
  <2>2. counted = UpdateUintvar(m, p, num1)
    BY Zenon, <1>3, <1>6, <2>1 DEF Pushing
  <2>3. Replaced(m, m, A.pos, B.pos, e, q, 0) /\ ColumnAt(m, v).payload <= e
    BY <1>2, <1>3, <1>4
  <2>4. QED
    BY <1>1, <2>1, <2>2, <2>3, ColumnNumChanged
<1>8. PICK d1 : Replaced(m, counted, A.pos, B.pos, e + k, q, d1)
  BY <1>7
<1>9. counted \in Seq(Nat)
  BY <1>8, ReplacedType
<1>10. PICK c1 \in Nat, o1 \in Nat : /\ c1 = ColumnAt(counted, v).payload /\ o1 = ColumnAt(counted, v).cap_off
  BY <1>1, <1>9, ColumnType
<1>11. ColumnAt(counted, v).num = num1 /\ ColumnAt(counted, v).cap = old /\ c1 = c + k /\ k \in Int
  BY <1>3, <1>7, <1>10 DEF NumChanged
<1>12. PICK e1 \in Nat : e1 = e + k /\ e1 = c1 + old
  BY <1>4, <1>11
<1>13. ColumnHead(counted, A, v)
  <2>1. ColumnHead(m, A, v)
    BY <1>1 DEF ColumnHead
  <2>2. QED
    BY <1>7, <2>1, ChangedHead
<1>14. A.open = B.open /\ B.open # <<>> /\ Replaced(m, counted, A.pos, B.pos, e1, q, d1)
  BY <1>1, <1>2, <1>8, <1>12
<1>15. CASE num1 <= old
  <2>1. room = counted
    <3>1. room = IF ColumnAt(counted, v).num > ColumnAt(counted, v).cap THEN grown ELSE counted
      BY Zenon DEF Pushing
    <3>2. ~(num1 > old)
      BY <1>15
    <3>3. QED
      BY <1>11, <3>1, <3>2
  <2>2. PICK p \in Nat : p = c1 + num /\ c1 <= p /\ p < e1
    BY <1>6, <1>12, <1>15
  <2>3. m2 = Write(counted, p, <<x>>)
    <3>1. m2 = Write(room, ColumnAt(room, v).payload + ColumnAt(counted, v).num - 1, <<x>>)
      BY Zenon DEF Pushing
    <3>2. c1 + num1 - 1 = p
      BY <1>6, <2>2
    <3>3. QED
      BY Zenon, <1>10, <1>11, <2>1, <3>1, <3>2
  <2>4. Fits(ColumnAt(counted, v)) /\ e1 = ColumnEnd(counted, v)
    BY <1>10, <1>11, <1>12, <1>15 DEF Fits, ColumnEnd
  <2>5. ColumnAt(counted, v).payload <= p
    BY <1>10, <2>2
  <2>6. QED
    BY <1>1, <1>2, <1>13, <1>14, <2>2, <2>3, <2>4, <2>5, ElementWritten
<1>16. CASE num1 > old
  <2>1. num = old /\ num1 = old + 1
    BY <1>5, <1>6, <1>16
  <2>2. room = grown
    BY Zenon, <1>11, <1>16 DEF Pushing
  <2>3. cap \in Nat /\ num1 <= cap
    <3>1. cap = ((old + 1) * 17) \div 10
      BY Zenon, <1>11 DEF Pushing
    <3>2. QED
      BY SMTT(60), <2>1, <3>1
  <2>4. PICK k2 : CapChanged(counted, capped, v, cap, k2) /\ \E d2 : Replaced(m, capped, A.pos, B.pos, e1 + k2, q, d2)
    <3>1. ColumnAt(counted, v).payload <= e1 /\ capped = UpdateUintvar(counted, o1, cap) /\ o1 = ColumnAt(counted, v).cap_off
      <4>1. capped = UpdateUintvar(counted, ColumnAt(counted, v).cap_off, cap)
        BY Zenon DEF Pushing
      <4>2. QED
        BY <1>10, <1>12, <4>1
    <3>2. QED
      BY <1>1, <1>14, <2>3, <3>1, ColumnCapChanged
  <2>5. PICK d2 : Replaced(m, capped, A.pos, B.pos, e1 + k2, q, d2)
    BY <2>4
  <2>6. capped \in Seq(Nat)
    BY <2>5, ReplacedType
  <2>7. PICK c2 \in Nat : c2 = ColumnAt(capped, v).payload
    BY <1>1, <2>6, ColumnType
  <2>8. ColumnAt(capped, v).num = num1 /\ ColumnAt(capped, v).cap = cap /\ c2 = c1 + k2 /\ k2 \in Int
    BY <1>10, <1>11, <2>4, <2>7 DEF CapChanged
  <2>9. PICK e2 \in Nat : e2 = e1 + k2 /\ e2 = c2 + old /\ c2 <= e2
    BY SMTT(60), <1>12, <2>8
  <2>10. PICK n \in Nat, e3 \in Nat : n = cap - old /\ e3 = e2 + n /\ e3 = c2 + cap
    BY <2>1, <2>3, <2>9
  <2>11. Grown(m, capped, grown, A.pos, B.pos, e2, e3, q)
    <3>1. grown = EnsureSpace(capped, e2, n)
      <4>1. grown = EnsureSpace(capped, ColumnAt(capped, v).payload + ColumnAt(counted, v).num - 1,
                           cap - ColumnAt(counted, v).cap)
        BY Zenon DEF Pushing
      <4>2. c2 + num1 - 1 = e2
        BY <2>1, <2>9
      <4>3. QED
        BY SMTT(60), <1>11, <2>7, <2>10, <4>1, <4>2
    <3>2. Replaced(m, capped, A.pos, B.pos, e2, q, d2)
      BY <2>5, <2>9
    <3>3. QED
      BY <2>10, <3>1, <3>2, Opened
  <2>12. PICK d3 : Replaced(m, grown, A.pos, B.pos, e3, q, d3)
    BY <2>11 DEF Grown
  <2>13. grown \in Seq(Nat)
    BY <2>12, ReplacedType
  <2>14. SameTo(capped, grown, c2)
    <3>1. SameTo(capped, grown, e2)
      BY <2>11 DEF Grown, SameTo
    <3>2. QED
      BY <2>9, <3>1, SameToLess
  <2>15. /\ ColumnAt(grown, v).num = num1 /\ ColumnAt(grown, v).cap = cap
         /\ ColumnAt(grown, v).payload = c2
    <3>1. SameTo(capped, grown, ColumnAt(capped, v).payload)
      BY <2>7, <2>14
    <3>2. /\ ColumnAt(grown, v).num = ColumnAt(capped, v).num /\ ColumnAt(grown, v).cap = ColumnAt(capped, v).cap
          /\ ColumnAt(grown, v).payload = ColumnAt(capped, v).payload
      BY <1>1, <2>6, <2>13, <3>1, ColumnKept
    <3>3. QED
      BY <2>7, <2>8, <3>2
  <2>16. ColumnHead(grown, A, v)
    <3>1. ColumnHead(capped, A, v)
      BY <1>13, <2>4, ChangedHead
    <3>2. v < c2
      <4>1. PICK o2 \in Nat : o2 = ColumnAt(capped, v).cap_off
        BY <1>1, <2>6, ColumnType
      <4>2. v + 1 < o2 /\ o2 < c2
        BY <1>1, <2>6, <2>7, <4>1, ColumnType
      <4>3. QED
        BY <1>1, <4>1, <4>2
    <3>3. QED
      BY <2>14, <3>1, <3>2, HeadKept
  <2>17. PICK p \in Nat : p = c2 + num /\ c2 <= p /\ p < e3
    BY <1>6, <2>3, <2>10
  <2>18. m2 = Write(grown, p, <<x>>)
    <3>1. m2 = Write(room, ColumnAt(room, v).payload + ColumnAt(counted, v).num - 1, <<x>>)
      BY Zenon DEF Pushing
    <3>2. c2 + num1 - 1 = p
      BY <1>6, <2>17
    <3>3. QED
      BY SMTT(60), <1>11, <2>2, <2>15, <3>1, <3>2
  <2>19. Fits(ColumnAt(grown, v)) /\ e3 = ColumnEnd(grown, v) /\ ColumnAt(grown, v).payload <= p
    BY <2>3, <2>10, <2>15, <2>17 DEF Fits, ColumnEnd
  <2>20. QED
    BY <1>1, <1>2, <1>14, <2>12, <2>16, <2>17, <2>18, <2>19, ElementWritten
<1>17. QED
  BY <1>15, <1>16

(* What a place in front of a column says of its cells.                     *)
Shape(m, P, A, B, v, num, cap, c, e, q) ==
  /\ A \in P /\ B \in P /\ A.open = B.open /\ B.open # <<>> /\ ColumnHead(m, A, v)
  /\ num \in Nat /\ cap \in Nat /\ c \in Nat /\ e \in Nat /\ A.pos <= c /\ v < c
  /\ num = ColumnAt(m, v).num /\ cap = ColumnAt(m, v).cap /\ c = ColumnAt(m, v).payload
  /\ num <= cap /\ e = c + cap /\ e = ColumnEnd(m, v)
  /\ Replaced(m, m, A.pos, B.pos, e, q, 0)

LEMMA ColumnShape ==
  ASSUME NEW m \in Seq(Nat), NEW P, Places(m, P), NEW A, NEW v, ColumnPlace(m, P, A, v)
  PROVE  \E B \in P, num \in Nat, cap \in Nat, c \in Nat, e \in Nat, q \in Nat :
            Shape(m, P, A, B, v, num, cap, c, e, q) /\ B = Step(m, A)
<1>1. /\ A \in Readers /\ A.pos \in Nat /\ v \in Nat /\ A.pos <= v /\ Entitled(m, A) /\ Fits(ColumnAt(m, v))
      /\ v < ColumnAt(m, v).payload /\ A \in P /\ v = ValueAt(A) /\ A.open # <<>> /\ CellAt(m, v) = COLUMN_U8
  BY ColumnPlaceIs DEF ColumnPlace
<1>2. PICK B, q : /\ B \in P /\ B.open = A.open /\ B.pos = ColumnEnd(m, v) /\ B = Step(m, A)
                        /\ Replaced(m, m, A.pos, B.pos, B.pos, q, 0)
  BY ColumnPlaceIs
<1>3. PICK num \in Nat, cap \in Nat, c \in Nat : num = ColumnAt(m, v).num /\ cap = ColumnAt(m, v).cap /\ c = ColumnAt(m, v).payload
  BY <1>1, ColumnType
<1>4. PICK e \in Nat : e = c + cap /\ e = B.pos
  BY <1>2, <1>3 DEF ColumnEnd
<1>5. num <= cap
  BY <1>1, <1>3 DEF Fits
<1>6. ColumnHead(m, A, v)
  BY <1>1 DEF ColumnHead
<1>7. A.pos <= c /\ v < c
  BY <1>1, <1>3
<1>8. Replaced(m, m, A.pos, B.pos, e, q, 0) /\ e = ColumnEnd(m, v) /\ A.open = B.open /\ B.open # <<>>
  BY <1>1, <1>2, <1>4
<1>9. Shape(m, P, A, B, v, num, cap, c, e, q)
  BY <1>1, <1>2, <1>3, <1>4, <1>5, <1>6, <1>7, <1>8 DEF Shape
<1>10. q \in Nat
  BY <1>2, ReplacedType
<1>11. QED
  BY <1>2, <1>3, <1>4, <1>9, <1>10

(* col_it_remove                                                           *)
Cutting(m, v, i, cut, filled, m2) ==
  /\ cut = MoveLeft(m, ColumnAt(m, v).payload + i, 1)
  /\ filled = MoveRight(cut, ColumnAt(m, v).payload + ColumnAt(m, v).num, 1)
  /\ m2 = UpdateUintvar(filled, v + 1, ColumnAt(m, v).num - 1)

LEMMA Cut ==
  ASSUME NEW m \in Seq(Nat), NEW P, Places(m, P), NEW A, NEW v, ColumnPlace(m, P, A, v),
         ColumnAt(m, v).num < ColumnAt(m, v).cap, NEW i \in Nat, i < ColumnAt(m, v).num,
         NEW cut, NEW filled, NEW m2, Cutting(m, v, i, cut, filled, m2)
  PROVE  \E P1 : Places(m2, P1) /\ ColumnPlace(m2, P1, A, v) /\ Keeps(P, P1, A.pos)
<1>1. PICK B \in P, num \in Nat, cap \in Nat, c \in Nat, e \in Nat, q \in Nat : Shape(m, P, A, B, v, num, cap, c, e, q)
  BY ColumnShape
<1>e. num <= cap /\ e = c + cap
  BY <1>1 DEF Shape
<1>2. /\ A \in P /\ B \in P /\ A.open = B.open /\ B.open # <<>> /\ ColumnHead(m, A, v)
      /\ num \in Nat /\ cap \in Nat /\ c \in Nat /\ e \in Nat /\ A.pos <= c /\ v < c
      /\ num = ColumnAt(m, v).num /\ cap = ColumnAt(m, v).cap /\ c = ColumnAt(m, v).payload
      /\ num <= cap /\ e = c + cap /\ e = ColumnEnd(m, v)
      /\ Replaced(m, m, A.pos, B.pos, e, q, 0)
  BY <1>1 DEF Shape
<1>3. v \in Nat /\ A.pos \in Nat /\ A.pos <= v
  BY <1>2 DEF ColumnHead
<1>4. num < cap /\ i < num
  BY <1>2
<1>5. PICK p \in Nat : p = c + i /\ c <= p /\ p + 1 <= e
  <2>1. PICK p \in Nat : p = c + i
    OBVIOUS
  <2>2. c <= p /\ p + 1 <= e
    BY <1>e, <1>4, <2>1
  <2>3. QED
    BY <2>1, <2>2
<1>6. PICK e1 \in Nat : e1 = e - 1 /\ c <= e1
  BY <1>e, <1>4
<1>7. cut = MoveLeft(m, p, 1)
  BY <1>2, <1>5 DEF Cutting
<1>8. PICK d1 : Replaced(m, cut, A.pos, B.pos, e1, q, d1)
  <2>1. A.pos <= p
    BY SMTT(60), <1>2, <1>3, <1>5
  <2>2. Replaced(m, MoveLeft(m, p, 1), A.pos, B.pos, e - 1, q, 0 - 1)
    BY <1>2, <1>5, <2>1, Narrowed
  <2>3. QED
    BY <1>6, <1>7, <2>2
<1>9. cut \in Seq(Nat) /\ e1 <= Len(cut)
  BY <1>8, ReplacedType
<1>10. SameTo(m, cut, c)
  <2>1. e <= Len(m) /\ Len(m) \in Nat
    BY <1>2, ReplacedType
  <2>2. p + 1 <= Len(m)
    BY <1>2, <1>5, <2>1
  <2>3. SameTo(m, cut, p)
    BY <1>7, <2>2, MovedSame
  <2>4. QED
    BY <1>2, <1>5, <2>3, SameToLess
<1>11. PICK r \in Nat : r = c + num /\ c <= r /\ r <= e1
  BY <1>e, <1>4, <1>6
<1>12. filled = MoveRight(cut, r, 1)
  BY <1>2, <1>11 DEF Cutting
<1>13. PICK d2 : Replaced(m, filled, A.pos, B.pos, e, q, d2)
  <2>1. A.pos <= r
    BY <1>2, <1>3, <1>11
  <2>2. Replaced(m, MoveRight(cut, r, 1), A.pos, B.pos, e1 + 1, q, d1 + 1)
    BY <1>8, <1>11, <2>1, Widened
  <2>3. e1 + 1 = e
    BY <1>2, <1>6
  <2>4. QED
    BY <1>12, <2>2, <2>3
<1>14. filled \in Seq(Nat)
  BY <1>13, ReplacedType
<1>15. SameTo(m, filled, c)
  <2>1. Len(cut) \in Nat
    BY <1>9
  <2>2. r <= Len(cut)
    BY <1>9, <1>11, <2>1
  <2>3. SameTo(cut, filled, r)
    BY <1>9, <1>12, <2>2, MovedSame
  <2>4. SameTo(cut, filled, c)
    BY <1>2, <1>11, <2>3, SameToLess
  <2>5. QED
    BY <1>10, <2>4 DEF SameTo
<1>16. ColumnHead(filled, A, v)
  BY <1>2, <1>15, HeadKept
<1>17. ColumnAt(filled, v).num = num /\ ColumnAt(filled, v).cap = cap /\ ColumnAt(filled, v).payload = c
  <2>1. SameTo(m, filled, ColumnAt(m, v).payload)
    BY <1>2, <1>15
  <2>2. /\ ColumnAt(filled, v).num = ColumnAt(m, v).num /\ ColumnAt(filled, v).cap = ColumnAt(m, v).cap
        /\ ColumnAt(filled, v).payload = ColumnAt(m, v).payload
    BY <1>3, <1>14, <2>1, ColumnKept
  <2>3. QED
    BY <1>2, <2>2
<1>18. PICK less \in Nat, w \in Nat : less = num - 1 /\ less <= cap /\ w = v + 1
  BY <1>3, <1>e, <1>4
<1>19. m2 = UpdateUintvar(filled, w, less)
  BY <1>2, <1>18 DEF Cutting
<1>20. PICK k : NumChanged(filled, m2, v, less, k) /\ \E d3 : Replaced(m, m2, A.pos, B.pos, e + k, q, d3)
  <2>1. ColumnAt(filled, v).payload <= e
    BY <1>2, <1>6, <1>17
  <2>2. QED
    BY <1>3, <1>13, <1>18, <1>19, <2>1, ColumnNumChanged
<1>21. PICK d3 : Replaced(m, m2, A.pos, B.pos, e + k, q, d3)
  BY <1>20
<1>22. ColumnHead(m2, A, v)
  BY <1>16, <1>20, ChangedHead
<1>23. Fits(ColumnAt(m2, v)) /\ e + k = ColumnEnd(m2, v)
  <2>1. ColumnAt(m2, v).num = less /\ ColumnAt(m2, v).cap = cap /\ ColumnAt(m2, v).payload = c + k /\ k \in Int
    BY <1>17, <1>20 DEF NumChanged
  <2>2. ColumnEnd(m2, v) = c + k + cap
    BY <2>1 DEF ColumnEnd
  <2>3. e + k = c + k + cap
    BY <1>e, <2>1
  <2>4. QED
    BY <1>18, <2>1, <2>2, <2>3 DEF Fits
<1>24. QED
  BY <1>2, <1>21, <1>22, <1>23, ColumnBack

(* What is behind the column goes on behind it, and no cell is reserved.   *)
Narrow(m, A, v, m2) ==
  /\ ColumnAt(m2, v).cap = ColumnAt(m2, v).num
  /\ \E q, d : Replaced(m, m2, A.pos, Step(m, A).pos, ColumnEnd(m2, v), q, d)

LEMMA ColumnPacked ==
  ASSUME NEW m \in Seq(Nat), NEW P, Places(m, P), NEW A, NEW v, ColumnPlace(m, P, A, v),
         NEW m2, m2 = PackColumn(m, v)
  PROVE  /\ \E P1 : Places(m2, P1) /\ ColumnPlace(m2, P1, A, v) /\ Keeps(P, P1, A.pos)
                    /\ Reader(ColumnEnd(m2, v), A.open) \in P1
         /\ Narrow(m, A, v, m2)
<1>1. PICK B \in P, num \in Nat, cap \in Nat, c \in Nat, e \in Nat, q \in Nat :
         Shape(m, P, A, B, v, num, cap, c, e, q) /\ B = Step(m, A)
  BY ColumnShape
<1>e. num <= cap /\ e = c + cap
  BY <1>1 DEF Shape
<1>2. /\ A \in P /\ B \in P /\ A.open = B.open /\ B.open # <<>> /\ ColumnHead(m, A, v)
      /\ num \in Nat /\ cap \in Nat /\ c \in Nat /\ e \in Nat /\ A.pos <= c /\ v < c
      /\ num = ColumnAt(m, v).num /\ cap = ColumnAt(m, v).cap /\ c = ColumnAt(m, v).payload
      /\ num <= cap /\ e = c + cap /\ e = ColumnEnd(m, v)
      /\ Replaced(m, m, A.pos, B.pos, e, q, 0)
  BY <1>1 DEF Shape
<1>3. v \in Nat /\ A.pos \in Nat /\ A.pos <= v
  BY <1>2 DEF ColumnHead
<1>4. CASE cap = num
  <2>1. m2 = m
    BY <1>2, <1>4 DEF PackColumn
  <2>2. Fits(ColumnAt(m, v))
    BY <1>2 DEF Fits
  <2>3. \E P1 : Places(m, P1) /\ ColumnPlace(m, P1, A, v) /\ Keeps(P, P1, A.pos) /\ Reader(e, A.open) \in P1
    BY <1>2, <2>2, ColumnBack
  <2>4. e = ColumnEnd(m, v)
    BY <1>2
  <2>5. Narrow(m, A, v, m)
    <3>1. Replaced(m, m, A.pos, Step(m, A).pos, ColumnEnd(m, v), q, 0)
      BY <1>1, <1>2
    <3>2. QED
      BY <1>2, <1>4, <3>1 DEF Narrow
  <2>6. QED
    BY <2>1, <2>3, <2>4, <2>5
<1>5. CASE cap # num
  <2>1. PICK n \in Nat, r \in Nat : n = cap - num /\ r = c + num /\ c <= r /\ r + n = e /\ r <= e /\ e - n = r
    <3>1. PICK n \in Nat : n = cap - num
      BY <1>e
    <3>2. PICK r \in Nat : r = c + num
      OBVIOUS
    <3>3. c <= r /\ r + n = e /\ r <= e /\ e - n = r
      BY <1>e, <3>1, <3>2
    <3>4. QED
      BY <3>1, <3>2, <3>3
  <2>2. PICK used : used = MoveLeft(m, r, n)
    OBVIOUS
  <2>3. m2 = UpdateUintvar(used, ColumnAt(m, v).cap_off, num)
    BY <1>2, <1>5, <2>1, <2>2 DEF PackColumn
  <2>4. PICK d1 : Replaced(m, used, A.pos, B.pos, r, q, d1)
    <3>a. PICK a \in Nat : a = A.pos /\ a <= c
      BY <1>2, <1>3
    <3>1. A.pos <= r /\ r + n <= e
      BY <2>1, <3>a
    <3>2. Replaced(m, MoveLeft(m, r, n), A.pos, B.pos, e - n, q, 0 - n)
      BY <1>2, <2>1, <3>1, Narrowed
    <3>3. QED
      BY <2>1, <2>2, <3>2
  <2>5. used \in Seq(Nat)
    BY <2>4, ReplacedType
  <2>6. SameTo(m, used, c)
    <3>1. e <= Len(m)
      BY <1>2, ReplacedType
    <3>2. SameTo(m, used, r)
      BY <2>1, <2>2, <3>1, MovedSame
    <3>3. QED
      BY <1>2, <2>1, <3>2, SameToLess
  <2>7. ColumnHead(used, A, v)
    BY <1>2, <2>6, HeadKept
  <2>8. /\ ColumnAt(used, v).num = num /\ ColumnAt(used, v).payload = c
        /\ ColumnAt(used, v).cap_off = ColumnAt(m, v).cap_off
    <3>1. SameTo(m, used, ColumnAt(m, v).payload)
      BY <1>2, <2>6
    <3>2. /\ ColumnAt(used, v).num = ColumnAt(m, v).num /\ ColumnAt(used, v).payload = ColumnAt(m, v).payload
          /\ ColumnAt(used, v).cap_off = ColumnAt(m, v).cap_off
      BY <1>3, <2>5, <3>1, ColumnKept
    <3>3. QED
      BY <1>2, <3>2
  <2>9. PICK o : o = ColumnAt(used, v).cap_off
    OBVIOUS
  <2>10. m2 = UpdateUintvar(used, o, num)
    BY <2>3, <2>8, <2>9
  <2>11. PICK k : CapChanged(used, m2, v, num, k) /\ \E d2 : Replaced(m, m2, A.pos, B.pos, r + k, q, d2)
    <3>1. ColumnAt(used, v).payload <= r
      BY <2>1, <2>8
    <3>2. QED
      BY SMTT(60), <1>2, <1>3, <2>4, <2>9, <2>10, <3>1, ColumnCapChanged
  <2>12. PICK d2 : Replaced(m, m2, A.pos, B.pos, r + k, q, d2)
    BY <2>11
  <2>13. ColumnHead(m2, A, v)
    BY <2>7, <2>11, ChangedHead
  <2>14. Fits(ColumnAt(m2, v)) /\ r + k = ColumnEnd(m2, v) /\ ColumnAt(m2, v).cap = ColumnAt(m2, v).num
    <3>1. ColumnAt(m2, v).num = num /\ ColumnAt(m2, v).cap = num /\ ColumnAt(m2, v).payload = c + k /\ k \in Int
      BY <2>8, <2>11 DEF CapChanged
    <3>2. ColumnEnd(m2, v) = c + k + num
      BY <3>1 DEF ColumnEnd
    <3>3. r + k = c + k + num
      BY <2>1, <3>1
    <3>4. QED
      BY <3>1, <3>2, <3>3 DEF Fits
  <2>15. \E P1 : Places(m2, P1) /\ ColumnPlace(m2, P1, A, v) /\ Keeps(P, P1, A.pos) /\ Reader(r + k, A.open) \in P1
    BY <1>2, <2>12, <2>13, <2>14, ColumnBack
  <2>16. Narrow(m, A, v, m2)
    BY <1>1, <2>12, <2>14 DEF Narrow
  <2>17. QED
    BY <2>14, <2>15, <2>16
<1>6. QED
  BY <1>4, <1>5

-----------------------------------------------------------------------------
(***************************************************************************)
(* Elements of an array: overwritten in place, and cut out.                 *)
(***************************************************************************)

(* An element of an array is about to be read.                             *)
ElementAt(m, P, A) ==
  /\ A \in P /\ A.open # <<>> /\ Kind(A) = "array" /\ CellAt(m, A.pos) \notin {0, ARRAY_END}

LEMMA HoldingIs ==
  ASSUME NEW m \in Seq(Nat), NEW P, Places(m, P), NEW A \in P, A.open # <<>>,
         CellAt(m, A.pos) \notin {0, EndMarker(A)}
  PROVE  Holding(m, A)
<1>1. Sound(m, A) /\ A \in Readers /\ A.pos \in Nat
  BY PlaceType
<1>2. ASSUME NEW q, Free(m, A.pos, q), CellAt(m, q) = EndMarker(A) PROVE FALSE
  <2>1. Free(m, A.pos, A.pos)
    BY <1>1, HoldingStep
  <2>2. q = A.pos
    BY <1>1, <1>2, <2>1, FreeIsUnique
  <2>3. QED
    BY <1>2, <2>2
<1>3. QED
  BY <1>1, <1>2 DEF Sound, Ending

LEMMA ElementIs ==
  ASSUME NEW m \in Seq(Nat), NEW P, Places(m, P), NEW A, ElementAt(m, P, A)
  PROVE  /\ A \in P /\ A \in Readers /\ A.pos \in Nat /\ A.open # <<>> /\ Holding(m, A) /\ ValueAt(A) = A.pos
         /\ Entitled(m, A) /\ Step(m, A) = Passed(m, A, A.pos, A.pos) /\ Step(m, A) \in P
         /\ A.pos < Step(m, A).pos /\ Step(m, A).pos \in Nat
<1>1. A \in P /\ A.open # <<>> /\ Kind(A) = "array" /\ CellAt(m, A.pos) \notin {0, ARRAY_END}
  BY DEF ElementAt
<1>2. A \in Readers /\ A.pos \in Nat /\ Step(m, A) \in P /\ A.pos < Step(m, A).pos /\ Step(m, A).pos \in Nat
  BY <1>1, PlaceType
<1>3. CellAt(m, A.pos) \notin {0, EndMarker(A)} /\ ValueAt(A) = A.pos /\ Entitled(m, A)
  BY <1>1 DEF EndMarker, ValueAt, Entitled
<1>4. Step(m, A) = Passed(m, A, A.pos, A.pos)
  <2>1. Step(m, A) = Passed(m, A, ValueAt(A), ValueAt(A))
    BY <1>1, <1>2, <1>3, HoldingStep
  <2>2. QED
    BY <1>3, <2>1
<1>5. Holding(m, A)
  BY <1>1, <1>3, HoldingIs
<1>6. QED
  BY <1>1, <1>2, <1>3, <1>4, <1>5

SameType(m, A, p, x) ==
  \/ CellAt(m, A.pos) = U8 /\ p = A.pos + 1
  \/ CellAt(m, A.pos) \in {NULL, TRUE_} /\ p = A.pos /\ x \in {NULL, TRUE_}

(* A number or constant is overwritten where it is.                        *)
LEMMA InPlace ==
  ASSUME NEW m \in Seq(Nat), NEW P, Places(m, P), NEW A, ElementAt(m, P, A),
         NEW p \in Nat, NEW x \in Nat,
         SameType(m, A, p, x), NEW cells, cells = <<x>>, NEW m2, m2 = Write(m, p, cells)
  PROVE  \E P1 : Places(m2, P1)
<1>1. /\ A \in P /\ A \in Readers /\ A.pos \in Nat /\ A.open # <<>> /\ Holding(m, A) /\ ValueAt(A) = A.pos
      /\ Entitled(m, A) /\ Step(m, A) = Passed(m, A, A.pos, A.pos) /\ Step(m, A) \in P
      /\ Kind(A) = "array"
  BY ElementIs DEF ElementAt
<1>2. PICK a \in Nat : a = A.pos
  BY <1>1
<1>3. PICK e \in Nat : /\ CellAt(m, a) = U8 => e = a + 2
                       /\ CellAt(m, a) # U8 => e = a + 1
  <2>1. a + 1 \in Nat /\ a + 2 \in Nat
    BY <1>2
  <2>2. CASE CellAt(m, a) = U8
    BY <2>1, <2>2
  <2>3. CASE CellAt(m, a) # U8
    BY <2>1, <2>3
  <2>4. QED
    BY <2>2, <2>3
<1>4. Step(m, A) = Reader(e, A.open)
  <2>1. CASE CellAt(m, a) = U8
    <3>1. Passed(m, A, a, a) = Reader(a + 2, A.open)
      BY <2>1, PassedArms
    <3>2. QED
      BY <1>1, <1>2, <1>3, <2>1, <3>1
  <2>2. CASE CellAt(m, a) # U8
    <3>1. CellAt(m, a) \in {NULL, TRUE_}
      BY <1>2, <2>2 DEF SameType
    <3>2. CellAt(m, a) \notin {ARRAY_BEGIN, OBJECT_BEGIN, U8, COLUMN_U8}
      BY <3>1, MarkersAreUsed
    <3>3. Passed(m, A, a, a) = Reader(a + 1, A.open)
      BY <3>2, PassedArms
    <3>4. QED
      BY <1>1, <1>2, <1>3, <2>2, <3>3
  <2>3. QED
    BY <2>1, <2>2
<1>5. PICK B \in P : B = Reader(e, A.open) /\ B.pos = e /\ B.open = A.open
  BY <1>1, <1>4, ReaderFields
<1>6. PICK q : Replaced(m, m, A.pos, B.pos, B.pos, q, 0)
  <2>1. A.pos <= B.pos
    BY <1>2, <1>3, <1>5
  <2>2. QED
    BY <1>1, <1>5, <2>1, Untouched
<1>7. Replaced(m, m, A.pos, B.pos, e, q, 0)
  BY <1>5, <1>6
<1>9. cells \in Seq(Nat) /\ Len(cells) = 1 /\ cells[1] = x
  OBVIOUS
<1>10. a <= p /\ p + 1 <= e
  <2>1. CASE CellAt(m, a) = U8
    <3>1. p = a + 1 /\ e = a + 2
      BY <1>2, <1>3, <2>1, MarkersAreUsed DEF SameType
    <3>2. QED
      BY <3>1
  <2>2. CASE CellAt(m, a) # U8
    <3>1. p = a /\ e = a + 1
      BY <1>2, <1>3, <2>2 DEF SameType
    <3>2. QED
      BY <3>1
  <2>3. QED
    BY <2>1, <2>2
<1>11. Grown(m, m, m2, A.pos, B.pos, p, e, q) /\ CellsAt(m2, p, cells)
  <2>1. A.pos <= p /\ p + Len(cells) <= e /\ m2 = Write(m, p, cells)
    BY <1>2, <1>9, <1>10
  <2>2. Grown(m, m, m2, A.pos, B.pos, p, e, q)
    BY <1>7, <1>9, <2>1, Written
  <2>3. CellsAt(m2, p, cells)
    BY <1>7, <1>9, <2>1, Written
  <2>4. QED
    BY <2>2, <2>3
<1>12. PICK d1 : Replaced(m, m2, A.pos, B.pos, e, q, d1)
  BY <1>11 DEF Grown
<1>13. m2 \in Seq(Nat) /\ e <= Len(m2)
  BY <1>12, ReplacedType
<1>14. (CellAt(m2, a) \in {NULL, TRUE_} /\ e = a + 1) \/ (CellAt(m2, a) = U8 /\ e = a + 2)
  <2>1. CASE CellAt(m, a) = U8
    <3>1. p = a + 1 /\ e = a + 2
      BY <1>2, <1>3, <2>1, MarkersAreUsed DEF SameType
    <3>2. a < p
      BY <3>1
    <3>3. CellAt(m2, a) = CellAt(m, a)
      BY <1>11, <3>2 DEF Grown
    <3>4. QED
      BY <2>1, <3>1, <3>3
  <2>2. CASE CellAt(m, a) # U8
    <3>1. p = a /\ e = a + 1 /\ x \in {NULL, TRUE_}
      BY <1>2, <1>3, <2>2 DEF SameType
    <3>2. p <= p /\ p < p + 1 /\ p - p + 1 = 1
      OBVIOUS
    <3>3. CellAt(m2, p) = cells[p - p + 1]
      BY <1>9, <1>11, <3>2 DEF CellsAt
    <3>4. QED
      BY <1>9, <3>1, <3>2, <3>3
  <2>3. QED
    BY <2>1, <2>2
<1>15. Spans(m2, A, B, e)
  <2>1. Entitled(m2, A)
    BY <1>1 DEF Entitled
  <2>2. Sound(m2, A) /\ Step(m2, A) = Reader(e, A.open)
    BY <1>1, <1>2, <1>13, <1>14, <2>1, FieldSpans
  <2>3. QED
    BY <1>1, <1>5, <2>2 DEF Spans
<1>16. EndsAt(m, m2, A.pos, B, e, e)
  BY DEF EndsAt
<1>17. QED
  BY <1>1, <1>12, <1>15, <1>16, FieldPlaced

CutOut(m, a, m1) == m1 = MoveLeft(m, a, FieldEnd(m, a, a) - a)

(* internal_field_remove                                                   *)
LEMMA FieldCut ==
  ASSUME NEW m \in Seq(Nat), NEW P, Places(m, P), NEW A, ElementAt(m, P, A),
         NEW a \in Nat, a = A.pos, NEW m1, CutOut(m, a, m1)
  PROVE  \E B, q, d : B \in P /\ B.open = A.open /\ Replaced(m, m1, A.pos, B.pos, A.pos, q, d)
<1>1. /\ A \in P /\ A \in Readers /\ A.pos \in Nat /\ A.open # <<>> /\ Holding(m, A) /\ ValueAt(A) = A.pos
      /\ A.pos < Step(m, A).pos /\ Step(m, A).pos \in Nat
  BY ElementIs
<1>2. PICK B \in P : B.pos = FieldEnd(m, a, a) /\ B.open = A.open /\ Step(m, A).pos <= B.pos
  BY <1>1, FieldExit
<1>3. PICK b \in Nat, s \in Nat : b = B.pos /\ s = Step(m, A).pos
  BY <1>1, PlaceType
<1>4. a \in Nat /\ a <= b
  BY <1>1, <1>2, <1>3
<1>5. PICK q : Replaced(m, m, a, b, b, q, 0)
  <2>1. A.pos <= B.pos /\ B.open # <<>>
    BY <1>1, <1>2, <1>3, <1>4
  <2>2. PICK q : Free(m, B.pos, q) /\ Replaced(m, m, A.pos, B.pos, B.pos, q, 0)
    BY <1>1, <2>1, Untouched
  <2>3. a = A.pos /\ b = B.pos
    BY <1>3
  <2>4. Replaced(m, m, a, b, b, q, 0)
    BY <2>2, <2>3, Zenon
  <2>5. QED
    BY <2>4
<1>6. PICK n \in Nat : n = b - a /\ a + n = b /\ b - n = a
  BY <1>4, Difference, SMT
<1>7. Replaced(m, MoveLeft(m, a, n), a, b, b - n, q, 0 - n)
  <2>1. a <= a /\ a + n <= b
    <3>1. a <= a
      OBVIOUS
    <3>2. a + n <= b
      BY <1>6
    <3>3. QED
      BY <3>1, <3>2
  <2>2. QED
    BY <1>4, <1>5, <2>1, Narrowed
<1>8. Replaced(m, m1, A.pos, B.pos, A.pos, q, 0 - n)
  BY <1>2, <1>3, <1>6, <1>7 DEF CutOut
<1>9. QED
  BY <1>2, <1>8

-----------------------------------------------------------------------------
(***************************************************************************)
(* Packing. It goes from field to field: when it has come to a place,      *)
(* nothing is reserved in front of it, and of what is still to come only   *)
(* the containers that are yet to be entered may end with free cells       *)
(* (PackedTo).  Closing a gap moves all that is behind it, so that the     *)
(* places of the memory before and after are compared place by place.      *)
(***************************************************************************)

(* The last place that is not behind an offset.                            *)
LEMMA PlaceUpTo ==
  ASSUME NEW m \in Seq(Nat), NEW P, Places(m, P), NEW B \in P, NEW x \in Nat, B.pos <= x
  PROVE  \E t \in P : /\ B.pos <= t.pos /\ t.pos <= x
                      /\ t.open # <<>> => x < Step(m, t).pos
<1>1. PICK b \in Nat : b = B.pos /\ b <= x
  BY PlaceType
<1>2. PICK T : T = {n \in Nat : \E t \in P : b <= t.pos /\ t.pos <= x /\ n = x - t.pos}
  OBVIOUS
<1>3. x - b \in T
  BY <1>1, <1>2
<1>4. PICK k \in T : \A y \in T : k <= y
  <2>1. T \subseteq Nat /\ T # {}
    BY <1>2, <1>3
  <2>2. QED
    BY <2>1, LeastNatural
<1>5. PICK t \in P : b <= t.pos /\ t.pos <= x /\ k = x - t.pos
  BY <1>2, <1>4
<1>6. t.pos \in Nat
  BY PlaceType
<1>7. ASSUME t.open # <<>>, ~(x < Step(m, t).pos) PROVE FALSE
  <2>1. PICK s \in P : s = Step(m, t)
    BY <1>7, PlaceType
  <2>2. s.pos \in Nat /\ t.pos < s.pos
    BY <1>7, <2>1, PlaceType
  <2>3. PICK n \in Nat : n = x - s.pos /\ n < k
    BY SMTT(40), <1>5, <1>6, <1>7, <2>1, <2>2
  <2>4. b <= s.pos /\ s.pos <= x
    BY <1>5, <1>6, <1>7, <2>1, <2>2
  <2>5. n \in T
    BY <1>2, <2>1, <2>3, <2>4
  <2>6. k \in Nat /\ k <= n
    BY <1>2, <1>4, <2>5
  <2>7. QED
    BY <2>3, <2>6
<1>8. QED
  BY <1>1, <1>5, <1>7

(* A step leads to every place but the first.                              *)
LEMMA PlaceBefore ==
  ASSUME NEW m \in Seq(Nat), NEW P, Places(m, P), NEW B \in P, NEW s \in P, B.pos < s.pos
  PROVE  \E t \in P : B.pos <= t.pos /\ t.pos < s.pos /\ t.open # <<>> /\ Step(m, t) = s
<1>1. PICK b \in Nat, p \in Nat, L \in Nat : b = B.pos /\ p = s.pos /\ b < p /\ L = Len(m) /\ p <= L
  <2>1. B.pos \in Nat /\ s.pos \in Nat /\ s.pos <= Len(m) /\ Len(m) \in Nat
    BY PlaceType
  <2>2. QED
    BY <2>1
<1>2. PICK x \in Nat : x = p - 1 /\ b <= x /\ x < p
  BY <1>1
<1>3. PICK t \in P : b <= t.pos /\ t.pos <= x /\ (t.open # <<>> => x < Step(m, t).pos)
  BY <1>1, <1>2, PlaceUpTo
<1>4. PICK u \in Nat : u = t.pos /\ u < p
  BY <1>2, <1>3, PlaceType
<1>5. t.open # <<>>
  BY <1>1, <1>4 DEF Places
<1>6. PICK n \in P : n = Step(m, t)
  BY <1>5, PlaceType
<1>7. PICK v \in Nat : v = n.pos /\ x < v
  BY <1>3, <1>5, <1>6, PlaceType
<1>8. v <= p
  BY <1>1, <1>4, <1>6, <1>7 DEF Places
<1>9. v = p
  BY <1>2, <1>7, <1>8
<1>10. n = s
  BY <1>1, <1>7, <1>9 DEF Places
<1>11. QED
  BY <1>1, <1>3, <1>4, <1>5, <1>6, <1>10

(* The cells of m from c on are those of m1, d cells later.                *)
MovedOn(m, m1, c, d) ==
  /\ m1 \in Seq(Nat) /\ d \in Int /\ Len(m1) = Len(m) + d /\ 0 <= c + d
  /\ \A x \in Nat : c <= x => CellAt(m1, x + d) = CellAt(m, x)

(* Places behind one that has moved have moved too.                        *)
LEMMA PlacesFollow ==
  ASSUME NEW m \in Seq(Nat), NEW P, Places(m, P), NEW m1 \in Seq(Nat), NEW P1, Places(m1, P1),
         NEW C \in P, NEW d \in Int, MovedOn(m, m1, C.pos, d), Shift(C, d) \in P1,
         NEW s \in P, C.pos <= s.pos
  PROVE  Shift(s, d) \in P1
<1>1. PICK c \in Nat : c = C.pos /\ 0 <= c + d
  BY PlaceType DEF MovedOn
<1>2. SUFFICES ASSUME Shift(s, d) \notin P1 PROVE FALSE
  OBVIOUS
<1>3. PICK T : T = {n \in Nat : \E r \in P : r.pos = n /\ c <= n /\ Shift(r, d) \notin P1}
  OBVIOUS
<1>4. PICK k \in T : \A y \in T : k <= y
  <2>1. s.pos \in Nat
    BY PlaceType
  <2>2. s.pos \in T
    BY <1>1, <1>2, <1>3, <2>1
  <2>3. T \subseteq Nat /\ T # {}
    BY <1>3, <2>2
  <2>4. QED
    BY <2>3, LeastNatural
<1>5. PICK r \in P : r.pos = k /\ c <= k /\ Shift(r, d) \notin P1 /\ k \in Nat
  BY <1>3, <1>4
<1>6. c < k
  <2>1. c # k
    BY <1>1, <1>5 DEF Places
  <2>2. QED
    BY <1>5, <2>1
<1>7. PICK t \in P : c <= t.pos /\ t.pos < k /\ t.open # <<>> /\ Step(m, t) = r
  BY <1>1, <1>5, <1>6, PlaceBefore
<1>8. PICK p \in Nat : p = t.pos /\ c <= p /\ p < k
  BY <1>7, PlaceType
<1>9. Shift(t, d) \in P1
  <2>1. p \notin T
    BY <1>4, <1>5, <1>8
  <2>2. QED
    BY <1>3, <1>8, <2>1
<1>10. t \in Readers /\ Sound(m, t) /\ r.pos <= Len(m)
  BY <1>7, PlaceType
<1>11. Step(m1, Shift(t, d)) = Shift(r, d)
  <2>1. 0 <= t.pos + d
    BY <1>1, <1>8
  <2>2. Step(m, t).pos + d <= Len(m1)
    BY <1>5, <1>7, <1>10 DEF MovedOn
  <2>3. ASSUME NEW x \in Nat, t.pos <= x, x < Step(m, t).pos PROVE CellAt(m1, x + d) = CellAt(m, x)
    <3>1. c <= x
      BY <1>8, <2>3
    <3>2. QED
      BY <1>1, <3>1 DEF MovedOn
  <2>4. QED
    BY <1>7, <1>10, <2>1, <2>2, <2>3, StepMoved
<1>12. Shift(t, d).open # <<>>
  BY <1>7, ReaderFields DEF Shift
<1>13. Step(m1, Shift(t, d)) \in P1
  BY <1>9, <1>12, PlaceType
<1>14. QED
  BY <1>5, <1>11, <1>13

(* Places in front of what has changed have not changed.                   *)
LEMMA PlacesStay ==
  ASSUME NEW m \in Seq(Nat), NEW P, Places(m, P), NEW m1 \in Seq(Nat), NEW P1, Places(m1, P1),
         NEW A \in P, A \in P1, Keeps(P, P1, A.pos), SameTo(m, m1, A.pos),
         NEW r \in P1, r.pos <= A.pos
  PROVE  r \in P
<1>1. PICK a \in Nat, p \in Nat : a = A.pos /\ p = r.pos /\ p <= a /\ a <= Len(m1) /\ 2 <= p
  BY PlaceType
<1>2. CASE p = a
  BY <1>1, <1>2 DEF Places
<1>3. CASE p # a
  <2>1. PICK F \in P : F.pos = 2
    BY ReaderFields DEF Places
  <2>2. PICK t \in P : 2 <= t.pos /\ t.pos <= p /\ (t.open # <<>> => p < Step(m, t).pos)
    BY <1>1, <2>1, PlaceUpTo
  <2>3. PICK u \in Nat : u = t.pos /\ u <= p /\ u < a
    <3>1. PICK u \in Nat : u = t.pos
      BY PlaceType
    <3>2. u <= p
      BY <2>2, <3>1
    <3>3. u < a
      BY <1>1, <1>3, <3>2
    <3>4. QED
      BY <3>1, <3>2, <3>3
  <2>4. t \in P1
    BY <1>1, <2>3 DEF Keeps
  <2>5. CASE u = p
    BY <1>1, <2>3, <2>4, <2>5 DEF Places
  <2>6. CASE u # p
    <3>1. u < p
      BY <2>3, <2>6
    <3>2. t.open # <<>>
      <4>1. a <= Len(m)
        BY <1>1, PlaceType
      <4>2. QED
        BY <2>3, <4>1 DEF Places
    <3>3. t \in Readers /\ Sound(m, t) /\ Step(m, t).pos \in Nat
      BY <3>2, PlaceType
    <3>4. Step(m, t).pos <= a
      BY <1>1, <2>3 DEF Places
    <3>5. PICK z \in Int : z = 0
      OBVIOUS
    <3>6. Step(m1, Shift(t, z)) = Shift(Step(m, t), z)
      <4>1. 0 <= t.pos + z /\ Step(m, t).pos + z <= Len(m1)
        BY <1>1, <2>3, <3>3, <3>4, <3>5
      <4>2. ASSUME NEW x \in Nat, t.pos <= x, x < Step(m, t).pos PROVE CellAt(m1, x + z) = CellAt(m, x)
        <5>1. x < a /\ x + z = x
          BY <1>1, <3>3, <3>4, <3>5, <4>2
        <5>2. QED
          BY <1>1, <5>1 DEF SameTo
      <4>3. QED
        BY <3>3, <4>1, <4>2, StepMoved
    <3>7. Step(m1, t).pos = Step(m, t).pos
      <4>1. Shift(t, z) = t
        BY <2>3, <3>3, <3>5, ReaderIs DEF Shift
      <4>2. Shift(Step(m, t), z).pos = Step(m, t).pos
        BY <3>3, <3>5, ReaderFields DEF Shift
      <4>3. QED
        BY <3>6, <4>1, <4>2
    <3>8. Step(m1, t).pos <= p
      BY <1>1, <2>3, <2>4, <3>1 DEF Places
    <3>9. QED
      BY <2>2, <3>2, <3>3, <3>7, <3>8
  <2>7. QED
    BY <2>5, <2>6
<1>4. QED
  BY <1>2, <1>3

(* No cell is reserved where r stands, nor in the column that follows.     *)
Snug(m, r) ==
  /\ CellAt(m, r.pos) # 0
  /\ Holding(m, r) /\ CellAt(m, ValueAt(r)) = COLUMN_U8 => ColumnAt(m, ValueAt(r)).cap = ColumnAt(m, ValueAt(r)).num

(* On the way from A to r there is a place in fewer containers than r.     *)
Enclosed(P, A, r) == \E s \in P : A.pos <= s.pos /\ s.pos < r.pos /\ Len(s.open) < Len(r.open)

(* Packing has come to A: nothing is reserved in front of it, and none of  *)
(* the containers that A is in ends with free cells.                       *)
PackedTo(m, P, A) ==
  /\ \A r \in P : r.pos < A.pos => Snug(m, r)
  /\ \A r \in P : A.pos <= r.pos /\ r.open # <<>> /\ CellAt(m, r.pos) = 0 => Enclosed(P, A, r)

LEMMA SnugKept ==
  ASSUME NEW m \in Seq(Nat), NEW P, Places(m, P), NEW m1 \in Seq(Nat), NEW P1, Places(m1, P1),
         NEW r \in P, r.open # <<>>, Snug(m, r),
         NEW a \in Nat, Step(m, r).pos <= a, SameTo(m, m1, a)
  PROVE  Snug(m1, r)
<1>1. PICK p \in Nat, n \in Nat : p = r.pos /\ n = Step(m, r).pos /\ p < n /\ n <= a
  <2>1. r.pos \in Nat /\ Step(m, r).pos \in Nat /\ r.pos < Step(m, r).pos
    BY PlaceType
  <2>2. QED
    BY <2>1
<1>2. CellAt(m1, p) = CellAt(m, p)
  <2>1. p < a
    BY <1>1
  <2>2. QED
    BY <2>1 DEF SameTo
<1>3. ASSUME Holding(m1, r), CellAt(m1, ValueAt(r)) = COLUMN_U8
      PROVE  ColumnAt(m1, ValueAt(r)).cap = ColumnAt(m1, ValueAt(r)).num
  <2>1. Holding(m, r)
    <3>1. CellAt(m, r.pos) \notin {0, EndMarker(r)}
      BY <1>1, <1>2, <1>3 DEF Holding
    <3>2. QED
      BY <3>1, HoldingIs
  <2>2. r \in Readers
    BY PlaceType
  <2>3. ValueAt(r) \in Nat /\ Step(m, r) = Passed(m, r, ValueAt(r), ValueAt(r))
    BY <2>1, <2>2, HoldingStep DEF Holding
  <2>4. PICK v \in Nat : v = ValueAt(r)
    BY <2>3
  <2>5. v < n
    BY <1>1, <2>2, <2>3, <2>4, PassedForward
  <2>6. v < a
    BY <1>1, <2>5
  <2>7. CellAt(m, v) = COLUMN_U8
    BY <1>3, <2>4, <2>6 DEF SameTo
  <2>8. n = ColumnAt(m, v).payload + ColumnAt(m, v).cap
    BY <1>1, <2>3, <2>4, <2>7, PassedArms, ReaderFields
  <2>9. PICK c \in Nat, x \in Nat : c = ColumnAt(m, v).payload /\ x = ColumnAt(m, v).cap
    BY ColumnType
  <2>10. c <= a
    BY <1>1, <2>8, <2>9
  <2>11. SameTo(m, m1, ColumnAt(m, v).payload)
    BY <2>9, <2>10, SameToLess
  <2>12. ColumnAt(m1, v).num = ColumnAt(m, v).num /\ ColumnAt(m1, v).cap = ColumnAt(m, v).cap
    BY <2>11, ColumnKept
  <2>13. ColumnAt(m, v).cap = ColumnAt(m, v).num
    BY <2>1, <2>4, <2>7 DEF Snug
  <2>14. QED
    BY <2>4, <2>12, <2>13
<1>4. CellAt(m1, r.pos) # 0
  BY <1>1, <1>2 DEF Snug
<1>5. QED
  BY <1>3, <1>4 DEF Snug

(* Nothing has been reserved anew in front of what has changed.            *)
LEMMA SnugBefore ==
  ASSUME NEW m \in Seq(Nat), NEW P, Places(m, P), NEW m1 \in Seq(Nat), NEW P1, Places(m1, P1),
         NEW A \in P, A \in P1, Keeps(P, P1, A.pos), SameTo(m, m1, A.pos), PackedTo(m, P, A),
         NEW r \in P1, r.pos < A.pos
  PROVE  Snug(m1, r)
<1>1. PICK a \in Nat, p \in Nat : a = A.pos /\ p = r.pos /\ p < a /\ a <= Len(m)
  <2>1. A.pos \in Nat /\ r.pos \in Nat /\ A.pos <= Len(m)
    BY PlaceType
  <2>2. QED
    BY <2>1
<1>2. r \in P
  BY <1>1, PlacesStay
<1>3. r.open # <<>>
  BY <1>1, <1>2 DEF Places
<1>4. Snug(m, r)
  BY <1>2 DEF PackedTo
<1>5. Step(m, r).pos <= a
  BY <1>1, <1>2 DEF Places
<1>6. QED
  BY <1>1, <1>2, <1>3, <1>4, <1>5, SnugKept

(* What lay on the way to a place lies on the way to where it has moved.   *)
LEMMA EnclosedMoved ==
  ASSUME NEW m \in Seq(Nat), NEW P, Places(m, P), NEW m1 \in Seq(Nat), NEW P1, Places(m1, P1),
         NEW A \in P, NEW C \in P, NEW d \in Int, MovedOn(m, m1, C.pos, d), Shift(C, d) \in P1,
         \A s \in P : A.pos <= s.pos /\ s.pos < C.pos => s \in P1 /\ s.pos < C.pos + d,
         PackedTo(m, P, A), A.pos <= C.pos, A.pos <= C.pos + d,
         NEW r \in P1, C.pos + d <= r.pos, r.open # <<>>, CellAt(m1, r.pos) = 0
  PROVE  Enclosed(P1, A, r)
<1>1. PICK a \in Nat, c \in Nat, p \in Nat : a = A.pos /\ c = C.pos /\ p = r.pos
  <2>1. A.pos \in Nat /\ C.pos \in Nat /\ r.pos \in Nat
    BY PlaceType
  <2>2. QED
    BY <2>1
<1>2. a <= c /\ a <= c + d /\ c + d <= p /\ 0 <= c + d
  BY <1>1
<1>3. PICK z \in Int, y \in Nat : z = 0 - d /\ y = p + z /\ c <= y /\ y + d = p
  BY <1>2
<1>4. PICK D \in P1 : D = Shift(C, d)
  OBVIOUS
<1>5. D.pos = c + d /\ D.open = C.open
  BY <1>1, <1>4, ReaderFields DEF Shift
<1>6. PICK s \in P : s = Shift(r, z)
  <2>1. MovedOn(m1, m, D.pos, z)
    <3>1. Len(m1) = Len(m) + d /\ Len(m) \in Nat /\ Len(m1) \in Nat
      BY DEF MovedOn
    <3>2. Len(m) = Len(m1) + z /\ 0 <= D.pos + z
      BY <1>1, <1>2, <1>3, <1>5, <3>1
    <3>3. ASSUME NEW x \in Nat, D.pos <= x PROVE CellAt(m, x + z) = CellAt(m1, x)
      <4>1. PICK w \in Nat : w = x + z /\ c <= w /\ w + d = x
        BY <1>2, <1>3, <1>5, <3>3
      <4>2. QED
        BY <1>1, <4>1 DEF MovedOn
    <3>4. QED
      BY <3>2, <3>3 DEF MovedOn
  <2>2. Shift(D, z) = C
    <3>1. D.pos + z = c /\ C \in Readers
      BY <1>2, <1>3, <1>5, PlaceType
    <3>2. QED
      BY <1>1, <1>5, <3>1, ReaderIs DEF Shift
  <2>3. Shift(D, z) \in P /\ D.pos <= r.pos
    BY <1>1, <1>2, <1>5, <2>2
  <2>4. QED
    BY <2>1, <2>3, PlacesFollow
<1>7. s.pos = y /\ s.open = r.open
  BY <1>1, <1>3, <1>6, ReaderFields DEF Shift
<1>8. CellAt(m, y) = 0
  BY <1>1, <1>3 DEF MovedOn
<1>9. Enclosed(P, A, s)
  <2>1. A.pos <= s.pos
    <3>1. a <= y
      BY <1>2, <1>3
    <3>2. QED
      BY <1>1, <1>7, <3>1
  <2>2. QED
    BY <1>7, <1>8, <2>1 DEF PackedTo
<1>10. PICK u \in P : A.pos <= u.pos /\ u.pos < s.pos /\ Len(u.open) < Len(s.open)
  BY <1>9 DEF Enclosed
<1>11. PICK n \in Nat : n = u.pos /\ a <= n /\ n < y
  BY <1>1, <1>7, <1>10, PlaceType
<1>12. CASE n < c
  <2>1. u \in P1 /\ n < c + d
    BY <1>1, <1>10, <1>11, <1>12
  <2>2. n < p
    BY <1>2, <1>11, <2>1
  <2>3. QED
    BY <1>1, <1>7, <1>10, <1>11, <2>1, <2>2 DEF Enclosed
<1>13. CASE c <= n
  <2>1. PICK t \in P1 : t = Shift(u, d)
    BY <1>1, <1>11, <1>13, PlacesFollow
  <2>2. t.pos = n + d /\ t.open = u.open
    BY <1>11, <2>1, ReaderFields DEF Shift
  <2>3. a <= n + d /\ n + d < p
    BY <1>2, <1>3, <1>11, <1>13
  <2>4. QED
    BY <1>1, <1>7, <1>10, <2>2, <2>3 DEF Enclosed
<1>14. QED
  BY <1>12, <1>13

(* A field with nothing reserved is passed, or the end of a container.     *)
LEMMA StepPacked ==
  ASSUME NEW m \in Seq(Nat), NEW P, Places(m, P), NEW A \in P, A.open # <<>>, PackedTo(m, P, A), Snug(m, A),
         NEW s, s = Step(m, A), Len(s.open) <= Len(A.open)
  PROVE  PackedTo(m, P, s)
<1>1. s \in P /\ A.pos \in Nat /\ s.pos \in Nat /\ A.pos < s.pos
  BY PlaceType
<1>2. PICK a \in Nat, n \in Nat : a = A.pos /\ n = s.pos /\ a < n
  BY <1>1
<1>3. ASSUME NEW r \in P, r.pos < s.pos PROVE Snug(m, r)
  <2>1. PICK p \in Nat : p = r.pos
    BY PlaceType
  <2>2. CASE p < a
    BY <1>2, <2>1, <2>2 DEF PackedTo
  <2>3. CASE p = a
    BY <1>2, <2>1, <2>3 DEF Places
  <2>4. CASE a < p
    <3>1. n <= p
      BY <1>2, <2>1, <2>4 DEF Places
    <3>2. QED
      BY <1>2, <1>3, <2>1, <3>1
  <2>5. QED
    BY <2>1, <2>2, <2>3, <2>4
<1>4. ASSUME NEW r \in P, s.pos <= r.pos, r.open # <<>>, CellAt(m, r.pos) = 0 PROVE Enclosed(P, s, r)
  <2>1. PICK p \in Nat : p = r.pos /\ n <= p
    BY <1>2, <1>4, PlaceType
  <2>2. Enclosed(P, A, r)
    <3>1. A.pos <= r.pos
      BY <1>2, <2>1
    <3>2. QED
      BY <1>4, <3>1 DEF PackedTo
  <2>3. PICK u \in P : A.pos <= u.pos /\ u.pos < r.pos /\ Len(u.open) < Len(r.open)
    BY <2>2 DEF Enclosed
  <2>4. PICK x \in Nat : x = u.pos
    BY PlaceType
  <2>5. CASE x = a
    <3>1. u = A
      BY <1>2, <2>4, <2>5 DEF Places
    <3>2. /\ Len(s.open) \in Nat /\ Len(A.open) \in Nat /\ Len(r.open) \in Nat
      BY <1>1, PlaceType, LenProperties
    <3>3. Len(s.open) < Len(r.open)
      BY <2>3, <3>1, <3>2
    <3>4. s # r
      BY <3>2, <3>3
    <3>5. n # p
      BY <1>1, <1>2, <2>1, <3>4 DEF Places
    <3>6. s.pos <= s.pos /\ s.pos < r.pos
      BY <1>2, <2>1, <3>5
    <3>7. QED
      BY <1>1, <3>3, <3>6 DEF Enclosed
  <2>6. CASE x # a
    <3>1. n <= x
      <4>1. a < x
        BY <1>2, <2>3, <2>4, <2>6
      <4>2. QED
        BY <1>2, <2>4, <4>1 DEF Places
    <3>2. QED
      BY <1>2, <2>3, <2>4, <3>1 DEF Enclosed
  <2>7. QED
    BY <2>5, <2>6
<1>5. QED
  BY <1>3, <1>4 DEF PackedTo

(* The containers A is in are packed, and the one behind it ends at E       *)
(* without a free cell.                                                    *)
LEMMA IntoPacked ==
  ASSUME NEW m \in Seq(Nat), NEW P, Places(m, P), NEW A \in P, A.open # <<>>, PackedTo(m, P, A), Snug(m, A),
         NEW I, I = Step(m, A), Len(I.open) = Len(A.open) + 1,
         NEW E \in P, E.open = I.open, I.pos <= E.pos, Filled(m, P, I, E), Ending(m, E), CellAt(m, E.pos) # 0
  PROVE  PackedTo(m, P, I)
<1>1. I \in P /\ A.pos \in Nat /\ I.pos \in Nat /\ A.pos < I.pos /\ E.pos \in Nat
  BY PlaceType
<1>2. PICK a \in Nat, i \in Nat, e \in Nat : a = A.pos /\ i = I.pos /\ e = E.pos /\ a < i /\ i <= e
  BY <1>1
<1>3. PICK k \in Nat : k = Len(A.open) /\ Len(I.open) = k + 1
  BY PlaceType
<1>4. ASSUME NEW r \in P, r.pos < I.pos PROVE Snug(m, r)
  <2>1. PICK p \in Nat : p = r.pos
    BY PlaceType
  <2>2. CASE p < a
    BY <1>2, <2>1, <2>2 DEF PackedTo
  <2>3. CASE p = a
    BY <1>2, <2>1, <2>3 DEF Places
  <2>4. CASE a < p
    <3>1. i <= p
      BY <1>2, <2>1, <2>4 DEF Places
    <3>2. QED
      BY <1>2, <1>4, <2>1, <3>1
  <2>5. QED
    BY <2>1, <2>2, <2>3, <2>4
<1>5. PICK F \in P : F = Step(m, E) /\ F.pos = e + 1 /\ Len(F.open) = k
  <2>1. E.open # <<>>
    <3>1. Len(E.open) = k + 1
      BY <1>3
    <3>2. QED
      BY <3>1
  <2>2. E \in Readers /\ Step(m, E) \in P
    BY <2>1, PlaceType
  <2>3. PICK q : Free(m, E.pos, q) /\ CellAt(m, q) = EndMarker(E)
    BY DEF Ending
  <2>4. q = e
    <3>1. e < Len(m)
      BY <1>2, <2>1, PlaceType
    <3>2. Free(m, e, e)
      BY <1>2, <3>1 DEF Free
    <3>3. QED
      BY <1>2, <2>3, <3>2, FreeIsUnique
  <2>5. Step(m, E) = OutOf(E, e + 1)
    BY <2>1, <2>2, <2>3, <2>4, EndingStep
  <2>6. OutOf(E, e + 1).pos = e + 1 /\ Len(OutOf(E, e + 1).open) = Len(E.open) - 1
    BY <1>2, <2>1, <2>2, Popped2
  <2>7. Len(E.open) - 1 = k
    BY <1>3
  <2>8. QED
    BY <2>2, <2>5, <2>6, <2>7
<1>6. ASSUME NEW r \in P, I.pos <= r.pos, r.open # <<>>, CellAt(m, r.pos) = 0 PROVE Enclosed(P, I, r)
  <2>1. PICK p \in Nat, l \in Nat : p = r.pos /\ i <= p /\ l = Len(r.open)
    <3>1. r.pos \in Nat /\ Len(r.open) \in Nat
      BY PlaceType
    <3>2. QED
      BY <1>2, <1>6, <3>1
  <2>2. Enclosed(P, A, r)
    <3>1. A.pos <= r.pos
      BY <1>2, <2>1
    <3>2. QED
      BY <1>6, <3>1 DEF PackedTo
  <2>3. PICK u \in P : A.pos <= u.pos /\ u.pos < r.pos /\ Len(u.open) < Len(r.open)
    BY <2>2 DEF Enclosed
  <2>4. PICK x \in Nat : x = u.pos
    BY PlaceType
  <2>5. CASE x # a
    <3>1. i <= x
      <4>1. a < x
        BY <1>2, <2>3, <2>4, <2>5
      <4>2. QED
        BY <1>2, <2>4, <4>1 DEF Places
    <3>2. QED
      BY <1>2, <2>3, <2>4, <3>1 DEF Enclosed
  <2>6. CASE x = a /\ k + 1 < l
    <3>1. i # p
      <4>1. I # r
        BY <1>3, <2>1, <2>6
      <4>2. QED
        BY <1>1, <1>2, <2>1, <4>1 DEF Places
    <3>2. I.pos <= I.pos /\ I.pos < r.pos
      BY <1>2, <2>1, <3>1
    <3>3. QED
      BY <1>1, <1>3, <2>1, <2>6, <3>2 DEF Enclosed
  <2>7. CASE x = a /\ ~(k + 1 < l)
    <3>1. u = A
      BY <1>2, <2>4, <2>7 DEF Places
    <3>2. k < l
      BY <1>3, <2>1, <2>3, <3>1
    <3>3. ~(p < e)
      BY <1>2, <1>3, <1>6, <2>1, <2>7 DEF Filled
    <3>4. p # e
      BY <1>2, <1>6, <2>1
    <3>5. e < p
      BY <1>2, <2>1, <3>3, <3>4
    <3>6. e + 1 <= p
      BY <3>5
    <3>7. F # r
      BY <1>5, <2>1, <3>2
    <3>8. e + 1 # p
      BY <1>5, <2>1, <3>7 DEF Places
    <3>9. I.pos <= F.pos /\ F.pos < r.pos
      BY <1>2, <1>5, <2>1, <3>6, <3>8
    <3>10. QED
      BY <1>5, <2>1, <3>2, <3>9 DEF Enclosed
  <2>8. QED
    BY <2>5, <2>6, <2>7
<1>7. QED
  BY <1>4, <1>6 DEF PackedTo

(* The free cells in front of the end of a container, which lies at E, are *)
(* closed.                                                                 *)
Dropped(m, P, A, E, q, m2, P1) ==
  /\ E \in P /\ E.open = A.open /\ A.pos <= E.pos /\ Filled(m, P, A, E)
  /\ Free(m, E.pos, q) /\ CellAt(m, q) = EndMarker(E)
  /\ Replaced(m, m2, E.pos, E.pos, E.pos, q, E.pos - q)
  /\ Places(m2, P1) /\ E \in P1 /\ A \in P1 /\ Keeps(P, P1, E.pos)

LEMMA FreeDropped ==
  ASSUME NEW m \in Seq(Nat), NEW P, Places(m, P), NEW A \in P, A.open # <<>>,
         NEW m2, m2 = DropFree(m, SlotsEnd(m, A.pos, Kind(A)))
  PROVE  \E E, q, P1 : Dropped(m, P, A, E, q, m2, P1)
<1>1. PICK E \in P : /\ E.open = A.open /\ E.pos = SlotsEnd(m, A.pos, Kind(A)) /\ Ending(m, E) /\ A.pos <= E.pos
                     /\ Filled(m, P, A, E)
  BY SlotsExit
<1>2. A.pos \in Nat /\ E.pos \in Nat
  BY PlaceType
<1>3. PICK a \in Nat, p \in Nat : a = A.pos /\ p = E.pos /\ a <= p
  BY <1>1, <1>2
<1>4. PICK q : Free(m, p, q) /\ CellAt(m, q) = EndMarker(E)
  BY <1>1, <1>3 DEF Ending
<1>5. FirstUsed(m, p) = q
  BY <1>4, FirstUsedIs
<1>6. m2 = MoveLeft(m, p, q - p)
  BY <1>1, <1>3, <1>5 DEF DropFree
<1>7. Replaced(m, m2, p, p, p, q, p - q)
  BY <1>4, <1>6, GapClosed
<1>8. PICK P1 : Places(m2, P1) /\ E \in P1 /\ Keeps(P, P1, E.pos)
  <2>1. E.open # <<>>
    BY <1>1
  <2>2. Replaced(m, m2, E.pos, E.pos, E.pos, q, p - q)
    BY <1>3, <1>7
  <2>3. QED
    BY <2>1, <2>2, NothingPlaced
<1>9. A \in P1
  <2>1. CASE a < p
    BY <1>3, <1>8, <2>1 DEF Keeps
  <2>2. CASE a = p
    BY <1>3, <1>8, <2>2 DEF Places
  <2>3. QED
    BY <1>3, <2>1, <2>2
<1>10. Dropped(m, P, A, E, q, m2, P1)
  BY <1>1, <1>3, <1>4, <1>7, <1>8, <1>9 DEF Dropped
<1>11. QED
  BY <1>10

LEMMA DroppedIs ==
  ASSUME NEW m \in Seq(Nat), NEW P, Places(m, P), NEW A \in P, A.open # <<>>,
         NEW E, NEW q, NEW m2, NEW P1, Dropped(m, P, A, E, q, m2, P1)
  PROVE  /\ m2 \in Seq(Nat) /\ E.pos \in Nat /\ q \in Nat /\ E.pos <= q /\ Len(m2) = Len(m) + (E.pos - q)
         /\ SameTo(m, m2, E.pos) /\ Ending(m2, E) /\ CellAt(m2, E.pos) # 0 /\ Filled(m2, P1, A, E)
         /\ Step(m, E) \in P /\ Step(m, E).pos = q + 1
         /\ MovedOn(m, m2, q + 1, E.pos - q) /\ Shift(Step(m, E), E.pos - q) \in P1
         /\ Step(m2, E) \in P1 /\ Step(m2, E).pos = E.pos + 1 /\ Len(Step(m2, E).open) = Len(A.open) - 1
<1>1. /\ E \in P /\ E.open = A.open /\ A.pos <= E.pos /\ Filled(m, P, A, E)
      /\ Free(m, E.pos, q) /\ CellAt(m, q) = EndMarker(E)
      /\ Replaced(m, m2, E.pos, E.pos, E.pos, q, E.pos - q)
      /\ Places(m2, P1) /\ E \in P1 /\ A \in P1 /\ Keeps(P, P1, E.pos)
  BY DEF Dropped
<1>2. E \in Readers /\ E.open # <<>> /\ Step(m, E) \in P /\ Step(m2, E) \in P1 /\ m2 \in Seq(Nat)
  BY <1>1, PlaceType, ReplacedType
<1>3. PICK e \in Nat : e = E.pos
  BY <1>1, PlaceType
<1>4. q \in Nat /\ e <= q
  BY <1>1, <1>3 DEF Free
<1>5. PICK d \in Int : d = e - q /\ q + d = e
  BY <1>4
<1>6. /\ Len(m2) = Len(m) + d
      /\ \A x \in Nat : x < e => CellAt(m2, x) = CellAt(m, x)
      /\ \A x \in Nat : q <= x => CellAt(m2, x + d) = CellAt(m, x)
  BY <1>1, <1>3, <1>5 DEF Replaced
<1>7. Free(m2, e, e) /\ CellAt(m2, e) = EndMarker(E) /\ CellAt(m2, e) # 0
  <2>1. CellAt(m2, e) = CellAt(m, q)
    BY <1>4, <1>5, <1>6
  <2>2. CellAt(m, q) # 0
    BY <1>1 DEF Free
  <2>3. e < Len(m2)
    BY <1>1, <1>2, <1>3, PlaceType
  <2>4. QED
    BY <1>1, <2>1, <2>2, <2>3 DEF Free
<1>8. Step(m, E) = OutOf(E, q + 1) /\ Step(m2, E) = OutOf(E, e + 1)
  BY <1>1, <1>2, <1>3, <1>7, EndingStep
<1>9. /\ OutOf(E, q + 1).pos = q + 1 /\ OutOf(E, e + 1).pos = e + 1
      /\ Len(OutOf(E, e + 1).open) = Len(E.open) - 1
  <2>1. PICK x \in Nat, y \in Nat : x = q + 1 /\ y = e + 1
    BY <1>4
  <2>2. /\ OutOf(E, x).pos = x /\ OutOf(E, y).pos = y
        /\ Len(OutOf(E, y).open) = Len(E.open) - 1
    BY <1>2, Popped2
  <2>3. QED
    BY <2>1, <2>2
<1>10. Shift(Step(m, E), d) = Step(m2, E)
  <2>1. PICK o : o = SubSeq(E.open, 1, Len(E.open) - 1)
    OBVIOUS
  <2>2. OutOf(E, q + 1) = Reader(q + 1, o) /\ OutOf(E, e + 1) = Reader(e + 1, o)
    BY <2>1 DEF OutOf
  <2>3. q + 1 + d = e + 1
    BY <1>4, <1>5
  <2>4. QED
    BY <1>8, <2>2, <2>3, ReaderFields DEF Shift
<1>11. MovedOn(m, m2, q + 1, d)
  <2>1. 0 <= q + 1 + d
    BY <1>4, <1>5
  <2>2. ASSUME NEW x \in Nat, q + 1 <= x PROVE CellAt(m2, x + d) = CellAt(m, x)
    <3>1. q <= x
      BY <1>4, <2>2
    <3>2. QED
      BY <1>6, <3>1
  <2>3. QED
    BY <1>2, <1>6, <2>1, <2>2 DEF MovedOn
<1>12. SameTo(m, m2, e)
  BY <1>6 DEF SameTo
<1>13. Filled(m2, P1, A, E)
  <2>1. SUFFICES ASSUME NEW t \in P1, A.pos <= t.pos, t.pos < E.pos, CellAt(m2, t.pos) = 0 PROVE Len(t.open) > Len(A.open)
    BY DEF Filled
  <2>2. t.pos \in Nat
    BY <1>1, <1>2, PlaceType
  <2>3. t \in P
    <3>1. t.pos <= E.pos
      BY <1>3, <2>1, <2>2
    <3>2. SameTo(m, m2, E.pos)
      BY <1>3, <1>12
    <3>3. QED
      BY <1>1, <1>2, <3>1, <3>2, PlacesStay
  <2>4. CellAt(m, t.pos) = 0
    BY <1>3, <1>6, <2>1, <2>2
  <2>5. QED
    BY <1>1, <2>1, <2>3, <2>4 DEF Filled
<1>14. Ending(m2, E)
  BY <1>3, <1>7 DEF Ending
<1>15. QED
  BY <1>1, <1>2, <1>3, <1>4, <1>5, <1>6, <1>7, <1>8, <1>9, <1>10, <1>11, <1>12, <1>13, <1>14

(* Closing the free cells at the end of a container leaves packed what is  *)
(* in front of it.                                                         *)
LEMMA DropPacked ==
  ASSUME NEW m \in Seq(Nat), NEW P, Places(m, P), NEW A \in P, PackedTo(m, P, A),
         NEW I \in P, I.open # <<>>, A.pos <= I.pos,
         NEW E, NEW q, NEW m2, NEW P1, Dropped(m, P, I, E, q, m2, P1)
  PROVE  A \in P1 /\ PackedTo(m2, P1, A)
<1>1. /\ E \in P /\ I.pos <= E.pos /\ Places(m2, P1) /\ E \in P1 /\ I \in P1 /\ Keeps(P, P1, E.pos)
  BY DEF Dropped
<1>2. /\ m2 \in Seq(Nat) /\ q \in Nat /\ E.pos <= q
      /\ SameTo(m, m2, E.pos) /\ CellAt(m2, E.pos) # 0
      /\ Step(m, E) \in P /\ Step(m, E).pos = q + 1
      /\ MovedOn(m, m2, q + 1, E.pos - q) /\ Shift(Step(m, E), E.pos - q) \in P1
      /\ Step(m2, E).pos = E.pos + 1
  BY DroppedIs
<1>3. PICK a \in Nat, e \in Nat, y \in Nat : a = A.pos /\ e = E.pos /\ y = q + 1 /\ a <= e /\ e < y
  <2>1. A.pos \in Nat /\ I.pos \in Nat /\ E.pos \in Nat
    BY <1>1, PlaceType
  <2>2. PICK a \in Nat, i \in Nat, e \in Nat : a = A.pos /\ i = I.pos /\ e = E.pos
    BY <2>1
  <2>3. a <= i /\ i <= e
    BY <1>1, <2>2
  <2>4. a <= e /\ e < q + 1 /\ q + 1 \in Nat
    BY SMTT(40), <1>2, <2>2, <2>3
  <2>5. QED
    BY <2>2, <2>4
<1>4. PICK d \in Int : d = e - q /\ y + d = e + 1 /\ d = E.pos - q
  BY <1>2, <1>3
<1>5. PICK C \in P : C = Step(m, E) /\ C.pos = y
  BY <1>2, <1>3
<1>6. A \in P1
  <2>1. CASE a < e
    BY <1>1, <1>3, <2>1 DEF Keeps
  <2>2. CASE a = e
    <3>1. A = E
      BY <1>1, <1>3, <2>2 DEF Places
    <3>2. QED
      BY <1>1, <3>1
  <2>3. QED
    BY <1>3, <2>1, <2>2
<1>7. ASSUME NEW r \in P1, r.pos < A.pos PROVE Snug(m2, r)
  <2>1. SameTo(m, m2, A.pos)
    BY <1>2, <1>3, SameToLess
  <2>2. Keeps(P, P1, A.pos)
    <3>1. \A t \in P : t.pos \in Nat
      BY PlaceType
    <3>2. \A t \in P : t.pos < A.pos => t.pos < E.pos
      BY <1>3, <3>1
    <3>3. QED
      BY <1>1, <3>2 DEF Keeps
  <2>3. QED
    BY <1>1, <1>2, <1>6, <1>7, <2>1, <2>2, SnugBefore
<1>8. ASSUME NEW r \in P1, A.pos <= r.pos, r.open # <<>>, CellAt(m2, r.pos) = 0 PROVE Enclosed(P1, A, r)
  <2>1. PICK p \in Nat : p = r.pos /\ a <= p
    BY <1>1, <1>2, <1>3, <1>8, PlaceType
  <2>2. CASE p < e
    <3>1. r \in P
      <4>1. r.pos <= E.pos
        BY <1>3, <2>1, <2>2
      <4>2. QED
        BY <1>1, <1>2, <4>1, PlacesStay
    <3>2. CellAt(m, p) = 0
      BY <1>2, <1>3, <1>8, <2>1, <2>2 DEF SameTo
    <3>3. Enclosed(P, A, r)
      BY <1>8, <2>1, <3>1, <3>2 DEF PackedTo
    <3>4. PICK u \in P : A.pos <= u.pos /\ u.pos < r.pos /\ Len(u.open) < Len(r.open)
      BY <3>3 DEF Enclosed
    <3>5. PICK x \in Nat : x = u.pos
      BY PlaceType
    <3>6. x < e
      BY <2>1, <2>2, <3>4, <3>5
    <3>7. u \in P1
      BY <1>1, <1>3, <3>5, <3>6 DEF Keeps
    <3>8. QED
      BY <3>4, <3>7 DEF Enclosed
  <2>3. CASE p = e
    BY <1>2, <1>3, <1>8, <2>1, <2>3
  <2>4. CASE e < p
    <3>1. E.open # <<>>
      BY DEF Dropped
    <3>2. e + 1 <= p
      BY <2>4
    <3>3. ASSUME NEW s \in P, A.pos <= s.pos, s.pos < C.pos PROVE s \in P1 /\ s.pos < C.pos + d
      <4>1. PICK x \in Nat : x = s.pos
        BY PlaceType
      <4>2. x <= e
        <5>1. SUFFICES ASSUME e < x PROVE FALSE
          BY <1>3, <4>1
        <5>2. Step(m, E).pos <= s.pos
          BY <1>1, <1>3, <4>1, <5>1 DEF Places
        <5>3. QED
          BY <1>5, <3>3, <4>1, <5>2
      <4>3. s \in P1
        <5>1. CASE x < e
          BY <1>1, <1>3, <4>1, <5>1 DEF Keeps
        <5>2. CASE x = e
          <6>1. s = E
            BY <1>1, <1>3, <4>1, <5>2 DEF Places
          <6>2. QED
            BY <1>1, <6>1
        <5>3. QED
          BY <4>2, <5>1, <5>2
      <4>4. x < y + d
        BY <1>4, <4>2
      <4>5. QED
        BY <1>5, <4>1, <4>3, <4>4
    <3>4. /\ MovedOn(m, m2, C.pos, d) /\ Shift(C, d) \in P1 /\ A.pos <= C.pos /\ A.pos <= C.pos + d
          /\ C.pos + d <= r.pos
      <4>1. MovedOn(m, m2, C.pos, d) /\ Shift(C, d) \in P1
        BY <1>2, <1>3, <1>4, <1>5
      <4>2. a <= y /\ a <= y + d /\ y + d <= p
        BY <1>3, <1>4, <3>2
      <4>3. QED
        BY <1>3, <1>5, <2>1, <4>1, <4>2
    <3>5. QED
      BY <1>1, <1>2, <1>8, <3>3, <3>4, EnclosedMoved
  <2>5. QED
    BY <1>3, <2>1, <2>2, <2>3, <2>4
<1>9. QED
  BY <1>6, <1>7, <1>8 DEF PackedTo

(* Packing a column leaves packed what is in front of it.                  *)
LEMMA NarrowPacked ==
  ASSUME NEW m \in Seq(Nat), NEW P, Places(m, P), NEW A, NEW v, ColumnPlace(m, P, A, v), PackedTo(m, P, A),
         NEW m2, Narrow(m, A, v, m2), NEW P1, Places(m2, P1), ColumnPlace(m2, P1, A, v), Keeps(P, P1, A.pos),
         Reader(ColumnEnd(m2, v), A.open) \in P1
  PROVE  /\ PackedTo(m2, P1, A)
         /\ Step(m2, A) = Reader(ColumnEnd(m2, v), A.open)
         /\ Len(m2) - Step(m2, A).pos = Len(m) - Step(m, A).pos
<1>1. /\ A \in P /\ A.open # <<>> /\ A \in Readers /\ A.pos \in Nat /\ v = ValueAt(A) /\ v \in Nat
      /\ CellAt(m, v) = COLUMN_U8 /\ Holding(m, A)
  BY ColumnPlaceIs DEF ColumnPlace
<1>2. m2 \in Seq(Nat)
  BY DEF Places
<1>3. A \in P1 /\ Holding(m2, A) /\ CellAt(m2, v) = COLUMN_U8
  BY DEF ColumnPlace
<1>4. PICK B \in P : B = Step(m, A) /\ B.open = A.open /\ A.pos < B.pos
  <2>1. \E B \in P : B.open = A.open /\ B = Step(m, A)
    BY ColumnPlaceIs
  <2>2. A.pos < Step(m, A).pos
    BY <1>1, PlaceType
  <2>3. QED
    BY <2>1, <2>2
<1>5. PICK q, d : Replaced(m, m2, A.pos, B.pos, ColumnEnd(m2, v), q, d)
  BY <1>4 DEF Narrow
<1>6. PICK e \in Nat : e = ColumnEnd(m2, v)
  BY <1>5, ReplacedType
<1>7. PICK a \in Nat, b \in Nat : a = A.pos /\ b = B.pos /\ a < b /\ b < Len(m)
  <2>1. B.open # <<>>
    BY <1>1, <1>4
  <2>2. B.pos \in Nat /\ B.pos < Len(m)
    BY <2>1, PlaceType
  <2>3. QED
    BY <1>1, <1>4, <2>2
<1>8. CellAt(m, b) # 0
  <2>1. SUFFICES ASSUME CellAt(m, b) = 0 PROVE FALSE
    OBVIOUS
  <2>2. B.open # <<>> /\ A.pos <= B.pos
    BY <1>1, <1>4, <1>7
  <2>3. Enclosed(P, A, B)
    BY <1>7, <2>1, <2>2 DEF PackedTo
  <2>4. PICK u \in P : A.pos <= u.pos /\ u.pos < B.pos /\ Len(u.open) < Len(B.open)
    BY <2>3 DEF Enclosed
  <2>5. PICK x \in Nat : x = u.pos
    BY PlaceType
  <2>6. x = a
    <3>1. SUFFICES ASSUME a < x PROVE FALSE
      BY <1>7, <2>4, <2>5
    <3>2. Step(m, A).pos <= u.pos
      BY <1>1, <1>7, <2>5, <3>1 DEF Places
    <3>3. QED
      BY <1>4, <1>7, <2>4, <2>5, <3>2
  <2>7. u = A
    BY <1>1, <1>7, <2>5, <2>6 DEF Places
  <2>8. Len(A.open) \in Nat
    BY <1>1, PlaceType
  <2>9. QED
    BY <1>4, <2>4, <2>7, <2>8
<1>9. q = b /\ d \in Int /\ b + d = e /\ a <= e
  <2>1. Free(m, b, q) /\ (q = b => q + d = e) /\ d \in Int /\ a <= e
    BY <1>5, <1>6, <1>7 DEF Replaced
  <2>2. Free(m, b, b)
    BY <1>7, <1>8 DEF Free
  <2>3. q = b
    BY <1>7, <2>1, <2>2, FreeIsUnique
  <2>4. QED
    BY <2>1, <2>3
<1>10. /\ Len(m2) = Len(m) + d
       /\ \A x \in Nat : x < a => CellAt(m2, x) = CellAt(m, x)
       /\ \A x \in Nat : b <= x => CellAt(m2, x + d) = CellAt(m, x)
  BY <1>5, <1>7, <1>9 DEF Replaced
<1>11. PICK F \in P1 : F = Step(m2, A) /\ F = Reader(e, A.open) /\ F.pos = e
  <2>1. Step(m2, A) = Passed(m2, A, v, v)
    BY <1>1, <1>2, <1>3, HoldingStep DEF Holding
  <2>2. Step(m2, A) = Reader(ColumnEnd(m2, v), A.open)
    BY <1>3, <2>1, PassedArms DEF ColumnEnd
  <2>3. QED
    BY <1>6, <2>2, ReaderFields
<1>12. MovedOn(m, m2, B.pos, d) /\ Shift(B, d) \in P1
  <2>1. Shift(B, d) = F
    BY <1>4, <1>7, <1>9, <1>11 DEF Shift
  <2>2. MovedOn(m, m2, B.pos, d)
    BY <1>2, <1>7, <1>9, <1>10 DEF MovedOn
  <2>3. QED
    BY <2>1, <2>2
<1>13. ASSUME NEW r \in P1, r.pos < A.pos PROVE Snug(m2, r)
  <2>1. SameTo(m, m2, A.pos)
    BY <1>7, <1>10 DEF SameTo
  <2>2. QED
    BY <1>1, <1>2, <1>3, <1>13, <2>1, SnugBefore
<1>14. ASSUME NEW r \in P1, A.pos <= r.pos, r.open # <<>>, CellAt(m2, r.pos) = 0 PROVE Enclosed(P1, A, r)
  <2>1. PICK p \in Nat : p = r.pos /\ a <= p
    BY <1>2, <1>7, <1>14, PlaceType
  <2>2. p # a
    <3>1. SUFFICES ASSUME p = a PROVE FALSE
      OBVIOUS
    <3>2. CellAt(m2, A.pos) # 0
      BY <1>3 DEF Holding
    <3>3. QED
      BY <1>7, <1>14, <2>1, <3>1, <3>2
  <2>3. e <= p
    <3>1. a < p
      BY <2>1, <2>2
    <3>2. Step(m2, A).pos <= r.pos
      BY <1>3, <1>7, <2>1, <3>1 DEF Places
    <3>3. QED
      BY <1>11, <2>1, <3>2
  <2>4. ASSUME NEW s \in P, A.pos <= s.pos, s.pos < B.pos PROVE s \in P1 /\ s.pos < B.pos + d
    <3>1. PICK x \in Nat : x = s.pos
      BY PlaceType
    <3>2. x = a
      <4>1. SUFFICES ASSUME a < x PROVE FALSE
        BY <1>7, <2>4, <3>1
      <4>2. Step(m, A).pos <= s.pos
        BY <1>1, <1>7, <3>1, <4>1 DEF Places
      <4>3. QED
        BY <1>4, <1>7, <2>4, <3>1, <4>2
    <3>3. s = A
      BY <1>1, <1>7, <3>1, <3>2 DEF Places
    <3>4. a < e
      <4>1. A.pos < Step(m2, A).pos
        BY <1>1, <1>2, <1>3, PlaceType
      <4>2. QED
        BY <1>7, <1>11, <4>1
    <3>5. QED
      BY <1>3, <1>7, <1>9, <3>1, <3>2, <3>3, <3>4
  <2>5. A.pos <= B.pos /\ A.pos <= B.pos + d /\ B.pos + d <= r.pos
    BY <1>7, <1>9, <2>1, <2>3
  <2>6. QED
    BY <1>1, <1>2, <1>9, <1>12, <1>14, <2>4, <2>5, EnclosedMoved
<1>15. PackedTo(m2, P1, A)
  BY <1>13, <1>14 DEF PackedTo
<1>16. Len(m2) - e = Len(m) - b
  <2>1. PICK x \in Nat, y \in Nat : x = Len(m) /\ y = Len(m2) /\ y = x + d
    BY <1>2, <1>10
  <2>2. y - e = x - b
    BY <1>9, <2>1
  <2>3. QED
    BY <2>1, <2>2
<1>17. QED
  BY <1>4, <1>6, <1>7, <1>11, <1>15, <1>16

(* Packing in m had come to A; in m2 it has come to s, which is nearer to  *)
(* the end.                                                                *)
PackedOn(m, A, m2, s) ==
  /\ Len(m2) - s.pos < Len(m) - A.pos
  /\ \E P : Places(m2, P) /\ s \in P /\ PackedTo(m2, P, s)

LEMMA EndPacked ==
  ASSUME NEW m \in Seq(Nat), NEW P, Places(m, P), NEW A \in P, A.open # <<>>, PackedTo(m, P, A), Ending(m, A)
  PROVE  PackedOn(m, A, m, Step(m, A))
<1>1. /\ A \in Readers /\ Sound(m, A) /\ A.pos \in Nat /\ Step(m, A) \in P /\ A.pos < Step(m, A).pos
      /\ Step(m, A).pos \in Nat /\ A.open \in Seq(Kinds)
  BY PlaceType
<1>2. PICK q : Free(m, A.pos, q) /\ CellAt(m, q) = EndMarker(A)
  BY DEF Ending
<1>3. NoneLeft(m, A) /\ Step(m, A) = OutOf(A, q + 1) /\ q \in Nat
  BY <1>1, <1>2, EndingStep
<1>4. CellAt(m, A.pos) # 0
  <2>1. ~Enclosed(P, A, A)
    <3>1. SUFFICES ASSUME NEW s \in P, A.pos <= s.pos, s.pos < A.pos PROVE FALSE
      BY DEF Enclosed
    <3>2. s.pos \in Nat
      BY PlaceType
    <3>3. QED
      BY <1>1, <3>1, <3>2
  <2>2. A.pos <= A.pos
    BY <1>1
  <2>3. QED
    BY <2>1, <2>2 DEF PackedTo
<1>5. ~Holding(m, A)
  BY <1>1, <1>3, HoldingStep DEF Holding
<1>6. Snug(m, A)
  BY <1>4, <1>5 DEF Snug
<1>7. Len(Step(m, A).open) <= Len(A.open)
  <2>1. PICK x \in Nat : x = q + 1
    BY <1>3
  <2>2. Len(OutOf(A, x).open) = Len(A.open) - 1
    BY <1>1, Popped2
  <2>3. Len(A.open) \in Nat
    BY <1>1
  <2>4. QED
    BY <1>3, <2>1, <2>2, <2>3
<1>8. PackedTo(m, P, Step(m, A))
  BY <1>6, <1>7, StepPacked
<1>9. Len(m) - Step(m, A).pos < Len(m) - A.pos
  BY <1>1
<1>10. QED
  BY <1>1, <1>8, <1>9 DEF PackedOn

(* A field that has been packed is passed as any other.                    *)
LEMMA PackedIsPassed ==
  ASSUME NEW m \in Seq(Nat), NEW P, Places(m, P), NEW A \in P, A.open # <<>>, PackedTo(m, P, A), Holding(m, A),
         NEW v, v = ValueAt(A), CellAt(m, v) \notin {ARRAY_BEGIN, OBJECT_BEGIN},
         CellAt(m, v) = COLUMN_U8 => ColumnAt(m, v).cap = ColumnAt(m, v).num
  PROVE  /\ Passed(m, A, v, v) = Step(m, A)
         /\ PackedTo(m, P, Step(m, A))
<1>1. A \in Readers
  BY PlaceType
<1>2. Step(m, A) = Passed(m, A, v, v)
  BY <1>1, HoldingStep DEF Holding
<1>3. \E p : Passed(m, A, v, v) = Reader(p, A.open)
  BY PassedArms
<1>4. Step(m, A).open = A.open
  BY <1>2, <1>3, ReaderFields
<1>5. Snug(m, A)
  BY DEF Snug, Holding
<1>6. Len(A.open) \in Nat
  BY PlaceType
<1>7. Len(Step(m, A).open) <= Len(A.open)
  BY <1>4, <1>6
<1>8. PackedTo(m, P, Step(m, A))
  BY <1>5, <1>7, StepPacked
<1>9. QED
  BY <1>2, <1>8

LEMMA ContentsPacked ==
  ASSUME NEW m \in Seq(Nat), NEW P, Places(m, P), NEW A \in P, A.open # <<>>, Holding(m, A), PackedTo(m, P, A),
         NEW v, v = ValueAt(A), NEW kind \in Kinds, CellAt(m, v) = Begin(kind),
         NEW m2, m2 = DropFree(m, SlotsEnd(m, v + 1, kind))
  PROVE  m2 \in Seq(Nat) /\ PackedOn(m, A, m2, Passed(m2, A, v, v))
<1>1. /\ A \in Readers /\ A.pos \in Nat /\ Step(m, A) \in P /\ CellAt(m, A.pos) \notin {0, EndMarker(A)}
      /\ A.open \in Seq(Kinds) /\ A.pos < Step(m, A).pos
  BY PlaceType DEF Holding
<1>2. v \in Nat /\ A.pos <= v /\ Step(m, A) = Passed(m, A, v, v)
  BY <1>1, HoldingStep
<1>3. PICK w \in Nat : w = v + 1 /\ A.pos < w /\ v < w
  BY <1>1, <1>2
<1>4. ASSUME NEW m1, CellAt(m1, v) = Begin(kind) PROVE Passed(m1, A, v, v) = Into(A, kind, w)
  <2>1. CASE kind = "array"
    BY <1>3, <1>4, <2>1, PassedArms DEF Begin
  <2>2. CASE kind = "object"
    BY <1>3, <1>4, <2>2, PassedArms DEF Begin
  <2>3. QED
    BY <2>1, <2>2 DEF Kinds
<1>5. PICK I \in P : I = Into(A, kind, w) /\ I = Step(m, A)
  BY <1>1, <1>2, <1>4
<1>6. I.pos = w /\ Len(I.open) = Len(A.open) + 1 /\ I.open[Len(A.open) + 1] = kind
  <2>1. I = Into(A, kind, w)
    BY <1>5
  <2>2. QED
    BY <1>1, <2>1, Pushed2
<1>7. Kind(I) = kind
  BY <1>6 DEF Kind
<1>8. I.open # <<>>
  <2>1. PICK l \in Nat : l = Len(A.open)
    BY <1>1
  <2>2. Len(I.open) # 0
    BY <1>6, <2>1
  <2>3. QED
    BY <2>2
<1>9. m2 = DropFree(m, SlotsEnd(m, I.pos, Kind(I)))
  BY <1>3, <1>6, <1>7
<1>10. PICK E, q, P1 : Dropped(m, P, I, E, q, m2, P1)
  BY <1>8, <1>9, FreeDropped
<1>11. /\ E \in P1 /\ E.open = I.open /\ I.pos <= E.pos /\ Places(m2, P1)
  BY <1>10 DEF Dropped
<1>12. /\ m2 \in Seq(Nat) /\ E.pos \in Nat /\ q \in Nat /\ E.pos <= q /\ Len(m2) = Len(m) + (E.pos - q)
       /\ SameTo(m, m2, E.pos) /\ Ending(m2, E) /\ CellAt(m2, E.pos) # 0 /\ Filled(m2, P1, I, E)
  BY <1>8, <1>10, DroppedIs
<1>13. A \in P1 /\ PackedTo(m2, P1, A)
  <2>1. A.pos <= I.pos
    BY <1>1, <1>3, <1>6
  <2>2. QED
    BY <1>8, <1>10, <2>1, DropPacked
<1>14. CellAt(m2, A.pos) = CellAt(m, A.pos) /\ CellAt(m2, v) = Begin(kind)
  <2>1. PICK a \in Nat, e \in Nat : a = A.pos /\ e = E.pos
    BY <1>1, <1>12
  <2>2. a < e /\ v < e
    BY <1>2, <1>3, <1>6, <1>11, <2>1
  <2>3. QED
    BY <1>2, <1>12, <2>1, <2>2 DEF SameTo
<1>15. Step(m2, A) = I /\ Passed(m2, A, v, v) = I
  <2>1. Passed(m2, A, v, v) = I
    BY <1>4, <1>5, <1>14
  <2>2. Step(m2, A) = Passed(m2, A, v, v)
    BY <1>1, <1>12, <1>14, HoldingStep
  <2>3. QED
    BY <2>1, <2>2
<1>16. Snug(m2, A)
  <2>1. CellAt(m2, v) # COLUMN_U8
    BY <1>14, MarkersDiffer DEF Begin
  <2>2. CellAt(m2, A.pos) # 0
    BY <1>1, <1>14
  <2>3. QED
    BY <2>1, <2>2 DEF Snug
<1>17. PackedTo(m2, P1, I)
  BY <1>6, <1>11, <1>12, <1>13, <1>15, <1>16, IntoPacked
<1>18. I \in P1
  BY <1>10 DEF Dropped
<1>19. Len(m2) - I.pos < Len(m) - A.pos
  <2>1. PICK x \in Nat, y \in Nat : x = Len(m) /\ y = Len(m2) /\ y <= x
    BY <1>12
  <2>2. y - w < x - A.pos
    BY <1>1, <1>3, <2>1
  <2>3. QED
    BY <1>6, <2>1, <2>2
<1>20. QED
  BY <1>11, <1>12, <1>15, <1>17, <1>18, <1>19 DEF PackedOn

(* A field is packed and passed.                                           *)
LEMMA FieldPacked ==
  ASSUME NEW m \in Seq(Nat), NEW P, Places(m, P), NEW A \in P, A.open # <<>>, Holding(m, A), PackedTo(m, P, A),
         NEW v, v = ValueAt(A), NEW m2, m2 = PackField(m, v)
  PROVE  m2 \in Seq(Nat) /\ PackedOn(m, A, m2, Passed(m2, A, v, v))
<1>1. /\ A \in Readers /\ A.pos \in Nat /\ CellAt(m, A.pos) \notin {0, EndMarker(A)} /\ Step(m, A) \in P
      /\ A.pos < Step(m, A).pos /\ Step(m, A).pos \in Nat
  BY PlaceType DEF Holding
<1>2. CASE CellAt(m, v) = COLUMN_U8
  <2>1. m2 = PackColumn(m, v)
    BY <1>2, MarkersDiffer DEF PackField
  <2>2. ColumnPlace(m, P, A, v)
    BY <1>2 DEF ColumnPlace
  <2>3. PICK P1 : Places(m2, P1) /\ ColumnPlace(m2, P1, A, v) /\ Keeps(P, P1, A.pos)
                  /\ Reader(ColumnEnd(m2, v), A.open) \in P1
    BY <2>1, <2>2, ColumnPacked
  <2>4. Narrow(m, A, v, m2)
    BY <2>1, <2>2, ColumnPacked
  <2>5. A \in P1 /\ Holding(m2, A) /\ CellAt(m2, v) = COLUMN_U8
    BY <2>3 DEF ColumnPlace
  <2>6. m2 \in Seq(Nat)
    BY <2>3 DEF Places
  <2>7. PackedTo(m2, P1, A) /\ Len(m2) - Step(m2, A).pos = Len(m) - Step(m, A).pos
    BY <2>2, <2>3, <2>4, NarrowPacked
  <2>8. ColumnAt(m2, v).cap = ColumnAt(m2, v).num
    BY <2>4 DEF Narrow
  <2>9. Passed(m2, A, v, v) = Step(m2, A) /\ PackedTo(m2, P1, Step(m2, A))
    BY <2>3, <2>5, <2>6, <2>7, <2>8, MarkersDiffer, PackedIsPassed
  <2>10. Step(m2, A) \in P1
    BY <2>3, <2>5, <2>6, PlaceType
  <2>11. Len(m2) - Step(m2, A).pos < Len(m) - A.pos
    <3>1. Len(m) - Step(m, A).pos < Len(m) - A.pos
      BY <1>1
    <3>2. QED
      BY <2>7, <3>1
  <2>12. QED
    BY <2>3, <2>6, <2>9, <2>10, <2>11 DEF PackedOn
<1>3. CASE CellAt(m, v) = ARRAY_BEGIN
  <2>1. m2 = DropFree(m, SlotsEnd(m, v + 1, "array"))
    BY <1>3, MarkersDiffer DEF PackField
  <2>2. "array" \in Kinds /\ CellAt(m, v) = Begin("array")
    BY <1>3 DEF Kinds, Begin
  <2>3. QED
    BY <2>1, <2>2, ContentsPacked
<1>4. CASE CellAt(m, v) = OBJECT_BEGIN
  <2>1. m2 = DropFree(m, SlotsEnd(m, v + 1, "object"))
    BY <1>4, MarkersDiffer DEF PackField
  <2>2. "object" \in Kinds /\ CellAt(m, v) = Begin("object")
    BY <1>4 DEF Kinds, Begin
  <2>3. QED
    BY <2>1, <2>2, ContentsPacked
<1>5. CASE CellAt(m, v) \notin {COLUMN_U8, ARRAY_BEGIN, OBJECT_BEGIN}
  <2>1. m2 = m
    BY <1>5 DEF PackField
  <2>2. Passed(m, A, v, v) = Step(m, A) /\ PackedTo(m, P, Step(m, A))
    BY <1>5, PackedIsPassed
  <2>3. Len(m) - Step(m, A).pos < Len(m) - A.pos
    BY <1>1
  <2>4. QED
    BY <1>1, <2>1, <2>2, <2>3 DEF PackedOn
<1>6. QED
  BY <1>2, <1>3, <1>4, <1>5

(* Packing has come to the reader, with no more than N cells to go.        *)
Packing(p, N) ==
  /\ Len(p.mem) - p.reader.pos <= N
  /\ \E P : Places(p.mem, P) /\ p.reader \in P /\ PackedTo(p.mem, P, p.reader)

Packs(N) == {p \in [mem : Seq(Nat), reader : Readers] : Packing(p, N)}

LEMMA PackStepKeeps ==
  ASSUME NEW N \in Nat, NEW p \in Packs(N)
  PROVE  /\ PackStep(p) \in Packs(N)
         /\ p.reader.open = <<>> => PackStep(p) = p
         /\ p.reader.open # <<>> => Len(PackStep(p).mem) - PackStep(p).reader.pos < Len(p.mem) - p.reader.pos
<1>1. PICK m \in Seq(Nat), A \in Readers : m = p.mem /\ A = p.reader /\ p = [mem |-> m, reader |-> A]
  BY DEF Packs
<1>2. PICK P : Places(m, P) /\ A \in P /\ PackedTo(m, P, A)
  BY <1>1 DEF Packs, Packing
<1>3. ASSUME NEW m2 \in Seq(Nat), NEW r, PackedOn(m, A, m2, r), PackStep(p) = [mem |-> m2, reader |-> r]
      PROVE  /\ PackStep(p) \in Packs(N)
             /\ Len(PackStep(p).mem) - PackStep(p).reader.pos < Len(p.mem) - p.reader.pos
  <2>1. PICK o : o = [mem |-> m2, reader |-> r] /\ o = PackStep(p)
    BY <1>3
  <2>2. o.mem = m2 /\ o.reader = r
    BY <2>1
  <2>3. PICK P1 : Places(m2, P1) /\ r \in P1 /\ PackedTo(m2, P1, r)
    BY <1>3 DEF PackedOn
  <2>4. r \in Readers /\ r.pos \in Nat
    BY <2>3, PlaceType
  <2>5. Len(m2) - r.pos < Len(m) - A.pos
    BY <1>3 DEF PackedOn
  <2>6. Len(m) - A.pos <= N /\ A.pos \in Nat
    BY <1>1, <1>2, PlaceType DEF Packs, Packing
  <2>7. Len(o.mem) - o.reader.pos <= N
    <3>1. PICK x \in Int, y \in Int : x = Len(m2) - r.pos /\ y = Len(m) - A.pos
      BY <2>4, <2>6
    <3>2. x <= N
      BY <2>5, <2>6, <3>1
    <3>3. QED
      BY <2>2, <3>1, <3>2
  <2>8. Packing(o, N)
    BY <2>2, <2>3, <2>7 DEF Packing
  <2>9. o \in [mem : Seq(Nat), reader : Readers]
    BY <2>1, <2>4
  <2>10. o \in Packs(N)
    BY <2>8, <2>9 DEF Packs
  <2>11. QED
    BY <1>1, <2>1, <2>2, <2>5, <2>10
<1>4. CASE A.open = <<>>
  BY <1>1, <1>4 DEF PackStep
<1>5. CASE A.open # <<>> /\ NoneLeft(m, A)
  <2>1. PackStep(p) = [mem |-> m, reader |-> Step(m, A)]
    BY <1>1, <1>5 DEF PackStep
  <2>2. Sound(m, A)
    BY <1>2, <1>5, PlaceType
  <2>3. Ending(m, A)
    BY <1>5, <2>2, Forward
  <2>4. PackedOn(m, A, m, Step(m, A))
    BY <1>2, <1>5, <2>3, EndPacked
  <2>5. QED
    BY <1>1, <1>3, <1>5, <2>1, <2>4
<1>6. CASE A.open # <<>> /\ ~NoneLeft(m, A)
  <2>1. Holding(m, A)
    <3>1. Sound(m, A)
      BY <1>2, <1>6, PlaceType
    <3>2. ~Ending(m, A)
      BY <1>6, <3>1, Forward
    <3>3. QED
      BY <3>1, <3>2 DEF Sound
  <2>2. PICK v : v = ValueAt(A)
    OBVIOUS
  <2>3. MarkerAt(m, A) = v
    BY <1>6, <2>1, <2>2, HoldingStep DEF Holding
  <2>4. PICK m2 : m2 = PackField(m, v)
    OBVIOUS
  <2>5. PackStep(p) = [mem |-> m2, reader |-> Passed(m2, A, v, v)]
    BY <1>1, <1>6, <2>3, <2>4 DEF PackStep
  <2>6. m2 \in Seq(Nat) /\ PackedOn(m, A, m2, Passed(m2, A, v, v))
    BY <1>2, <1>6, <2>1, <2>2, <2>4, FieldPacked
  <2>7. QED
    BY <1>1, <1>3, <1>6, <2>5, <2>6
<1>7. QED
  BY <1>1, <1>4, <1>5, <1>6

(* Where packing begins: the fields before the first have been dealt with. *)
Begins(p, m, begin) == p = [mem |-> PackField(m, begin), reader |-> Reader(begin + 1, <<"array">>)]

LEMMA PackIs ==
  ASSUME NEW m \in Seq(Nat), NEW begin \in Nat, NEW S, NEW p \in S, Begins(p, m, begin),
         \A s \in S : PackStep(s) \in S
  PROVE  \E f \in [0 .. Len(m) -> S] :
            /\ f[0] = p
            /\ \A n \in 1 .. Len(m) : f[n] = PackStep(f[n - 1])
            /\ PackArray(m, begin) = f[Len(m)].mem
<1>1. PICK L \in Nat : L = Len(m)
  OBVIOUS
<1>2. PICK g : g = [s \in S |-> PackStep(s)]
  OBVIOUS
<1>3. g \in [S -> S]
  BY <1>2
<1>4. PICK f \in [0 .. L -> S] : f[0] = p /\ \A n \in 1 .. L : f[n] = g[f[n - 1]]
  <2>1. PICK f \in [0 .. L -> S] : Repeats(f, g, p, L)
    BY <1>3, Iterated
  <2>2. QED
    BY <2>1 DEF Repeats
<1>5. ASSUME NEW n \in 1 .. L PROVE f[n] = PackStep(f[n - 1])
  <2>1. f[n - 1] \in S
    <3>1. n - 1 \in 0 .. L
      OBVIOUS
    <3>2. QED
      BY <3>1
  <2>2. QED
    BY <1>2, <1>4, <2>1
<1>6. f = [n \in 0 .. L |-> IF n = 0 THEN p ELSE PackStep(f[n - 1])]
  <2>1. \A n \in 0 .. L : f[n] = IF n = 0 THEN p ELSE PackStep(f[n - 1])
    <3>1. SUFFICES ASSUME NEW n \in 0 .. L PROVE f[n] = IF n = 0 THEN p ELSE PackStep(f[n - 1])
      OBVIOUS
    <3>2. CASE n = 0
      BY <1>4, <3>2
    <3>3. CASE n # 0
      <4>1. n \in 1 .. L
        BY <3>3
      <4>2. QED
        BY <1>5, <3>3, <4>1
    <3>4. QED
      BY <3>2, <3>3
  <2>2. QED
    BY <2>1
<1>7. PICK h : h = CHOOSE h1 : h1 = [n \in 0 .. L |-> IF n = 0 THEN p ELSE PackStep(h1[n - 1])]
  OBVIOUS
<1>8. h = [n \in 0 .. L |-> IF n = 0 THEN p ELSE PackStep(h[n - 1])]
  BY <1>6, <1>7, Zenon
<1>9. PackArray(m, begin) = h[L].mem
  BY <1>1, <1>7, Zenon DEF PackArray, Begins
<1>10. \A n \in 0 .. L : f[n] = h[n]
  <2>1. f[0] = h[0]
    <3>1. 0 \in 0 .. L
      OBVIOUS
    <3>2. h[0] = p
      BY <1>8, <3>1
    <3>3. QED
      BY <1>4, <3>2
  <2>2. ASSUME NEW n \in 1 .. L, f[n - 1] = h[n - 1] PROVE f[n] = h[n]
    <3>1. n \in 0 .. L /\ n # 0
      OBVIOUS
    <3>2. h[n] = PackStep(h[n - 1])
      BY <1>8, <3>1
    <3>3. QED
      BY <1>5, <2>2, <3>2
  <2>3. Alike(f, h, L)
    BY <2>1, <2>2 DEF Alike
  <2>4. QED
    BY <2>3, SameIterates
<1>11. L \in 0 .. L
  OBVIOUS
<1>12. PackArray(m, begin) = f[L].mem
  BY <1>9, <1>10, <1>11
<1>13. QED
  BY <1>1, <1>4, <1>5, <1>12

(* As many steps as there are cells take packing to the end.               *)
LEMMA PackEnds ==
  ASSUME NEW m \in Seq(Nat), NEW begin \in Nat, NEW N, N = Len(m),
         NEW p \in Packs(N), Begins(p, m, begin)
  PROVE  \E o \in Packs(N) : PackArray(m, begin) = o.mem /\ o.reader.open = <<>>
<1>1. N \in Nat
  OBVIOUS
<1>2. PICK S : S = Packs(N)
  OBVIOUS
<1>3. PICK f \in [0 .. N -> S] :
        f[0] = p /\ (\A n \in 1 .. N : f[n] = PackStep(f[n - 1])) /\ PackArray(m, begin) = f[N].mem
  <2>1. \A s \in S : PackStep(s) \in S
    BY <1>1, <1>2, PackStepKeeps
  <2>2. p \in S
    BY <1>2
  <2>3. \E f \in [0 .. Len(m) -> S] :
          f[0] = p /\ (\A n \in 1 .. Len(m) : f[n] = PackStep(f[n - 1])) /\ PackArray(m, begin) = f[Len(m)].mem
    BY SMTT(40), <2>1, <2>2, PackIs
  <2>4. QED
    BY <2>3
<1>4. PICK D : D = {n \in 0 .. N : f[n].reader.open = <<>>}
  OBVIOUS
<1>5. PICK w : w = [n \in 0 .. N |-> N - (Len(f[n].mem) - f[n].reader.pos)]
  OBVIOUS
<1>6. ASSUME NEW s \in S
      PROVE  /\ Len(s.mem) - s.reader.pos \in Nat /\ Len(s.mem) - s.reader.pos <= N
             /\ s.reader.open # <<>> => 0 < Len(s.mem) - s.reader.pos
  <2>1. Packing(s, N) /\ s.mem \in Seq(Nat)
    BY <1>2 DEF Packs
  <2>2. PICK P : Places(s.mem, P) /\ s.reader \in P
    BY <2>1 DEF Packing
  <2>3. /\ s.reader.pos \in Nat /\ s.reader.pos <= Len(s.mem)
        /\ s.reader.open # <<>> => s.reader.pos < Len(s.mem)
    BY <2>1, <2>2, PlaceType
  <2>4. PICK x \in Nat, y \in Nat : x = Len(s.mem) /\ y = s.reader.pos
    BY <2>1, <2>3
  <2>5. Len(s.mem) - s.reader.pos <= N
    BY <2>1 DEF Packing
  <2>6. QED
    BY <2>3, <2>4, <2>5
<1>7. ASSUME NEW n \in 0 .. N PROVE w[n] \in Nat /\ (n \notin D => w[n] < N)
  <2>1. f[n] \in S
    OBVIOUS
  <2>2. PICK x \in Nat : x = Len(f[n].mem) - f[n].reader.pos /\ x <= N /\ (f[n].reader.open # <<>> => 0 < x)
    BY <1>6, <2>1
  <2>3. w[n] = N - x
    BY <1>5, <2>2
  <2>4. n \notin D => 0 < x
    BY <1>4, <2>2
  <2>5. QED
    BY <1>1, <2>2, <2>3, <2>4
<1>8. ASSUME NEW n \in 1 .. N PROVE (n - 1 \in D => n \in D) /\ (n \notin D => w[n - 1] < w[n])
  <2>1. PICK j \in 0 .. N : j = n - 1 /\ n \in 0 .. N
    BY <1>1
  <2>2. f[n] = PackStep(f[j]) /\ f[j] \in S /\ f[n] \in S
    BY <1>3, <2>1
  <2>3. CASE f[j].reader.open = <<>>
    <3>1. f[n] = f[j]
      BY <1>1, <1>2, <2>2, <2>3, PackStepKeeps
    <3>2. n \in D
      BY <1>4, <2>1, <2>3, <3>1
    <3>3. QED
      BY <3>2
  <2>4. CASE f[j].reader.open # <<>>
    <3>1. Len(f[n].mem) - f[n].reader.pos < Len(f[j].mem) - f[j].reader.pos
      BY <1>1, <1>2, <2>2, <2>4, PackStepKeeps
    <3>2. PICK x \in Nat, y \in Nat : x = Len(f[j].mem) - f[j].reader.pos /\ y = Len(f[n].mem) - f[n].reader.pos
      BY <1>6, <2>2
    <3>3. w[j] = N - x /\ w[n] = N - y
      BY <1>5, <2>1, <3>2
    <3>4. w[j] < w[n]
      BY <1>1, <3>1, <3>2, <3>3
    <3>5. j \notin D
      BY <1>4, <2>4
    <3>6. QED
      BY <2>1, <3>4, <3>5
  <2>5. QED
    BY <2>3, <2>4
<1>9. N \in D
  BY <1>1, <1>7, <1>8, DoneAtLast
<1>10. f[N].reader.open = <<>> /\ f[N] \in S
  BY <1>1, <1>4, <1>9
<1>11. QED
  BY <1>2, <1>3, <1>10

(* The first place of a record, in the one container that holds all others. *)
First(A) == A.pos = 2 /\ A.open # <<>> /\ Len(A.open) = 1

(* The first container, where packing begins, ends without a free cell.    *)
LEMMA FirstPacked ==
  ASSUME NEW m \in Seq(Nat), NEW P, Places(m, P), NEW A \in P, First(A),
         NEW E, NEW q, NEW m2, NEW P1, Dropped(m, P, A, E, q, m2, P1)
  PROVE  PackedTo(m2, P1, A)
<1>1. A.open # <<>>
  BY Zenon DEF First
<1>2. E \in P1 /\ A \in P1 /\ Places(m2, P1)
  BY DEF Dropped
<1>3. /\ m2 \in Seq(Nat) /\ E.pos \in Nat /\ CellAt(m2, E.pos) # 0 /\ Filled(m2, P1, A, E)
      /\ Step(m2, E) \in P1 /\ Step(m2, E).pos = E.pos + 1 /\ Len(Step(m2, E).open) = Len(A.open) - 1
  <2>1. /\ m2 \in Seq(Nat) /\ E.pos \in Nat /\ q \in Nat /\ E.pos <= q /\ Len(m2) = Len(m) + (E.pos - q)
        /\ SameTo(m, m2, E.pos) /\ Ending(m2, E) /\ CellAt(m2, E.pos) # 0 /\ Filled(m2, P1, A, E)
        /\ Step(m, E) \in P /\ Step(m, E).pos = q + 1
        /\ MovedOn(m, m2, q + 1, E.pos - q) /\ Shift(Step(m, E), E.pos - q) \in P1
        /\ Step(m2, E) \in P1 /\ Step(m2, E).pos = E.pos + 1 /\ Len(Step(m2, E).open) = Len(A.open) - 1
    BY <1>1, DroppedIs
  <2>2. QED
    BY <2>1
<1>4. PICK F \in P1 : F = Step(m2, E) /\ F.pos = E.pos + 1 /\ F.open = <<>>
  <2>1. PICK F \in P1 : F = Step(m2, E)
    BY <1>3
  <2>2. F.open \in Seq(Kinds)
    BY <1>2, <1>3, PlaceType
  <2>3. Len(A.open) = 1
    BY Zenon DEF First
  <2>4. Len(F.open) = 0
    BY <1>3, <2>1, <2>3
  <2>5. F.open = <<>>
    BY <2>2, <2>4
  <2>6. QED
    BY <1>3, <2>1, <2>5
<1>5. F.pos = Len(m2)
  BY <1>2, <1>4 DEF Places
<1>6. ASSUME NEW r \in P1, A.pos <= r.pos, r.open # <<>>, CellAt(m2, r.pos) = 0 PROVE Enclosed(P1, A, r)
  <2>1. r.pos \in Nat /\ r.pos < Len(m2)
    BY <1>2, <1>3, <1>6, PlaceType
  <2>2. r.pos < E.pos
    <3>1. r.pos # E.pos
      BY <1>3, <1>6
    <3>2. QED
      BY <1>3, <1>4, <1>5, <2>1, <3>1
  <2>3. Len(r.open) > Len(A.open)
    BY <1>3, <1>6, <2>2 DEF Filled
  <2>4. Len(r.open) \in Nat
    BY <1>2, <1>3, PlaceType
  <2>5. r # A
    BY <2>3, <2>4
  <2>6. r.pos # A.pos
    BY <1>2, <2>5 DEF Places
  <2>7. A.pos <= A.pos /\ A.pos < r.pos /\ Len(A.open) < Len(r.open)
    <3>1. A.pos = 2 /\ Len(A.open) = 1
      BY Zenon DEF First
    <3>2. QED
      BY <1>6, <2>1, <2>3, <2>4, <2>6, <3>1
  <2>8. QED
    BY <1>2, <2>7 DEF Enclosed
<1>7. ASSUME NEW r \in P1, r.pos < A.pos PROVE Snug(m2, r)
  <2>1. r.pos \in Nat /\ r.pos >= 2
    BY <1>2, <1>3, PlaceType
  <2>2. A.pos = 2
    BY Zenon DEF First
  <2>3. FALSE
    BY <1>7, <2>1, <2>2
  <2>4. QED
    BY <2>3
<1>8. QED
  BY <1>6, <1>7 DEF PackedTo

(* revise_pack of a record: it can be read, and no cell in it is reserved. *)
LEMMA RecordPacked ==
  ASSUME NEW m \in Seq(Nat), NEW P, Places(m, P)
  PROVE  \E P1 : Places(PackArray(m, 1), P1) /\ \A r \in P1 : r.open # <<>> => Snug(PackArray(m, 1), r)
<1>1. PICK A \in P : A = Reader(2, <<"array">>)
  BY DEF Places
<1>2. A.pos = 2 /\ A.open = <<"array">> /\ A \in Readers
  BY <1>1, ReaderFields, PlaceType
<1>3. Kind(A) = "array" /\ A.open # <<>> /\ Len(A.open) = 1
  <2>1. Len(<<"array">>) = 1 /\ <<"array">>[1] = "array" /\ <<"array">> # <<>>
    OBVIOUS
  <2>2. QED
    BY <1>2, <2>1 DEF Kind
<1>4. PICK m2 : m2 = PackField(m, 1)
  OBVIOUS
<1>5. m2 = DropFree(m, SlotsEnd(m, A.pos, Kind(A)))
  <2>1. CellAt(m, 1) = ARRAY_BEGIN
    BY DEF Places
  <2>2. m2 = DropFree(m, SlotsEnd(m, 1 + 1, "array"))
    BY <1>4, <2>1, MarkersDiffer DEF PackField
  <2>3. 1 + 1 = 2
    OBVIOUS
  <2>4. QED
    BY <1>2, <1>3, <2>2, <2>3
<1>6. PICK E, q, P1 : Dropped(m, P, A, E, q, m2, P1)
  BY <1>3, <1>5, FreeDropped
<1>7. Places(m2, P1) /\ A \in P1 /\ PackedTo(m2, P1, A)
  <2>1. First(A)
    BY <1>2, <1>3 DEF First
  <2>2. QED
    BY <1>2, <1>3, <1>6, <2>1, FirstPacked DEF Dropped
<1>8. PICK N \in Nat : N = Len(m)
  OBVIOUS
<1>9. m2 \in Seq(Nat) /\ Len(m2) - 2 <= N
  <2>1. m2 \in Seq(Nat) /\ E.pos \in Nat /\ q \in Nat /\ E.pos <= q /\ Len(m2) = Len(m) + (E.pos - q)
    BY <1>3, <1>6, DroppedIs
  <2>2. QED
    BY <1>8, <2>1
<1>10. PICK p : p = [mem |-> PackField(m, 1), reader |-> Reader(1 + 1, <<"array">>)]
  OBVIOUS
<1>11. p \in Packs(N)
  <2>1. p.mem = m2 /\ p.reader = A /\ p \in [mem : Seq(Nat), reader : Readers]
    <3>1. 1 + 1 = 2
      OBVIOUS
    <3>2. p = [mem |-> m2, reader |-> A]
      BY <1>1, <1>4, <1>10, <3>1
    <3>3. QED
      BY <1>2, <1>9, <3>2
  <2>2. Packing(p, N)
    BY <1>2, <1>7, <1>9, <2>1 DEF Packing
  <2>3. QED
    BY <2>1, <2>2 DEF Packs
<1>12. PICK o \in Packs(N) : PackArray(m, 1) = o.mem /\ o.reader.open = <<>>
  <2>1. PICK begin \in Nat : begin = 1
    OBVIOUS
  <2>2. Begins(p, m, begin)
    BY <1>10, <2>1 DEF Begins
  <2>3. \E o \in Packs(N) : PackArray(m, begin) = o.mem /\ o.reader.open = <<>>
    BY <1>8, <1>11, <2>2, PackEnds
  <2>4. QED
    BY <2>1, <2>3
<1>13. PICK m3 \in Seq(Nat), R \in Readers : m3 = o.mem /\ R = o.reader
  BY DEF Packs
<1>14. PICK P3 : Places(m3, P3) /\ R \in P3 /\ PackedTo(m3, P3, R)
  BY <1>13 DEF Packs, Packing
<1>15. R.pos = Len(m3)
  BY <1>12, <1>13, <1>14 DEF Places
<1>16. ASSUME NEW r \in P3, r.open # <<>> PROVE Snug(m3, r)
  <2>1. r.pos < R.pos
    BY <1>14, <1>15, <1>16, PlaceType
  <2>2. QED
    BY <1>14, <2>1 DEF PackedTo
<1>17. QED
  BY <1>12, <1>13, <1>14, <1>16

-----------------------------------------------------------------------------
(***************************************************************************)
(* Tokens. The last token that reading yields is the end of the outermost   *)
(* array.                                                                   *)
(***************************************************************************)

Texts == {<<"end">>, <<"corrupted">>, <<"array">>, <<"object">>, <<"column">>,
          <<"constant", "null">>, <<"constant", "true">>}
         \cup {<<"u8", x>> : x \in Nat} \cup {<<"element", x>> : x \in Nat} \cup {<<"key", x>> : x \in Nat}

Tok == [off : Nat, t : Texts]

LEMMA TextsAre ==
  /\ <<"end">> \in Texts /\ <<"corrupted">> \in Texts /\ <<"array">> \in Texts /\ <<"object">> \in Texts
  /\ <<"column">> \in Texts /\ <<"constant", "null">> \in Texts /\ <<"constant", "true">> \in Texts
  /\ \A x \in Nat : <<"u8", x>> \in Texts /\ <<"element", x>> \in Texts /\ <<"key", x>> \in Texts
  BY DEF Texts

LEMMA OneToken ==
  ASSUME NEW off \in Nat, NEW t \in Texts
  PROVE  /\ Token(off, t) \in Tok /\ Token(off, t).off = off
         /\ <<Token(off, t)>> \in Seq(Tok) /\ Len(<<Token(off, t)>>) = 1 /\ <<Token(off, t)>>[1] = Token(off, t)
<1>1. Token(off, t) \in Tok /\ Token(off, t).off = off
  BY DEF Token, Tok
<1>2. QED
  BY <1>1

LEMMA ColumnTokens ==
  ASSUME NEW m \in Seq(Nat), NEW q \in Nat, CellAt(m, q) = COLUMN_U8
  PROVE  FieldTokens(m, q) \in Seq(Tok)
<1>1. PICK num \in Nat, cap \in Nat, c \in Nat, o \in Nat :
        num = ColumnAt(m, q).num /\ cap = ColumnAt(m, q).cap /\ c = ColumnAt(m, q).payload /\ o = ColumnAt(m, q).cap_off
  BY ColumnType
<1>2. q + 1 < o /\ o < c
  BY <1>1, ColumnType
<1>3. PICK elements : elements = [i \in 1 .. num |-> Token(c + i - 1, <<"element", CellAt(m, c + i - 1)>>)]
  OBVIOUS
<1>4. elements \in Seq(Tok)
  <2>1. ASSUME NEW i \in 1 .. num PROVE Token(c + i - 1, <<"element", CellAt(m, c + i - 1)>>) \in Tok
    <3>1. c + i - 1 \in Nat
      BY <1>2
    <3>2. CellAt(m, c + i - 1) \in Nat
      BY <3>1, CellType
    <3>3. <<"element", CellAt(m, c + i - 1)>> \in Texts
      BY <3>2, TextsAre
    <3>4. QED
      BY <3>1, <3>3, OneToken
  <2>2. elements \in [1 .. num -> Tok]
    BY <1>3, <2>1
  <2>3. QED
    BY <2>2
<1>5. <<Token(q, <<"column">>)>> \in Seq(Tok)
  BY TextsAre, OneToken
<1>6. <<Token(c + cap - 1, <<"end">>)>> \in Seq(Tok)
  <2>1. c + cap - 1 \in Nat
    BY <1>2
  <2>2. QED
    BY <2>1, TextsAre, OneToken
<1>7. FieldTokens(m, q) = <<Token(q, <<"column">>)>> \o elements \o <<Token(c + cap - 1, <<"end">>)>>
  <2>1. CellAt(m, q) \notin {U8, NULL, TRUE_, ARRAY_BEGIN, OBJECT_BEGIN}
    BY MarkersDiffer, MarkersAreUsed
  <2>2. FieldTokens(m, q) =
            LET column == ColumnAt(m, q)
            IN  <<Token(q, <<"column">>)>>
                \o [i \in 1 .. column.num |->
                        Token(column.payload + i - 1,
                              <<"element", CellAt(m, column.payload + i - 1)>>)]
                \o <<Token(column.payload + column.cap - 1, <<"end">>)>>
    BY <2>1 DEF FieldTokens
  <2>3. QED
    BY <1>1, <1>3, <2>2
<1>8. QED
  BY <1>4, <1>5, <1>6, <1>7

LEMMA FieldTokensType ==
  ASSUME NEW m \in Seq(Nat), NEW q \in Nat
  PROVE  FieldTokens(m, q) \in Seq(Tok)
<1>1. CASE CellAt(m, q) = COLUMN_U8
  BY <1>1, ColumnTokens
<1>2. CASE CellAt(m, q) = U8
  <2>1. FieldTokens(m, q) = <<Token(q, <<"u8", CellAt(m, q + 1)>>)>>
    BY <1>2 DEF FieldTokens, COLUMN_U8, U8, NULL, TRUE_, ARRAY_BEGIN, OBJECT_BEGIN
  <2>2. CellAt(m, q + 1) \in Nat
    BY CellType
  <2>3. QED
    BY <2>1, <2>2, TextsAre, OneToken
<1>3. CASE CellAt(m, q) \notin {COLUMN_U8, U8}
  <2>1. PICK t \in Texts : FieldTokens(m, q) = <<Token(q, t)>>
    <3>1. CASE CellAt(m, q) = NULL
      BY <3>1, TextsAre DEF FieldTokens, COLUMN_U8, U8, NULL, TRUE_, ARRAY_BEGIN, OBJECT_BEGIN
    <3>2. CASE CellAt(m, q) = TRUE_
      BY <3>2, TextsAre DEF FieldTokens, COLUMN_U8, U8, NULL, TRUE_, ARRAY_BEGIN, OBJECT_BEGIN
    <3>3. CASE CellAt(m, q) = ARRAY_BEGIN
      BY <3>3, TextsAre DEF FieldTokens, COLUMN_U8, U8, NULL, TRUE_, ARRAY_BEGIN, OBJECT_BEGIN
    <3>4. CASE CellAt(m, q) = OBJECT_BEGIN
      BY <3>4, TextsAre DEF FieldTokens, COLUMN_U8, U8, NULL, TRUE_, ARRAY_BEGIN, OBJECT_BEGIN
    <3>5. CASE CellAt(m, q) \notin {COLUMN_U8, U8, NULL, TRUE_, ARRAY_BEGIN, OBJECT_BEGIN}
      BY <3>5, TextsAre DEF FieldTokens
    <3>6. QED
      BY <1>3, <3>1, <3>2, <3>3, <3>4, <3>5
  <2>2. QED
    BY <2>1, OneToken
<1>4. QED
  BY <1>1, <1>2, <1>3

(* What a place meets, and where that is at the end of its container.      *)
LEMMA MetIs ==
  ASSUME NEW m \in Seq(Nat), NEW P, Places(m, P), NEW A \in P, A.open # <<>>
  PROVE  /\ Met(m, A) \in Seq(Tok)
         /\ Step(m, A).open = <<>> => \E t \in Tok : Met(m, A) = <<t>> /\ t.off = Len(m) - 1
<1>1. A \in Readers /\ A.pos \in Nat /\ Sound(m, A) /\ Step(m, A) \in P
  BY PlaceType
<1>2. CASE Ending(m, A)
  <2>1. PICK q : Free(m, A.pos, q) /\ CellAt(m, q) = EndMarker(A)
    BY <1>2 DEF Ending
  <2>2. q \in Nat /\ NoneLeft(m, A) /\ Step(m, A) = OutOf(A, q + 1)
    BY <1>1, <2>1, EndingStep
  <2>3. FirstUsed(m, A.pos) = q
    BY <1>1, <2>1, FirstUsedIs
  <2>4. PICK t \in Texts : Met(m, A) = <<Token(q, t)>>
    <3>1. \E t : t \in Texts /\ Met(m, A) = <<Token(q, t)>>
      BY <2>1, <2>2, <2>3, TextsAre DEF Met, EndMarker
    <3>2. QED
      BY <3>1
  <2>5. Step(m, A).pos = q + 1
    BY <1>1, <2>2, Popped2
  <2>6. Step(m, A).open = <<>> => q + 1 = Len(m)
    BY <1>1, <2>5 DEF Places
  <2>7. Step(m, A).open = <<>> => Token(q, t).off = Len(m) - 1
    BY <2>2, <2>6, OneToken
  <2>8. QED
    BY <2>2, <2>4, <2>7, OneToken
<1>3. CASE ~Ending(m, A)
  <2>1. Holding(m, A) /\ ~NoneLeft(m, A)
    BY <1>1, <1>3, Forward DEF Sound
  <2>2. ValueAt(A) \in Nat /\ MarkerAt(m, A) = ValueAt(A) /\ Step(m, A) = Passed(m, A, ValueAt(A), ValueAt(A))
    BY <1>1, <2>1, HoldingStep DEF Holding
  <2>3. Met(m, A) \in Seq(Tok)
    <3>1. FieldTokens(m, MarkerAt(m, A)) \in Seq(Tok)
      BY <2>2, FieldTokensType
    <3>2. <<Token(A.pos, <<"key", CellAt(m, A.pos)>>)>> \in Seq(Tok)
      <4>1. CellAt(m, A.pos) \in Nat
        BY <1>1, CellType
      <4>2. QED
        BY <1>1, <4>1, TextsAre, OneToken
    <3>3. CASE Kind(A) = "array"
      <4>1. Met(m, A) = <<>> \o FieldTokens(m, MarkerAt(m, A))
        BY <2>1, <3>3 DEF Met
      <4>2. QED
        BY <3>1, <4>1
    <3>4. CASE Kind(A) # "array"
      <4>1. Met(m, A) = <<Token(A.pos, <<"key", CellAt(m, A.pos)>>)>> \o FieldTokens(m, MarkerAt(m, A))
        BY <2>1, <3>4 DEF Met
      <4>2. QED
        BY <3>1, <3>2, <4>1
    <3>5. QED
      BY <3>3, <3>4
  <2>4. Step(m, A).open # <<>>
    <3>1. ASSUME NEW o, o = A.open \/ \E k \in Kinds : o = Append(A.open, k) PROVE o # <<>>
      <4>1. A.open \in Seq(Kinds)
        BY <1>1, ReaderIs
      <4>2. QED
        BY <3>1, <4>1
    <3>2. PICK v \in Nat : v = ValueAt(A)
      BY <2>2
    <3>3. CASE CellAt(m, v) = ARRAY_BEGIN
      <4>1. Step(m, A) = Into(A, "array", v + 1)
        BY <2>2, <3>2, <3>3, PassedArms
      <4>2. PICK w \in Nat, k \in Kinds : w = v + 1 /\ k = "array"
        BY DEF Kinds
      <4>3. Step(m, A).open = Append(A.open, k)
        BY SMTT(60), <1>1, <4>1, <4>2, Pushed2
      <4>4. QED
        BY <3>1, <4>3
    <3>4. CASE CellAt(m, v) = OBJECT_BEGIN
      <4>1. Step(m, A) = Into(A, "object", v + 1)
        BY <2>2, <3>2, <3>4, PassedArms
      <4>2. PICK w \in Nat, k \in Kinds : w = v + 1 /\ k = "object"
        BY DEF Kinds
      <4>3. Step(m, A).open = Append(A.open, k)
        BY SMTT(60), <1>1, <4>1, <4>2, Pushed2
      <4>4. QED
        BY <3>1, <4>3
    <3>5. CASE CellAt(m, v) \notin {ARRAY_BEGIN, OBJECT_BEGIN}
      <4>1. \E p : Step(m, A) = Reader(p, A.open)
        BY <2>2, <3>2, <3>5, PassedArms
      <4>2. QED
        BY <4>1, ReaderFields
    <3>6. QED
      BY <3>3, <3>4, <3>5
  <2>5. QED
    BY <2>3, <2>4
<1>4. QED
  BY <1>2, <1>3

Reads == [reader : Readers, tokens : Seq(Tok)]

ReadStep(m, s) ==
  IF s.reader.open = <<>> THEN s
  ELSE [reader |-> Step(m, s.reader), tokens |-> s.tokens \o Met(m, s.reader)]

LEMMA TokensAre ==
  ASSUME NEW m \in Seq(Nat), NEW S, NEW pos, NEW s0 \in S, s0 = [reader |-> Reader(pos, <<"array">>), tokens |-> <<>>],
         \A s \in S : ReadStep(m, s) \in S
  PROVE  \E f \in [0 .. Len(m) -> S] :
            /\ f[0] = s0
            /\ \A n \in 1 .. Len(m) : f[n] = ReadStep(m, f[n - 1])
            /\ ArrayTokens(m, pos) = f[Len(m)].tokens
<1>1. PICK L \in Nat : L = Len(m)
  OBVIOUS
<1>2. PICK g : g = [s \in S |-> ReadStep(m, s)]
  OBVIOUS
<1>3. g \in [S -> S]
  BY <1>2
<1>4. PICK f \in [0 .. L -> S] : f[0] = s0 /\ \A n \in 1 .. L : f[n] = g[f[n - 1]]
  <2>1. PICK f \in [0 .. L -> S] : Repeats(f, g, s0, L)
    BY <1>3, Iterated
  <2>2. QED
    BY <2>1 DEF Repeats
<1>5. ASSUME NEW n \in 1 .. L PROVE f[n] = ReadStep(m, f[n - 1])
  <2>1. f[n - 1] \in S
    <3>1. n - 1 \in 0 .. L
      OBVIOUS
    <3>2. QED
      BY <3>1
  <2>2. QED
    BY <1>2, <1>4, <2>1
<1>6. f = [n \in 0 .. L |-> IF n = 0 THEN s0 ELSE ReadStep(m, f[n - 1])]
  <2>1. \A n \in 0 .. L : f[n] = IF n = 0 THEN s0 ELSE ReadStep(m, f[n - 1])
    <3>1. SUFFICES ASSUME NEW n \in 0 .. L PROVE f[n] = IF n = 0 THEN s0 ELSE ReadStep(m, f[n - 1])
      OBVIOUS
    <3>2. CASE n = 0
      BY <1>4, <3>2
    <3>3. CASE n # 0
      <4>1. n \in 1 .. L
        BY <3>3
      <4>2. QED
        BY <1>5, <3>3, <4>1
    <3>4. QED
      BY <3>2, <3>3
  <2>2. QED
    BY <2>1
<1>7. PICK h : h = CHOOSE h1 : h1 = [n \in 0 .. L |-> IF n = 0 THEN s0 ELSE ReadStep(m, h1[n - 1])]
  OBVIOUS
<1>8. h = [n \in 0 .. L |-> IF n = 0 THEN s0 ELSE ReadStep(m, h[n - 1])]
  BY <1>6, <1>7, Zenon
<1>9. ArrayTokens(m, pos) = h[L].tokens
  BY <1>1, <1>7, ZenonT(60) DEF ArrayTokens, ReadStep
<1>10. \A n \in 0 .. L : f[n] = h[n]
  <2>1. f[0] = h[0]
    <3>1. 0 \in 0 .. L
      OBVIOUS
    <3>2. h[0] = s0
      BY <1>8, <3>1
    <3>3. QED
      BY <1>4, <3>2
  <2>2. ASSUME NEW n \in 1 .. L, f[n - 1] = h[n - 1] PROVE f[n] = h[n]
    <3>1. n \in 0 .. L /\ n # 0
      OBVIOUS
    <3>2. h[n] = ReadStep(m, h[n - 1])
      BY <1>8, <3>1
    <3>3. QED
      BY <1>5, <2>2, <3>2
  <2>3. Alike(f, h, L)
    BY <2>1, <2>2 DEF Alike
  <2>4. QED
    BY SMTT(60), <2>3, SameIterates
<1>11. L \in 0 .. L
  OBVIOUS
<1>12. ArrayTokens(m, pos) = f[L].tokens
  BY <1>9, <1>10, <1>11
<1>13. QED
  BY <1>1, <1>4, <1>5, <1>12

LastAt(m, t) == t # <<>> /\ t[Len(t)].off = Len(m) - 1

(* The tokens of a record end where its memory does.                       *)
LEMMA LastToken ==
  ASSUME NEW m \in Seq(Nat), NEW P, Places(m, P)
  PROVE  LastAt(m, ArrayTokens(m, 2))
<1>1. PICK S : S = {s \in Reads : s.reader \in P /\ (s.reader.open = <<>> => LastAt(m, s.tokens))}
  OBVIOUS
<1>2. PICK A \in P : A = Reader(2, <<"array">>) /\ A \in Readers /\ A.open # <<>>
  <2>1. Reader(2, <<"array">>) \in P
    BY DEF Places
  <2>2. Reader(2, <<"array">>).open = <<"array">> /\ <<"array">> # <<>>
    BY ReaderFields
  <2>3. QED
    BY <2>1, <2>2, PlaceType
<1>3. PICK s0 : s0 = [reader |-> A, tokens |-> <<>>]
  OBVIOUS
<1>4. s0 \in S
  <2>1. s0.reader = A /\ s0.tokens = <<>> /\ s0 \in Reads
    BY <1>2, <1>3 DEF Reads
  <2>2. QED
    BY <1>1, <1>2, <2>1
<1>5. ASSUME NEW s \in S, s.reader.open # <<>>
      PROVE  /\ ReadStep(m, s) \in S /\ ReadStep(m, s).reader = Step(m, s.reader)
             /\ s.reader \in P
  <2>1. PICK r \in P, t \in Seq(Tok) : r = s.reader /\ t = s.tokens
    BY <1>1 DEF Reads
  <2>2. Step(m, r) \in P /\ Step(m, r) \in Readers
    BY <1>5, <2>1, PlaceType
  <2>3. PICK met \in Seq(Tok) : met = Met(m, r)
    BY <1>5, <2>1, MetIs
  <2>4. PICK o : o = [reader |-> Step(m, r), tokens |-> t \o met] /\ o = ReadStep(m, s)
    BY <1>5, <2>1, <2>3 DEF ReadStep
  <2>5. o.reader = Step(m, r) /\ o.tokens = t \o met /\ o \in Reads
    BY <2>2, <2>4 DEF Reads
  <2>6. Step(m, r).open = <<>> => LastAt(m, t \o met)
    <3>1. SUFFICES ASSUME Step(m, r).open = <<>> PROVE LastAt(m, t \o met)
      OBVIOUS
    <3>2. PICK k \in Tok : met = <<k>> /\ k.off = Len(m) - 1
      BY <1>5, <2>1, <2>3, <3>1, MetIs
    <3>3. t \o met # <<>> /\ (t \o met)[Len(t \o met)] = k
      BY <3>2
    <3>4. QED
      BY <3>2, <3>3 DEF LastAt
  <2>7. QED
    BY <1>1, <2>1, <2>2, <2>4, <2>5, <2>6
<1>6. ASSUME NEW s \in S PROVE ReadStep(m, s) \in S
  <2>1. CASE s.reader.open = <<>>
    BY <2>1 DEF ReadStep
  <2>2. CASE s.reader.open # <<>>
    BY <2>2, <1>5
  <2>3. QED
    BY <2>1, <2>2
<1>7. PICK N \in Nat : N = Len(m)
  OBVIOUS
<1>8. PICK f \in [0 .. N -> S] :
        f[0] = s0 /\ (\A n \in 1 .. N : f[n] = ReadStep(m, f[n - 1])) /\ ArrayTokens(m, 2) = f[N].tokens
  <2>1. s0 = [reader |-> Reader(2, <<"array">>), tokens |-> <<>>]
    BY <1>2, <1>3
  <2>2. QED
    BY <1>4, <1>6, <1>7, <2>1, TokensAre
<1>9. PICK D : D = {n \in 0 .. N : f[n].reader.open = <<>>}
  OBVIOUS
<1>10. PICK w : w = [n \in 0 .. N |-> f[n].reader.pos]
  OBVIOUS
<1>11. ASSUME NEW n \in 0 .. N PROVE w[n] \in Nat /\ f[n] \in S /\ f[n].reader \in P
  <2>1. f[n] \in S /\ f[n].reader \in P
    BY <1>1
  <2>2. QED
    BY <1>10, <2>1, PlaceType
<1>12. ASSUME NEW n \in 1 .. N PROVE (n - 1 \in D => n \in D) /\ (n \notin D => w[n - 1] < w[n])
  <2>1. PICK j \in 0 .. N : j = n - 1 /\ n \in 0 .. N
    OBVIOUS
  <2>2. f[n] = ReadStep(m, f[j]) /\ f[j] \in S
    BY <1>8, <2>1
  <2>3. CASE f[j].reader.open = <<>>
    <3>1. f[n] = f[j]
      BY <2>2, <2>3 DEF ReadStep
    <3>2. n \in D
      BY <1>9, <2>1, <2>3, <3>1
    <3>3. QED
      BY <3>2
  <2>4. CASE f[j].reader.open # <<>>
    <3>1. f[n].reader = Step(m, f[j].reader) /\ f[j].reader \in P
      BY <1>5, <2>2, <2>4
    <3>2. f[j].reader.pos < f[n].reader.pos
      BY <2>4, <3>1, PlaceType
    <3>3. j \notin D
      BY <1>9, <2>4
    <3>4. QED
      BY <1>10, <2>1, <3>2, <3>3
  <2>5. QED
    BY <2>3, <2>4
<1>13. ASSUME NEW n \in 0 .. N, n \notin D PROVE w[n] < N
  <2>1. f[n].reader.open # <<>> /\ f[n].reader \in P
    BY <1>9, <1>11, <1>13
  <2>2. f[n].reader.pos < N
    BY <1>7, <2>1, PlaceType
  <2>3. QED
    BY <1>10, <2>2
<1>14. N \in D
  BY <1>11, <1>12, <1>13, DoneAtLast
<1>15. N \in 0 .. N
  OBVIOUS
<1>16. f[N].reader.open = <<>> /\ f[N] \in S
  BY <1>9, <1>14, <1>15
<1>17. LastAt(m, f[N].tokens)
  BY <1>1, <1>16
<1>18. QED
  BY <1>8, <1>17

-----------------------------------------------------------------------------
(***************************************************************************)
(* Runs. Where no cell is reserved, each token begins where the one in     *)
(* front of it ends.                                                       *)
(***************************************************************************)

(* Where the token y lies behind x when no cell is reserved between them:  *)
(* the tokens of a record follow one another so, where Tight is true of it.*)
Succeeds(m, x, y) ==
  CASE x.t[1] = "u8"      -> y.off = x.off + 2
    [] x.t[1] = "column"  -> LET column == ColumnAt(m, x.off)
                             IN  /\ column.cap = column.num
                                 /\ column.num > 0 => y.off = column.payload
    [] x.t[1] = "element" -> y.off = IF y.t = <<"end">> THEN x.off ELSE x.off + 1
    [] OTHER              -> y.off = x.off + 1

(* What follows the token x, not one that opens a column, begins at p.     *)
Leads(x, p) ==
  /\ x.t[1] \notin {"column", "element"}
  /\ p = IF x.t[1] = "u8" THEN x.off + 2 ELSE x.off + 1

Consecutive(m, t) == \A i \in Nat : 1 <= i /\ i < Len(t) => Succeeds(m, t[i], t[i + 1])

(* The tokens t, one behind the other, take a reader from a to b.          *)
Run(m, t, a, b) ==
  /\ t = <<>> => a = b
  /\ t # <<>> => t[1].off = a /\ Leads(t[Len(t)], b)
  /\ Consecutive(m, t)

LEMMA LeadsOn ==
  ASSUME NEW m, NEW x, NEW y, Leads(x, y.off)
  PROVE  Succeeds(m, x, y)
<1>1. CASE x.t[1] = "u8"
  BY <1>1 DEF Leads, Succeeds
<1>2. CASE x.t[1] # "u8"
  BY <1>2 DEF Leads, Succeeds
<1>3. QED
  BY <1>1, <1>2

LEMMA RunOne ==
  ASSUME NEW m, NEW x \in Tok, NEW b, Leads(x, b)
  PROVE  Run(m, <<x>>, x.off, b)
<1>1. Len(<<x>>) = 1 /\ <<x>>[1] = x /\ <<x>> # <<>>
  OBVIOUS
<1>2. PICK t : t = <<x>>
  OBVIOUS
<1>3. Consecutive(m, t)
  BY <1>1, <1>2 DEF Consecutive
<1>4. QED
  BY <1>1, <1>2, <1>3 DEF Run

LEMMA RunJoined ==
  ASSUME NEW m, NEW T, NEW t \in Seq(T), NEW u \in Seq(T), NEW a, NEW b, NEW c, Run(m, t, a, b), Run(m, u, b, c)
  PROVE  Run(m, t \o u, a, c)
<1>1. CASE t = <<>>
  <2>1. t \o u = u /\ a = b
    BY <1>1 DEF Run
  <2>2. QED
    BY <2>1
<1>2. CASE u = <<>>
  <2>1. t \o u = t /\ b = c
    BY <1>2 DEF Run
  <2>2. QED
    BY <2>1
<1>3. CASE t # <<>> /\ u # <<>>
  <2>1. PICK k \in Nat, l \in Nat : k = Len(t) /\ l = Len(u) /\ 1 <= k /\ 1 <= l
    BY <1>3
  <2>2. PICK w \in Seq(T) : w = t \o u
    <3>1. t \o u \in Seq(T)
      BY ConcatProperties
    <3>2. QED
      BY <3>1
  <2>3. Len(w) = k + l /\ w # <<>> /\ (\A i \in 1 .. k : w[i] = t[i])
    BY <2>1, <2>2
  <2>4. \A i \in 1 .. l : w[k + i] = u[i]
    BY <2>1, <2>2
  <2>5. w[1] = t[1] /\ w[Len(w)] = u[Len(u)]
    <3>1. 1 \in 1 .. k /\ l \in 1 .. l
      BY <2>1
    <3>2. w[k + l] = u[l]
      BY <2>4, <3>1
    <3>3. QED
      BY <2>1, <2>3, <3>1, <3>2
  <2>6. ASSUME NEW i \in Nat, 1 <= i, i < Len(w) PROVE Succeeds(m, w[i], w[i + 1])
    <3>1. CASE i < k
      <4>1. i \in 1 .. k /\ i + 1 \in 1 .. k
        BY <2>1, <2>6, <3>1
      <4>2. w[i] = t[i] /\ w[i + 1] = t[i + 1]
        BY <2>3, <4>1
      <4>3. Succeeds(m, t[i], t[i + 1])
        BY <2>1, <2>6, <3>1 DEF Run, Consecutive
      <4>4. QED
        BY <4>2, <4>3
    <3>2. CASE i = k
      <4>1. k \in 1 .. k /\ 1 \in 1 .. l
        BY <2>1
      <4>2. w[k] = t[k] /\ w[k + 1] = u[1]
        BY <2>3, <2>4, <4>1
      <4>3. Leads(t[k], u[1].off)
        BY <1>3, <2>1 DEF Run
      <4>4. Succeeds(m, t[k], u[1])
        BY <4>3, LeadsOn
      <4>5. QED
        BY <3>2, <4>2, <4>4
    <3>3. CASE k < i
      <4>1. PICK j \in Nat, n \in Nat : j = i - k /\ n = j + 1 /\ k + j = i /\ k + n = i + 1
        BY <2>1, <3>3
      <4>2. j \in 1 .. l /\ n \in 1 .. l /\ 1 <= j /\ j < l
        BY <2>1, <2>3, <2>6, <3>3, <4>1
      <4>3. w[k + j] = u[j] /\ w[k + n] = u[n]
        BY <2>4, <4>2
      <4>4. Succeeds(m, u[j], u[j + 1])
        BY <2>1, <4>2 DEF Run, Consecutive
      <4>5. QED
        BY <4>1, <4>3, <4>4
    <3>4. QED
      BY <2>1, <3>1, <3>2, <3>3
  <2>7. Consecutive(m, w)
    BY <2>6 DEF Consecutive
  <2>8. t[1].off = a /\ Leads(u[Len(u)], c)
    BY <1>3 DEF Run
  <2>9. QED
    BY <2>2, <2>3, <2>5, <2>7, <2>8 DEF Run
<1>4. QED
  BY <1>1, <1>2, <1>3

(* What a token is called.                                                 *)
LEMMA TextNames ==
  /\ <<"end">>[1] = "end" /\ <<"corrupted">>[1] = "corrupted" /\ <<"array">>[1] = "array"
  /\ <<"object">>[1] = "object" /\ <<"column">>[1] = "column"
  /\ <<"constant", "null">>[1] = "constant" /\ <<"constant", "true">>[1] = "constant"
  /\ \A x : <<"u8", x>>[1] = "u8" /\ <<"element", x>>[1] = "element" /\ <<"key", x>>[1] = "key"
  OBVIOUS

LEMMA TextsDiffer == \A x : <<"element", x>> # <<"end">>
<1>1. SUFFICES ASSUME NEW x PROVE <<"element", x>> # <<"end">>
  OBVIOUS
<1>2. <<"element", x>>[1] = "element" /\ <<"end">>[1] = "end"
  BY TextNames
<1>3. QED
  BY <1>2

Plain(t) == t[1] \notin {"u8", "column", "element"}

LEMMA PlainOnes ==
  /\ Plain(<<"end">>) /\ Plain(<<"corrupted">>) /\ Plain(<<"array">>) /\ Plain(<<"object">>)
  /\ Plain(<<"constant", "null">>) /\ Plain(<<"constant", "true">>)
  /\ \A x : Plain(<<"key", x>>)
  BY TextNames DEF Plain

LEMMA PlainRun ==
  ASSUME NEW m, NEW off \in Nat, NEW t \in Texts, Plain(t)
  PROVE  Run(m, <<Token(off, t)>>, off, off + 1)
<1>1. PICK x \in Tok : x = Token(off, t) /\ x.off = off
  BY OneToken
<1>2. x.t = t
  BY <1>1 DEF Token
<1>3. Leads(x, off + 1)
  BY <1>1, <1>2 DEF Leads, Plain
<1>4. QED
  BY <1>1, <1>3, RunOne

LEMMA NumberRun ==
  ASSUME NEW m, NEW off \in Nat, NEW v \in Nat
  PROVE  Run(m, <<Token(off, <<"u8", v>>)>>, off, off + 2)
<1>1. PICK t \in Texts : t = <<"u8", v>> /\ t[1] = "u8"
  BY TextsAre, TextNames
<1>2. PICK x \in Tok : x = Token(off, t) /\ x.off = off
  BY OneToken
<1>3. x.t = t
  BY <1>2 DEF Token
<1>4. Leads(x, off + 2)
  BY <1>1, <1>2, <1>3 DEF Leads
<1>5. QED
  BY <1>1, <1>2, <1>4, RunOne

(* The tokens of a column whose every cell is used follow one another.     *)
ColumnShown(m, q, num, c, t) ==
  /\ Len(t) = num + 2
  /\ t[1] = Token(q, <<"column">>)
  /\ \A i \in 1 .. num : t[i + 1] = Token(c + i - 1, <<"element", CellAt(m, c + i - 1)>>)
  /\ t[num + 2] = Token(c + num - 1, <<"end">>)

LEMMA ColumnIsShown ==
  ASSUME NEW m \in Seq(Nat), NEW q \in Nat, CellAt(m, q) = COLUMN_U8,
         NEW num \in Nat, NEW c \in Nat, num = ColumnAt(m, q).num, num = ColumnAt(m, q).cap, c = ColumnAt(m, q).payload
  PROVE  ColumnShown(m, q, num, c, FieldTokens(m, q))
<1>1. PICK elements : elements = [i \in 1 .. num |-> Token(c + i - 1, <<"element", CellAt(m, c + i - 1)>>)]
  OBVIOUS
<1>2. PICK x, z : x = Token(q, <<"column">>) /\ z = Token(c + num - 1, <<"end">>)
  OBVIOUS
<1>3. FieldTokens(m, q) = <<x>> \o elements \o <<z>>
  <2>1. CellAt(m, q) \notin {U8, NULL, TRUE_, ARRAY_BEGIN, OBJECT_BEGIN}
    BY MarkersDiffer, MarkersAreUsed
  <2>2. FieldTokens(m, q) =
            LET column == ColumnAt(m, q)
            IN  <<Token(q, <<"column">>)>>
                \o [i \in 1 .. column.num |->
                        Token(column.payload + i - 1,
                              <<"element", CellAt(m, column.payload + i - 1)>>)]
                \o <<Token(column.payload + column.cap - 1, <<"end">>)>>
    BY <2>1 DEF FieldTokens
  <2>3. QED
    BY <1>1, <1>2, <2>2
<1>4. PICK T : x \in T /\ z \in T /\ elements \in [1 .. num -> T]
  <2>1. PICK T : T = {x, z} \cup {elements[i] : i \in 1 .. num}
    OBVIOUS
  <2>2. x \in T /\ z \in T /\ \A i \in 1 .. num : elements[i] \in T
    BY <2>1
  <2>3. elements \in [1 .. num -> T]
    BY <1>1, <2>2
  <2>4. QED
    BY <2>2, <2>3
<1>5. elements \in Seq(T) /\ Len(elements) = num
  BY <1>4
<1>6. PICK l \in Seq(T) : l = <<x>> \o elements
  <2>1. <<x>> \in Seq(T)
    BY <1>4
  <2>2. QED
    BY <1>5, <2>1, ConcatProperties
<1>7. Len(l) = num + 1 /\ l[1] = x /\ \A i \in 1 .. num : l[i + 1] = elements[i]
  BY <1>4, <1>5, <1>6
<1>8. PICK t \in Seq(T) : t = l \o <<z>>
  <2>1. <<z>> \in Seq(T)
    BY <1>4
  <2>2. QED
    BY <2>1, ConcatProperties
<1>9. Len(t) = num + 2 /\ t[num + 2] = z /\ \A i \in 1 .. num + 1 : t[i] = l[i]
  <2>1. <<z>> \in Seq(T) /\ Len(<<z>>) = 1 /\ <<z>>[1] = z
    BY <1>4
  <2>2. Len(t) = num + 2 /\ \A i \in 1 .. num + 1 : t[i] = l[i]
    BY <1>7, <1>8, <2>1
  <2>3. t[num + 2] = z
    <3>1. PICK u \in Seq(T) : u = <<z>> /\ Len(u) = 1 /\ u[1] = z
      BY <2>1
    <3>2. PICK k \in Nat : k = Len(l)
      BY <1>6
    <3>3. t = l \o u
      BY <1>8, <3>1
    <3>4. t[k + 1] = u[1]
      BY <3>1, <3>2, <3>3
    <3>5. k + 1 = num + 2
      BY <1>7, <3>2
    <3>6. QED
      BY <3>1, <3>4, <3>5
  <2>4. QED
    BY <2>2, <2>3
<1>10. t[1] = x
  <2>1. 1 \in 1 .. num + 1
    OBVIOUS
  <2>2. QED
    BY <1>7, <1>9, <2>1
<1>11. ASSUME NEW i \in 1 .. num PROVE t[i + 1] = Token(c + i - 1, <<"element", CellAt(m, c + i - 1)>>)
  <2>1. i + 1 \in 1 .. num + 1
    OBVIOUS
  <2>2. t[i + 1] = elements[i]
    BY <1>7, <1>9, <2>1
  <2>3. QED
    BY <1>1, <2>2
<1>12. FieldTokens(m, q) = t
  BY <1>3, <1>6, <1>8
<1>13. QED
  BY <1>2, <1>9, <1>10, <1>11, <1>12 DEF ColumnShown

LEMMA TokenIs == \A off, t : Token(off, t).off = off /\ Token(off, t).t = t
  BY DEF Token

LEMMA ColumnRun ==
  ASSUME NEW m \in Seq(Nat), NEW q \in Nat, NEW num \in Nat, NEW c \in Nat,
         num = ColumnAt(m, q).num, num = ColumnAt(m, q).cap, c = ColumnAt(m, q).payload,
         NEW t, ColumnShown(m, q, num, c, t), t # <<>>
  PROVE  Run(m, t, q, c + num)
<1>1. Len(t) = num + 2 /\ t[1].off = q /\ t[1].t[1] = "column"
  <2>1. Len(t) = num + 2 /\ t[1] = Token(q, <<"column">>)
    BY DEF ColumnShown
  <2>2. QED
    BY <2>1, TokenIs, TextNames
<1>2. ASSUME NEW i \in 1 .. num PROVE t[i + 1].off = c + i - 1 /\ t[i + 1].t[1] = "element" /\ t[i + 1].t # <<"end">>
  <2>1. t[i + 1] = Token(c + i - 1, <<"element", CellAt(m, c + i - 1)>>)
    BY DEF ColumnShown
  <2>2. PICK x, o : x = <<"element", CellAt(m, c + i - 1)>> /\ o = c + i - 1
    OBVIOUS
  <2>3. x[1] = "element" /\ x # <<"end">>
    BY <2>2, TextNames, TextsDiffer
  <2>4. t[i + 1].off = o /\ t[i + 1].t = x
    BY SMTT(40), <2>1, <2>2, TokenIs
  <2>5. QED
    BY <2>2, <2>3, <2>4
<1>3. t[num + 2].off = c + num - 1 /\ t[num + 2].t = <<"end">> /\ t[num + 2].t[1] = "end"
  <2>1. PICK x, o : x = <<"end">> /\ o = c + num - 1
    OBVIOUS
  <2>2. t[num + 2] = Token(o, x)
    BY <2>1 DEF ColumnShown
  <2>3. QED
    BY <2>1, <2>2, TokenIs, TextNames
<1>4. Leads(t[Len(t)], c + num)
  <2>1. t[Len(t)] = t[num + 2]
    BY <1>1
  <2>2. PICK y : y = t[num + 2]
    OBVIOUS
  <2>3. y.t[1] = "end" /\ y.off = c + num - 1 /\ y.off + 1 = c + num
    <3>1. PICK o : o = c + num - 1 /\ o + 1 = c + num
      OBVIOUS
    <3>2. y.t[1] = "end" /\ y.off = o
      BY <1>3, <2>2, <3>1
    <3>3. QED
      BY <3>1, <3>2
  <2>4. Leads(y, c + num)
    BY <2>3 DEF Leads
  <2>5. QED
    BY <2>1, <2>2, <2>4
<1>5. ASSUME NEW i \in Nat, 1 <= i, i < Len(t) PROVE Succeeds(m, t[i], t[i + 1])
  <2>1. PICK x, y : x = t[i] /\ y = t[i + 1]
    OBVIOUS
  <2>2. CASE i = 1
    <3>1. x.t[1] = "column" /\ x.off = q
      BY <1>1, <2>1, <2>2
    <3>2. num > 0 => y.off = c
      <4>1. SUFFICES ASSUME num > 0 PROVE y.off = c
        OBVIOUS
      <4>2. 1 \in 1 .. num /\ c + 1 - 1 = c
        BY <4>1
      <4>3. t[1 + 1].off = c + 1 - 1
        BY <1>2, <4>2
      <4>4. QED
        BY <2>1, <2>2, <4>2, <4>3
    <3>3. ColumnAt(m, x.off).cap = ColumnAt(m, x.off).num /\ (ColumnAt(m, x.off).num > 0 => y.off = ColumnAt(m, x.off).payload)
      BY <3>1, <3>2
    <3>4. QED
      BY <2>1, <3>1, <3>3 DEF Succeeds
  <2>3. CASE i # 1
    <3>1. PICK j \in 1 .. num : i = j + 1
      <4>1. PICK j \in Nat : i = j + 1 /\ 1 <= j
        BY <1>5, <2>3
      <4>2. j <= num
        BY <1>1, <1>5, <4>1
      <4>3. QED
        BY <4>1, <4>2
    <3>2. x.t[1] = "element" /\ x.off = c + j - 1
      BY <1>2, <2>1, <3>1
    <3>3. CASE j = num
      <4>1. i + 1 = num + 2
        BY <3>1, <3>3
      <4>2. y.off = x.off /\ y.t = <<"end">>
        BY <1>3, <2>1, <3>2, <3>3, <4>1
      <4>3. QED
        BY <2>1, <3>2, <4>2 DEF Succeeds
    <3>4. CASE j # num
      <4>1. PICK k \in 1 .. num : k = j + 1 /\ k + 1 = i + 1
        BY <3>1, <3>4
      <4>2. y.off = c + k - 1 /\ y.t # <<"end">>
        BY <1>2, <2>1, <4>1
      <4>3. y.off = x.off + 1
        BY <3>2, <4>1, <4>2
      <4>4. QED
        BY <2>1, <3>2, <4>2, <4>3 DEF Succeeds
    <3>5. QED
      BY <3>3, <3>4
  <2>4. QED
    BY <2>2, <2>3
<1>6. QED
  BY <1>1, <1>4, <1>5 DEF Run, Consecutive

(* Behind the field at q, where it begins when it is a container.          *)
Behind(m, q, p) ==
  /\ CellAt(m, q) = COLUMN_U8 => p = ColumnAt(m, q).payload + ColumnAt(m, q).cap
  /\ CellAt(m, q) = U8 => p = q + 2
  /\ CellAt(m, q) \notin {U8, COLUMN_U8} => p = q + 1

LEMMA FieldRun ==
  ASSUME NEW m \in Seq(Nat), NEW q \in Nat, NEW p, Behind(m, q, p),
         CellAt(m, q) = COLUMN_U8 => ColumnAt(m, q).cap = ColumnAt(m, q).num
  PROVE  FieldTokens(m, q) \in Seq(Tok) /\ Run(m, FieldTokens(m, q), q, p)
<1>1. FieldTokens(m, q) \in Seq(Tok)
  BY FieldTokensType
<1>2. CASE CellAt(m, q) = COLUMN_U8
  <2>1. PICK num \in Nat, c \in Nat : num = ColumnAt(m, q).num /\ num = ColumnAt(m, q).cap /\ c = ColumnAt(m, q).payload
    BY <1>2, ColumnType
  <2>2. PICK t \in Seq(Tok) : t = FieldTokens(m, q)
    BY <1>1
  <2>3. ColumnShown(m, q, num, c, t)
    BY <1>2, <2>1, <2>2, ColumnIsShown
  <2>4. t # <<>>
    <3>1. Len(t) = num + 2
      BY <2>3 DEF ColumnShown
    <3>2. Len(t) # 0
      BY <3>1
    <3>3. QED
      BY <3>2
  <2>5. Run(m, t, q, c + num)
    BY <2>1, <2>3, <2>4, ColumnRun
  <2>6. p = c + num
    BY <1>2, <2>1 DEF Behind
  <2>7. QED
    BY <2>2, <2>5, <2>6
<1>3. CASE CellAt(m, q) = U8
  <2>1. FieldTokens(m, q) = <<Token(q, <<"u8", CellAt(m, q + 1)>>)>>
    BY <1>3 DEF FieldTokens, COLUMN_U8, U8, NULL, TRUE_, ARRAY_BEGIN, OBJECT_BEGIN
  <2>2. PICK v \in Nat : v = CellAt(m, q + 1)
    BY CellType
  <2>3. p = q + 2
    BY <1>3 DEF Behind
  <2>4. Run(m, <<Token(q, <<"u8", v>>)>>, q, q + 2)
    BY NumberRun
  <2>5. QED
    BY <1>1, <2>1, <2>2, <2>3, <2>4
<1>4. CASE CellAt(m, q) \notin {COLUMN_U8, U8}
  <2>1. PICK t \in Texts : Plain(t) /\ FieldTokens(m, q) = <<Token(q, t)>>
    <3>1. CASE CellAt(m, q) = NULL
      BY <3>1, TextsAre, PlainOnes DEF FieldTokens, COLUMN_U8, U8, NULL, TRUE_, ARRAY_BEGIN, OBJECT_BEGIN
    <3>2. CASE CellAt(m, q) = TRUE_
      BY <3>2, TextsAre, PlainOnes DEF FieldTokens, COLUMN_U8, U8, NULL, TRUE_, ARRAY_BEGIN, OBJECT_BEGIN
    <3>3. CASE CellAt(m, q) = ARRAY_BEGIN
      BY <3>3, TextsAre, PlainOnes DEF FieldTokens, COLUMN_U8, U8, NULL, TRUE_, ARRAY_BEGIN, OBJECT_BEGIN
    <3>4. CASE CellAt(m, q) = OBJECT_BEGIN
      BY <3>4, TextsAre, PlainOnes DEF FieldTokens, COLUMN_U8, U8, NULL, TRUE_, ARRAY_BEGIN, OBJECT_BEGIN
    <3>5. CASE CellAt(m, q) \notin {COLUMN_U8, U8, NULL, TRUE_, ARRAY_BEGIN, OBJECT_BEGIN}
      BY <3>5, TextsAre, PlainOnes DEF FieldTokens
    <3>6. QED
      BY <1>4, <3>1, <3>2, <3>3, <3>4, <3>5
  <2>2. p = q + 1
    BY <1>4 DEF Behind
  <2>3. QED
    BY <1>1, <2>1, <2>2, PlainRun
<1>5. QED
  BY <1>2, <1>3, <1>4

(* Where nothing is reserved, what a reader meets in a step takes it from  *)
(* where it stands to where it stands then.                                *)
LEMMA MetRun ==
  ASSUME NEW m \in Seq(Nat), NEW P, Places(m, P), NEW A \in P, A.open # <<>>, Snug(m, A)
  PROVE  Met(m, A) \in Seq(Tok) /\ Run(m, Met(m, A), A.pos, Step(m, A).pos)
<1>1. A \in Readers /\ A.pos \in Nat /\ Sound(m, A)
  BY PlaceType
<1>2. Met(m, A) \in Seq(Tok)
  BY MetIs
<1>3. CellAt(m, A.pos) # 0
  BY DEF Snug
<1>4. CASE Ending(m, A)
  <2>1. PICK q : Free(m, A.pos, q) /\ CellAt(m, q) = EndMarker(A)
    BY <1>4 DEF Ending
  <2>2. q \in Nat /\ NoneLeft(m, A) /\ Step(m, A) = OutOf(A, q + 1)
    BY <1>1, <2>1, EndingStep
  <2>3. FirstUsed(m, A.pos) = q
    BY <1>1, <2>1, FirstUsedIs
  <2>4. q = A.pos
    BY <1>1, <1>3, <2>1, <2>2 DEF Free
  <2>5. PICK t \in Texts : Plain(t) /\ Met(m, A) = <<Token(q, t)>>
    <3>1. \E t : t \in Texts /\ Plain(t) /\ Met(m, A) = <<Token(q, t)>>
      BY <2>1, <2>2, <2>3, TextsAre, PlainOnes DEF Met, EndMarker
    <3>2. QED
      BY <3>1
  <2>6. Step(m, A).pos = q + 1
    BY <1>1, <2>2, Popped2
  <2>7. Run(m, <<Token(q, t)>>, q, q + 1)
    BY <2>2, <2>5, PlainRun
  <2>8. QED
    BY <1>2, <2>4, <2>5, <2>6, <2>7
<1>5. CASE ~Ending(m, A)
  <2>1. Holding(m, A) /\ ~NoneLeft(m, A)
    BY <1>1, <1>5, Forward DEF Sound
  <2>2. ValueAt(A) \in Nat /\ MarkerAt(m, A) = ValueAt(A) /\ Step(m, A) = Passed(m, A, ValueAt(A), ValueAt(A))
    BY <1>1, <2>1, HoldingStep DEF Holding
  <2>3. PICK v \in Nat : v = ValueAt(A)
    BY <2>2
  <2>4. CellAt(m, v) = COLUMN_U8 => ColumnAt(m, v).cap = ColumnAt(m, v).num
    BY <2>1, <2>3 DEF Snug
  <2>5. Behind(m, v, Step(m, A).pos)
    <3>1. Step(m, A) = Passed(m, A, v, v)
      BY <2>2, <2>3
    <3>2. CASE CellAt(m, v) = COLUMN_U8
      <4>1. Step(m, A) = Reader(ColumnAt(m, v).payload + ColumnAt(m, v).cap, A.open)
        BY <3>1, <3>2, PassedArms
      <4>2. Step(m, A).pos = ColumnAt(m, v).payload + ColumnAt(m, v).cap
        BY <4>1, ReaderFields
      <4>3. QED
        BY <3>2, <4>2, MarkersDiffer DEF Behind
    <3>3. CASE CellAt(m, v) = U8
      <4>1. Step(m, A) = Reader(v + 2, A.open)
        BY <3>1, <3>3, PassedArms
      <4>2. Step(m, A).pos = v + 2
        BY <4>1, ReaderFields
      <4>3. QED
        BY <3>3, <4>2, MarkersDiffer DEF Behind
    <3>4. CASE CellAt(m, v) \in {ARRAY_BEGIN, OBJECT_BEGIN}
      <4>1. PICK kind \in Kinds, w \in Nat : Step(m, A) = Into(A, kind, w) /\ w = v + 1
        BY <3>1, <3>4, PassedArms DEF Kinds
      <4>2. Step(m, A).pos = w
        BY <1>1, <4>1, Pushed2
      <4>3. QED
        BY <3>4, <4>1, <4>2, MarkersDiffer DEF Behind
    <3>5. CASE CellAt(m, v) \notin {ARRAY_BEGIN, OBJECT_BEGIN, U8, COLUMN_U8}
      <4>1. Step(m, A) = Reader(v + 1, A.open)
        BY <3>1, <3>5, PassedArms
      <4>2. Step(m, A).pos = v + 1
        BY <4>1, ReaderFields
      <4>3. QED
        BY <3>5, <4>2 DEF Behind
    <3>6. QED
      BY <3>2, <3>3, <3>4, <3>5
  <2>6. FieldTokens(m, v) \in Seq(Tok) /\ Run(m, FieldTokens(m, v), v, Step(m, A).pos)
    BY <2>4, <2>5, FieldRun
  <2>7. CASE Kind(A) = "array"
    <3>1. Met(m, A) = <<>> \o FieldTokens(m, v)
      BY <2>1, <2>2, <2>3, <2>7 DEF Met
    <3>2. Met(m, A) = FieldTokens(m, v)
      BY <2>6, <3>1
    <3>3. v = A.pos
      BY <2>3, <2>7 DEF ValueAt
    <3>4. QED
      BY <1>2, <2>6, <3>2, <3>3
  <2>8. CASE Kind(A) # "array"
    <3>1. PICK k \in Nat : k = CellAt(m, A.pos)
      BY <1>1, CellType
    <3>2. PICK t \in Texts : t = <<"key", k>> /\ Plain(t)
      BY TextsAre, PlainOnes
    <3>3. PICK u \in Seq(Tok) : u = <<Token(A.pos, t)>>
      BY <1>1, OneToken
    <3>4. Run(m, u, A.pos, A.pos + 1)
      BY <1>1, <3>2, <3>3, PlainRun
    <3>5. Met(m, A) = u \o FieldTokens(m, v)
      BY <2>1, <2>2, <2>3, <2>8, <3>1, <3>2, <3>3 DEF Met
    <3>6. v = A.pos + 1
      BY <2>3, <2>8 DEF ValueAt
    <3>7. Run(m, u, A.pos, v)
      BY <3>4, <3>6
    <3>8. Run(m, u \o FieldTokens(m, v), A.pos, Step(m, A).pos)
      BY <2>6, <3>7, RunJoined
    <3>9. QED
      BY <1>2, <3>5, <3>8
  <2>9. QED
    BY <2>7, <2>8
<1>6. QED
  BY <1>4, <1>5

(* Where nothing is reserved, the tokens of a record follow one another.   *)
LEMMA TokensRun ==
  ASSUME NEW m \in Seq(Nat), NEW P, Places(m, P), \A r \in P : r.open # <<>> => Snug(m, r)
  PROVE  ArrayTokens(m, 2) \in Seq(Tok) /\ Consecutive(m, ArrayTokens(m, 2))
<1>1. PICK S : S = {s \in Reads : s.reader \in P /\ Run(m, s.tokens, 2, s.reader.pos)}
  OBVIOUS
<1>2. PICK A \in P : A = Reader(2, <<"array">>) /\ A \in Readers /\ A.pos = 2
  <2>1. Reader(2, <<"array">>) \in P
    BY DEF Places
  <2>2. QED
    BY <2>1, PlaceType, ReaderFields
<1>3. PICK s0 : s0 = [reader |-> A, tokens |-> <<>>]
  OBVIOUS
<1>4. s0 \in S
  <2>1. s0.reader = A /\ s0.tokens = <<>> /\ s0 \in Reads
    BY <1>2, <1>3 DEF Reads
  <2>2. Run(m, <<>>, 2, 2)
    BY DEF Run, Consecutive
  <2>3. QED
    BY <1>1, <1>2, <2>1, <2>2
<1>5. ASSUME NEW s \in S PROVE ReadStep(m, s) \in S
  <2>1. PICK r \in P, t \in Seq(Tok) : r = s.reader /\ t = s.tokens
    BY <1>1 DEF Reads
  <2>2. CASE r.open = <<>>
    BY <2>1, <2>2 DEF ReadStep
  <2>3. CASE r.open # <<>>
    <3>1. Step(m, r) \in P /\ Step(m, r) \in Readers
      BY <2>3, PlaceType
    <3>2. PICK met \in Seq(Tok) : met = Met(m, r) /\ Run(m, met, r.pos, Step(m, r).pos)
      BY <2>3, MetRun
    <3>3. PICK o : o = [reader |-> Step(m, r), tokens |-> t \o met] /\ o = ReadStep(m, s)
      BY <2>1, <2>3, <3>2 DEF ReadStep
    <3>4. o.reader = Step(m, r) /\ o.tokens = t \o met /\ o \in Reads
      BY <3>1, <3>3 DEF Reads
    <3>5. Run(m, t, 2, r.pos)
      BY <1>1, <2>1
    <3>6. Run(m, t \o met, 2, Step(m, r).pos)
      BY <3>2, <3>5, RunJoined
    <3>7. QED
      BY <1>1, <3>1, <3>3, <3>4, <3>6
  <2>4. QED
    BY <2>2, <2>3
<1>6. PICK N \in Nat : N = Len(m)
  OBVIOUS
<1>7. PICK f \in [0 .. N -> S] : ArrayTokens(m, 2) = f[N].tokens
  <2>1. s0 = [reader |-> Reader(2, <<"array">>), tokens |-> <<>>]
    BY <1>2, <1>3
  <2>2. QED
    BY <1>4, <1>5, <1>6, <2>1, TokensAre
<1>8. f[N] \in S
  BY <1>6, <1>7
<1>9. f[N].tokens \in Seq(Tok) /\ Run(m, f[N].tokens, 2, f[N].reader.pos)
  BY <1>1, <1>8 DEF Reads
<1>10. QED
  BY <1>7, <1>9 DEF Run

-----------------------------------------------------------------------------
(***************************************************************************)
(* Inserters. The innermost writes at a place; one around it stays where    *)
(* the contents of the next begin.                                          *)
(***************************************************************************)

Inserter == [kind : Kinds \cup {"column"}, pos : Nat]

Inserters == Seq(Inserter)

(* The innermost inserter is at a place of its container, or the column it *)
(* writes to is.                                                           *)
TopIn(m, P, s, A) ==
  LET l == Len(s)
  IN  IF s[l].kind = "column"
      THEN ColumnPlace(m, P, A, s[l].pos) /\ l > 1 /\ Kind(A) = s[l - 1].kind
      ELSE A \in P /\ A.open # <<>> /\ A.pos = s[l].pos /\ Kind(A) = s[l].kind

(* An inserter whose container has been opened is where the contained one's *)
(* contents begin.                                                         *)
Parent(P, s, n) ==
  \E r \in P : /\ r.pos = s[n].pos /\ Len(r.open) > 1
               /\ Kind(r) = s[n + 1].kind /\ r.open[Len(r.open) - 1] = s[n].kind

Lower(s) == {n \in 1 .. Len(s) - 1 : s[n + 1].kind # "column"}

LowersIn(P, s, a) ==
  /\ \A n \in 1 .. Len(s) - 1 : s[n].kind \in Kinds
  /\ \A n \in Lower(s) : s[n].pos <= a /\ Parent(P, s, n)
  /\ \A n, k \in Lower(s) : n < k => s[n].pos <= s[k].pos

InsertersIn(m, P, s) ==
  s # <<>> => \E A : TopIn(m, P, s, A) /\ LowersIn(P, s, A.pos)

LEMMA InserterType ==
  ASSUME NEW s \in Inserters
  PROVE  Len(s) \in Nat /\ \A n \in 1 .. Len(s) : s[n].pos \in Nat /\ s[n].kind \in Kinds \cup {"column"}
<1>1. Len(s) \in Nat /\ \A n \in 1 .. Len(s) : s[n] \in Inserter
  BY DEF Inserters
<1>2. \A e \in Inserter : e.pos \in Nat /\ e.kind \in Kinds \cup {"column"}
  BY DEF Inserter
<1>3. QED
  BY <1>1, <1>2

LEMMA LowersKept ==
  ASSUME NEW m, NEW P, Places(m, P), NEW A \in P, NEW s \in Inserters, LowersIn(P, s, A.pos),
         NEW P1, A \in P1, Keeps(P, P1, A.pos)
  PROVE  LowersIn(P1, s, A.pos)
<1>1. ASSUME NEW n \in Lower(s) PROVE Parent(P1, s, n)
  <2>1. PICK r \in P : /\ r.pos = s[n].pos /\ Len(r.open) > 1
                       /\ Kind(r) = s[n + 1].kind /\ r.open[Len(r.open) - 1] = s[n].kind
    BY DEF LowersIn, Parent
  <2>2. s[n].pos <= A.pos
    BY DEF LowersIn
  <2>3. m \in Seq(Nat)
    BY DEF Places
  <2>4. PICK x \in Nat, a \in Nat : x = r.pos /\ a = A.pos /\ x <= a
    BY <2>1, <2>2, <2>3, PlaceType
  <2>5. r \in P1
    <3>1. CASE x < a
      BY <2>4, <3>1 DEF Keeps
    <3>2. CASE x = a
      BY <2>4, <3>2 DEF Places
    <3>3. QED
      BY <2>4, <3>1, <3>2
  <2>6. QED
    BY <2>1, <2>5 DEF Parent
<1>2. QED
  BY <1>1 DEF LowersIn

LEMMA LowersSame ==
  ASSUME NEW P, NEW s \in Inserters, NEW a \in Nat, LowersIn(P, s, a), NEW s1 \in Inserters, Len(s1) = Len(s),
         \A n \in 1 .. Len(s) : s1[n].kind = s[n].kind /\ (n < Len(s) => s1[n].pos = s[n].pos),
         NEW a1 \in Nat, a <= a1
  PROVE  LowersIn(P, s1, a1)
<1>1. PICK l \in Nat : l = Len(s) /\ l = Len(s1)
  BY InserterType
<1>2. ASSUME NEW n \in 1 .. l - 1 PROVE s1[n].kind = s[n].kind /\ s1[n].pos = s[n].pos /\ s1[n + 1].kind = s[n + 1].kind
  <2>1. n \in 1 .. l /\ n < l /\ n + 1 \in 1 .. l
    OBVIOUS
  <2>2. QED
    BY <1>1, <2>1
<1>3. Lower(s1) = Lower(s) /\ Lower(s) \subseteq 1 .. l - 1
  BY <1>1, <1>2 DEF Lower
<1>4. \A n \in 1 .. l - 1 : s1[n].kind \in Kinds
  BY <1>1, <1>2 DEF LowersIn
<1>5. ASSUME NEW n \in Lower(s) PROVE s1[n].pos <= a1 /\ Parent(P, s1, n)
  <2>1. s[n].pos <= a /\ Parent(P, s, n) /\ n \in 1 .. l - 1
    BY <1>3 DEF LowersIn
  <2>2. n \in 1 .. l
    BY <2>1
  <2>3. PICK x \in Nat : x = s[n].pos /\ x = s1[n].pos
    BY <1>1, <1>2, <2>1, <2>2, InserterType
  <2>4. x <= a1
    BY <2>1, <2>3
  <2>5. Parent(P, s1, n)
    BY <1>2, <2>1 DEF Parent
  <2>6. QED
    BY <2>3, <2>4, <2>5
<1>6. ASSUME NEW n \in Lower(s), NEW k \in Lower(s), n < k PROVE s1[n].pos <= s1[k].pos
  BY <1>2, <1>3, <1>6 DEF LowersIn
<1>7. QED
  BY <1>1, <1>3, <1>4, <1>5, <1>6 DEF LowersIn

(* The innermost inserter moves.                                           *)
MovedTo(s, p) == [s EXCEPT ![Len(s)].pos = p]

LEMMA MovedToIs ==
  ASSUME NEW s \in Inserters, s # <<>>, NEW p \in Nat
  PROVE  /\ MovedTo(s, p) \in Inserters /\ Len(MovedTo(s, p)) = Len(s)
         /\ MovedTo(s, p)[Len(s)].pos = p /\ MovedTo(s, p)[Len(s)].kind = s[Len(s)].kind
         /\ \A n \in 1 .. Len(s) - 1 : MovedTo(s, p)[n] = s[n]
<1>0. PICK s1 : s1 = MovedTo(s, p)
  OBVIOUS
<1>1. PICK l \in Nat : l = Len(s) /\ l > 0
  BY DEF Inserters
<1>2. DOMAIN s = 1 .. l /\ l \in 1 .. l
  BY <1>1 DEF Inserters
<1>3. PICK e : e = [s[l] EXCEPT !.pos = p]
  OBVIOUS
<1>4. s[l] \in Inserter
  BY <1>1, <1>2 DEF Inserters
<1>5. e.pos = p /\ e.kind = s[l].kind /\ e \in Inserter
  BY <1>3, <1>4 DEF Inserter
<1>6. s1 = [s EXCEPT ![l] = e]
  BY <1>0, <1>1, <1>3 DEF MovedTo
<1>7. s1 \in Inserters /\ Len(s1) = l
  BY <1>1, <1>2, <1>5, <1>6 DEF Inserters
<1>8. s1[l] = e /\ \A n \in 1 .. l - 1 : s1[n] = s[n]
  BY <1>2, <1>6
<1>9. QED
  BY <1>0, <1>1, <1>5, <1>7, <1>8

LEMMA TopMoved ==
  ASSUME NEW P, NEW s \in Inserters, s # <<>>, NEW a \in Nat, LowersIn(P, s, a), NEW p \in Nat,
         NEW a1 \in Nat, a <= a1
  PROVE  LowersIn(P, MovedTo(s, p), a1)
<1>0. PICK s1 : s1 = MovedTo(s, p)
  OBVIOUS
<1>1. PICK l \in Nat : l = Len(s) /\ l > 0
  BY DEF Inserters
<1>7. /\ s1 \in Inserters /\ Len(s1) = l
      /\ s1[l].pos = p /\ s1[l].kind = s[l].kind
  BY <1>0, <1>1, MovedToIs
<1>8. \A n \in 1 .. l - 1 : s1[n] = s[n]
  BY <1>0, <1>1, MovedToIs
<1>9. ASSUME NEW n \in 1 .. l PROVE s1[n].kind = s[n].kind /\ (n < l => s1[n].pos = s[n].pos)
  <2>1. CASE n = l
    BY <1>7, <2>1
  <2>2. CASE n # l
    <3>1. n \in 1 .. l - 1
      BY <2>2
    <3>2. QED
      BY <1>8, <3>1
  <2>3. QED
    BY <2>1, <2>2
<1>10. LowersIn(P, s1, a1)
  BY <1>1, <1>7, <1>9, LowersSame
<1>11. QED
  BY <1>0, <1>10

LEMMA AppendIs ==
  ASSUME NEW s \in Inserters, NEW e \in Inserter
  PROVE  /\ Append(s, e) \in Inserters /\ Len(Append(s, e)) = Len(s) + 1 /\ Append(s, e)[Len(s) + 1] = e
         /\ \A n \in 1 .. Len(s) : Append(s, e)[n] = s[n]
<1>1. s \in Seq(Inserter) /\ Len(s) \in Nat
  BY DEF Inserters
<1>2. Append(s, e) \in Seq(Inserter) /\ Len(Append(s, e)) = Len(s) + 1 /\ Append(s, e)[Len(s) + 1] = e
  BY <1>1
<1>3. \A n \in 1 .. Len(s) : Append(s, e)[n] = s[n]
  BY <1>1
<1>4. QED
  BY <1>2, <1>3 DEF Inserters

LEMMA ExceptIs ==
  ASSUME NEW s \in Inserters, NEW l \in 1 .. Len(s), NEW e \in Inserter
  PROVE  [s EXCEPT ![l] = e] \in Inserters
  BY DEF Inserters

(* An inserter is made of the innermost one: its container's contents      *)
(* begin where that one stands, or it is a column.                         *)
LEMMA LowersMore ==
  ASSUME NEW P, NEW s \in Inserters, s # <<>>, NEW a \in Nat, LowersIn(P, s, a), s[Len(s)].kind \in Kinds,
         NEW e \in Inserter, NEW s1, s1 = Append(s, e),
         e.kind # "column" => s[Len(s)].pos = a /\ Parent(P, s1, Len(s))
  PROVE  s1 \in Inserters /\ LowersIn(P, s1, a)
<1>1. PICK l \in Nat : l = Len(s) /\ l > 0
  BY DEF Inserters
<1>2. s1 \in Inserters /\ Len(s1) = l + 1 /\ s1[l + 1] = e /\ \A n \in 1 .. l : s1[n] = s[n]
  <2>1. /\ s1 \in Inserters /\ Len(s1) = Len(s) + 1 /\ s1[Len(s) + 1] = e
        /\ \A n \in 1 .. Len(s) : s1[n] = s[n]
    BY AppendIs
  <2>2. QED
    BY <1>1, <2>1, Zenon
<1>3. Lower(s1) \subseteq 1 .. l /\ Lower(s) \subseteq 1 .. l - 1
  <2>1. PICK l1 \in Nat : l1 = Len(s1) /\ l1 - 1 = l
    BY <1>2
  <2>2. QED
    BY <2>1, <1>1 DEF Lower
<1>4. \A n \in Lower(s1) : n = l => e.kind # "column"
  BY <1>1, <1>2 DEF Lower
<1>5. ASSUME NEW n \in 1 .. l - 1 PROVE s1[n] = s[n] /\ s1[n + 1] = s[n + 1] /\ (n \in Lower(s1) <=> n \in Lower(s))
  <2>1. n \in 1 .. l /\ n + 1 \in 1 .. l
    OBVIOUS
  <2>2. s1[n] = s[n] /\ s1[n + 1] = s[n + 1]
    BY <1>2, <2>1
  <2>3. Len(s1) - 1 = l /\ Len(s) - 1 = l - 1
    BY <1>1, <1>2
  <2>4. n \in 1 .. Len(s1) - 1 /\ n \in 1 .. Len(s) - 1
    BY <2>1, <2>3
  <2>5. QED
    BY <2>2, <2>4 DEF Lower
<1>6. ASSUME NEW n \in 1 .. l PROVE n \in 1 .. l - 1 \/ n = l
  BY <1>6
<1>7. ASSUME NEW n \in Lower(s1) PROVE s1[n].pos <= a /\ Parent(P, s1, n)
  <2>1. CASE n = l
    <3>1. s[l].pos = a /\ Parent(P, s1, l)
      BY <1>1, <1>4, <2>1
    <3>2. s1[l] = s[l]
      BY <1>1, <1>2
    <3>3. s1[n].pos = a /\ Parent(P, s1, n)
      BY <2>1, <3>1, <3>2
    <3>4. QED
      BY <3>3
  <2>2. CASE n \in 1 .. l - 1
    <3>1. n \in Lower(s) /\ s1[n] = s[n] /\ s1[n + 1] = s[n + 1]
      BY <1>5, <1>7, <2>2
    <3>2. s[n].pos <= a /\ Parent(P, s, n)
      BY <3>1 DEF LowersIn
    <3>3. QED
      BY <3>1, <3>2 DEF Parent
  <2>3. QED
    BY <1>3, <1>6, <1>7, <2>1, <2>2
<1>8. ASSUME NEW n \in Lower(s1), NEW k \in Lower(s1), n < k PROVE s1[n].pos <= s1[k].pos
  <2>1. n \in 1 .. l /\ k \in 1 .. l
    BY <1>3, <1>8
  <2>2. n \in 1 .. l - 1
    BY <1>8, <2>1
  <2>3. CASE k = l
    <3>1. s[l].pos = a /\ s1[l] = s[l]
      BY <1>1, <1>2, <1>4, <2>3
    <3>2. s1[k].pos = a /\ s1[n].pos <= a
      BY <1>7, <2>3, <3>1
    <3>3. QED
      BY <3>2
  <2>4. CASE k \in 1 .. l - 1
    <3>1. n \in Lower(s) /\ k \in Lower(s) /\ s1[n] = s[n] /\ s1[k] = s[k]
      BY <1>5, <1>8, <2>2, <2>4
    <3>2. s[n].pos <= s[k].pos
      BY <1>8, <3>1 DEF LowersIn
    <3>3. QED
      BY <3>1, <3>2
  <2>5. QED
    BY <1>6, <2>1, <2>3, <2>4
<1>9. ASSUME NEW n \in 1 .. Len(s1) - 1 PROVE s1[n].kind \in Kinds
  <2>1. n \in 1 .. l
    BY <1>2
  <2>2. s1[n] = s[n]
    BY <1>2, <2>1
  <2>3. CASE n = l
    BY <1>1, <2>2, <2>3
  <2>4. CASE n \in 1 .. l - 1
    <3>1. n \in 1 .. Len(s) - 1
      BY <1>1, <2>4
    <3>2. QED
      BY <2>2, <3>1 DEF LowersIn
  <2>5. QED
    BY <1>6, <2>1, <2>3, <2>4
<1>10. QED
  BY <1>2, <1>7, <1>8, <1>9 DEF LowersIn

Outer(s) == SubSeq(s, 1, Len(s) - 1)

LEMMA OuterIs ==
  ASSUME NEW s \in Inserters, Len(s) > 1
  PROVE  /\ Outer(s) \in Inserters /\ Len(Outer(s)) = Len(s) - 1 /\ Outer(s) # <<>>
         /\ \A n \in 1 .. Len(s) - 1 : Outer(s)[n] = s[n]
<1>1. PICK l \in Nat : l = Len(s) - 1 /\ l > 0 /\ Len(s) = l + 1
  BY DEF Inserters
<1>2. Outer(s) \in Inserters /\ Len(Outer(s)) = l /\ \A n \in 1 .. l : Outer(s)[n] = s[n]
  BY <1>1 DEF Inserters, Outer
<1>3. Outer(s) # <<>>
  <2>1. Len(Outer(s)) # 0
    BY <1>1, <1>2
  <2>2. QED
    BY <2>1
<1>4. QED
  BY <1>1, <1>2, <1>3

LEMMA LeftIs ==
  ASSUME NEW s \in Inserters, Len(s) > 1, NEW p \in Nat, NEW s1, s1 = MovedTo(Outer(s), p)
  PROVE  /\ s1 \in Inserters /\ Len(s1) = Len(s) - 1
         /\ s1[Len(s) - 1].pos = p /\ s1[Len(s) - 1].kind = s[Len(s) - 1].kind
<1>1. Outer(s) \in Inserters /\ Len(Outer(s)) = Len(s) - 1 /\ Outer(s) # <<>>
  BY OuterIs
<1>2. Outer(s)[Len(s) - 1] = s[Len(s) - 1]
  <2>1. PICK l \in Nat : l = Len(s) - 1 /\ l > 0
    BY DEF Inserters
  <2>2. l \in 1 .. Len(s) - 1
    BY <2>1
  <2>3. QED
    BY <2>1, <2>2, OuterIs
<1>3. QED
  BY <1>1, <1>2, MovedToIs

(* The innermost inserter is left and the one around it goes on at p.      *)
LEMMA LowersLess ==
  ASSUME NEW P, NEW s \in Inserters, Len(s) > 1, NEW a \in Nat, LowersIn(P, s, a), NEW p \in Nat,
         \A n \in Lower(s) : n < Len(s) - 1 => s[n].pos <= p
  PROVE  LowersIn(P, MovedTo(Outer(s), p), p)
<1>0. PICK outer : outer = Outer(s)
  OBVIOUS
<1>1. PICK l \in Nat : l = Len(s) - 1 /\ l > 0 /\ Len(s) = l + 1
  BY DEF Inserters
<1>2. outer \in Inserters /\ Len(outer) = l /\ \A n \in 1 .. l : outer[n] = s[n]
  BY <1>0, <1>1, OuterIs
<1>3. outer # <<>>
  <2>1. Len(outer) # 0
    BY <1>1, <1>2
  <2>2. QED
    BY <2>1
<1>4. LowersIn(P, outer, p)
  <2>1. ASSUME NEW n \in 1 .. l - 1 PROVE outer[n] = s[n] /\ outer[n + 1] = s[n + 1] /\ (n \in Lower(outer) <=> n \in Lower(s))
    <3>1. n \in 1 .. l /\ n + 1 \in 1 .. l
      OBVIOUS
    <3>2. outer[n] = s[n] /\ outer[n + 1] = s[n + 1]
      BY <1>2, <3>1
    <3>3. n \in 1 .. Len(s) - 1 /\ n \in 1 .. Len(outer) - 1
      BY <1>1, <1>2, <3>1
    <3>4. QED
      BY <3>2, <3>3 DEF Lower
  <2>2. Lower(outer) \subseteq 1 .. l - 1
    BY <1>2 DEF Lower
  <2>3. ASSUME NEW n \in Lower(outer) PROVE outer[n].pos <= p /\ Parent(P, outer, n)
    <3>1. n \in 1 .. l - 1 /\ n \in Lower(s) /\ outer[n] = s[n] /\ outer[n + 1] = s[n + 1]
      BY <2>1, <2>2, <2>3
    <3>2. n < Len(s) - 1
      BY <1>1, <3>1
    <3>3. s[n].pos <= p
      BY <3>1, <3>2
    <3>4. Parent(P, s, n)
      BY <3>1 DEF LowersIn
    <3>5. Parent(P, outer, n)
      BY <3>1, <3>4 DEF Parent
    <3>6. QED
      BY <3>1, <3>3, <3>5
  <2>4. ASSUME NEW n \in Lower(outer), NEW k \in Lower(outer), n < k PROVE outer[n].pos <= outer[k].pos
    <3>1. n \in Lower(s) /\ k \in Lower(s) /\ outer[n] = s[n] /\ outer[k] = s[k]
      BY <2>1, <2>2, <2>4
    <3>2. s[n].pos <= s[k].pos
      BY <2>4, <3>1 DEF LowersIn
    <3>3. QED
      BY <3>1, <3>2
  <2>5. ASSUME NEW n \in 1 .. Len(outer) - 1 PROVE outer[n].kind \in Kinds
    <3>1. n \in 1 .. Len(s) - 1 /\ n \in 1 .. l
      BY <1>1, <1>2
    <3>2. QED
      BY <1>2, <3>1 DEF LowersIn
  <2>6. QED
    BY <2>3, <2>4, <2>5 DEF LowersIn
<1>5. p <= p
  OBVIOUS
<1>6. LowersIn(P, MovedTo(outer, p), p)
  BY <1>2, <1>3, <1>4, <1>5, TopMoved
<1>7. QED
  BY <1>0, <1>6

-----------------------------------------------------------------------------
(***************************************************************************)
(* The iterator.                                                            *)
(***************************************************************************)

ArrayAt(P, x) == \E A \in P : A.pos = x /\ A.open # <<>> /\ Kind(A) = "array"

Iterators == [pos : Nat, last_off : Nat, field_offset : Nat, type : Nat, eof : BOOLEAN, skipped : Nat]

(* The iterator is at a place of an array, and the element that it has     *)
(* visited at another.                                                     *)
IteratorIn(m, P, i) ==
  /\ i.eof => (i.skipped = 0 => ArrayAt(P, i.pos))
  /\ ~i.eof => ArrayAt(P, i.pos) /\ (i.last_off # 0 => ArrayAt(P, i.last_off))
  /\ ~i.eof /\ i.type # 0 => /\ i.last_off # 0 /\ i.field_offset = i.last_off /\ CellAt(m, i.last_off) = i.type
                             /\ i.type # ARRAY_END

Visited(m, P, i) == \E A : ElementAt(m, P, A) /\ A.pos = i.last_off

LEMMA VisitedIs ==
  ASSUME NEW m, NEW P, NEW i, IteratorIn(m, P, i), i.type # 0, ~i.eof
  PROVE  /\ Visited(m, P, i) /\ CellAt(m, i.last_off) = i.type /\ i.field_offset = i.last_off /\ i.last_off # 0
  BY DEF IteratorIn, Visited, ArrayAt, ElementAt

LEMMA MovedIn ==
  ASSUME NEW m \in Seq(Nat), NEW P, Places(m, P), NEW i \in Iterators, ArrayAt(P, i.pos),
         NEW n, n = Moved(m, i)
  PROVE  /\ n \in Iterators /\ IteratorIn(m, P, n)
         /\ n.eof => (n.skipped = 0 => n.pos = i.pos)
         /\ ~n.eof => n.last_off = i.pos /\ i.pos # 0
<1>1. PICK A \in P : A.pos = i.pos /\ A.open # <<>> /\ Kind(A) = "array"
  BY DEF ArrayAt
<1>2. A \in Readers /\ Sound(m, A) /\ A.pos \in Nat /\ A.pos >= 2
  BY <1>1, PlaceType
<1>3. PICK a \in Nat : a = A.pos /\ a = i.pos /\ a # 0
  BY <1>1, <1>2
<1>4. PICK lo \in Nat, fo \in Nat, ty \in Nat : lo = i.last_off /\ fo = i.field_offset /\ ty = i.type
  BY DEF Iterators
<1>5. EndMarker(A) = ARRAY_END
  BY <1>1 DEF EndMarker
<1>6. Len(m) \in Nat
  OBVIOUS
<1>7. CASE Ending(m, A)
  <2>1. PICK q : Free(m, A.pos, q) /\ CellAt(m, q) = EndMarker(A)
    BY <1>7 DEF Ending
  <2>2. FirstUsed(m, a) = q
    BY <1>3, <2>1, FirstUsedIs
  <2>3. q \in Nat /\ a <= q
    BY <1>3, <2>1 DEF Free
  <2>4. CellAt(m, q) = ARRAY_END
    BY <1>5, <2>1
  <2>5. n = [i EXCEPT !.pos = q, !.eof = TRUE, !.skipped = q - a]
    BY <1>3, <2>2, <2>4 DEF Moved
  <2>6. PICK k \in Nat : k = q - a /\ (k = 0 => q = a)
    BY <2>3
  <2>7. n.pos = q /\ n.eof = TRUE /\ n.skipped = k /\ n \in Iterators
    BY <2>3, <2>5, <2>6 DEF Iterators
  <2>8. n.skipped = 0 => n.pos = i.pos
    BY <1>3, <2>6, <2>7
  <2>9. IteratorIn(m, P, n)
    BY <2>7, <2>8 DEF IteratorIn
  <2>10. QED
    BY <2>7, <2>8, <2>9
<1>8. CASE Holding(m, A)
  <2>1. CellAt(m, a) \notin {0, ARRAY_END}
    BY <1>3, <1>5, <1>8 DEF Holding
  <2>2. FirstUsed(m, a) = a
    BY <2>1 DEF FirstUsed
  <2>3. ~(a >= Len(m))
    BY <1>6, <2>1 DEF CellAt
  <2>4. n = [pos |-> FieldEnd(m, a, a), last_off |-> a, field_offset |-> a, type |-> CellAt(m, a),
             eof |-> FALSE, skipped |-> a - a]
    BY <1>3, <2>1, <2>2, <2>3 DEF Moved
  <2>5. ValueAt(A) = a
    BY <1>1, <1>3 DEF ValueAt
  <2>6. PICK B \in P : B.pos = FieldEnd(m, a, a) /\ B.open = A.open
    BY <1>1, <1>8, <2>5, FieldExit
  <2>7. B.pos \in Nat /\ B.open # <<>> /\ Kind(B) = "array"
    BY <1>1, <2>6, PlaceType DEF Kind
  <2>8. a - a = 0 /\ CellAt(m, a) \in Nat
    BY CellType
  <2>9. n \in Iterators
    BY <2>4, <2>6, <2>7, <2>8 DEF Iterators
  <2>10. n.eof = FALSE /\ n.last_off = a /\ n.field_offset = a /\ n.type = CellAt(m, a) /\ n.pos = B.pos
    BY <2>4, <2>6
  <2>11. ArrayAt(P, n.pos) /\ ArrayAt(P, n.last_off)
    BY <1>1, <1>3, <2>7, <2>10 DEF ArrayAt
  <2>12. IteratorIn(m, P, n)
    BY <1>3, <2>1, <2>10, <2>11 DEF IteratorIn
  <2>13. QED
    BY <1>3, <2>9, <2>10, <2>12
<1>9. QED
  BY <1>2, <1>7, <1>8 DEF Sound

LEMMA EnterIn ==
  ASSUME NEW m \in Seq(Nat), NEW P, Places(m, P), NEW i \in Iterators, IteratorIn(m, P, i), i.type = ARRAY_BEGIN, ~i.eof
  PROVE  ArrayAt(P, i.field_offset + 1)
<1>1. i.type # 0
  BY DEF ARRAY_BEGIN
<1>2. Visited(m, P, i) /\ CellAt(m, i.last_off) = ARRAY_BEGIN /\ i.field_offset = i.last_off
  BY <1>1, VisitedIs
<1>3. PICK A : ElementAt(m, P, A) /\ A.pos = i.last_off
  BY <1>2 DEF Visited
<1>4. A \in Readers /\ Step(m, A) \in P /\ Step(m, A) = Passed(m, A, A.pos, A.pos) /\ A.pos \in Nat
  BY <1>3, ElementIs
<1>5. Step(m, A) = Into(A, "array", A.pos + 1)
  BY <1>2, <1>3, <1>4, PassedArms
<1>6. PICK B : B = Step(m, A) /\ B = Into(A, "array", A.pos + 1)
  BY <1>5
<1>7. B \in P /\ B.pos = A.pos + 1 /\ B.open = Append(A.open, "array")
  <2>1. "array" \in Kinds /\ A.pos + 1 \in Nat /\ A \in Readers
    BY <1>4 DEF Kinds
  <2>2. Into(A, "array", A.pos + 1).pos = A.pos + 1 /\ Into(A, "array", A.pos + 1).open = Append(A.open, "array")
    BY <2>1, Pushed2
  <2>3. QED
    BY <1>4, <1>6, <2>2
<1>8. A.open \in Seq(Kinds)
  BY <1>4, ReaderIs
<1>9. Append(A.open, "array") # <<>> /\ Append(A.open, "array")[Len(Append(A.open, "array"))] = "array"
  BY <1>8 DEF Kinds
<1>10. B.open # <<>> /\ Kind(B) = "array"
  BY <1>7, <1>9 DEF Kind
<1>11. QED
  BY <1>2, <1>3, <1>7, <1>10 DEF ArrayAt

(* A field is written at a place of an array.                              *)
LEMMA PutHere ==
  ASSUME NEW m \in Seq(Nat), NEW P, Places(m, P), NEW p, ArrayAt(P, p), NEW cells \in Scalars
  PROVE  \E P1 : Places(PutCells(m, p, cells), P1)
<1>1. PICK A \in P : A.pos = p /\ A.open # <<>> /\ Kind(A) = "array"
  BY DEF ArrayAt
<1>2. A.pos \in Nat
  BY <1>1, PlaceType
<1>3. A.pos <= A.pos
  BY <1>2
<1>4. PICK q : Free(m, A.pos, q) /\ Replaced(m, m, A.pos, A.pos, A.pos, q, 0)
  BY <1>1, <1>3, Untouched
<1>5. ValueAt(A) = A.pos /\ Entitled(m, A)
  BY <1>1 DEF ValueAt, Entitled
<1>6. \E P1 : Places(PutCells(m, A.pos, cells), P1)
  BY <1>1, <1>4, <1>5, FieldPut
<1>7. QED
  BY <1>1, <1>6

(* The element that has been visited is removed.                           *)
LEMMA VisitedCut ==
  ASSUME NEW m \in Seq(Nat), NEW P, Places(m, P), NEW i \in Iterators, Visited(m, P, i),
         NEW m1, CutOut(m, i.last_off, m1)
  PROVE  \E P1 : Places(m1, P1) /\ ArrayAt(P1, i.last_off)
<1>1. PICK A : ElementAt(m, P, A) /\ A.pos = i.last_off
  BY DEF Visited
<1>2. PICK a \in Nat : a = i.last_off
  BY DEF Iterators
<1>3. CutOut(m, a, m1) /\ a = A.pos
  BY <1>1, <1>2
<1>4. PICK B, q, d : B \in P /\ B.open = A.open /\ Replaced(m, m1, A.pos, B.pos, A.pos, q, d)
  BY <1>1, <1>3, FieldCut
<1>5. A \in P /\ A.open # <<>> /\ Kind(A) = "array"
  BY <1>1 DEF ElementAt
<1>6. PICK P1 : Places(m1, P1) /\ A \in P1
  BY <1>4, <1>5, NothingPlaced
<1>7. ArrayAt(P1, i.last_off)
  BY <1>1, <1>5, <1>6 DEF ArrayAt
<1>8. QED
  BY <1>6, <1>7

(* After a removal, the iterator stands where the element was.             *)
LEMMA BackIn ==
  ASSUME NEW m1, NEW P1, NEW i \in Iterators, ~i.eof, ArrayAt(P1, i.last_off),
         NEW n, n = [i EXCEPT !.pos = i.last_off, !.type = 0]
  PROVE  n \in Iterators /\ IteratorIn(m1, P1, n)
<1>1. n \in Iterators /\ n.eof = i.eof /\ n.pos = i.last_off /\ n.last_off = i.last_off /\ n.type = 0
  BY DEF Iterators
<1>2. QED
  BY <1>1 DEF IteratorIn

(* carbon_update_*: the value is removed and another inserted in its place. *)
LEMMA Replacing ==
  ASSUME NEW m \in Seq(Nat), NEW P, Places(m, P), NEW i \in Iterators, Visited(m, P, i), ~i.eof, i.last_off # 0,
         NEW m1, CutOut(m, i.last_off, m1), NEW n, n = Moved(m1, [i EXCEPT !.pos = i.last_off]),
         ~(n.eof /\ n.skipped > 0), NEW cells \in Scalars
  PROVE  \E P2 : Places(PutCells(m1, InsertOffset(n), cells), P2)
<1>1. PICK P1 : Places(m1, P1) /\ ArrayAt(P1, i.last_off)
  BY VisitedCut
<1>2. m1 \in Seq(Nat)
  BY <1>1 DEF Places
<1>3. PICK k : k = [i EXCEPT !.pos = i.last_off]
  OBVIOUS
<1>4. k \in Iterators /\ k.pos = i.last_off
  BY <1>3 DEF Iterators
<1>5. n = Moved(m1, k) /\ ArrayAt(P1, k.pos)
  BY <1>1, <1>3, <1>4
<1>6. n \in Iterators
  BY <1>1, <1>2, <1>4, <1>5, MovedIn
<1>7. n.eof => (n.skipped = 0 => n.pos = k.pos)
  BY <1>1, <1>2, <1>4, <1>5, MovedIn
<1>8. ~n.eof => n.last_off = k.pos /\ k.pos # 0
  BY <1>1, <1>2, <1>4, <1>5, MovedIn
<1>9. InsertOffset(n) = k.pos
  <2>1. n.skipped \in Nat
    BY <1>6 DEF Iterators
  <2>2. n.eof => n.skipped = 0
    BY <2>1
  <2>3. QED
    BY <1>7, <1>8, <2>2 DEF InsertOffset
<1>10. QED
  BY <1>1, <1>2, <1>5, <1>9, PutHere

LEMMA ReplacingHere ==
  ASSUME NEW m \in Seq(Nat), NEW P, Places(m, P), NEW i \in Iterators, Visited(m, P, i),
         NEW m1, CutOut(m, i.last_off, m1), NEW cells \in Scalars
  PROVE  \E P2 : Places(PutCells(m1, i.last_off, cells), P2)
<1>1. PICK P1 : Places(m1, P1) /\ ArrayAt(P1, i.last_off)
  BY VisitedCut
<1>2. m1 \in Seq(Nat)
  BY <1>1 DEF Places
<1>3. QED
  BY <1>1, <1>2, PutHere

(* A number or constant is overwritten.                                    *)
LEMMA NumberInPlace ==
  ASSUME NEW m \in Seq(Nat), NEW P, Places(m, P), NEW i \in Iterators, Visited(m, P, i),
         CellAt(m, i.last_off) = U8, NEW x \in Nat
  PROVE  \E P1 : Places(Write(m, i.last_off + 1, <<x>>), P1)
<1>1. PICK A : ElementAt(m, P, A) /\ A.pos = i.last_off
  BY DEF Visited
<1>2. PICK p \in Nat : p = i.last_off + 1
  BY DEF Iterators
<1>3. SameType(m, A, p, x)
  BY <1>1, <1>2 DEF SameType
<1>4. \E P1 : Places(Write(m, p, <<x>>), P1)
  BY <1>1, <1>3, InPlace
<1>5. QED
  BY <1>2, <1>4

LEMMA ConstantInPlace ==
  ASSUME NEW m \in Seq(Nat), NEW P, Places(m, P), NEW i \in Iterators, Visited(m, P, i),
         CellAt(m, i.last_off) \in {NULL, TRUE_}, NEW x \in {NULL, TRUE_}
  PROVE  \E P1 : Places(Write(m, i.last_off, <<x>>), P1)
<1>1. PICK A : ElementAt(m, P, A) /\ A.pos = i.last_off
  BY DEF Visited
<1>2. PICK p \in Nat : p = i.last_off
  BY DEF Iterators
<1>3. x \in Nat
  BY MarkersAreUsed
<1>4. SameType(m, A, p, x)
  BY <1>1, <1>2 DEF SameType
<1>5. \E P1 : Places(Write(m, p, <<x>>), P1)
  BY <1>1, <1>3, <1>4, InPlace
<1>6. QED
  BY <1>2, <1>5

(* An element of the column that has been visited is removed.              *)
LEMMA ElementCut ==
  ASSUME NEW m \in Seq(Nat), NEW P, Places(m, P), NEW i \in Iterators, Visited(m, P, i),
         CellAt(m, i.last_off) = COLUMN_U8, NEW v, v = i.last_off,
         ColumnAt(m, v).num < ColumnAt(m, v).cap, NEW k \in 0 .. ColumnAt(m, v).num - 1,
         NEW cut, NEW filled, NEW m2, Cutting(m, v, k, cut, filled, m2)
  PROVE  \E P1 : Places(m2, P1)
<1>1. PICK A : ElementAt(m, P, A) /\ A.pos = i.last_off
  BY DEF Visited
<1>2. A \in P /\ A.open # <<>> /\ Holding(m, A) /\ ValueAt(A) = A.pos
  BY <1>1, ElementIs
<1>3. ColumnPlace(m, P, A, v)
  BY <1>1, <1>2 DEF ColumnPlace
<1>4. v \in Nat
  BY DEF Iterators
<1>5. PICK num \in Nat : num = ColumnAt(m, v).num
  BY <1>4, ColumnType
<1>6. k \in Nat /\ k < ColumnAt(m, v).num
  <2>1. k \in 0 .. num - 1
    BY <1>5
  <2>2. k \in Nat /\ k < num
    BY <2>1
  <2>3. QED
    BY <1>5, <2>2
<1>7. QED
  BY <1>3, <1>6, Cut

-----------------------------------------------------------------------------
(***************************************************************************)
(* What each call of an inserter does.                                      *)
(***************************************************************************)

(* m1 is m with the name of the property, in an object, written at pos.    *)
Naming(m, kind, pos, name, m1) ==
  \/ kind = "array" /\ name = <<>> /\ m1 = m
  \/ kind = "object" /\ \E key \in 1 .. Radix - 1 : key # OBJECT_END /\ name = <<key>> /\ m1 = WriteUintvar(m, pos, key)

(* The place of the innermost inserter, after the name has been written.   *)
NamedAt(m, P, s, A, m1, v) ==
  /\ A \in P /\ A.open # <<>> /\ A.pos = s[Len(s)].pos /\ Kind(A) = s[Len(s)].kind /\ v = ValueAt(A)
  /\ Entitled(m1, A)
  /\ \E q, d : Replaced(m, m1, A.pos, A.pos, v, q, d)

LEMMA TopNamed ==
  ASSUME NEW m \in Seq(Nat), NEW P, Places(m, P), NEW s, NEW A, TopIn(m, P, s, A),
         s[Len(s)].kind # "column", NEW name, NEW m1, Naming(m, s[Len(s)].kind, s[Len(s)].pos, name, m1),
         NEW v, v = s[Len(s)].pos + Len(name)
  PROVE  NamedAt(m, P, s, A, m1, v)
<1>1. A \in P /\ A.open # <<>> /\ A.pos = s[Len(s)].pos /\ Kind(A) = s[Len(s)].kind
  BY DEF TopIn
<1>2. PICK q : Free(m, A.pos, q)
  BY <1>1, PlaceFree
<1>3. PICK p \in Nat : p = A.pos
  BY <1>1, PlaceType
<1>4. CASE Kind(A) = "array"
  <2>1. name = <<>> /\ m1 = m
    BY <1>1, <1>4 DEF Naming
  <2>2. ValueAt(A) = p
    BY <1>3, <1>4 DEF ValueAt
  <2>3. v = p
    BY <1>1, <1>3, <2>1
  <2>4. (\E d : Replaced(m, m1, A.pos, A.pos, ValueAt(A), q, d)) /\ Entitled(m1, A)
    BY <1>1, <1>2, <1>4, <2>1, PlaceType, NamePut
  <2>5. QED
    BY <1>1, <2>2, <2>3, <2>4 DEF NamedAt
<1>5. CASE Kind(A) = "object"
  <2>1. PICK key \in 1 .. Radix - 1 : key # OBJECT_END /\ name = <<key>> /\ m1 = WriteUintvar(m, A.pos, key)
    BY <1>1, <1>5 DEF Naming
  <2>2. ValueAt(A) = p + 1
    BY <1>3, <1>5 DEF ValueAt
  <2>3. v = p + 1
    BY <1>1, <1>3, <2>1
  <2>4. (\E d : Replaced(m, m1, A.pos, A.pos, ValueAt(A), q, d)) /\ Entitled(m1, A)
    BY <1>1, <1>2, <1>5, <2>1, PlaceType, NamePut
  <2>5. QED
    BY <1>1, <2>2, <2>3, <2>4 DEF NamedAt
<1>6. A \in Readers
  BY <1>1, PlaceType
<1>7. QED
  BY <1>1, <1>4, <1>5, <1>6, KindType DEF Kinds

(* The innermost inserter's place as part of the inserters.                *)
LEMMA TopIs ==
  ASSUME NEW m \in Seq(Nat), NEW P, Places(m, P), NEW s \in Inserters, s # <<>>, NEW A, TopIn(m, P, s, A)
  PROVE  A \in P /\ A \in Readers /\ A.pos \in Nat /\ A.open # <<>> /\ Kind(A) \in Kinds
<1>1. A \in P /\ A.open # <<>>
  BY DEF TopIn, ColumnPlace
<1>2. A \in Readers /\ A.pos \in Nat
  BY <1>1, PlaceType
<1>3. QED
  BY <1>1, <1>2, KindType

LEMMA FieldIn ==
  ASSUME NEW m \in Seq(Nat), NEW P, Places(m, P), NEW s \in Inserters, s # <<>>, InsertersIn(m, P, s),
         s[Len(s)].kind # "column", NEW name, NEW m1, Naming(m, s[Len(s)].kind, s[Len(s)].pos, name, m1),
         NEW v, v = s[Len(s)].pos + Len(name), NEW cells \in Scalars, NEW m2, m2 = PutCells(m1, v, cells),
         NEW p, p = v + Len(cells), NEW s1, s1 = MovedTo(s, p)
  PROVE  s1 \in Inserters /\ \E P1 : Places(m2, P1) /\ InsertersIn(m2, P1, s1)
<1>1. PICK A : TopIn(m, P, s, A) /\ LowersIn(P, s, A.pos)
  BY DEF InsertersIn
<1>2. NamedAt(m, P, s, A, m1, v)
  BY <1>1, TopNamed
<1>3. A \in P /\ A \in Readers /\ A.pos \in Nat /\ A.open # <<>>
  BY <1>1, TopIs
<1>4. PICK q, d : Replaced(m, m1, A.pos, A.pos, v, q, d)
  BY <1>2 DEF NamedAt
<1>5. v = ValueAt(A) /\ Entitled(m1, A) /\ Kind(A) = s[Len(s)].kind
  BY <1>2 DEF NamedAt
<1>6. PICK P1 : Places(m2, P1) /\ A \in P1 /\ Reader(v + Len(cells), A.open) \in P1 /\ Keeps(P, P1, A.pos)
  BY <1>3, <1>4, <1>5, FieldPut
<1>7. PICK E : E = Reader(v + Len(cells), A.open) /\ E \in P1
  BY <1>6
<1>8. E.pos = p /\ E.open = A.open
  BY <1>7, ReaderFields
<1>9. p \in Nat /\ A.pos <= p
  <2>1. PICK a \in Nat, w \in Nat : a = A.pos /\ w = v /\ a <= w
    BY <1>3, <1>4 DEF Replaced
  <2>2. PICK k \in Nat : k = Len(cells)
    BY ScalarIs
  <2>3. w + k \in Nat /\ a <= w + k
    BY SMTT(60), <2>1
  <2>4. QED
    BY <2>1, <2>2, <2>3
<1>10. LowersIn(P1, s, A.pos)
  BY <1>1, <1>3, <1>6, LowersKept
<1>15. LowersIn(P1, s1, p)
  BY <1>3, <1>9, <1>10, TopMoved
<1>11. s1 \in Inserters /\ Len(s1) = Len(s) /\ s1[Len(s)].pos = p /\ s1[Len(s)].kind = s[Len(s)].kind 
  BY <1>9, MovedToIs
<1>12. TopIn(m2, P1, s1, E)
  BY <1>3, <1>5, <1>7, <1>8, <1>11 DEF TopIn, Kind
<1>13. QED
  BY <1>6, <1>8, <1>11, <1>12, <1>15 DEF InsertersIn

(* An iterator's insert offset becomes the place of an inserter.           *)
LEMMA BeginIn ==
  ASSUME NEW m \in Seq(Nat), NEW P, Places(m, P), NEW i \in Iterators, IteratorIn(m, P, i), ~(i.eof /\ i.skipped > 0),
         NEW s, s = <<[kind |-> "array", pos |-> InsertOffset(i)]>>
  PROVE  s \in Inserters /\ InsertersIn(m, P, s)
<1>1. PICK p : p = InsertOffset(i)
  OBVIOUS
<1>2. i.skipped \in Nat /\ i.pos \in Nat /\ i.last_off \in Nat
  BY DEF Iterators
<1>3. i.eof => i.skipped = 0
  BY <1>2
<1>4. ArrayAt(P, p) /\ p \in Nat
  BY <1>1, <1>2, <1>3 DEF IteratorIn, InsertOffset
<1>5. PICK A \in P : A.pos = p /\ A.open # <<>> /\ Kind(A) = "array"
  BY <1>4 DEF ArrayAt
<1>6. PICK e : e = [kind |-> "array", pos |-> p]
  OBVIOUS
<1>7. e \in Inserter /\ e.kind = "array" /\ e.pos = p
  BY <1>4, <1>6 DEF Inserter, Kinds
<1>8. s = <<e>> /\ s \in Seq(Inserter) /\ Len(s) = 1 /\ s[1] = e
  BY <1>1, <1>6, <1>7
<1>9. TopIn(m, P, s, A)
  BY <1>5, <1>7, <1>8 DEF TopIn
<1>10. LowersIn(P, s, A.pos)
  <2>1. 1 .. Len(s) - 1 = {}
    BY <1>8
  <2>2. QED
    BY <2>1 DEF LowersIn, Lower
<1>11. QED
  BY <1>8, <1>9, <1>10 DEF InsertersIn, Inserters

LEMMA ContainerIn ==
  ASSUME NEW m \in Seq(Nat), NEW P, Places(m, P), NEW s \in Inserters, s # <<>>, InsertersIn(m, P, s),
         s[Len(s)].kind # "column", NEW name, NEW m1, Naming(m, s[Len(s)].kind, s[Len(s)].pos, name, m1),
         NEW v, v = s[Len(s)].pos + Len(name), NEW kind \in Kinds, NEW cap \in Nat,
         NEW m2, m2 = PutContainer(m1, v, Begin(kind), End(kind), cap),
         NEW p, p = v + 1, NEW s1, s1 = Append(MovedTo(s, p), [kind |-> kind, pos |-> p])
  PROVE  s1 \in Inserters /\ \E P1 : Places(m2, P1) /\ InsertersIn(m2, P1, s1)
<1>1. PICK A : TopIn(m, P, s, A) /\ LowersIn(P, s, A.pos)
  BY DEF InsertersIn
<1>2. NamedAt(m, P, s, A, m1, v)
  BY <1>1, TopNamed
<1>3. A \in P /\ A \in Readers /\ A.pos \in Nat /\ A.open # <<>> /\ Kind(A) \in Kinds
  BY <1>1, TopIs
<1>4. PICK q, d : Replaced(m, m1, A.pos, A.pos, v, q, d)
  BY <1>2 DEF NamedAt
<1>5. v = ValueAt(A) /\ Entitled(m1, A) /\ Kind(A) = s[Len(s)].kind
  BY <1>2 DEF NamedAt
<1>6. PICK P1 : Places(m2, P1) /\ A \in P1 /\ Into(A, kind, v + 1) \in P1 /\ Keeps(P, P1, A.pos)
  BY <1>3, <1>4, <1>5, ContainerPut
<1>7. p \in Nat /\ A.pos <= p
  <2>1. PICK a \in Nat, w \in Nat : a = A.pos /\ w = v /\ a <= w
    BY <1>3, <1>4 DEF Replaced
  <2>2. QED
    BY SMTT(60), <2>1
<1>8. PICK E : E = Into(A, kind, p) /\ E \in P1
  BY <1>6
<1>9. /\ E.pos = p /\ Len(E.open) = Len(A.open) + 1 /\ E.open[Len(A.open) + 1] = kind
  BY SMTT(60), <1>3, <1>7, <1>8, Pushed2
<1>10. \A k \in 1 .. Len(A.open) : E.open[k] = A.open[k]
  BY SMTT(60), <1>3, <1>7, <1>8, Pushed2
<1>11. PICK n \in Nat : n = Len(A.open) /\ n > 0
  BY <1>3, KindType
<1>12. Len(E.open) > 1 /\ E.open # <<>> /\ Kind(E) = kind /\ E.open[Len(E.open) - 1] = Kind(A)
  <2>1. n \in 1 .. Len(A.open)
    BY <1>11
  <2>2. E.open[n] = Kind(A)
    BY <1>10, <1>11, <2>1 DEF Kind
  <2>3. PICK k \in Nat : k = Len(E.open) /\ k = n + 1 /\ k - 1 = n /\ k > 1
    BY <1>9, <1>11
  <2>4. E.open[k] = kind /\ E.open[k - 1] = Kind(A)
    BY <1>9, <1>11, <2>2, <2>3
  <2>5. E.open # <<>>
    <3>1. PICK o : o = E.open
      OBVIOUS
    <3>4. k = Len(o)
      BY <2>3, <3>1, Zenon
    <3>5. k # 0
      BY <2>3
    <3>2. Len(o) # 0
      BY <3>4, <3>5, Zenon
    <3>3. o # <<>>
      BY <3>2
    <3>6. QED
      BY <3>1, <3>3
  <2>6. QED
    BY <2>3, <2>4, <2>5 DEF Kind
<1>13. PICK t : t = MovedTo(s, p)
  OBVIOUS
<1>14. LowersIn(P1, s, A.pos)
  BY <1>1, <1>3, <1>6, LowersKept
<1>15. LowersIn(P1, t, p)
  BY <1>3, <1>7, <1>13, <1>14, TopMoved
<1>16. t \in Inserters /\ Len(t) = Len(s) /\ t[Len(s)].pos = p /\ t[Len(s)].kind = s[Len(s)].kind
  BY <1>7, <1>13, MovedToIs
<1>17. PICK l \in Nat : l = Len(s) /\ l > 0
  BY DEF Inserters
<1>18. t # <<>>
  <2>1. Len(t) # 0
    BY <1>16, <1>17
  <2>2. QED
    BY <2>1
<1>19. PICK e : e = [kind |-> kind, pos |-> p]
  OBVIOUS
<1>20. e \in Inserter /\ e.kind = kind /\ e.pos = p
  BY <1>7, <1>19 DEF Inserter
<1>21. s1 = Append(t, e)
  BY <1>13, <1>19
<1>22. s1 \in Inserters /\ Len(s1) = l + 1 /\ s1[l + 1] = e
  BY ZenonT(60), <1>16, <1>17, <1>20, <1>21, AppendIs
<1>23. s1[l] = t[l]
  <2>1. l \in 1 .. Len(s)
    BY SMTT(60), <1>17
  <2>2. \A lower \in 1 .. Len(t) : Append(t, e)[lower] = t[lower]
    BY ZenonT(60), <1>16, <1>20, AppendIs
  <2>3. l \in 1 .. Len(t)
    BY ZenonT(60), <1>16, <2>1
  <2>4. QED
    BY ZenonT(60), <1>21, <2>2, <2>3
<1>24. s1[l].pos = p /\ s1[l].kind = Kind(A)
  BY <1>5, <1>16, <1>17, <1>23
<1>25. Parent(P1, s1, l)
  BY <1>8, <1>9, <1>12, <1>20, <1>22, <1>24 DEF Parent
<1>26. LowersIn(P1, s1, p)
  <2>1. t[Len(t)].kind \in Kinds /\ t[Len(t)].pos = p
    BY <1>3, <1>5, <1>16
  <2>2. Parent(P1, s1, Len(t))
    BY <1>16, <1>17, <1>25
  <2>3. QED
    BY <1>7, <1>15, <1>16, <1>18, <1>20, <1>21, <2>1, <2>2, LowersMore
<1>27. TopIn(m2, P1, s1, E)
  <2>1. s1[Len(s1)] = e /\ kind # "column"
    BY SMTT(60), <1>22 DEF Kinds
  <2>2. QED
    BY <1>8, <1>9, <1>12, <1>20, <2>1 DEF TopIn
<1>28. QED
  BY <1>6, <1>9, <1>22, <1>26, <1>27 DEF InsertersIn

LEMMA ColumnIn ==
  ASSUME NEW m \in Seq(Nat), NEW P, Places(m, P), NEW s \in Inserters, s # <<>>, InsertersIn(m, P, s),
         s[Len(s)].kind # "column", NEW name, NEW m1, Naming(m, s[Len(s)].kind, s[Len(s)].pos, name, m1),
         NEW v, v = s[Len(s)].pos + Len(name), NoneLeft(m, Reader(s[Len(s)].pos, <<s[Len(s)].kind>>)),
         NEW cap \in Nat, NEW m2, m2 = PutColumn(m1, v, cap),
         NEW p, p = ColumnAt(m2, v).payload, NEW s1, s1 = Append(MovedTo(s, p), [kind |-> "column", pos |-> v])
  PROVE  s1 \in Inserters /\ \E P1 : Places(m2, P1) /\ InsertersIn(m2, P1, s1)
<1>1. PICK A : TopIn(m, P, s, A) /\ LowersIn(P, s, A.pos)
  BY DEF InsertersIn
<1>2. NamedAt(m, P, s, A, m1, v)
  BY <1>1, TopNamed
<1>3. A \in P /\ A \in Readers /\ A.pos \in Nat /\ A.open # <<>> /\ Kind(A) \in Kinds
  BY <1>1, TopIs
<1>4. PICK q, d : Replaced(m, m1, A.pos, A.pos, v, q, d)
  BY <1>2 DEF NamedAt
<1>5. v = ValueAt(A) /\ Entitled(m1, A) /\ Kind(A) = s[Len(s)].kind /\ A.pos = s[Len(s)].pos
  BY <1>2 DEF NamedAt
<1>6. Ending(m, A)
  <2>1. PICK r : r = Reader(A.pos, <<Kind(A)>>)
    OBVIOUS
  <2>2. r.pos = A.pos /\ r.open = <<Kind(A)>>
    BY <2>1, ReaderFields
  <2>3. Kind(r) = Kind(A)
    BY <2>2 DEF Kind
  <2>4. NoneLeft(m, r)
    BY <1>5, <2>1
  <2>5. NoneLeft(m, A)
    BY <2>2, <2>3, <2>4 DEF NoneLeft
  <2>6. Sound(m, A)
    BY SMTT(60), <1>3, PlaceType
  <2>7. QED
    BY <1>3, <2>5, <2>6, Forward
<1>7. PICK P1 : Places(m2, P1) /\ ColumnPlace(m2, P1, A, v) /\ Keeps(P, P1, A.pos)
  BY <1>3, <1>4, <1>5, <1>6, ColumnPut
<1>8. m2 \in Seq(Nat) /\ A \in P1
  BY <1>7 DEF Places, ColumnPlace
<1>9. v \in Nat /\ A.pos <= v
  BY <1>7, <1>8, ColumnPlaceIs
<1>10. p \in Nat
  BY <1>8, <1>9, ColumnType
<1>13. PICK t : t = MovedTo(s, p)
  OBVIOUS
<1>14. LowersIn(P1, s, A.pos)
  BY SMTT(60), <1>1, <1>3, <1>7, <1>8, LowersKept
<1>15. LowersIn(P1, t, A.pos)
  <2>1. A.pos <= A.pos
    BY SMTT(60), <1>3
  <2>2. QED
    BY <1>3, <1>10, <1>13, <1>14, <2>1, TopMoved
<1>16. t \in Inserters /\ Len(t) = Len(s) /\ t[Len(s)].pos = p /\ t[Len(s)].kind = s[Len(s)].kind
  BY <1>10, <1>13, MovedToIs
<1>17. PICK l \in Nat : l = Len(s) /\ l > 0
  BY DEF Inserters
<1>18. t # <<>>
  <2>1. Len(t) # 0
    BY <1>16, <1>17
  <2>2. QED
    BY SMTT(60), <2>1
<1>19. PICK e : e = [kind |-> "column", pos |-> v]
  OBVIOUS
<1>20. e \in Inserter /\ e.kind = "column" /\ e.pos = v
  BY SMTT(60), <1>9, <1>19 DEF Inserter
<1>21. s1 = Append(t, e)
  BY SMTT(60), <1>13, <1>19
<1>22. s1 \in Inserters /\ Len(s1) = l + 1 /\ s1[l + 1] = e
  BY ZenonT(60), <1>16, <1>17, <1>20, <1>21, AppendIs
<1>23. s1[l] = t[l]
  <2>1. l \in 1 .. Len(t)
    BY SMTT(60), <1>16, <1>17
  <2>2. QED
    BY SMTT(60), <1>16, <1>20, <1>21, <2>1, AppendIs
<1>24. s1[l].kind = Kind(A)
  BY <1>5, <1>16, <1>17, <1>23
<1>26. LowersIn(P1, s1, A.pos)
  <2>1. t[Len(t)].kind \in Kinds
    BY <1>3, <1>5, <1>16
  <2>3. QED
    BY <1>3, <1>15, <1>16, <1>18, <1>20, <1>21, <2>1, LowersMore
<1>27. TopIn(m2, P1, s1, A)
  <2>1. s1[Len(s1)] = e
    BY SMTT(60), <1>22
  <2>2. PICK k \in Nat : k = Len(s1) /\ k > 1 /\ k - 1 = l
    BY SMTT(60), <1>17, <1>22
  <2>3. Kind(A) = s1[Len(s1) - 1].kind /\ Len(s1) > 1
    BY <1>24, <2>2
  <2>4. QED
    BY ZenonT(60), <1>7, <1>20, <2>1, <2>3 DEF TopIn
<1>28. QED
  BY Zenon, <1>7, <1>22, <1>26, <1>27 DEF InsertersIn

LEMMA PushIn ==
  ASSUME NEW m \in Seq(Nat), NEW P, Places(m, P), NEW s \in Inserters, s # <<>>, InsertersIn(m, P, s),
         s[Len(s)].kind = "column", NEW v, v = s[Len(s)].pos, NEW x \in Nat,
         NEW counted, NEW cap, NEW capped, NEW grown, NEW room, NEW m2,
         Pushing(m, v, x, counted, cap, capped, grown, room, m2)
  PROVE  \E P1 : Places(m2, P1) /\ InsertersIn(m2, P1, s)
<1>1. PICK A : TopIn(m, P, s, A) /\ LowersIn(P, s, A.pos)
  BY DEF InsertersIn
<1>2. ColumnPlace(m, P, A, v) /\ Len(s) > 1 /\ Kind(A) = s[Len(s) - 1].kind
  BY <1>1 DEF TopIn
<1>3. PICK P1 : Places(m2, P1) /\ ColumnPlace(m2, P1, A, v) /\ Keeps(P, P1, A.pos)
  BY <1>2, Pushed
<1>4. A \in P /\ A \in P1
  BY <1>2, <1>3 DEF ColumnPlace
<1>5. LowersIn(P1, s, A.pos)
  BY <1>1, <1>3, <1>4, LowersKept
<1>6. TopIn(m2, P1, s, A)
  BY <1>2, <1>3 DEF TopIn
<1>7. QED
  BY <1>3, <1>5, <1>6 DEF InsertersIn

(* Where the innermost container or column is left, and the inserters then. *)
LeavesAt(m, s, p) ==
  p = IF s[Len(s)].kind = "column" THEN ColumnEnd(m, s[Len(s)].pos)
      ELSE ContainerEndAt(m, s[Len(s) - 1].pos, s[Len(s)].kind)

(* The innermost container or column is left.                              *)
LEMMA EndIn ==
  ASSUME NEW m \in Seq(Nat), NEW P, Places(m, P), NEW s \in Inserters, InsertersIn(m, P, s), Len(s) > 1,
         NEW p, LeavesAt(m, s, p), NEW s1, s1 = MovedTo(Outer(s), p)
  PROVE  /\ s1 \in Inserters /\ InsertersIn(m, P, s1)
         /\ p \in Nat /\ p < Len(m)
<1>1. PICK l \in Nat : l = Len(s) - 1 /\ l > 0 /\ Len(s) = l + 1
  BY DEF Inserters
<1>2. s # <<>>
  <2>1. Len(s) # 0
    BY <1>1
  <2>2. QED
    BY <2>1
<1>3. PICK A : TopIn(m, P, s, A) /\ LowersIn(P, s, A.pos)
  BY <1>2 DEF InsertersIn
<1>4. A \in P /\ A \in Readers /\ A.pos \in Nat /\ A.open # <<>>
  BY <1>2, <1>3, TopIs
<1>5. l \in 1 .. Len(s) - 1
  BY <1>1
<1>6. s[l].kind \in Kinds /\ s[l].pos \in Nat
  <2>1. l \in 1 .. Len(s)
    BY <1>1
  <2>2. s[l].kind \in Kinds
    BY <1>3, <1>5 DEF LowersIn
  <2>3. QED
    BY <2>1, <2>2, InserterType
<1>7. Lower(s) \subseteq Nat /\ \A n \in Lower(s) : n \in 1 .. l
  BY <1>1 DEF Lower
<1>8. \E B \in P : /\ B.pos = p /\ B.open # <<>> /\ Kind(B) = s[l].kind
                   /\ \A n \in Lower(s) : n < l => s[n].pos <= p
  <2>1. CASE s[l + 1].kind = "column"
    <3>1. PICK v : v = s[l + 1].pos
      OBVIOUS
    <3>2. ColumnPlace(m, P, A, v) /\ Kind(A) = s[l].kind
      BY <1>1, <1>3, <2>1, <3>1 DEF TopIn
    <3>3. p = ColumnEnd(m, v)
      BY <1>1, <2>1, <3>1 DEF LeavesAt
    <3>4. PICK B \in P : B.open = A.open /\ B.pos = ColumnEnd(m, v) /\ A.pos <= B.pos
      BY <3>2, ColumnPlaceIs
    <3>5. Kind(B) = s[l].kind
      BY <3>2, <3>4 DEF Kind
    <3>6. PICK a \in Nat, b \in Nat : a = A.pos /\ b = B.pos /\ a <= b
      BY <1>4, <3>4, PlaceType
    <3>7. ASSUME NEW n \in Lower(s) PROVE s[n].pos <= p
      <4>1. s[n].pos <= a
        BY <1>3, <3>6, <3>7 DEF LowersIn
      <4>2. n \in 1 .. Len(s)
        BY <1>1, <1>7, <3>7
      <4>3. PICK x \in Nat : x = s[n].pos
        BY <4>2, InserterType
      <4>4. x <= b
        BY <3>6, <4>1, <4>3
      <4>5. QED
        BY <3>3, <3>4, <3>6, <4>3, <4>4
    <3>8. B.pos = p /\ B.open # <<>>
      BY <1>4, <3>3, <3>4
    <3>9. QED
      BY <3>5, <3>7, <3>8
  <2>2. CASE s[l + 1].kind # "column"
    <3>1. l \in Lower(s)
      BY <1>5, <2>2 DEF Lower
    <3>2. PICK r \in P : /\ r.pos = s[l].pos /\ Len(r.open) > 1
                         /\ Kind(r) = s[l + 1].kind /\ r.open[Len(r.open) - 1] = s[l].kind
      BY <1>3, <3>1 DEF LowersIn, Parent
    <3>0. r.open \in Seq(Kinds)
      BY PlaceType
    <3>3. PICK n \in Nat : n = Len(r.open) /\ n > 1
      BY <3>0, <3>2
    <3>4. r.open # <<>>
      <4>1. PICK o : o = r.open
        OBVIOUS
      <4>2. Len(o) # 0
        BY <3>3, <4>1
      <4>3. o # <<>>
        BY <4>2
      <4>4. QED
        BY <4>1, <4>3
    <3>5. p = ContainerEndAt(m, r.pos, Kind(r))
      BY <1>1, <2>2, <3>2 DEF LeavesAt
    <3>6. PICK B \in P : /\ B.pos = p /\ Len(B.open) = Len(r.open) - 1
                         /\ \A i \in 1 .. Len(r.open) - 1 : B.open[i] = r.open[i]
                         /\ r.pos < B.pos
      BY <3>4, <3>5, ContainerExit
    <3>7. PICK k \in Nat : k = n - 1 /\ k > 0 /\ k = Len(r.open) - 1
      <4>1. n > 1
        BY <3>3
      <4>2. n - 1 \in Nat /\ n - 1 > 0
        BY <4>1
      <4>3. n - 1 = Len(r.open) - 1
        BY <3>3, Zenon
      <4>4. QED
        BY <4>2, <4>3, Zenon
    <3>8. k \in 1 .. Len(r.open) - 1 /\ Len(B.open) = k
      BY <3>6, <3>7
    <3>9. B.open[k] = s[l].kind
      BY <3>2, <3>6, <3>7, <3>8
    <3>10. B.open # <<>>
      <4>1. PICK o : o = B.open
        OBVIOUS
      <4>2. Len(o) # 0
        BY <3>7, <3>8, <4>1
      <4>3. o # <<>>
        BY <4>2
      <4>4. QED
        BY <4>1, <4>3
    <3>11. Kind(B) = s[l].kind
      BY <3>8, <3>9 DEF Kind
    <3>12. PICK x \in Nat, y \in Nat : x = s[l].pos /\ y = B.pos /\ x < y
      BY <1>6, <3>2, <3>6, PlaceType
    <3>13. ASSUME NEW j \in Lower(s), j < l PROVE s[j].pos <= p
      <4>1. s[j].pos <= x
        BY <1>3, <3>1, <3>12, <3>13 DEF LowersIn
      <4>2. j \in 1 .. Len(s)
        BY <1>1, <1>7, <3>13
      <4>3. PICK z \in Nat : z = s[j].pos
        BY <4>2, InserterType
      <4>4. z <= y
        BY SMTT(60), <3>12, <4>1, <4>3
      <4>5. QED
        BY <3>6, <3>12, <4>3, <4>4
    <3>14. QED
      BY <3>6, <3>10, <3>11, <3>13
  <2>3. QED
    BY <2>1, <2>2
<1>9. PICK B \in P : /\ B.pos = p /\ B.open # <<>> /\ Kind(B) = s[l].kind
                     /\ \A n \in Lower(s) : n < l => s[n].pos <= p
  BY <1>8
<1>10. p \in Nat /\ p < Len(m)
  BY <1>9, PlaceType
<1>11. \A n \in Lower(s) : n < Len(s) - 1 => s[n].pos <= p
  BY <1>1, <1>9
<1>12. /\ s1 \in Inserters /\ LowersIn(P, s1, p) /\ Len(s1) = Len(s) - 1
       /\ s1[Len(s) - 1].pos = p /\ s1[Len(s) - 1].kind = s[Len(s) - 1].kind
  <2>1. LowersIn(P, s1, p)
    BY <1>3, <1>4, <1>10, <1>11, LowersLess
  <2>2. /\ s1 \in Inserters /\ Len(s1) = Len(s) - 1
        /\ s1[Len(s) - 1].pos = p /\ s1[Len(s) - 1].kind = s[Len(s) - 1].kind
    BY ZenonT(60), <1>10, LeftIs
  <2>3. QED
    BY <2>1, <2>2
<1>13. TopIn(m, P, s1, B)
  <2>1. Len(s1) = l /\ s1[l].pos = p /\ s1[l].kind = s[l].kind /\ s[l].kind # "column"
    BY <1>1, <1>6, <1>12 DEF Kinds
  <2>2. QED
    BY <1>9, <2>1 DEF TopIn
<1>14. QED
  BY <1>9, <1>10, <1>12, <1>13 DEF InsertersIn

-----------------------------------------------------------------------------
(***************************************************************************)
(* The invariant of the specification: a record, and an iterator or         *)
(* inserters at places of it.                                               *)
(***************************************************************************)

(* A record, an iterator over it, or inserters into it.                    *)
Good(m, i, s) ==
  /\ i \in Iterators /\ s \in Inserters /\ (i = Closed \/ s = <<>>)
  /\ \E P : Places(m, P) /\ (i # Closed => IteratorIn(m, P, i)) /\ InsertersIn(m, P, s)

LEMMA NoInserters == <<>> \in Inserters /\ \A m, P : InsertersIn(m, P, <<>>)
  BY DEF Inserters, InsertersIn

LEMMA ClosedIs == Closed \in Iterators /\ Closed.type = 0
  BY DEF Closed, Iterators

LEMMA GoodIdle ==
  ASSUME NEW m, NEW P, Places(m, P)
  PROVE  Good(m, Closed, <<>>)
  BY NoInserters, ClosedIs DEF Good

LEMMA GoodIterator ==
  ASSUME NEW m, NEW P, Places(m, P), NEW i \in Iterators, IteratorIn(m, P, i)
  PROVE  Good(m, i, <<>>)
  BY NoInserters DEF Good

LEMMA GoodInserters ==
  ASSUME NEW m, NEW P, Places(m, P), NEW s \in Inserters, InsertersIn(m, P, s)
  PROVE  Good(m, Closed, s)
  BY ClosedIs DEF Good

LEMMA IteratorGood ==
  ASSUME NEW m, NEW i, NEW s, Good(m, i, s), i # Closed
  PROVE  /\ i \in Iterators /\ s = <<>> /\ m \in Seq(Nat)
         /\ \E P : Places(m, P) /\ IteratorIn(m, P, i)
  BY DEF Good, Places

LEMMA InsertersGood ==
  ASSUME NEW m, NEW i, NEW s, Good(m, i, s), s # <<>>
  PROVE  /\ i = Closed /\ s \in Inserters /\ m \in Seq(Nat)
         /\ \E P : Places(m, P) /\ InsertersIn(m, P, s)
  BY DEF Good, Places

LEMMA IteratorIs ==
  ASSUME NEW p \in Nat
  PROVE  /\ [Closed EXCEPT !.pos = p] \in Iterators /\ [Closed EXCEPT !.pos = p].pos = p
         /\ ~[Closed EXCEPT !.pos = p].eof /\ [Closed EXCEPT !.pos = p].type = 0
         /\ [Closed EXCEPT !.pos = p].last_off = 0
  BY DEF Closed, Iterators

LEMMA IteratorAt ==
  ASSUME NEW m, NEW P, Places(m, P), NEW b, ArrayAt(P, b + 1), NEW i, i = Iterator(b)
  PROVE  Good(m, i, <<>>)
<1>1. PICK A \in P : A.pos = b + 1 /\ A.open # <<>> /\ Kind(A) = "array"
  BY DEF ArrayAt
<1>2. m \in Seq(Nat)
  BY DEF Places
<1>3. A.pos \in Nat
  BY <1>1, <1>2, PlaceType
<1>4. PICK p \in Nat : p = b + 1
  BY <1>1, <1>3
<1>5. i = [Closed EXCEPT !.pos = p]
  BY <1>4 DEF Iterator
<1>6. i.pos = p /\ ~i.eof /\ i.type = 0 /\ i.last_off = 0 /\ i \in Iterators
  BY <1>5, IteratorIs
<1>7. IteratorIn(m, P, i)
  BY <1>4, <1>6 DEF IteratorIn
<1>8. QED
  BY <1>6, <1>7, GoodIterator

LEMMA OpenGood ==
  ASSUME Good(mem, it, ins), IteratorOpen
  PROVE  Good(mem', it', ins')
<1>1. it' = Iterator(1) /\ mem' = mem /\ ins' = <<>>
  BY DEF IteratorOpen, Idle
<1>2. PICK P : Places(mem, P)
  BY DEF Good
<1>3. Reader(2, <<"array">>) \in P
  BY <1>2 DEF Places
<1>4. PICK A \in P : A = Reader(2, <<"array">>)
  BY <1>3
<1>5. A.pos = 1 + 1 /\ A.open = <<"array">>
  BY <1>4, ReaderFields
<1>6. A.open # <<>> /\ Kind(A) = "array"
  BY <1>5 DEF Kind
<1>7. ArrayAt(P, 1 + 1)
  BY <1>5, <1>6 DEF ArrayAt
<1>8. QED
  BY <1>1, <1>2, <1>7, IteratorAt

LEMMA NextGood ==
  ASSUME Good(mem, it, ins), IteratorNext
  PROVE  Good(mem', it', ins')
<1>1. it # Closed /\ ~it.eof /\ it' = Moved(mem, it) /\ mem' = mem /\ ins' = ins
  BY DEF IteratorNext
<1>2. PICK P : Places(mem, P) /\ IteratorIn(mem, P, it)
  BY <1>1, IteratorGood
<1>3. it \in Iterators /\ ins = <<>> /\ mem \in Seq(Nat)
  BY <1>1, IteratorGood
<1>4. ArrayAt(P, it.pos)
  BY <1>1, <1>2 DEF IteratorIn
<1>5. Moved(mem, it) \in Iterators /\ IteratorIn(mem, P, Moved(mem, it))
  BY <1>2, <1>3, <1>4, MovedIn
<1>6. QED
  BY <1>1, <1>2, <1>3, <1>5, GoodIterator

LEMMA EnterGood ==
  ASSUME Good(mem, it, ins), IteratorEnter
  PROVE  Good(mem', it', ins')
<1>1. it.type = ARRAY_BEGIN /\ it.type # 0 /\ ~it.eof /\ it' = Iterator(it.field_offset) /\ mem' = mem /\ ins' = ins
  BY DEF IteratorEnter, OnElement
<1>2. it # Closed
  BY <1>1, ClosedIs
<1>3. PICK P : Places(mem, P) /\ IteratorIn(mem, P, it)
  BY <1>2, IteratorGood
<1>4. it \in Iterators /\ ins = <<>> /\ mem \in Seq(Nat)
  BY <1>2, IteratorGood
<1>5. ArrayAt(P, it.field_offset + 1)
  BY <1>1, <1>3, <1>4, EnterIn
<1>6. QED
  BY <1>1, <1>3, <1>4, <1>5, IteratorAt

LEMMA CloseGood ==
  ASSUME Good(mem, it, ins), IteratorClose
  PROVE  Good(mem', it', ins')
<1>1. it # Closed /\ it' = Closed /\ mem' = mem /\ ins' = ins
  BY DEF IteratorClose
<1>2. ins = <<>>
  BY <1>1, IteratorGood
<1>3. PICK P : Places(mem, P)
  BY DEF Good
<1>4. QED
  BY <1>1, <1>2, <1>3, GoodIdle

(* What the iterator stands on.                                            *)
LEMMA OnElementIs ==
  ASSUME Good(mem, it, ins), OnElement
  PROVE  /\ it \in Iterators /\ ins = <<>> /\ mem \in Seq(Nat) /\ ~it.eof /\ it.last_off # 0
         /\ CellAt(mem, it.last_off) = it.type /\ it.field_offset = it.last_off
         /\ \E P : Places(mem, P) /\ Visited(mem, P, it)
<1>1. it.type # 0 /\ ~it.eof
  BY DEF OnElement
<1>2. it # Closed
  BY <1>1, ClosedIs
<1>3. PICK P : Places(mem, P) /\ IteratorIn(mem, P, it)
  BY <1>2, IteratorGood
<1>4. it \in Iterators /\ ins = <<>> /\ mem \in Seq(Nat)
  BY <1>2, IteratorGood
<1>5. Visited(mem, P, it) /\ CellAt(mem, it.last_off) = it.type /\ it.field_offset = it.last_off /\ it.last_off # 0
  BY <1>1, <1>3, VisitedIs
<1>6. QED
  BY <1>1, <1>3, <1>4, <1>5

LEMMA RemoveGood ==
  ASSUME Good(mem, it, ins), Remove
  PROVE  Good(mem', it', ins')
<1>1. OnElement /\ mem' = Removed /\ it' = [it EXCEPT !.pos = it.last_off, !.type = 0] /\ ins' = ins
  BY DEF Remove
<1>2. it \in Iterators /\ ins = <<>> /\ mem \in Seq(Nat) /\ ~it.eof
  BY <1>1, OnElementIs
<1>3. PICK P : Places(mem, P) /\ Visited(mem, P, it)
  BY <1>1, OnElementIs
<1>4. CutOut(mem, it.last_off, Removed)
  BY DEF CutOut, Removed
<1>5. PICK P1 : Places(Removed, P1) /\ ArrayAt(P1, it.last_off)
  BY <1>2, <1>3, <1>4, VisitedCut
<1>6. it' \in Iterators /\ IteratorIn(Removed, P1, it')
  BY Zenon, <1>1, <1>2, <1>5, BackIn
<1>7. QED
  BY <1>1, <1>2, <1>5, <1>6, GoodIterator

(* What keeps free cells from staying in front of a field, and counters    *)
(* from being corrupted.                                                   *)
Careful == ~MayLeaveGap /\ ~MayRemoveFull

LEMMA ScalarsAre ==
  /\ <<NULL>> \in Scalars /\ <<TRUE_>> \in Scalars
  /\ \A v \in Values : v \in Nat /\ <<U8, v>> \in Scalars
  BY EditAssumption DEF Scalars

LEMMA NumberGood ==
  ASSUME Careful, Good(mem, it, ins), UpdateNumber
  PROVE  Good(mem', it', ins')
<1>1. OnElement /\ it' = Closed /\ ins' = ins
  BY DEF UpdateNumber
<1>2. it \in Iterators /\ ins = <<>> /\ mem \in Seq(Nat) /\ ~it.eof /\ it.last_off # 0
      /\ CellAt(mem, it.last_off) = it.type
  BY <1>1, OnElementIs
<1>3. PICK P : Places(mem, P) /\ Visited(mem, P, it)
  BY <1>1, OnElementIs
<1>4. PICK next : next = Moved(Removed, [it EXCEPT !.pos = it.last_off])
  OBVIOUS
<1>5. PICK v \in Values : IF it.type = U8 THEN mem' = Write(mem, it.last_off + 1, <<v>>)
                          ELSE ~(next.eof /\ next.skipped > 0) /\ mem' = PutCells(Removed, InsertOffset(next), <<U8, v>>)
  BY <1>4 DEF UpdateNumber, Careful
<1>6. v \in Nat /\ <<U8, v>> \in Scalars
  BY ScalarsAre
<1>7. CutOut(mem, it.last_off, Removed)
  BY DEF CutOut, Removed
<1>8. CASE it.type = U8
  <2>1. \E P1 : Places(Write(mem, it.last_off + 1, <<v>>), P1)
    BY <1>2, <1>3, <1>6, <1>8, NumberInPlace
  <2>2. QED
    BY <1>1, <1>2, <1>5, <1>8, <2>1, GoodIdle
<1>9. CASE it.type # U8
  <2>1. ~(next.eof /\ next.skipped > 0) /\ mem' = PutCells(Removed, InsertOffset(next), <<U8, v>>)
    BY <1>5, <1>9
  <2>2. \E P1 : Places(PutCells(Removed, InsertOffset(next), <<U8, v>>), P1)
    BY <1>2, <1>3, <1>4, <1>6, <1>7, <2>1, Replacing
  <2>3. QED
    BY <1>1, <1>2, <2>1, <2>2, GoodIdle
<1>10. QED
  BY <1>8, <1>9

LEMMA ConstantGood ==
  ASSUME Good(mem, it, ins), UpdateConstant
  PROVE  Good(mem', it', ins')
<1>1. OnElement /\ it' = Closed /\ ins' = ins
  BY DEF UpdateConstant
<1>2. it \in Iterators /\ ins = <<>> /\ mem \in Seq(Nat) /\ CellAt(mem, it.last_off) = it.type
  BY <1>1, OnElementIs
<1>3. PICK P : Places(mem, P) /\ Visited(mem, P, it)
  BY <1>1, OnElementIs
<1>4. PICK c \in {NULL, TRUE_} : IF it.type \in {NULL, TRUE_} THEN mem' = Write(mem, it.last_off, <<c>>)
                                 ELSE mem' = PutCells(Removed, it.last_off, <<c>>)
  BY DEF UpdateConstant
<1>5. <<c>> \in Scalars
  BY ScalarsAre
<1>6. CutOut(mem, it.last_off, Removed)
  BY DEF CutOut, Removed
<1>7. CASE it.type \in {NULL, TRUE_}
  <2>1. \E P1 : Places(Write(mem, it.last_off, <<c>>), P1)
    BY <1>2, <1>3, <1>7, ConstantInPlace
  <2>2. QED
    BY <1>1, <1>2, <1>4, <1>7, <2>1, GoodIdle
<1>8. CASE it.type \notin {NULL, TRUE_}
  <2>1. mem' = PutCells(Removed, it.last_off, <<c>>)
    BY <1>4, <1>8
  <2>2. \E P1 : Places(PutCells(Removed, it.last_off, <<c>>), P1)
    BY <1>2, <1>3, <1>5, <1>6, ReplacingHere
  <2>3. QED
    BY <1>1, <1>2, <2>1, <2>2, GoodIdle
<1>9. QED
  BY <1>7, <1>8

LEMMA ElementGood ==
  ASSUME Careful, Good(mem, it, ins), ColumnRemove
  PROVE  Good(mem', it', ins')
<1>1. OnElement /\ it.type = COLUMN_U8 /\ it' = Closed /\ ins' = ins
  BY DEF ColumnRemove
<1>2. it \in Iterators /\ ins = <<>> /\ mem \in Seq(Nat) /\ CellAt(mem, it.last_off) = it.type
      /\ it.field_offset = it.last_off
  BY <1>1, OnElementIs
<1>3. PICK P : Places(mem, P) /\ Visited(mem, P, it)
  BY <1>1, OnElementIs
<1>4. PICK v : v = it.last_off
  OBVIOUS
<1>5. ColumnAt(mem, v).num < ColumnAt(mem, v).cap
  BY <1>2, <1>4 DEF ColumnRemove, Careful
<1>6. PICK i \in 0 .. ColumnAt(mem, v).num - 1 : mem' = ElementRemoved(i)
  BY <1>2, <1>4 DEF ColumnRemove
<1>7. PICK cut, filled : Cutting(mem, v, i, cut, filled, ElementRemoved(i))
  BY <1>2, <1>4 DEF Cutting, ElementRemoved
<1>8. \E P1 : Places(ElementRemoved(i), P1)
  BY <1>1, <1>2, <1>3, <1>4, <1>5, <1>7, ElementCut
<1>9. QED
  BY <1>1, <1>2, <1>6, <1>8, GoodIdle

LEMMA PackGood ==
  ASSUME Good(mem, it, ins), Pack
  PROVE  Good(mem', it', ins')
<1>1. mem' = PackArray(mem, 1) /\ it' = Closed /\ ins' = <<>>
  BY DEF Pack, Idle
<1>2. PICK P : Places(mem, P)
  BY DEF Good
<1>3. mem \in Seq(Nat)
  BY <1>2 DEF Places
<1>4. PICK P1 : Places(PackArray(mem, 1), P1)
  BY <1>2, <1>3, RecordPacked
<1>5. QED
  BY <1>1, <1>4, GoodIdle

LEMMA BeginGood ==
  ASSUME Careful, Good(mem, it, ins), InsertBegin
  PROVE  Good(mem', it', ins')
<1>1. it # Closed /\ ~(it.eof /\ it.skipped > 0) /\ ins' = <<[kind |-> "array", pos |-> InsertOffset(it)]>>
      /\ it' = Closed /\ mem' = mem
  BY DEF InsertBegin, Careful
<1>2. PICK P : Places(mem, P) /\ IteratorIn(mem, P, it)
  BY <1>1, IteratorGood
<1>3. it \in Iterators /\ mem \in Seq(Nat)
  BY <1>1, IteratorGood
<1>4. ins' \in Inserters /\ InsertersIn(mem, P, ins')
  BY <1>1, <1>2, <1>3, BeginIn
<1>5. QED
  BY <1>1, <1>2, <1>4, GoodInserters

LEMMA InsertEndGood ==
  ASSUME Good(mem, it, ins), InsertEnd
  PROVE  Good(mem', it', ins')
<1>1. mem' = mem /\ it' = it /\ ins' = <<>>
  BY DEF InsertEnd
<1>2. ins # <<>>
  BY DEF InsertEnd
<1>3. it = Closed
  BY <1>2, InsertersGood
<1>4. PICK P : Places(mem, P)
  BY DEF Good
<1>5. QED
  BY <1>1, <1>3, <1>4, GoodIdle

(* The length in front of a name is neither zero nor equal to the end      *)
(* marker: an object iterator would take it for a free cell or for the end *)
(* (is_slot_occupied).                                                     *)
Nameable == {0, OBJECT_END} \cap Keys = {}

LEMMA TopOpen ==
  ASSUME Editing
  PROVE  ins # <<>> /\ Top = ins[Len(ins)]
  BY DEF Editing, Top

LEMMA NamingIs ==
  ASSUME Nameable, Good(mem, it, ins), ins # <<>>, Top.kind # "column", NEW name \in Names
  PROVE  Naming(mem, ins[Len(ins)].kind, ins[Len(ins)].pos, name, Named(name))
<1>1. ins \in Inserters
  BY InsertersGood
<1>2. PICK l \in Nat : l = Len(ins) /\ l \in 1 .. Len(ins)
  <2>1. ins \in Seq(Inserter)
    BY <1>1 DEF Inserters
  <2>2. QED
    BY <2>1
<1>3. ins[l].kind \in Kinds \cup {"column"}
  BY <1>1, <1>2, InserterType
<1>4. Top.kind \in {"array", "object"} /\ Top = ins[Len(ins)]
  BY <1>2, <1>3 DEF Top, Kinds
<1>5. CASE Top.kind = "array"
  <2>1. name = <<>>
    BY <1>5 DEF Names
  <2>2. Named(name) = mem
    BY <2>1 DEF Named
  <2>3. QED
    BY <1>4, <1>5, <2>1, <2>2 DEF Naming
<1>6. CASE Top.kind = "object"
  <2>1. PICK k \in Keys : name = <<k>>
    BY <1>6 DEF Names
  <2>2. k \in 1 .. Radix - 1 /\ k # OBJECT_END
    BY EditAssumption DEF Nameable
  <2>3. name # <<>> /\ name[1] = k
    BY <2>1
  <2>4. Named(name) = WriteUintvar(mem, Top.pos, k)
    BY <2>3 DEF Named
  <2>5. QED
    BY <1>4, <1>6, <2>1, <2>2, <2>4 DEF Naming
<1>7. QED
  BY <1>4, <1>5, <1>6

LEMMA FieldGood ==
  ASSUME Nameable, Good(mem, it, ins), InsertField
  PROVE  Good(mem', it', ins')
<1>1. Editing /\ Top.kind # "column" /\ it' = it
  BY DEF InsertField
<1>2. ins # <<>> /\ Top = ins[Len(ins)]
  BY <1>1, TopOpen
<1>3. PICK name \in Names, cells \in {<<NULL>>, <<TRUE_>>} \cup {<<U8, v>> : v \in Values} :
        /\ mem' = PutCells(Named(name), Top.pos + Len(name), cells)
        /\ ins' = At(Top.pos + Len(name) + Len(cells))
  BY DEF InsertField
<1>4. cells \in Scalars
  BY ScalarsAre
<1>5. Naming(mem, ins[Len(ins)].kind, ins[Len(ins)].pos, name, Named(name))
  BY <1>1, <1>2, NamingIs
<1>6. it = Closed /\ ins \in Inserters /\ mem \in Seq(Nat)
  BY <1>2, InsertersGood
<1>7. PICK P : Places(mem, P) /\ InsertersIn(mem, P, ins)
  BY <1>2, InsertersGood
<1>8. PICK v : v = ins[Len(ins)].pos + Len(name)
  OBVIOUS
<1>9. PICK m1 : m1 = Named(name)
  OBVIOUS
<1>10. PICK m2 : m2 = PutCells(m1, v, cells)
  OBVIOUS
<1>11. PICK p : p = v + Len(cells)
  OBVIOUS
<1>12. PICK s1 : s1 = MovedTo(ins, p)
  OBVIOUS
<1>13. mem' = m2 /\ ins' = s1
  BY <1>2, <1>3, <1>8, <1>9, <1>10, <1>11, <1>12 DEF At, MovedTo
<1>14. s1 \in Inserters /\ \E P1 : Places(m2, P1) /\ InsertersIn(m2, P1, s1)
  BY <1>1, <1>2, <1>4, <1>5, <1>6, <1>7, <1>8, <1>9, <1>10, <1>11, <1>12, FieldIn
<1>15. QED
  BY <1>1, <1>6, <1>13, <1>14, GoodInserters

LEMMA ContainerGood ==
  ASSUME Nameable, Good(mem, it, ins), ContainerBegin
  PROVE  Good(mem', it', ins')
<1>1. Editing /\ Top.kind # "column" /\ it' = it
  BY DEF ContainerBegin
<1>2. ins # <<>> /\ Top = ins[Len(ins)]
  BY <1>1, TopOpen
<1>3. PICK name \in Names, cap \in Capacities, kind \in {"array", "object"} :
        /\ mem' = IF kind = "array"
                  THEN PutContainer(Named(name), Top.pos + Len(name), ARRAY_BEGIN, ARRAY_END, cap)
                  ELSE PutContainer(Named(name), Top.pos + Len(name), OBJECT_BEGIN, OBJECT_END, cap)
        /\ ins' = Append(At(Top.pos + Len(name) + 1), [kind |-> kind, pos |-> Top.pos + Len(name) + 1])
  BY DEF ContainerBegin
<1>4. kind \in Kinds /\ cap \in Nat
  BY EditAssumption DEF Kinds
<1>5. Naming(mem, ins[Len(ins)].kind, ins[Len(ins)].pos, name, Named(name))
  BY <1>1, <1>2, NamingIs
<1>6. it = Closed /\ ins \in Inserters /\ mem \in Seq(Nat)
  BY <1>2, InsertersGood
<1>7. PICK P : Places(mem, P) /\ InsertersIn(mem, P, ins)
  BY <1>2, InsertersGood
<1>8. PICK v : v = ins[Len(ins)].pos + Len(name)
  OBVIOUS
<1>9. PICK m1 : m1 = Named(name)
  OBVIOUS
<1>10. PICK m2 : m2 = PutContainer(m1, v, Begin(kind), End(kind), cap)
  OBVIOUS
<1>11. PICK p : p = v + 1
  OBVIOUS
<1>12. PICK s1 : s1 = Append(MovedTo(ins, p), [kind |-> kind, pos |-> p])
  OBVIOUS
<1>13. mem' = m2
  BY <1>2, <1>3, <1>4, <1>8, <1>9, <1>10 DEF Begin, End
<1>14. ins' = s1
  BY <1>2, <1>3, <1>8, <1>11, <1>12 DEF At, MovedTo
<1>15. s1 \in Inserters /\ \E P1 : Places(m2, P1) /\ InsertersIn(m2, P1, s1)
  BY ZenonT(60), <1>1, <1>2, <1>4, <1>5, <1>6, <1>7, <1>8, <1>9, <1>10, <1>11, <1>12, ContainerIn
<1>16. QED
  BY <1>1, <1>6, <1>13, <1>14, <1>15, GoodInserters

LEMMA ColumnGood ==
  ASSUME Careful, Nameable, Good(mem, it, ins), ColumnBegin
  PROVE  Good(mem', it', ins')
<1>1. Editing /\ Top.kind # "column" /\ it' = it /\ NoneLeft(mem, Reader(Top.pos, <<Top.kind>>))
  BY DEF ColumnBegin, Careful
<1>2. ins # <<>> /\ Top = ins[Len(ins)]
  BY <1>1, TopOpen
<1>3. PICK name \in Names, cap \in Capacities :
        /\ mem' = PutColumn(Named(name), Top.pos + Len(name), cap)
        /\ ins' = Append(At(ColumnAt(mem', Top.pos + Len(name)).payload),
                         [kind |-> "column", pos |-> Top.pos + Len(name)])
  BY DEF ColumnBegin
<1>4. cap \in Nat
  BY EditAssumption
<1>5. Naming(mem, ins[Len(ins)].kind, ins[Len(ins)].pos, name, Named(name))
  BY <1>1, <1>2, NamingIs
<1>6. it = Closed /\ ins \in Inserters /\ mem \in Seq(Nat)
  BY <1>2, InsertersGood
<1>7. PICK P : Places(mem, P) /\ InsertersIn(mem, P, ins)
  BY <1>2, InsertersGood
<1>8. PICK v : v = ins[Len(ins)].pos + Len(name)
  OBVIOUS
<1>9. PICK m1 : m1 = Named(name)
  OBVIOUS
<1>10. PICK m2 : m2 = PutColumn(m1, v, cap)
  OBVIOUS
<1>13. mem' = m2
  BY <1>2, <1>3, <1>8, <1>9, <1>10
<1>11. PICK p : p = ColumnAt(m2, v).payload
  OBVIOUS
<1>12. PICK s1 : s1 = Append(MovedTo(ins, p), [kind |-> "column", pos |-> v])
  OBVIOUS
<1>14. ins' = s1
  BY <1>2, <1>3, <1>8, <1>11, <1>12, <1>13 DEF At, MovedTo
<1>15. s1 \in Inserters /\ \E P1 : Places(m2, P1) /\ InsertersIn(m2, P1, s1)
  BY ZenonT(60), <1>1, <1>2, <1>4, <1>5, <1>6, <1>7, <1>8, <1>9, <1>10, <1>11, <1>12, ColumnIn
<1>16. QED
  BY <1>1, <1>6, <1>13, <1>14, <1>15, GoodInserters

LEMMA PushGood ==
  ASSUME Good(mem, it, ins), Push
  PROVE  Good(mem', it', ins')
<1>1. Editing /\ Top.kind = "column" /\ it' = it /\ ins' = ins
  BY DEF Push
<1>2. ins # <<>> /\ Top = ins[Len(ins)]
  BY <1>1, TopOpen
<1>3. PICK v : v = ins[Len(ins)].pos /\ v = Top.pos
  BY SMTT(60), <1>2
<1>4. PICK x, counted, cap, capped, grown, room : x \in Values /\ Pushing(mem, v, x, counted, cap, capped, grown, room, mem')
  BY ZenonT(60), <1>3 DEF Push, Pushing
<1>5. x \in Nat
  BY <1>4, EditAssumption
<1>6. it = Closed /\ ins \in Inserters /\ mem \in Seq(Nat)
  BY <1>2, InsertersGood
<1>7. PICK P : Places(mem, P) /\ InsertersIn(mem, P, ins)
  BY <1>2, InsertersGood
<1>8. \E P1 : Places(mem', P1) /\ InsertersIn(mem', P1, ins)
  BY <1>1, <1>2, <1>3, <1>4, <1>5, <1>6, <1>7, PushIn
<1>9. QED
  BY SMTT(60), <1>1, <1>6, <1>8, GoodInserters

LEMMA EndGood ==
  ASSUME Good(mem, it, ins), ContainerEnd
  PROVE  Good(mem', it', ins')
<1>1. Len(ins) > 1 /\ it' = it
  BY DEF ContainerEnd
<1>2. ins # <<>>
  BY <1>1
<1>3. it = Closed /\ ins \in Inserters /\ mem \in Seq(Nat)
  BY <1>2, InsertersGood
<1>4. PICK P : Places(mem, P) /\ InsertersIn(mem, P, ins)
  BY <1>2, InsertersGood
<1>5. PICK l \in Nat : l = Len(ins) - 1 /\ l > 0 /\ Len(ins) = l + 1
  BY <1>1, <1>3 DEF Inserters
<1>6. PICK p : LeavesAt(mem, ins, p)
  BY DEF LeavesAt
<1>7. PICK s1 : s1 = MovedTo(Outer(ins), p)
  OBVIOUS
<1>8. s1 \in Inserters /\ InsertersIn(mem, P, s1)
  BY <1>1, <1>3, <1>4, <1>6, <1>7, EndIn
<1>9. p \in Nat /\ p < Len(mem)
  BY <1>1, <1>3, <1>4, <1>6, <1>7, EndIn
<1>10. Len(Outer(ins)) = l /\ Outer(ins)[l] = ins[l]
  <2>1. l \in 1 .. Len(ins) - 1
    BY <1>5
  <2>2. QED
    BY <1>1, <1>3, <1>5, <2>1, OuterIs
<1>11. ins[l + 1].kind \in {"array", "object", "column"}
  <2>1. l + 1 \in 1 .. Len(ins)
    BY <1>5
  <2>2. QED
    BY <1>3, <2>1, InserterType DEF Kinds
<1>12. Top.kind = ins[l + 1].kind /\ Top.pos = ins[l + 1].pos
  BY <1>5 DEF Top
<1>13. p = CASE Top.kind = "array"  -> ContainerEndAt(mem, ins[l].pos, "array")
             [] Top.kind = "object" -> ContainerEndAt(mem, ins[l].pos, "object")
             [] Top.kind = "column" -> ColumnAt(mem, Top.pos).payload + ColumnAt(mem, Top.pos).cap
  <2>1. p = IF ins[l + 1].kind = "column" THEN ColumnEnd(mem, ins[l + 1].pos)
            ELSE ContainerEndAt(mem, ins[l].pos, ins[l + 1].kind)
    BY <1>5, <1>6 DEF LeavesAt
  <2>2. CASE ins[l + 1].kind = "array"
    BY <1>12, <2>1, <2>2
  <2>3. CASE ins[l + 1].kind = "object"
    BY <1>12, <2>1, <2>3
  <2>4. CASE ins[l + 1].kind = "column"
    BY <1>12, <2>1, <2>4 DEF ColumnEnd
  <2>5. QED
    BY <1>11, <2>2, <2>3, <2>4
<1>14. /\ ins' = [Outer(ins) EXCEPT ![Len(Outer(ins))].pos = p]
       /\ mem' = IF Top.kind = "column" THEN mem ELSE Skip(mem, p + 1)
  <2>1. PICK outer : outer = Outer(ins) /\ Len(outer) = l /\ outer[l] = ins[l]
    BY <1>10
  <2>2. outer = SubSeq(ins, 1, Len(ins) - 1)
    BY <2>1 DEF Outer
  <2>3. outer[Len(outer)].pos = ins[l].pos
    BY <2>1
  <2>4. CASE Top.kind = "array"
    <3>1. p = ContainerEndAt(mem, outer[Len(outer)].pos, "array")
      BY <1>13, <2>3, <2>4
    <3>2. ins' = [outer EXCEPT ![Len(outer)].pos = p] /\ mem' = Skip(mem, p + 1)
      BY <2>2, <2>4, <3>1 DEF ContainerEnd
    <3>3. QED
      BY <2>1, <2>4, <3>2
  <2>5. CASE Top.kind = "object"
    <3>1. p = ContainerEndAt(mem, outer[Len(outer)].pos, "object")
      BY <1>13, <2>3, <2>5
    <3>2. ins' = [outer EXCEPT ![Len(outer)].pos = p] /\ mem' = Skip(mem, p + 1)
      BY <2>2, <2>5, <3>1 DEF ContainerEnd
    <3>3. QED
      BY <2>1, <2>5, <3>2
  <2>6. CASE Top.kind = "column"
    <3>1. p = ColumnAt(mem, Top.pos).payload + ColumnAt(mem, Top.pos).cap
      BY <1>13, <2>6
    <3>2. ins' = [outer EXCEPT ![Len(outer)].pos = p] /\ mem' = mem
      BY <2>2, <2>6, <3>1 DEF ContainerEnd
    <3>3. QED
      BY <2>1, <2>6, <3>2
  <2>7. QED
    BY <1>11, <1>12, <2>4, <2>5, <2>6
<1>15. ins' = s1
  BY <1>7, <1>14 DEF MovedTo
<1>16. Skip(mem, p + 1) = mem
  BY <1>3, <1>9 DEF Skip
<1>17. mem' = mem
  BY <1>14, <1>16
<1>18. QED
  BY <1>1, <1>3, <1>4, <1>8, <1>15, <1>17, GoodInserters

LEMMA InitGood ==
  ASSUME Init
  PROVE  Good(mem, it, ins)
<1>1. mem = <<63, ARRAY_BEGIN, 0, ARRAY_END>> /\ it = Closed /\ ins = <<>>
  BY DEF Init
<1>2. PICK A, Z : A = Reader(2, <<"array">>) /\ Z = Reader(4, <<>>)
  OBVIOUS
<1>3. A.pos = 2 /\ A.open = <<"array">> /\ Z.pos = 4 /\ Z.open = <<>>
  BY <1>2, ReaderFields
<1>4. A \in Readers /\ Z \in Readers
  <2>1. <<"array">> \in Seq(Kinds) /\ <<>> \in Seq(Kinds)
    BY DEF Kinds
  <2>2. QED
    BY <1>2, <2>1, ReaderType
<1>5. mem \in Seq(Nat) /\ Len(mem) = 4 /\ CellAt(mem, 1) = ARRAY_BEGIN /\ CellAt(mem, 2) = 0 /\ CellAt(mem, 3) = ARRAY_END
  <2>1. ARRAY_BEGIN \in Nat /\ ARRAY_END \in Nat
    BY MarkersAreUsed
  <2>2. mem \in Seq(Nat) /\ Len(mem) = 4 /\ mem[2] = ARRAY_BEGIN /\ mem[3] = 0 /\ mem[4] = ARRAY_END
    BY <1>1, <2>1
  <2>3. QED
    BY <2>2 DEF CellAt
<1>6. Kind(A) = "array" /\ A.open # <<>> /\ Len(A.open) = 1
  BY <1>3 DEF Kind
<1>7. Free(mem, A.pos, 3)
  <2>1. ARRAY_END # 0
    BY MarkersAreUsed
  <2>2. \A x \in 2 .. 3 - 1 : x = 2
    OBVIOUS
  <2>3. QED
    BY <1>3, <1>5, <2>1, <2>2 DEF Free
<1>8. CellAt(mem, 3) = EndMarker(A)
  BY <1>5, <1>6 DEF EndMarker
<1>9. Sound(mem, A)
  BY <1>6, <1>7, <1>8 DEF Sound, Ending
<1>10. Step(mem, A) = Z
  <2>1. Step(mem, A) = OutOf(A, 4)
    <3>1. Step(mem, A) = OutOf(A, 3 + 1)
      BY <1>4, <1>5, <1>6, <1>7, <1>8, EndingStep
    <3>2. 3 + 1 = 4
      OBVIOUS
    <3>3. QED
      BY <3>1, <3>2, Zenon
  <2>2. SubSeq(<<"array">>, 1, 0) = <<>>
    OBVIOUS
  <2>3. OutOf(A, 4) = Reader(4, <<>>)
    <3>1. OutOf(A, 4) = Reader(4, SubSeq(A.open, 1, Len(A.open) - 1))
      BY DEF OutOf
    <3>2. Len(A.open) - 1 = 0
      BY <1>6
    <3>3. QED
      BY <1>3, <2>2, <3>1, <3>2, Zenon
  <2>4. QED
    BY <1>2, <2>1, <2>3
<1>11. PICK P : P = {A, Z}
  OBVIOUS
<1>12. Places(mem, P)
  <2>1. P \subseteq Readers /\ Reader(2, <<"array">>) \in P
    BY <1>2, <1>4, <1>11
  <2>2. \A r \in P : r.pos >= 2
    BY <1>3, <1>11
  <2>3. \A r \in P : r.open = <<>> => r.pos = Len(mem)
    BY <1>3, <1>5, <1>6, <1>11
  <2>4. \A r \in P : r.open # <<>> => Sound(mem, r) /\ Step(mem, r) \in P
    BY <1>3, <1>9, <1>10, <1>11
  <2>5. \A r, s \in P : r.pos < s.pos => Step(mem, r).pos <= s.pos
    BY <1>3, <1>10, <1>11
  <2>6. \A r, s \in P : r.pos = s.pos => r = s
    BY <1>3, <1>11
  <2>7. QED
    BY <1>5, <2>1, <2>2, <2>3, <2>4, <2>5, <2>6 DEF Places
<1>13. QED
  BY <1>1, <1>12, GoodIdle

LEMMA EditGood ==
  ASSUME Careful, Nameable, Good(mem, it, ins), Edit
  PROVE  Good(mem', it', ins')
  BY OpenGood, NextGood, EnterGood, CloseGood, RemoveGood, NumberGood, ConstantGood, ElementGood, PackGood,
     BeginGood, FieldGood, ContainerGood, ColumnGood, PushGood, EndGood, InsertEndGood DEF Edit

RecordInv == Good(mem, it, ins) /\ tokens = ArrayTokens(mem, 2)

LEMMA RecordIsGood ==
  ASSUME Careful, Nameable
  PROVE  Spec => []RecordInv
<1>1. Init => RecordInv
  <2>1. Init => tokens = ArrayTokens(mem, 2)
    BY DEF Init
  <2>2. QED
    BY <2>1, InitGood DEF RecordInv
<1>2. RecordInv /\ [Next]_vars => RecordInv'
  <2>1. SUFFICES ASSUME RecordInv, [Next]_vars PROVE RecordInv'
    OBVIOUS
  <2>2. CASE Next
    <3>1. Edit /\ tokens' = ArrayTokens(mem', 2)
      BY <2>2 DEF Next
    <3>2. Good(mem, it, ins)
      BY <2>1 DEF RecordInv
    <3>3. Good(mem', it', ins')
      BY <3>1, <3>2, EditGood
    <3>4. QED
      BY <3>1, <3>3 DEF RecordInv
  <2>3. CASE UNCHANGED vars
    <3>1. mem' = mem /\ it' = it /\ ins' = ins /\ tokens' = tokens
      BY <2>3 DEF vars
    <3>2. QED
      BY <2>1, <3>1 DEF RecordInv
  <2>4. QED
    BY <2>1, <2>2, <2>3
<1>3. QED
  BY <1>1, <1>2, PTL DEF Spec

(* Whatever is inserted, overwritten, removed and packed, with any number   *)
(* of containers open in each other, the end of the array that a reader of *)
(* the record comes to is the last cell of its memory.                     *)
THEOREM ReadsUpToTheEnd ==
  ASSUME Careful, Nameable
  PROVE  Spec => []EndsWithMemory
<1>1. RecordInv => EndsWithMemory
  <2>1. SUFFICES ASSUME RecordInv PROVE EndsWithMemory
    OBVIOUS
  <2>2. PICK P : Places(mem, P)
    BY <2>1 DEF RecordInv, Good
  <2>3. mem \in Seq(Nat)
    BY <2>2 DEF Places
  <2>4. LastAt(mem, tokens)
    BY <2>1, <2>2, <2>3, LastToken DEF RecordInv
  <2>5. QED
    BY <2>4 DEF LastAt, EndsWithMemory
<1>2. QED
  BY <1>1, RecordIsGood, PTL

(* The iterator (arr_it) stands on the marker of the element it has        *)
(* visited, whatever was inserted, removed and overwritten through it.     *)
THEOREM ElementStaysMarked ==
  ASSUME Careful, Nameable
  PROVE  Spec => []MarkerAtLastOff
<1>1. RecordInv => MarkerAtLastOff
  BY OnElementIs DEF RecordInv, MarkerAtLastOff
<1>2. QED
  BY <1>1, RecordIsGood, PTL

LEMMA PackedTight ==
  ASSUME Good(mem, it, ins), Pack, tokens' = ArrayTokens(mem', 2)
  PROVE  Tight'
<1>1. mem' = PackArray(mem, 1)
  BY DEF Pack
<1>2. PICK P : Places(mem, P)
  BY DEF Good
<1>3. mem \in Seq(Nat)
  BY <1>2 DEF Places
<1>4. PICK P1 : Places(PackArray(mem, 1), P1) /\ \A r \in P1 : r.open # <<>> => Snug(PackArray(mem, 1), r)
  BY <1>2, <1>3, RecordPacked
<1>5. PICK m : m = mem'
  OBVIOUS
<1>6. m \in Seq(Nat) /\ Places(m, P1) /\ \A r \in P1 : r.open # <<>> => Snug(m, r)
  BY <1>1, <1>4, <1>5 DEF Places
<1>7. Consecutive(mem', tokens')
  BY <1>5, <1>6, TokensRun
<1>8. Len(tokens') \in Nat
  <2>1. ArrayTokens(m, 2) \in Seq(Tok)
    BY <1>6, TokensRun
  <2>2. QED
    BY <1>5, <2>1
<1>9. ASSUME NEW i \in 1 .. Len(tokens') - 1 PROVE Follows(i)'
  <2>1. i \in Nat /\ 1 <= i /\ i < Len(tokens')
    BY <1>8
  <2>2. Succeeds(mem', tokens'[i], tokens'[i + 1])
    BY <1>7, <2>1 DEF Consecutive
  <2>3. QED
    BY <2>2 DEF Succeeds, Follows
<1>10. QED
  BY <1>9 DEF Tight

(* revise_pack leaves no reserved cell in a record, at whatever depth the  *)
(* containers nest, whatever has been inserted and removed before.         *)
THEOREM PackingReservesNothing ==
  ASSUME Careful, Nameable
  PROVE  Spec => NothingReserved
<1>1. RecordInv /\ [Next]_vars => [Pack => Tight']_vars
  <2>1. SUFFICES ASSUME RecordInv, Next, Pack PROVE Tight'
    OBVIOUS
  <2>2. Good(mem, it, ins) /\ tokens' = ArrayTokens(mem', 2)
    BY <2>1 DEF RecordInv, Next
  <2>3. QED
    BY <2>1, <2>2, PackedTight
<1>2. QED
  BY <1>1, RecordIsGood, PTL DEF Spec, NothingReserved
=============================================================================
