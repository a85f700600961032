--------------------------- MODULE HashTableProofs ---------------------------
(***************************************************************************)
(* The hash table finds what was put in it, and from ten buckets on a      *)
(* bucket for every pair, for any keys, values, hashes and capacities.     *)
(***************************************************************************)
EXTENDS HashTable, FiniteSetTheorems, WellFoundedInduction, TLAPS

(* The parts of the invariant.  The buckets in use are no more than the    *)
(* pairs that were entered since the table was empty, and a table in which *)
(* a pair is still to be placed is not loaded.                             *)
Room ==
    /\ Cardinality(Used) <= size
    /\ pc \in {"idle", "refill", "place"} => 10 * Cardinality(Used) < 9 * Cap
    /\ pc \in {"idle", "refill"} => 10 * size < 9 * Cap
    /\ FindsABucket

LEMMA FirstIsIn ==
  ASSUME NEW T, T \subseteq Nat, T # {}
  PROVE  First(T) \in T
<1> DEFINE R == OpToRel(<, Nat)
<1>1. \A x, y \in Nat : <<x, y>> \in R <=> x < y
  BY DEF OpToRel
<1>2. IsWellFoundedOn(R, Nat)
  BY NatLessThanWellFounded
<1> HIDE DEF R
<1>3. PICK x \in T : \A y \in T : ~(<<y, x>> \in R)
  BY <1>2, WFMin
<1>4. ASSUME NEW y \in T PROVE x <= y
  <2>1. x \in Nat /\ y \in Nat
    OBVIOUS
  <2>2. ~(y < x)
    BY <1>1, <1>3, <2>1
  <2>3. QED
    BY <2>1, <2>2
<1>5. QED
  BY <1>3, <1>4 DEF First

LEMMA HomeIsABucket ==
  ASSUME TypeOK, NEW k \in Keys
  PROVE  Home(k) \in 1 .. Cap
<1>1. Cap \in Nat /\ Cap > 0
  BY DEF TypeOK, Table, Cap
<1>2. Hash[k] \in Nat
  BY TableAssumption
<1>3. Hash[k] % Cap \in 0 .. Cap - 1
  BY <1>1, <1>2
<1>4. QED
  BY <1>1, <1>3 DEF Home

LEMMA StopIsABucket ==
  ASSUME TypeOK, Stops \cup Wraps # {}
  PROVE  Stop \in 1 .. Cap /\ Stop \in Stops \cup Wraps
<1>1. Cap \in Nat /\ intended \in 1 .. Cap
  BY DEF TypeOK, Table, Cap
<1>2. Stops \subseteq 1 .. Cap
  BY <1>1 DEF Stops
<1>3. Wraps \subseteq 1 .. Cap
  BY <1>1 DEF Wraps
<1>4. Stops # {} => First(Stops) \in Stops
  <2>1. Stops \subseteq Nat
    BY <1>1, <1>2
  <2>2. QED
    BY <2>1, FirstIsIn
<1>5. Wraps # {} => First(Wraps) \in Wraps
  <2>1. Wraps \subseteq Nat
    BY <1>1, <1>3
  <2>2. QED
    BY <2>1, FirstIsIn
<1>6. QED
  BY <1>2, <1>3, <1>4, <1>5 DEF Stop

LEMMA UsedIsFinite ==
  ASSUME TypeOK
  PROVE  IsFiniteSet(Used) /\ Cardinality(Used) \in Nat /\ Cap \in Nat \ {0}
<1>1. Cap \in Nat \ {0}
  BY DEF TypeOK, Table, Cap
<1>2. IsFiniteSet(1 .. Cap)
  BY <1>1, FS_Interval
<1>3. IsFiniteSet(Used)
  BY <1>2, FS_Subset DEF Used
<1>4. QED
  BY <1>1, <1>3, FS_CardinalityType

(* A bucket is entered: the table keeps its length, and at most this bucket *)
(* is in use in addition.                                                  *)
LEMMA EnteredTable ==
  ASSUME TypeOK, pc = "place", hand # None, NEW p \in 1 .. Cap, NEW d \in Int,
         table' = Entered(p, d)
  PROVE  /\ Cap' = Cap /\ table' \in Table \ {<<>>}
         /\ table'[p] = [key |-> hand.key, value |-> hand.value, displacement |-> d]
         /\ table'[p] \in Bucket
         /\ \A q \in 1 .. Cap : q # p => table'[q] = table[q]
         /\ Used' = Used \cup {p}
<1> DEFINE b == [key |-> hand.key, value |-> hand.value, displacement |-> d]
<1>1. b \in Bucket /\ b # None
  BY TableAssumption DEF TypeOK, Pair, Bucket
<1> HIDE DEF b
<1>2. table' = [table EXCEPT ![p] = b]
  BY DEF Entered, b
<1>3. table \in Seq(Bucket \cup {None}) /\ table # <<>> /\ Cap = Len(table)
  BY DEF TypeOK, Table, Cap
<1>4. table' \in Seq(Bucket \cup {None}) /\ Len(table') = Len(table)
  BY <1>1, <1>2, <1>3
<1>5. table' # <<>>
  BY <1>3, <1>4
<1>6. table'[p] = b /\ \A q \in 1 .. Cap : q # p => table'[q] = table[q]
  BY <1>2, <1>3
<1>7. Used' = Used \cup {p}
  BY <1>1, <1>3, <1>4, <1>6 DEF Used, Cap
<1>8. QED
  BY <1>1, <1>3, <1>4, <1>5, <1>6, <1>7 DEF Table, Cap, b

Fill == /\ pc = "place" => hand # None
        /\ pc \in {"idle", "refill", "rehash"} => hand = None
        /\ pc = "idle" => copies = <<>>

TInv == TypeOK /\ Room /\ Fill

LEMMA TInit == Init => TInv
<1> SUFFICES ASSUME Init PROVE TInv
  OBVIOUS
<1>1. PICK c \in Capacities : table = Fresh(c)
  BY DEF Init
<1>2. c \in Nat \ {0}
  BY TableAssumption
<1>3. table \in Seq(Bucket \cup {None}) /\ Len(table) = c /\ table # <<>>
  BY <1>1, <1>2 DEF Fresh
<1>4. Used = {}
  BY <1>1, <1>3 DEF Used, Cap, Fresh
<1>5. Cardinality(Used) = 0
  BY <1>4, FS_EmptySet
<1>6. TypeOK
  BY <1>2, <1>3 DEF Init, TypeOK, Table, Cap
<1>7. Room /\ Fill
  BY <1>2, <1>3, <1>5 DEF Init, Room, Fill, Cap, FindsABucket
<1>8. QED
  BY <1>6, <1>7 DEF TInv

(* The pair in hand is placed.                                             *)
LEMMA TPlace == TInv /\ Place => TInv'
<1> SUFFICES ASSUME TInv, Place PROVE TInv'
  OBVIOUS
<1> DEFINE p == Stop
<1>1. p \in 1 .. Cap /\ pc = "place" /\ hand # None
  BY StopIsABucket DEF Place, TInv, Fill
<1>2. IsFiniteSet(Used) /\ Cardinality(Used) \in Nat /\ Cap \in Nat \ {0} /\ size \in Nat
  BY UsedIsFinite DEF TInv, TypeOK
<1>3. Cardinality(Used) <= size /\ 10 * Cardinality(Used) < 9 * Cap
  BY <1>1 DEF TInv, Room
<1>4. hand \in Pair /\ intended \in 1 .. Cap
  BY <1>1 DEF TInv, TypeOK
<1> HIDE DEF p
<1>5. CASE Update(p)
  <2> DEFINE b == [table[p] EXCEPT !.value = hand.value]
  <2>1. table[p] \in Bucket /\ table \in Seq(Bucket \cup {None}) /\ Cap = Len(table)
    BY <1>1, <1>5 DEF Update, TInv, TypeOK, Table, Cap
  <2>2. b \in Bucket /\ b # None
    BY <1>4, <2>1, TableAssumption DEF Pair, Bucket
  <2> HIDE DEF b
  <2>3. table' = [table EXCEPT ![p] = b]
    BY <1>1, <1>5, <2>1 DEF Update, b
  <2>4. table' \in Seq(Bucket \cup {None}) /\ Len(table') = Len(table) /\ table' # <<>>
    BY <1>1, <2>1, <2>2, <2>3
  <2>5. Used' = Used
    BY <1>1, <1>5, <2>1, <2>2, <2>3, <2>4 DEF Used, Cap, Update
  <2>6. UNCHANGED <<size, copies>> /\ Cap' = Cap /\ hand' = None /\ intended' = 1
    BY <1>5, <2>1, <2>4 DEF Update, Cap
  <2>7. pc' = IF Loaded(size) THEN "rehash" ELSE "refill"
    BY <1>5 DEF Update
  <2>8. TypeOK'
    BY <1>2, <2>1, <2>4, <2>6, <2>7 DEF TInv, TypeOK, Table
  <2>9. Room'
    BY <1>2, <1>3, <2>5, <2>6, <2>7 DEF Room, Loaded, FindsABucket
  <2>10. Fill'
    BY <2>6, <2>7 DEF Fill
  <2>11. QED
    BY <2>8, <2>9, <2>10 DEF TInv
<1>6. CASE Store(p)
  <2>1. table' = Entered(p, intended - p) /\ intended - p \in Int
    BY <1>1, <1>4, <1>6 DEF Store
  <2>2. Cap' = Cap /\ table' \in Table \ {<<>>} /\ Used' = Used \cup {p}
    BY <1>1, <2>1, EnteredTable DEF TInv
  <2>3. p \notin Used
    BY <1>6 DEF Store, Used
  <2>4. Cardinality(Used') = Cardinality(Used) + 1
    BY <1>2, <2>2, <2>3, FS_AddElement
  <2>5. /\ UNCHANGED copies /\ size' = size + 1 /\ size < Cap /\ hand' = None /\ intended' = 1
        /\ pc' = IF Loaded(size + 1) THEN "rehash" ELSE "refill"
    BY <1>6 DEF Store
  <2>6. TypeOK'
    BY <1>2, <2>2, <2>5 DEF TInv, TypeOK
  <2>7. Room'
    BY <1>2, <1>3, <2>2, <2>4, <2>5 DEF Room, Loaded, FindsABucket
  <2>8. Fill'
    BY <2>5 DEF Fill
  <2>9. QED
    BY <2>6, <2>7, <2>8 DEF TInv
<1>7. CASE Swap(p)
  <2>1. table' = Entered(p, p - intended) /\ p - intended \in Int
    BY <1>1, <1>4, <1>7 DEF Swap
  <2>2. Cap' = Cap /\ table' \in Table \ {<<>>} /\ Used' = Used \cup {p}
    BY <1>1, <2>1, EnteredTable DEF TInv
  <2>3. table[p] \in Bucket
    BY <1>1, <1>7 DEF Swap, Fits, TInv, TypeOK, Table, Cap
  <2>4. Used' = Used
    BY <1>1, <2>2, <2>3, TableAssumption DEF Used
  <2>5. /\ UNCHANGED <<copies, pc>> /\ size' = size + 1 /\ size < Cap /\ intended' = p
        /\ hand' = [key |-> table[p].key, value |-> table[p].value]
    BY <1>7 DEF Swap
  <2>6. hand' \in Pair /\ hand' # None
    BY <2>3, <2>5, TableAssumption DEF Pair, Bucket
  <2>7. TypeOK'
    BY <1>1, <1>2, <2>2, <2>5, <2>6 DEF TInv, TypeOK
  <2>8. Room'
    <3>1. Cardinality(Used)' = Cardinality(Used) /\ pc' = "place"
      BY <1>1, <2>4, <2>5
    <3>2. QED
      BY <1>2, <1>3, <2>2, <2>5, <3>1 DEF Room, FindsABucket
  <2>9. Fill'
    BY <1>1, <2>5, <2>6 DEF Fill
  <2>10. QED
    BY <2>7, <2>8, <2>9 DEF TInv
<1>8. CASE Outgrow(p)
  <2>1. pc' = "outgrown" /\ UNCHANGED <<table, size, hand, intended, copies>>
    BY <1>8 DEF Outgrow
  <2>2. Used' = Used /\ Cap' = Cap
    BY <2>1 DEF Used, Cap
  <2>3. QED
    BY <1>2, <1>3, <2>1, <2>2 DEF TInv, TypeOK, Room, Fill, FindsABucket
<1>9. QED
  BY <1>5, <1>6, <1>7, <1>8 DEF Place, p

(* No bucket fits: all are in use but one.                                 *)
LEMMA TNoFit == TInv /\ NoFit => TInv'
<1> SUFFICES ASSUME TInv, NoFit PROVE TInv'
  OBVIOUS
<1>1. pc = "place" /\ pc' = "nofit" /\ UNCHANGED <<table, size, hand, intended, copies>>
  BY DEF NoFit
<1>2. IsFiniteSet(Used) /\ Cardinality(Used) \in Nat /\ Cap \in Nat \ {0} /\ size \in Nat
  BY UsedIsFinite DEF TInv, TypeOK
<1>3. Cardinality(Used) <= size /\ 10 * Cardinality(Used) < 9 * Cap
  BY <1>1 DEF TInv, Room
<1>4. (1 .. Cap) \ {intended - 1} \subseteq Used
  <2>1. intended \in 1 .. Cap /\ Stops = {} /\ Wraps = {}
    BY DEF TInv, TypeOK, NoFit
  <2>2. ~ Fits(intended)
    BY <2>1 DEF Stops
  <2>3. \A q \in intended + 1 .. Cap : ~ Fits(q)
    BY <2>1, <2>2 DEF Stops
  <2>4. \A q \in 1 .. intended - 2 : ~ Fits(q)
    BY <2>1 DEF Wraps
  <2>5. ASSUME NEW q \in 1 .. Cap, q # intended - 1 PROVE ~ Fits(q)
    <3>1. q = intended \/ q \in intended + 1 .. Cap \/ q \in 1 .. intended - 2
      BY <1>2, <2>1, <2>5
    <3>2. QED
      BY <2>2, <2>3, <2>4, <3>1
  <2>6. QED
    BY <2>5 DEF Used, Fits
<1>5. Cap - 1 <= Cardinality(Used)
  <2>1. IsFiniteSet(1 .. Cap) /\ Cardinality(1 .. Cap) = Cap
    BY <1>2, FS_Interval
  <2> DEFINE more == Used \cup {intended - 1}
  <2>2. 1 .. Cap \in SUBSET more
    BY <1>4
  <2>3. IsFiniteSet(more) /\ Cardinality(more) <= Cardinality(Used) + 1
    BY <1>2, FS_AddElement
  <2> HIDE DEF more
  <2>4. Cap <= Cardinality(more)
    <3>1. Cardinality(1 .. Cap) <= Cardinality(more)
      BY <2>2, <2>3, FS_Subset
    <3>2. QED
      BY <2>1, <3>1
  <2>5. Cardinality(more) \in Nat
    BY <2>3, FS_CardinalityType
  <2>6. QED
    BY <1>2, <2>3, <2>4, <2>5
<1>6. Cap < 10
  BY <1>2, <1>3, <1>5
<1>7. Used' = Used /\ Cap' = Cap
  BY <1>1 DEF Used, Cap
<1>8. QED
  BY <1>1, <1>2, <1>3, <1>6, <1>7 DEF TInv, TypeOK, Room, Fill, FindsABucket

LEMMA TRehash == TInv /\ Rehash => TInv'
<1> SUFFICES ASSUME TInv, Rehash PROVE TInv'
  OBVIOUS
<1> DEFINE n == ((Cap + 1) * 17) \div 10
<1>1. Cap \in Nat \ {0} /\ intended \in 1 .. Cap /\ table \in Table /\ hand = None
  BY DEF TInv, TypeOK, Table, Cap, Fill, Rehash
<1>2. n \in Nat /\ n > Cap
  BY <1>1
<1>3. table' = Fresh(n) /\ size' = 0 /\ pc' = "refill" /\ UNCHANGED <<hand, intended>>
  BY DEF Rehash
<1> HIDE DEF n
<1>4. table' \in Seq(Bucket \cup {None}) /\ Len(table') = n /\ table' # <<>>
  BY <1>1, <1>2, <1>3 DEF Fresh
<1>5. Used' = {}
  BY <1>2, <1>3, <1>4 DEF Used, Cap, Fresh
<1>6. Cardinality(Used)' = 0
  BY <1>5, FS_EmptySet
<1>7. copies' \in Seq([buckets : Table, from : Nat \ {0}])
  BY <1>1 DEF TInv, TypeOK, Rehash
<1>8. TypeOK'
  BY <1>1, <1>2, <1>3, <1>4, <1>7 DEF TInv, TypeOK, Table, Cap
<1>9. Room' /\ Fill'
  BY <1>1, <1>2, <1>3, <1>4, <1>6 DEF Room, Fill, FindsABucket, Cap
<1>10. QED
  BY <1>8, <1>9 DEF TInv

LEMMA TRefill == TInv /\ Refill => TInv'
<1> SUFFICES ASSUME TInv, Refill PROVE TInv'
  OBVIOUS
<1> DEFINE i == Innermost
           bucket == copies[i].buckets[copies[i].from]
           CopyType == [buckets : Table, from : Nat \ {0}]
<1>1. /\ pc = "refill" /\ hand = None /\ i \in 1 .. Len(copies) /\ copies \in Seq(CopyType)
      /\ copies[i].from \in DOMAIN copies[i].buckets
  BY DEF TInv, TypeOK, Fill, Refill, Innermost
<1>2. copies[i] \in CopyType /\ bucket \in Bucket \cup {None}
  <2>1. copies[i] \in CopyType
    <3> HIDE DEF i, CopyType
    <3>1. QED
      BY <1>1
  <2>2. copies[i].buckets \in Seq(Bucket \cup {None})
    BY <2>1 DEF Table
  <2> HIDE DEF i
  <2>3. QED
    BY <1>1, <2>1, <2>2
<1> DEFINE further == [copies[i] EXCEPT !.from = @ + 1]
<1>3. further \in CopyType
  BY <1>2
<1>4. copies' = [copies EXCEPT ![i] = further]
  BY DEF Refill
<1>5. copies' \in Seq(CopyType)
  <2> HIDE DEF further, CopyType, i
  <2>1. QED
    BY <1>1, <1>3, <1>4
<1>6. UNCHANGED <<table, size>> /\ Used' = Used /\ Cap' = Cap /\ Cap \in Nat \ {0}
  BY UsedIsFinite DEF Refill, Used, Cap, TInv
<1>7. CASE bucket = None
  <2>1. UNCHANGED <<hand, intended, pc>>
    BY <1>7 DEF Refill
  <2>2. QED
    BY <1>1, <1>5, <1>6, <2>1 DEF TInv, TypeOK, Room, Fill, FindsABucket
<1>8. CASE bucket # None
  <2>1. /\ hand' = [key |-> bucket.key, value |-> bucket.value]
        /\ intended' = Home(bucket.key) /\ pc' = "place"
    BY <1>8 DEF Refill
  <2>2. bucket \in Bucket
    BY <1>2, <1>8
  <2> HIDE DEF bucket
  <2>3. hand' \in Pair /\ hand' # None /\ bucket.key \in Keys
    BY <2>1, <2>2, TableAssumption DEF Pair, Bucket
  <2>4. intended' \in 1 .. Cap
    BY <2>1, <2>3, HomeIsABucket DEF TInv
  <2>5. TypeOK'
    BY <1>5, <1>6, <2>1, <2>3, <2>4 DEF TInv, TypeOK
  <2>6. Room' /\ Fill'
    BY <1>1, <1>6, <2>1, <2>3 DEF TInv, Room, Fill, FindsABucket
  <2>7. QED
    BY <2>5, <2>6 DEF TInv
<1>9. QED
  BY <1>7, <1>8

LEMMA TInsert ==
  ASSUME TInv, NEW k \in Keys, NEW v \in Values, Insert(k, v)
  PROVE  TInv'
<1>1. /\ pc = "idle" /\ pc' = "place" /\ UNCHANGED <<table, size, copies>>
      /\ hand' = [key |-> k, value |-> v] /\ intended' = Home(k)
  BY DEF Insert
<1>2. hand' \in Pair /\ hand' # None
  BY <1>1, TableAssumption DEF Pair
<1>3. intended' \in 1 .. Cap /\ Cap' = Cap /\ Used' = Used
  BY <1>1, HomeIsABucket DEF TInv, Used, Cap
<1>4. QED
  BY <1>1, <1>2, <1>3 DEF TInv, TypeOK, Room, Fill, FindsABucket

LEMMA FoundHolds ==
  ASSUME TypeOK, NEW k, Holding(k) # {}
  PROVE  Found(k) \in Holding(k)
<1> DEFINE later == {p \in Holding(k) : p >= Home(k)}
<1>1. Cap \in Nat
  BY UsedIsFinite
<1>2. Holding(k) \subseteq Nat /\ later \subseteq Nat /\ later \subseteq Holding(k)
  BY <1>1 DEF Holding, Used
<1>3. First(Holding(k)) \in Holding(k)
  BY <1>2, FirstIsIn
<1>4. Found(k) = IF later # {} THEN First(later) ELSE First(Holding(k))
  BY DEF Found
<1> HIDE DEF later
<1>5. later # {} => First(later) \in later
  BY <1>2, FirstIsIn
<1>6. QED
  BY <1>2, <1>3, <1>4, <1>5

LEMMA TRemove ==
  ASSUME TInv, NEW k \in Keys, Remove(k)
  PROVE  TInv'
<1>1. pc = "idle" /\ UNCHANGED <<size, hand, intended, copies, pc>>
  BY DEF Remove
<1>2. Found(k) \in Holding(k)
  BY FoundHolds DEF TInv, Remove
<1> DEFINE p == Found(k)
<1>3. p \in Used /\ p \in 1 .. Cap /\ table' = [table EXCEPT ![p] = None]
  BY <1>2 DEF Holding, Used, Remove
<1> HIDE DEF p
<1>4. table \in Seq(Bucket \cup {None}) /\ table # <<>>
  BY DEF TInv, TypeOK, Table
<1>5. table' \in Seq(Bucket \cup {None}) /\ Len(table') = Len(table) /\ table' # <<>>
  BY <1>3, <1>4 DEF Cap
<1>6. Used' = Used \ {p} /\ Cap' = Cap
  BY <1>3, <1>4, <1>5 DEF Used, Cap
<1>7. /\ IsFiniteSet(Used) /\ Cardinality(Used) \in Nat /\ Cap \in Nat \ {0}
      /\ Cardinality(Used)' = Cardinality(Used) - 1
  BY <1>3, <1>6, UsedIsFinite, FS_RemoveElement DEF TInv
<1>8. TypeOK'
  BY <1>1, <1>5, <1>6 DEF TInv, TypeOK, Table
<1>9. size \in Nat
  BY <1>7 DEF TInv, TypeOK
<1>10. Room' /\ Fill'
  BY <1>1, <1>6, <1>7, <1>9 DEF TInv, Room, Fill, FindsABucket
<1>11. QED
  BY <1>8, <1>10 DEF TInv

LEMMA TStep == TInv /\ [Next]_vars => TInv'
<1> SUFFICES ASSUME TInv, [Next]_vars PROVE TInv'
  OBVIOUS
<1>1. CASE Refilled
  <2> DEFINE CopyType == [buckets : Table, from : Nat \ {0}]
  <2>1. copies' \in Seq(CopyType)
    <3>1. /\ copies \in Seq(CopyType) /\ copies # <<>>
          /\ copies' = SubSeq(copies, 1, Len(copies) - 1)
      BY <1>1 DEF TInv, TypeOK, Refilled, Innermost
    <3> HIDE DEF CopyType
    <3>2. QED
      BY <3>1
  <2>2. QED
    BY <1>1, <2>1 DEF Refilled, TInv, TypeOK, Room, Fill, FindsABucket, Used, Cap
<1>2. CASE Return
  BY <1>2 DEF Return, TInv, TypeOK, Room, Fill, FindsABucket, Used, Cap
<1>3. CASE UNCHANGED vars
  BY <1>3 DEF vars, TInv, TypeOK, Room, Fill, FindsABucket, Used, Cap
<1>4. QED
  BY <1>1, <1>2, <1>3, TPlace, TNoFit, TRehash, TRefill, TInsert, TRemove DEF Next, Work

LEMMA TInvHolds == Spec => []TInv
  BY TInit, TStep, PTL DEF Spec

(* The types of the model.                                                 *)
THEOREM TypesHold == Spec => []TypeOK
<1>1. TInv => TypeOK
  BY DEF TInv
<1>2. QED
  BY <1>1, TInvHolds, PTL

(* From ten buckets on the search for a bucket finds one, although it      *)
(* leaves one out (table.c:202): the table is never loaded while a pair is *)
(* to be placed, and so two buckets at least are free.                     *)
THEOREM BucketsAreFound == Spec => []FindsABucket
<1>1. TInv => FindsABucket
  BY DEF TInv, Room
<1>2. QED
  BY <1>1, TInvHolds, PTL

----------------------------------------------------------------------------
(* A key is in one place: in a bucket, in hand or in a copy.  Only the     *)
(* bucket where the search begins may hold the key in hand.                *)
OneBucket == \A p, q \in Used : table[p].key = table[q].key => p = q
OwnBucket == \A p \in Used : InHand(table[p].key) => p = intended
OneCopy ==
    \A i, j \in DOMAIN copies : \A p \in Rest(i), q \in Rest(j) :
        copies[i].buckets[p].key = copies[j].buckets[q].key => i = j /\ p = q
CopyApart ==
    \A i \in DOMAIN copies : \A p \in Rest(i) :
        /\ \A q \in Used : table[q].key # copies[i].buckets[p].key
        /\ ~ InHand(copies[i].buckets[p].key)

Unique == OneBucket /\ OwnBucket /\ OneCopy /\ CopyApart

(* The pairs that the table stands for.                                    *)
InBucket(k, v) == \E p \in Used : table[p].key = k /\ table[p].value = v
Has(k, v) ==
    \/ InHand(k) /\ hand.value = v
    \/ ~ InHand(k) /\ InBucket(k, v)
    \/ Waits(k, v)

LEMMA BucketTypes ==
  ASSUME TypeOK
  PROVE  /\ \A p \in Used : table[p] \in Bucket /\ table[p].key \in Keys /\ table[p].value \in Values
         /\ hand # None => hand.key \in Keys /\ hand.value \in Values
<1>1. table \in Seq(Bucket \cup {None}) /\ Cap = Len(table) /\ hand \in Pair \cup {None}
  BY DEF TypeOK, Table, Cap
<1>2. \A p \in Used : table[p] \in Bucket
  BY <1>1 DEF Used
<1>3. QED
  BY <1>1, <1>2 DEF Bucket, Pair

(* What is held is what is had, once.                                      *)
HeldOnce ==
    /\ \A k \in Keys : k \in Held <=> \E v \in Values : Has(k, v)
    /\ \A k \in Keys, v \in Values : Has(k, v) => Value(k) = v

LEMMA HeldIsHad == TypeOK /\ Unique => HeldOnce
<1> SUFFICES ASSUME TypeOK, Unique, NEW k \in Keys
             PROVE  /\ k \in Held <=> \E v \in Values : Has(k, v)
                    /\ \A v \in Values : Has(k, v) => Value(k) = v
  BY DEF HeldOnce
<1>1. ASSUME NEW p \in Holding(k) PROVE InBucket(k, table[p].value) /\ table[p].value \in Values
  BY BucketTypes DEF Holding, InBucket
<1>2. ASSUME NEW v, InBucket(k, v) PROVE Holding(k) # {} /\ Get(k) = v
  <2>1. PICK p \in Used : table[p].key = k /\ table[p].value = v
    BY <1>2 DEF InBucket
  <2>2. p \in Holding(k)
    BY <2>1 DEF Holding
  <2>3. Found(k) \in Used /\ table[Found(k)].key = k
    BY <2>2, FoundHolds DEF Holding
  <2>4. Found(k) = p
    BY <2>1, <2>3 DEF Unique, OneBucket
  <2>5. QED
    BY <2>1, <2>2, <2>4 DEF Get
<1>3. ASSUME NEW v \in Values, NEW w \in Values, Waits(k, v), Waits(k, w) PROVE v = w
  <2>1. PICK i \in DOMAIN copies : \E p \in Rest(i) :
          copies[i].buckets[p].key = k /\ copies[i].buckets[p].value = v
    BY <1>3 DEF Waits
  <2>2. PICK j \in DOMAIN copies : \E q \in Rest(j) :
          copies[j].buckets[q].key = k /\ copies[j].buckets[q].value = w
    BY <1>3 DEF Waits
  <2>3. QED
    BY <2>1, <2>2 DEF Unique, OneCopy
<1>4. ASSUME NEW v, Waits(k, v) PROVE ~ InHand(k) /\ Holding(k) = {}
  BY <1>4 DEF Waits, Unique, CopyApart, Holding
<1>5. InHand(k) => hand.value \in Values
  BY BucketTypes DEF InHand
<1>6. ASSUME NEW v \in Values, Waits(k, v) PROVE Value(k) = v
  <2>1. Value(k) = CHOOSE w \in Values : Waits(k, w)
    BY <1>4, <1>6 DEF Value
  <2>2. \A w \in Values : Waits(k, w) => w = v
    BY <1>3, <1>6
  <2>3. QED
    BY <1>6, <2>1, <2>2
<1>7. k \in Held <=> \E v \in Values : Has(k, v)
  <2>1. Holding(k) # {} <=> \E v \in Values : InBucket(k, v)
    BY <1>1, <1>2
  <2>2. QED
    BY <1>5, <2>1 DEF Held, Has
<1>8. ASSUME NEW v \in Values, Has(k, v) PROVE Value(k) = v
  <2>1. CASE Waits(k, v)
    BY <1>6, <2>1
  <2>2. CASE InHand(k) /\ hand.value = v
    BY <2>2 DEF Value
  <2>3. CASE ~ InHand(k) /\ InBucket(k, v)
    BY <1>2, <2>3 DEF Value
  <2>4. QED
    BY <1>8, <2>1, <2>2, <2>3 DEF Has
<1>9. QED
  BY <1>7, <1>8

(* What the table stands for depends on the pairs it has.                  *)
LEMMA SameContents ==
  ASSUME TypeOK, Unique, TypeOK', Unique',
         \A k \in Keys, v \in Values : Has(k, v)' <=> Has(k, v)
  PROVE  UNCHANGED Contents
<1>1. /\ \A k \in Keys : k \in Held <=> \E v \in Values : Has(k, v)
      /\ \A k \in Keys, v \in Values : Has(k, v) => Value(k) = v
  BY HeldIsHad DEF HeldOnce
<1>2. /\ \A k \in Keys : k \in Held' <=> \E v \in Values : Has(k, v)'
      /\ \A k \in Keys, v \in Values : Has(k, v)' => Value(k)' = v
  <2>1. HeldOnce'
    BY HeldIsHad, PTL
  <2>2. QED
    BY <2>1 DEF HeldOnce
<1>3. Held' = Held
  <2>1. Held \subseteq Keys /\ Held' \subseteq Keys
    BY DEF Held
  <2>2. QED
    BY <1>1, <1>2, <2>1
<1>4. \A k \in Held : Value(k)' = Value(k)
  <2>1. Held \subseteq Keys
    BY DEF Held
  <2>2. QED
    BY <1>1, <1>2, <2>1
<1>5. QED
  BY <1>3, <1>4 DEF Contents

(* A step that keeps every pair keeps what the table stands for.           *)
Keeps == Unique' /\ \A k \in Keys, v \in Values : Has(k, v)' <=> Has(k, v)

LEMMA CopiesAlone ==
  ASSUME UNCHANGED copies
  PROVE  /\ \A i : Rest(i)' = Rest(i)
         /\ \A k, v : Waits(k, v)' <=> Waits(k, v)
<1>1. \A i : Rest(i)' = Rest(i)
  BY DEF Rest
<1>2. QED
  BY <1>1 DEF Waits

LEMMA AllAlone ==
  ASSUME TypeOK, Unique, UNCHANGED <<table, hand, intended, copies>>
  PROVE  Keeps
<1>1. (\A i : Rest(i)' = Rest(i)) /\ \A k, v : Waits(k, v)' <=> Waits(k, v)
  BY CopiesAlone
<1>2. Used' = Used /\ (\A k : InHand(k)' <=> InHand(k)) /\ \A k, v : InBucket(k, v)' <=> InBucket(k, v)
  BY DEF Used, Cap, InHand, InBucket
<1>3. Unique'
  BY <1>1, <1>2 DEF Unique, OneBucket, OwnBucket, OneCopy, CopyApart
<1>4. QED
  BY <1>1, <1>2, <1>3 DEF Keeps, Has

(* The pair in hand gets a bucket, of its own or of another pair, which is  *)
(* then in hand.                                                           *)
LEMMA UUpdate ==
  ASSUME TInv, Unique, Place, Update(Stop)
  PROVE  Keeps
<1> DEFINE p == Stop
<1>1. p \in Used /\ table[p].key = hand.key /\ hand # None /\ hand' = None
  BY StopIsABucket DEF Place, Update, Fits, Used, TInv, Fill
<1>2. /\ table' = [table EXCEPT ![p].value = hand.value] /\ UNCHANGED copies
  BY DEF Update
<1>3. table \in Seq(Bucket \cup {None}) /\ table[p] \in Bucket /\ hand.value \in Values
  BY <1>1, BucketTypes DEF TInv, TypeOK, Table
<1> HIDE DEF p
<1>4. /\ Cap' = Cap /\ table'[p].key = hand.key /\ table'[p].value = hand.value
      /\ table'[p] \in Bucket
      /\ \A q \in 1 .. Cap : q # p => table'[q] = table[q]
  BY <1>1, <1>2, <1>3 DEF Used, Cap, Bucket
<1>5. Used' = Used /\ \A q \in Used : table'[q].key = table[q].key
  BY <1>1, <1>4, TableAssumption DEF Used
<1>6. (\A i : Rest(i)' = Rest(i)) /\ \A k, v : Waits(k, v)' <=> Waits(k, v)
  BY <1>2, CopiesAlone
<1>7. \A k : ~ InHand(k)'
  BY <1>1 DEF InHand
<1>8. Unique'
  BY <1>2, <1>5, <1>6, <1>7 DEF Unique, OneBucket, OwnBucket, OneCopy, CopyApart
<1>9. ASSUME NEW k \in Keys, NEW v \in Values PROVE Has(k, v)' <=> Has(k, v)
  <2>1. CASE k = hand.key
    <3>1. InBucket(k, v)' <=> v = hand.value
      BY <1>1, <1>4, <1>5, <2>1 DEF InBucket, Unique, OneBucket
    <3>2. InHand(k) /\ ~ Waits(k, v)
      BY <1>1, <2>1 DEF InHand, Waits, Unique, CopyApart
    <3>3. QED
      BY <1>6, <1>7, <3>1, <3>2 DEF Has
  <2>2. CASE k # hand.key
    <3>1. InBucket(k, v)' <=> InBucket(k, v)
      BY <1>1, <1>4, <1>5, <2>2 DEF InBucket, Used
    <3>2. ~ InHand(k)
      BY <2>2 DEF InHand
    <3>3. QED
      BY <1>6, <1>7, <3>1, <3>2 DEF Has
  <2>3. QED
    BY <2>1, <2>2
<1>10. QED
  BY <1>8, <1>9 DEF Keeps

(* The bucket in which the pair in hand is entered does not hold its key,   *)
(* and no other does.                                                      *)
LEMMA NotYetIn ==
  ASSUME TInv, Unique, Place, ~ (table[Stop] # None /\ Fits(Stop))
  PROVE  \A q \in Used : table[q].key # hand.key
<1> SUFFICES ASSUME NEW q \in Used, table[q].key = hand.key PROVE FALSE
  OBVIOUS
<1>1. hand # None
  BY DEF TInv, Fill, Place
<1>2. q = intended
  BY <1>1 DEF Unique, OwnBucket, InHand
<1>3. Stops = {intended}
  BY <1>2 DEF Stops, Fits
<1>4. intended \in Nat
  BY DEF TInv, TypeOK
<1>5. Stop = intended
  BY <1>3, <1>4, FirstIsIn DEF Stop
<1>6. QED
  BY <1>2, <1>5 DEF Used, Fits

LEMMA UStore ==
  ASSUME TInv, Unique, Place, Store(Stop)
  PROVE  Keeps
<1> DEFINE p == Stop
<1>1. p \in 1 .. Cap /\ hand # None /\ hand' = None /\ pc = "place" /\ intended \in 1 .. Cap
  BY StopIsABucket DEF Place, Store, TInv, Fill, TypeOK
<1>2. table' = Entered(p, intended - p) /\ UNCHANGED copies /\ table[p] = None
  BY DEF Store
<1>3. \A q \in Used : table[q].key # hand.key
  BY NotYetIn DEF Store
<1>4. Cap \in Nat
  BY UsedIsFinite DEF TInv
<1> HIDE DEF p
<1>5. /\ table'[p] = [key |-> hand.key, value |-> hand.value, displacement |-> intended - p]
      /\ \A q \in 1 .. Cap : q # p => table'[q] = table[q]
      /\ Used' = Used \cup {p} /\ Cap' = Cap
  BY <1>1, <1>2, <1>4, EnteredTable DEF TInv
<1>6. /\ table'[p].key = hand.key /\ table'[p].value = hand.value /\ p \notin Used
      /\ \A q \in Used : table'[q] = table[q]
  BY <1>2, <1>5 DEF Used
<1>7. (\A i : Rest(i)' = Rest(i)) /\ \A k, v : Waits(k, v)' <=> Waits(k, v)
  BY <1>2, CopiesAlone
<1>8. (\A k : ~ InHand(k)') /\ InHand(hand.key)
  BY <1>1 DEF InHand
<1>9. Unique'
  <2>1. OneBucket'
    BY <1>3, <1>5, <1>6 DEF Unique, OneBucket
  <2>2. OwnBucket' /\ OneCopy'
    BY <1>2, <1>7, <1>8 DEF Unique, OwnBucket, OneCopy
  <2>3. CopyApart'
    BY <1>2, <1>5, <1>6, <1>7, <1>8 DEF Unique, CopyApart
  <2>4. QED
    BY <2>1, <2>2, <2>3 DEF Unique
<1>10. ASSUME NEW k \in Keys, NEW v \in Values PROVE Has(k, v)' <=> Has(k, v)
  <2>1. CASE k = hand.key
    <3>1. InBucket(k, v)' <=> v = hand.value
      BY <1>3, <1>5, <1>6, <2>1 DEF InBucket
    <3>2. InHand(k) /\ ~ Waits(k, v)
      BY <1>8, <2>1 DEF Waits, Unique, CopyApart
    <3>3. QED
      BY <1>7, <1>8, <3>1, <3>2 DEF Has
  <2>2. CASE k # hand.key
    <3>1. InBucket(k, v)' <=> InBucket(k, v)
      BY <1>5, <1>6, <2>2 DEF InBucket
    <3>2. ~ InHand(k)
      BY <2>2 DEF InHand
    <3>3. QED
      BY <1>7, <1>8, <3>1, <3>2 DEF Has
  <2>3. QED
    BY <2>1, <2>2
<1>11. QED
  BY <1>9, <1>10 DEF Keeps

LEMMA USwap ==
  ASSUME TInv, Unique, Place, Swap(Stop)
  PROVE  Keeps
<1> DEFINE p == Stop
<1>1. /\ p \in Used /\ hand # None /\ pc = "place" /\ intended \in 1 .. Cap
      /\ table[p].key # hand.key /\ p \in 1 .. Cap
  BY StopIsABucket DEF Place, Swap, Fits, TInv, Fill, TypeOK, Used
<1>2. /\ table' = Entered(p, p - intended) /\ UNCHANGED copies /\ intended' = p
      /\ hand' = [key |-> table[p].key, value |-> table[p].value]
  BY DEF Swap
<1>3. \A q \in Used : table[q].key # hand.key
  BY NotYetIn DEF Swap
<1>4. Cap \in Nat
  BY UsedIsFinite DEF TInv
<1>5. table[p].key \in Keys /\ table[p].value \in Values /\ hand' # None
  BY <1>1, <1>2, BucketTypes, TableAssumption DEF TInv, Pair
<1> HIDE DEF p
<1>6. /\ table'[p] = [key |-> hand.key, value |-> hand.value, displacement |-> p - intended]
      /\ \A q \in 1 .. Cap : q # p => table'[q] = table[q]
      /\ Used' = Used \cup {p} /\ Cap' = Cap
  BY <1>1, <1>2, <1>4, EnteredTable DEF TInv
<1>7. /\ table'[p].key = hand.key /\ table'[p].value = hand.value /\ Used' = Used
      /\ \A q \in Used : q # p => table'[q] = table[q]
  BY <1>1, <1>6 DEF Used
<1>8. (\A i : Rest(i)' = Rest(i)) /\ \A k, v : Waits(k, v)' <=> Waits(k, v)
  BY <1>2, CopiesAlone
<1>9. /\ \A k : InHand(k)' <=> k = table[p].key
      /\ \A k : InHand(k) <=> k = hand.key
      /\ hand'.value = table[p].value
  BY <1>1, <1>2, <1>5 DEF InHand
<1>10. Unique'
  <2>1. OneBucket'
    BY <1>3, <1>7 DEF Unique, OneBucket
  <2>2. OwnBucket'
    BY <1>1, <1>2, <1>7, <1>9 DEF Unique, OneBucket, OwnBucket
  <2>3. OneCopy'
    BY <1>2, <1>8 DEF Unique, OneCopy
  <2>4. CopyApart'
    BY <1>1, <1>2, <1>7, <1>8, <1>9 DEF Unique, CopyApart
  <2>5. QED
    BY <2>1, <2>2, <2>3, <2>4 DEF Unique
<1>11. ASSUME NEW k \in Keys, NEW v \in Values PROVE Has(k, v)' <=> Has(k, v)
  <2>1. CASE k = hand.key
    <3>1. InBucket(k, v)' <=> v = hand.value
      BY <1>1, <1>3, <1>7, <2>1 DEF InBucket
    <3>2. InHand(k) /\ ~ InHand(k)' /\ ~ Waits(k, v)
      BY <1>1, <1>9, <2>1 DEF Waits, Unique, CopyApart
    <3>3. QED
      BY <1>8, <3>1, <3>2 DEF Has
  <2>2. CASE k = table[p].key
    <3>1. InBucket(k, v) <=> v = table[p].value
      BY <1>1, <2>2 DEF InBucket, Unique, OneBucket
    <3>2. InHand(k)' /\ ~ InHand(k) /\ ~ Waits(k, v)
      BY <1>1, <1>9, <2>2 DEF Waits, Unique, CopyApart
    <3>3. QED
      BY <1>8, <1>9, <3>1, <3>2 DEF Has
  <2>3. CASE k # hand.key /\ k # table[p].key
    <3>1. InBucket(k, v)' <=> InBucket(k, v)
      BY <1>7, <2>3 DEF InBucket
    <3>2. ~ InHand(k)' /\ ~ InHand(k)
      BY <1>9, <2>3
    <3>3. QED
      BY <1>8, <3>1, <3>2 DEF Has
  <2>4. QED
    BY <2>1, <2>2, <2>3
<1>12. QED
  BY <1>10, <1>11 DEF Keeps

(* The pairs of a table that is loaded are all copied.                     *)
LEMMA URehash ==
  ASSUME TInv, Unique, Rehash
  PROVE  Keeps
<1> DEFINE n == ((Cap + 1) * 17) \div 10
           CopyType == [buckets : Table, from : Nat \ {0}]
<1>1. hand = None /\ UNCHANGED <<hand, intended>> /\ table' = Fresh(n)
  BY DEF TInv, Fill, Rehash
<1>2. Cap \in Nat \ {0} /\ table \in Seq(Bucket \cup {None}) /\ copies \in Seq(CopyType)
  BY UsedIsFinite DEF TInv, TypeOK, Table
<1>3. n \in Nat
  BY <1>2
<1> HIDE DEF CopyType
<1>4. PICK m \in Nat \ {0} : m = Len(copies) + 1
  <2>1. Len(copies) \in Nat
    BY <1>2
  <2>2. QED
    BY <2>1
<1>5. copies' = Append(copies, [buckets |-> table, from |-> 1])
  BY DEF Rehash
<1>6. /\ DOMAIN copies' = 1 .. m /\ DOMAIN copies = 1 .. m - 1
      /\ \A i \in 1 .. m - 1 : copies'[i] = copies[i]
      /\ copies'[m] = [buckets |-> table, from |-> 1]
  BY <1>2, <1>5, <1>4
<1>7. Used' = {}
  <2> HIDE DEF n
  <2>1. QED
    BY <1>1, <1>3 DEF Used, Cap, Fresh
<1> HIDE DEF n
<1>8. /\ \A i \in 1 .. m - 1 : Rest(i)' = Rest(i)
      /\ Rest(m)' = Used
  BY <1>6 DEF Rest, Used, Cap
<1>9. \A k : ~ InHand(k) /\ ~ InHand(k)' /\ \A v : ~ InBucket(k, v)'
  BY <1>1, <1>7 DEF InHand, InBucket
<1>10. m \in 1 .. m /\ \A i \in 1 .. m : i = m \/ i \in 1 .. m - 1
  BY <1>3
<1>11. OneCopy'
  <2>1. SUFFICES ASSUME NEW i \in 1 .. m, NEW j \in 1 .. m, NEW p \in Rest(i)', NEW q \in Rest(j)',
                        copies'[i].buckets[p].key = copies'[j].buckets[q].key
                 PROVE  i = j /\ p = q
    BY <1>6 DEF OneCopy
  <2>2. CASE i = m /\ j = m
    BY <1>6, <1>8, <2>1, <2>2 DEF Unique, OneBucket
  <2>3. CASE i \in 1 .. m - 1 /\ j \in 1 .. m - 1
    BY <1>6, <1>8, <2>1, <2>3 DEF Unique, OneCopy
  <2>4. CASE i = m /\ j \in 1 .. m - 1
    BY <1>6, <1>8, <2>1, <2>4 DEF Unique, CopyApart
  <2>5. CASE i \in 1 .. m - 1 /\ j = m
    BY <1>6, <1>8, <2>1, <2>5 DEF Unique, CopyApart
  <2>6. QED
    BY <1>10, <2>2, <2>3, <2>4, <2>5
<1>12. Unique'
  BY <1>7, <1>9, <1>11 DEF Unique, OneBucket, OwnBucket, CopyApart
<1>13. ASSUME NEW k \in Keys, NEW v \in Values PROVE Waits(k, v)' <=> Waits(k, v) \/ InBucket(k, v)
  <2>1. Waits(k, v) <=>
          \E i \in 1 .. m - 1 : \E p \in Rest(i) :
            copies[i].buckets[p].key = k /\ copies[i].buckets[p].value = v
    BY <1>6 DEF Waits
  <2>2. Waits(k, v)' <=>
          \E i \in 1 .. m : \E p \in Rest(i)' :
            copies'[i].buckets[p].key = k /\ copies'[i].buckets[p].value = v
    BY <1>6 DEF Waits
  <2>3. InBucket(k, v) <=>
          \E p \in Rest(m)' : copies'[m].buckets[p].key = k /\ copies'[m].buckets[p].value = v
    BY <1>6, <1>8 DEF InBucket
  <2>4. 1 .. m - 1 \subseteq 1 .. m
    BY <1>3
  <2>5. QED
    BY <1>6, <1>8, <1>10, <2>1, <2>2, <2>3, <2>4
<1>14. QED
  BY <1>9, <1>12, <1>13 DEF Keeps, Has

(* The innermost copy and its next bucket.                                 *)
LEMMA URefill ==
  ASSUME TInv, Unique, Refill
  PROVE  Keeps
<1> DEFINE CopyType == [buckets : Table, from : Nat \ {0}]
<1>0. PICK m : m = Len(copies)
  OBVIOUS
<1> DEFINE f == copies[m].from
<1>1. /\ hand = None /\ copies \in Seq(CopyType) /\ copies # <<>> /\ UNCHANGED table
      /\ copies' = [copies EXCEPT ![m].from = @ + 1] /\ f \in DOMAIN copies[m].buckets
  BY <1>0 DEF TInv, TypeOK, Fill, Refill, Innermost
<1>2. m \in 1 .. m /\ DOMAIN copies = 1 .. m /\ DOMAIN copies' = 1 .. m
  <2> HIDE DEF CopyType
  <2>1. QED
    BY <1>0, <1>1
<1>3. copies[m] \in CopyType
  <2> HIDE DEF CopyType
  <2>1. QED
    BY <1>1, <1>2
<1>4. /\ \A i \in 1 .. m : i # m => copies'[i] = copies[i]
      /\ copies'[m] = [copies[m] EXCEPT !.from = @ + 1]
  <2> HIDE DEF CopyType
  <2>1. QED
    BY <1>1, <1>2
<1>5. /\ \A i \in 1 .. m : copies'[i].buckets = copies[i].buckets
      /\ copies'[m].from = f + 1 /\ f \in Nat \ {0}
      /\ copies[m].buckets \in Seq(Bucket \cup {None})
  BY <1>3, <1>4 DEF Table
<1> DEFINE bucket == copies[m].buckets[f]
<1>6. /\ f \in 1 .. Len(copies[m].buckets) /\ bucket \in Bucket \cup {None}
      /\ Len(copies[m].buckets) \in Nat
  <2> HIDE DEF CopyType
  <2>1. QED
    BY <1>1, <1>5
<1> HIDE DEF f, CopyType
<1>7. /\ \A i \in 1 .. m : i # m => Rest(i)' = Rest(i)
      /\ Rest(m)' = Rest(m) \ {f}
      /\ bucket # None => f \in Rest(m)
      /\ bucket = None => f \notin Rest(m)
  <2>1. \A i \in 1 .. m : i # m => Rest(i)' = Rest(i)
    BY <1>4 DEF Rest
  <2>2. /\ Rest(m) = {p \in f .. Len(copies[m].buckets) : copies[m].buckets[p] # None}
        /\ Rest(m)' = {p \in f + 1 .. Len(copies[m].buckets) : copies[m].buckets[p] # None}
    BY <1>2, <1>5 DEF Rest, f
  <2>3. \A p : p \in f + 1 .. Len(copies[m].buckets) <=> p \in f .. Len(copies[m].buckets) /\ p # f
    BY <1>5, <1>6
  <2>4. f \in f .. Len(copies[m].buckets)
    BY <1>6
  <2>5. QED
    BY <2>1, <2>2, <2>3, <2>4
<1>8. Used' = Used /\ \A k, v : InBucket(k, v)' <=> InBucket(k, v)
  BY <1>1 DEF Used, Cap, InBucket
<1>9. \A i \in 1 .. m : Rest(i)' \subseteq Rest(i)
  BY <1>7
<1>10. OneCopy'
  BY <1>2, <1>5, <1>9 DEF Unique, OneCopy
<1>11. \A i \in 1 .. m : \A p \in Rest(i)', q \in Used : table[q].key # copies[i].buckets[p].key
  BY <1>2, <1>9 DEF Unique, CopyApart
<1>12. CASE bucket = None
  <2>1. UNCHANGED <<hand, intended>>
    BY <1>0, <1>12 DEF Refill, Innermost, f
  <2>2. \A k : ~ InHand(k) /\ ~ InHand(k)'
    BY <1>1, <2>1 DEF InHand
  <2>3. Unique'
    BY <1>1, <1>2, <1>5, <1>8, <1>10, <1>11, <2>2 DEF Unique, OneBucket, OwnBucket, CopyApart
  <2>4. \A i \in 1 .. m : Rest(i)' = Rest(i)
    BY <1>7, <1>12
  <2>5. \A k, v : Waits(k, v)' <=> Waits(k, v)
    BY <1>2, <1>5, <2>4 DEF Waits
  <2>6. QED
    BY <1>8, <2>2, <2>3, <2>5 DEF Keeps, Has
<1>13. CASE bucket # None
  <2>1. hand' = [key |-> bucket.key, value |-> bucket.value]
    BY <1>0, <1>13 DEF Refill, Innermost, f
  <2>2. bucket \in Bucket /\ f \in Rest(m)
    BY <1>6, <1>7, <1>13
  <2> DEFINE key == bucket.key
             value == bucket.value
  <2>3. hand'.key = key /\ hand'.value = value /\ hand' # None
    BY <2>1, <2>2, TableAssumption DEF Pair, Bucket
  <2>4. \A k : ~ InHand(k) /\ (InHand(k)' <=> k = key)
    BY <1>1, <2>3 DEF InHand
  <2>5. \A q \in Used : table[q].key # key
    BY <1>2, <2>2 DEF Unique, CopyApart
  <2>6. \A i \in 1 .. m : \A p \in Rest(i) : copies[i].buckets[p].key = key => i = m /\ p = f
    BY <1>2, <2>2 DEF Unique, OneCopy
  <2>7. \A i \in 1 .. m : \A p \in Rest(i)' : copies[i].buckets[p].key # key
    BY <1>7, <1>9, <2>6
  <2>8. Unique'
    <3>1. OneBucket' /\ OwnBucket'
      BY <1>1, <1>8, <2>4, <2>5 DEF Unique, OneBucket, OwnBucket
    <3>2. CopyApart'
      BY <1>1, <1>2, <1>5, <1>8, <1>11, <2>4, <2>7 DEF CopyApart
    <3>3. QED
      BY <1>10, <3>1, <3>2 DEF Unique
  <2>9. ASSUME NEW k, NEW v PROVE Waits(k, v)' <=> Waits(k, v) /\ k # key
    <3>1. ASSUME Waits(k, v)' PROVE Waits(k, v) /\ k # key
      BY <1>2, <1>5, <1>9, <2>7, <3>1 DEF Waits
    <3>2. ASSUME Waits(k, v), k # key PROVE Waits(k, v)'
      <4>1. PICK i \in 1 .. m : \E p \in Rest(i) :
              copies[i].buckets[p].key = k /\ copies[i].buckets[p].value = v
        BY <1>2, <3>2 DEF Waits
      <4>2. PICK p \in Rest(i) : copies[i].buckets[p].key = k /\ copies[i].buckets[p].value = v
        BY <4>1
      <4>3. p \in Rest(i)'
        BY <1>7, <3>2, <4>2
      <4>4. QED
        BY <1>2, <1>5, <4>2, <4>3 DEF Waits
    <3>3. QED
      BY <3>1, <3>2
  <2>10. \A v : Waits(key, v) <=> v = value
    BY <1>2, <2>2, <2>6 DEF Waits
  <2>11. \A v : ~ InBucket(key, v)
    BY <2>5 DEF InBucket
  <2> HIDE DEF key, value
  <2>12. ASSUME NEW k \in Keys, NEW v \in Values PROVE Has(k, v)' <=> Has(k, v)
    BY <1>8, <2>3, <2>4, <2>9, <2>10, <2>11 DEF Has
  <2>13. QED
    BY <2>8, <2>12 DEF Keeps
<1>14. QED
  BY <1>12, <1>13

LEMMA URefilled ==
  ASSUME TInv, Unique, Refilled
  PROVE  Keeps
<1> DEFINE CopyType == [buckets : Table, from : Nat \ {0}]
<1>0. PICK m : m = Len(copies)
  OBVIOUS
<1>1. /\ copies \in Seq(CopyType) /\ copies # <<>> /\ UNCHANGED <<table, hand, intended>>
      /\ copies' = SubSeq(copies, 1, m - 1)
      /\ copies[m].from \notin DOMAIN copies[m].buckets
  BY <1>0 DEF TInv, TypeOK, Refilled, Innermost
<1>2. /\ m \in 1 .. m /\ DOMAIN copies = 1 .. m /\ copies[m] \in CopyType
      /\ DOMAIN copies' = 1 .. m - 1 /\ \A i \in 1 .. m - 1 : copies'[i] = copies[i]
  <2> HIDE DEF CopyType
  <2>1. QED
    BY <1>0, <1>1
<1>3. copies[m].from \in Nat \ {0} /\ copies[m].buckets \in Seq(Bucket \cup {None})
  BY <1>2 DEF Table
<1>4. Rest(m) = {}
  <2>1. copies[m].from > Len(copies[m].buckets) /\ Len(copies[m].buckets) \in Nat
    <3> HIDE DEF CopyType
    <3>1. QED
      BY <1>1, <1>3
  <2>2. QED
    BY <1>3, <2>1 DEF Rest
<1> HIDE DEF CopyType
<1>5. \A i \in 1 .. m - 1 : Rest(i)' = Rest(i)
  BY <1>2 DEF Rest
<1>6. 1 .. m - 1 \subseteq 1 .. m /\ \A i \in 1 .. m : i = m \/ i \in 1 .. m - 1
  BY <1>2
<1>7. Used' = Used /\ (\A k : InHand(k)' <=> InHand(k)) /\ \A k, v : InBucket(k, v)' <=> InBucket(k, v)
  BY <1>1 DEF Used, Cap, InHand, InBucket
<1>8. Unique'
  <2>1. OneBucket' /\ OwnBucket'
    BY <1>1, <1>7 DEF Unique, OneBucket, OwnBucket
  <2>2. OneCopy'
    BY <1>2, <1>5, <1>6 DEF Unique, OneCopy
  <2>3. CopyApart'
    BY <1>1, <1>2, <1>5, <1>6, <1>7 DEF Unique, CopyApart
  <2>4. QED
    BY <2>1, <2>2, <2>3 DEF Unique
<1>9. \A k, v : Waits(k, v)' <=> Waits(k, v)
  BY <1>2, <1>4, <1>5, <1>6 DEF Waits
<1>10. \A k, v : Has(k, v)' <=> Has(k, v)
  <2>1. hand' = hand
    BY <1>1
  <2>2. QED
    BY <1>7, <1>9, <2>1 DEF Has
<1>11. QED
  BY <1>8, <1>10 DEF Keeps

LEMMA UInsert ==
  ASSUME TInv, Unique, ~ MayUpdateDisplaced,
         NEW k \in Keys, NEW v \in Values, Insert(k, v)
  PROVE  /\ Unique'
         /\ \A j \in Keys, w \in Values : Has(j, w)' <=> IF j = k THEN w = v ELSE Has(j, w)
<1>1. /\ pc = "idle" /\ Holding(k) \subseteq {Home(k)} /\ UNCHANGED <<table, copies>>
      /\ hand' = [key |-> k, value |-> v] /\ intended' = Home(k)
  BY DEF Insert
<1>2. hand = None /\ copies = <<>> /\ hand' # None
  BY <1>1, TableAssumption DEF TInv, Fill, Pair
<1>3. hand'.key = k /\ hand'.value = v
  BY <1>1
<1>4. \A j : ~ InHand(j) /\ (InHand(j)' <=> j = k)
  BY <1>2, <1>3 DEF InHand
<1>5. (\A j, w : ~ Waits(j, w) /\ ~ Waits(j, w)') /\ DOMAIN copies' = {}
  BY <1>1, <1>2 DEF Waits
<1>6. Used' = Used /\ \A j, w : InBucket(j, w)' <=> InBucket(j, w)
  BY <1>1 DEF Used, Cap, InBucket
<1>7. Unique'
  <2>1. OneBucket'
    BY <1>1, <1>6 DEF Unique, OneBucket
  <2>2. OwnBucket'
    BY <1>1, <1>4, <1>6 DEF OwnBucket, Holding
  <2>3. OneCopy' /\ CopyApart'
    BY <1>5 DEF OneCopy, CopyApart
  <2>4. QED
    BY <2>1, <2>2, <2>3 DEF Unique
<1>8. QED
  BY <1>3, <1>4, <1>5, <1>6, <1>7 DEF Has

LEMMA URemove ==
  ASSUME TInv, Unique, NEW k \in Keys, Remove(k)
  PROVE  /\ Unique'
         /\ \A j \in Keys, w \in Values : Has(j, w)' <=> j # k /\ Has(j, w)
<1> DEFINE p == Found(k)
<1>1. /\ pc = "idle" /\ UNCHANGED <<hand, intended, copies>>
      /\ table' = [table EXCEPT ![p] = None]
  BY DEF Remove
<1>2. p \in Used /\ table[p].key = k
  BY FoundHolds DEF TInv, Remove, Holding
<1>3. hand = None /\ copies = <<>> /\ table \in Seq(Bucket \cup {None})
  BY <1>1 DEF TInv, Fill, TypeOK, Table
<1> HIDE DEF p
<1>4. Used' = Used \ {p} /\ \A q \in Used : q # p => table'[q] = table[q]
  BY <1>1, <1>2, <1>3 DEF Used, Cap
<1>5. (\A j : ~ InHand(j) /\ ~ InHand(j)') /\ \A j, w : ~ Waits(j, w) /\ ~ Waits(j, w)'
  BY <1>1, <1>3 DEF InHand, Waits
<1>6. Unique'
  <2>1. OneBucket'
    BY <1>4 DEF Unique, OneBucket
  <2>2. OwnBucket' /\ OneCopy' /\ CopyApart'
    BY <1>1, <1>3, <1>5 DEF OwnBucket, OneCopy, CopyApart
  <2>3. QED
    BY <2>1, <2>2 DEF Unique
<1>7. ASSUME NEW j, NEW w PROVE InBucket(j, w)' <=> j # k /\ InBucket(j, w)
  <2>1. \A q \in Used : table[q].key = k => q = p
    BY <1>2 DEF Unique, OneBucket
  <2>2. QED
    BY <1>2, <1>4, <2>1 DEF InBucket
<1>8. QED
  BY <1>5, <1>6, <1>7 DEF Has

LEMMA UInit == Init => Unique /\ Map!Init
<1> SUFFICES ASSUME Init PROVE Unique /\ Map!Init
  OBVIOUS
<1>1. hand = None /\ copies = <<>> /\ DOMAIN copies = {}
  BY DEF Init
<1>2. Used = {}
  <2>1. PICK c \in Capacities : table = Fresh(c)
    BY DEF Init
  <2>2. c \in Nat \ {0}
    BY TableAssumption
  <2>3. QED
    BY <2>1, <2>2 DEF Used, Cap, Fresh
<1>3. Unique
  BY <1>1, <1>2 DEF Unique, OneBucket, OwnBucket, OneCopy, CopyApart
<1>4. Held = {}
  BY <1>1, <1>2 DEF Held, InHand, Holding, Waits
<1>5. Contents \in [{} -> Values]
  BY <1>4 DEF Contents
<1>6. QED
  BY <1>3, <1>5 DEF Map!Init

(* What the calls do to the map, and what the work of a call does not.     *)
Calls ==
    \/ \E k \in Keys : Remove(k) /\ Map!Remove(k)
    \/ \E k \in Keys, v \in Values : Insert(k, v) /\ Map!Put(k, v)
    \/ Work /\ UNCHANGED Contents

LEMMA WorkKeeps ==
  ASSUME TInv, Unique, Work
  PROVE  Keeps
<1>1. CASE Place
  <2>1. ASSUME Outgrow(Stop) PROVE Keeps
    BY <2>1, AllAlone DEF Outgrow, TInv
  <2>2. QED
    BY <1>1, <2>1, UUpdate, UStore, USwap DEF Place
<1>2. CASE NoFit
  BY <1>2, AllAlone DEF NoFit, TInv
<1>3. CASE Return
  BY <1>3, AllAlone DEF Return, TInv
<1>4. QED
  BY <1>1, <1>2, <1>3, URehash, URefill, URefilled DEF Work

LEMMA UStep ==
  ASSUME ~ MayUpdateDisplaced
  PROVE  TInv /\ Unique /\ [Next]_vars => Unique' /\ [Calls]_vars
<1> SUFFICES ASSUME TInv, Unique, [Next]_vars PROVE Unique' /\ [Calls]_vars
  OBVIOUS
<1>1. TInv'
  BY TStep
<1>2. HeldOnce
  BY HeldIsHad DEF TInv
<1>3. ASSUME Unique' PROVE HeldOnce'
  <2>1. TypeOK' /\ Unique'
    BY <1>1, <1>3 DEF TInv
  <2>2. QED
    BY <2>1, HeldIsHad, PTL
<1>4. Held \subseteq Keys /\ Held' \subseteq Keys
  BY DEF Held
<1>5. CASE Work
  <2>1. Keeps
    BY <1>5, WorkKeeps
  <2>2. UNCHANGED Contents
    BY <1>1, <2>1, SameContents DEF Keeps, TInv
  <2>3. QED
    BY <1>5, <2>1, <2>2 DEF Keeps, Calls
<1>6. ASSUME NEW k \in Keys, NEW v \in Values, Insert(k, v)
      PROVE  Unique' /\ Map!Put(k, v)
  <2>1. /\ Unique'
        /\ \A j \in Keys, w \in Values : Has(j, w)' <=> IF j = k THEN w = v ELSE Has(j, w)
    BY <1>6, UInsert
  <2>2. HeldOnce'
    BY <1>3, <2>1
  <2>3. Held' = Held \cup {k}
    <3>1. \A j \in Keys : j \in Held' <=> j = k \/ j \in Held
      BY <1>2, <2>1, <2>2 DEF HeldOnce
    <3>2. QED
      BY <1>4, <3>1
  <2>4. ASSUME NEW j \in Held' PROVE Value(j)' = IF j = k THEN v ELSE Value(j)
    BY <1>2, <1>4, <2>1, <2>2, <2>3, <2>4 DEF HeldOnce
  <2>5. DOMAIN Contents = Held /\ \A j \in Held : Contents[j] = Value(j)
    BY DEF Contents
  <2>6. Contents' = [j \in Held \cup {k} |-> IF j = k THEN v ELSE Contents[j]]
    BY <2>3, <2>4, <2>5 DEF Contents
  <2>7. QED
    BY <2>1, <2>5, <2>6 DEF Map!Put
<1>7. ASSUME NEW k \in Keys, Remove(k)
      PROVE  Unique' /\ Map!Remove(k)
  <2>1. /\ Unique'
        /\ \A j \in Keys, w \in Values : Has(j, w)' <=> j # k /\ Has(j, w)
    BY <1>7, URemove
  <2>2. HeldOnce'
    BY <1>3, <2>1
  <2>3. Held' = Held \ {k}
    <3>1. \A j \in Keys : j \in Held' <=> j # k /\ j \in Held
      BY <1>2, <2>1, <2>2 DEF HeldOnce
    <3>2. QED
      BY <1>4, <3>1
  <2>4. ASSUME NEW j \in Held' PROVE Value(j)' = Value(j)
    BY <1>2, <1>4, <2>1, <2>2, <2>3, <2>4 DEF HeldOnce
  <2>5. DOMAIN Contents = Held /\ \A j \in Held : Contents[j] = Value(j)
    BY DEF Contents
  <2>6. Contents' = [j \in Held \ {k} |-> Contents[j]]
    BY <2>3, <2>4, <2>5 DEF Contents
  <2>7. QED
    BY <2>1, <2>5, <2>6 DEF Map!Remove
<1>8. CASE UNCHANGED vars
  BY <1>8, AllAlone DEF vars, TInv, Keeps
<1>9. CASE Next
  BY <1>5, <1>6, <1>7, <1>9 DEF Next, Calls
<1>10. QED
  BY <1>8, <1>9

(* A table is a map, for any hashes and sizes: what was inserted is found   *)
(* with the value it had last until it is removed, and displacing pairs    *)
(* and filling the table again change nothing of it, if no key is inserted *)
(* again that another bucket than its own holds.                           *)
THEOREM TableImplementsMap ==
  ASSUME ~ MayUpdateDisplaced
  PROVE  Spec => ImplementsMap
<1>1. Init => TInv /\ Unique /\ Map!Init
  BY TInit, UInit
<1>2. TInv /\ Unique /\ [Next]_vars => TInv' /\ Unique' /\ [Calls]_vars
  BY TStep, UStep
<1>3. Spec => Map!Init /\ [][Calls]_vars
  BY <1>1, <1>2, PTL DEF Spec
<1>4. QED
  BY <1>3 DEF ImplementsMap, Calls
==============================================================================
