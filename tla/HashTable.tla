------------------------------ MODULE HashTable ------------------------------
(***************************************************************************)
(* The hash table of fixed-size keys and values (std/hash/table.c): keys   *)
(* that collide are displaced to later buckets, a key that is displaced    *)
(* further takes the bucket of one that is displaced less, and a table     *)
(* that is loaded is copied, cleared and filled again.                     *)
(*                                                                         *)
(* A step places or displaces one pair.  The nested calls of the code are  *)
(* its continuation: a pair that lost its bucket is the next one in hand,  *)
(* and a rehash in the middle of another one adds a copy on top.           *)
(***************************************************************************)
EXTENDS Integers, Sequences

CONSTANTS
    Keys,               \* keys
    Values,             \* values
    Hash,               \* HASH_BERNSTEIN
    None,               \* a bucket that is not in use, no pair
    Capacities,         \* capacities a table is created with
    MaxCap,             \* bound: no calls on tables that have grown further
    MayUpdateDisplaced  \* whether a key that is not at home is inserted again

Pair   == [key : Keys, value : Values]
Bucket == [key : Keys, value : Values, displacement : Int]
Table  == Seq(Bucket \cup {None})

ASSUME TableAssumption ==
    /\ Hash \in [Keys -> Nat]
    /\ None \notin Pair \cup Bucket
    /\ Capacities \subseteq Nat \ {0}
    /\ MaxCap \in Nat
    /\ MayUpdateDisplaced \in BOOLEAN

VARIABLES
    table,              \* the buckets, from 1 on
    size,               \* pairs in the vectors; those that lost their bucket count
    hand,               \* the pair that is being inserted, if any
    intended,           \* the bucket where its search begins
    copies,             \* tables that are being rehashed, innermost last, each with
                        \* the bucket from which on its pairs are still to be inserted
    pc                  \* idle: no call runs; place: hand is to be placed; refill:
                        \* the pair in hand has a bucket; rehash: the table is loaded;
                        \* nofit: no bucket was found, which an assertion forbids, or
                        \* the search leaves the table if it began at the first;
                        \* outgrown: the vectors grow, and then differ from the table

vars == <<table, size, hand, intended, copies, pc>>

(* The room of the table and of the vectors of keys and values.            *)
Cap == Len(table)

TypeOK ==
    /\ table \in Table \ {<<>>}
    /\ size \in 0 .. Cap
    /\ hand \in Pair \cup {None}
    /\ intended \in 1 .. Cap
    /\ copies \in Seq([buckets : Table, from : Nat \ {0}])
    /\ pc \in {"idle", "place", "refill", "rehash", "nofit", "outgrown"}

----------------------------------------------------------------------------
Home(k)      == 1 + (Hash[k] % Cap)
Fresh(n)     == [p \in 1 .. n |-> None]
First(S)     == CHOOSE p \in S : \A q \in S : p <= q
Used         == {p \in 1 .. Cap : table[p] # None}
Holding(k)   == {p \in Used : table[p].key = k}

(* The bucket in which a search from the home of k, around the end of the   *)
(* table, meets k first.                                                   *)
Found(k) ==
    LET later == {p \in Holding(k) : p >= Home(k)}
    IN  IF later # {} THEN First(later) ELSE First(Holding(k))

Get(k) == table[Found(k)].value

Init ==
    /\ \E capacity \in Capacities : table = Fresh(capacity)
    /\ size = 0
    /\ hand = None /\ intended = 1
    /\ copies = <<>>
    /\ pc = "idle"

----------------------------------------------------------------------------
(* hashtable_insert_or_update with one pair, as all callers have it.       *)
Insert(k, v) ==
    /\ pc = "idle" /\ Cap <= MaxCap
    /\ MayUpdateDisplaced \/ Holding(k) \subseteq {Home(k)}
    /\ hand' = [key |-> k, value |-> v] /\ intended' = Home(k)
    /\ pc' = "place"
    /\ UNCHANGED <<table, size, copies>>

(* Buckets that are free or hold the key in hand.                          *)
Fits(p) == table[p] = None \/ table[p].key = hand.key

(* Buckets at which the search up to the end of the table stops, and after *)
(* it the search from the beginning, which leaves out the bucket in front  *)
(* of the intended one.                                                    *)
Stops ==
    IF Fits(intended) THEN {intended}
    ELSE {p \in intended + 1 .. Cap : Fits(p) \/ table[p].displacement < p - intended}

(* Variant: the search ends at the end of the table.                       *)
Wraps_none == {}
Wraps == {p \in 1 .. intended - 2 : Fits(p)}

Stop == IF Stops # {} THEN First(Stops) ELSE First(Wraps)

Loaded(n) == 10 * n >= 9 * Cap

(* The pair in hand gets the bucket p.                                     *)
Entered(p, displacement) ==
    [table EXCEPT ![p] = [key |-> hand.key, value |-> hand.value, displacement |-> displacement]]

Update(p) ==
    /\ table[p] # None /\ Fits(p)
    /\ table' = [table EXCEPT ![p].value = hand.value]
    /\ pc' = IF Loaded(size) THEN "rehash" ELSE "refill"
    /\ hand' = None /\ intended' = 1
    /\ UNCHANGED <<size, copies>>

Store(p) ==
    /\ table[p] = None /\ size < Cap
    /\ table' = Entered(p, intended - p)
    /\ size' = size + 1
    /\ pc' = IF Loaded(size + 1) THEN "rehash" ELSE "refill"
    /\ hand' = None /\ intended' = 1
    /\ UNCHANGED copies

(* Variant: the pair is read from the bucket after it was overwritten.     *)
Swap_late(p) ==
    /\ ~ Fits(p) /\ size < Cap
    /\ table' = Entered(p, p - intended)
    /\ size' = size + 1
    /\ intended' = p
    /\ UNCHANGED <<hand, copies, pc>>

(* The pair in hand takes the bucket; the one that was there is the next,  *)
(* and its search begins here.                                             *)
Swap(p) ==
    /\ ~ Fits(p) /\ size < Cap
    /\ table' = Entered(p, p - intended)
    /\ size' = size + 1
    /\ hand' = [key |-> table[p].key, value |-> table[p].value]
    /\ intended' = p
    /\ UNCHANGED <<copies, pc>>

(* The vectors of keys and values grow while the table does not.           *)
Outgrow(p) ==
    /\ size = Cap
    /\ table[p] = None \/ ~ Fits(p)
    /\ pc' = "outgrown"
    /\ UNCHANGED <<table, size, hand, intended, copies>>

Place ==
    /\ pc = "place"
    /\ Stops \cup Wraps # {}
    /\ Update(Stop) \/ Store(Stop) \/ Swap(Stop) \/ Outgrow(Stop)

NoFit ==
    /\ pc = "place"
    /\ Stops \cup Wraps = {}
    /\ pc' = "nofit"
    /\ UNCHANGED <<table, size, hand, intended, copies>>

----------------------------------------------------------------------------
(* hashtable_rehash, up to the copy that is then inserted again.           *)
Rehash ==
    /\ pc = "rehash"
    /\ copies' = Append(copies, [buckets |-> table, from |-> 1])
    /\ table' = Fresh(((Cap + 1) * 17) \div 10)
    /\ size' = 0
    /\ pc' = "refill"
    /\ UNCHANGED <<hand, intended>>

Innermost == Len(copies)

(* Variant: the loop does not advance past buckets that are in use.        *)
Refill_stays ==
    /\ pc = "refill" /\ copies # <<>>
    /\ LET copy == copies[Innermost]
           bucket == copy.buckets[copy.from]
       IN  /\ copy.from \in DOMAIN copy.buckets
           /\ IF bucket = None
                THEN /\ copies' = [copies EXCEPT ![Innermost].from = @ + 1]
                     /\ UNCHANGED <<hand, intended, pc>>
                ELSE /\ hand' = [key |-> bucket.key, value |-> bucket.value]
                     /\ intended' = Home(bucket.key)
                     /\ pc' = "place"
                     /\ UNCHANGED copies
    /\ UNCHANGED <<table, size>>

(* The next bucket of the innermost copy.                                  *)
Refill ==
    /\ pc = "refill" /\ copies # <<>>
    /\ LET copy == copies[Innermost]
           bucket == copy.buckets[copy.from]
       IN  /\ copy.from \in DOMAIN copy.buckets
           /\ copies' = [copies EXCEPT ![Innermost].from = @ + 1]
           /\ IF bucket = None
                THEN UNCHANGED <<hand, intended, pc>>
                ELSE /\ hand' = [key |-> bucket.key, value |-> bucket.value]
                     /\ intended' = Home(bucket.key)
                     /\ pc' = "place"
    /\ UNCHANGED <<table, size>>

Refilled ==
    /\ pc = "refill" /\ copies # <<>>
    /\ copies[Innermost].from \notin DOMAIN copies[Innermost].buckets
    /\ copies' = SubSeq(copies, 1, Innermost - 1)
    /\ UNCHANGED <<table, size, hand, intended, pc>>

Return ==
    /\ pc = "refill" /\ copies = <<>>
    /\ pc' = "idle"
    /\ UNCHANGED <<table, size, hand, intended, copies>>

(* The pair of a key that is removed stays in the vectors.                 *)
Remove(k) ==
    /\ pc = "idle" /\ Holding(k) # {}
    /\ table' = [table EXCEPT ![Found(k)] = None]
    /\ UNCHANGED <<size, hand, intended, copies, pc>>

Work == Place \/ NoFit \/ Rehash \/ Refill \/ Refilled \/ Return

Next ==
    \/ Work
    \/ \E k \in Keys : Remove(k) \/ \E v \in Values : Insert(k, v)

Spec == Init /\ [][Next]_vars
FairSpec == Spec /\ WF_vars(Work)
----------------------------------------------------------------------------
(* The buckets of a copy whose pairs wait for their turn.                  *)
Rest(i) == {p \in copies[i].from .. Len(copies[i].buckets) : copies[i].buckets[p] # None}

InHand(k)   == hand # None /\ hand.key = k
Waits(k, v) ==
    \E i \in DOMAIN copies : \E p \in Rest(i) :
        copies[i].buckets[p].key = k /\ copies[i].buckets[p].value = v

(* What the table stands for, also while pairs are in hand or in copies.   *)
Held     == {k \in Keys : InHand(k) \/ Holding(k) # {} \/ \E v \in Values : Waits(k, v)}
Value(k) ==
    IF InHand(k) THEN hand.value
    ELSE IF Holding(k) # {} THEN Get(k)
    ELSE CHOOSE v \in Values : Waits(k, v)
Contents == [k \in Held |-> Value(k)]

(* The table implements a map, call by call: an insertion puts its pair, a *)
(* removal removes its key, and nothing else that happens changes what     *)
(* hashtable_get_value finds, whatever pairs lose their buckets meanwhile, *)
(* and however often the table is filled again.                            *)
Map == INSTANCE KeyMap WITH map <- Contents
ImplementsMap ==
    /\ Map!Init
    /\ [][ \/ \E k \in Keys : Remove(k) /\ Map!Remove(k)
           \/ \E k \in Keys, v \in Values : Insert(k, v) /\ Map!Put(k, v)
           \/ Work /\ UNCHANGED Contents ]_vars

(* The search for a bucket leaves one out, and an assertion says that it   *)
(* finds another (table.c:217).  From ten buckets on it does.              *)
FindsABucket == pc = "nofit" => Cap < 10

(* A call ends, although a displaced pair displaces the next and a table   *)
(* that is filled again may be loaded again before it is full.  It may end *)
(* in an assertion.                                                        *)
CallsReturn == pc = "place" ~> pc \in {"idle", "nofit", "outgrown"}
=============================================================================
