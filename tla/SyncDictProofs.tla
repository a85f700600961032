---------------------------- MODULE SyncDictProofs ---------------------------
(***************************************************************************)
(* What holds of the synchronised dictionary for any number of clients and *)
(* strings, batches of any length and vectors of any capacity: the stack   *)
(* of free positions is exact, what was inserted stays found, a listing     *)
(* that has not read memory given back shows what is there, and the         *)
(* entries, the index and the lock together implement StringDict.          *)
(***************************************************************************)
EXTENDS SyncDict, SequenceTheorems, FunctionTheorems, FiniteSetTheorems, TLAPS

(* The stack `free` holds the unused positions of the entries `con`.        *)
Exact(con, free) ==
  /\ IsInjective(free)
  /\ ToSet(free) = {i \in 0 .. Len(con) - 1 : con[i + 1] = Free}

(* A client amid an insert, one amid it that has a new string to store, and *)
(* one amid a listing.                                                      *)
Inserting(c) == pc[c] \in {"insert", "move", "extend", "store"}
Filling(c)   == pc[c] \in {"move", "extend", "store"}
Listing(c)   == pc[c] \in {"list", "entry", "text"}

(* A client amid an insert holds the lock.  The entries it has to add fit   *)
(* into the memory of the vector, and a position that it claimed is in use, *)
(* without text, until the client stores its string.                       *)
Held ==
  /\ \A c \in Clients : Inserting(c) => lock = c /\ Len(known[c]) = Len(batch[c])
  /\ \A c \in Clients : Filling(c) => batch[c] # <<>> /\ Head(batch[c]) \in Strings
  /\ \A c \in Clients : pc[c] \in {"move", "extend"} => Len(contents) + more[c] <= cap
  /\ \A c \in Clients : pc[c] = "store" => slot[c] \in Ids /\ contents[slot[c] + 1] = Blank

HasPair(s, i) == \E e \in index : e.key = s /\ e.id = i

(* Of the strings that are never removed, the index and the entries say the *)
(* same.                                                                   *)
IndexKept ==
  /\ \A e \in index : e.key \in Kept =>
        ~e.stale /\ e.id \in Ids /\ contents[e.id + 1] = e.key
  /\ \A e, f \in index : e.key = f.key /\ e.key \in Kept => e.id = f.id
  /\ \A i \in Ids : contents[i + 1] \in Kept => HasPair(contents[i + 1], i)

(* What the calls have found out and given away is in the index; a string   *)
(* that a client is about to store is not.                                 *)
PairsKept ==
  /\ \A g \in got : g[1] \in Kept => HasPair(g[1], g[2])
  /\ \A c \in Clients :
       /\ \A g \in ids[c] : g[1] \in Kept => HasPair(g[1], g[2])
       /\ \A l \in seen[c] : l[1] \in Kept => HasPair(l[1], l[2])
       /\ Inserting(c) => \A i \in 1 .. Len(batch[c]) :
            batch[c][i] \in Kept /\ known[c][i] # NotFound => HasPair(batch[c][i], known[c][i])
       /\ Filling(c) /\ Head(batch[c]) \in Kept => \A e \in index : e.key # Head(batch[c])

(* A listing is at an entry of the vector, and what was there when it began *)
(* is in the index and, behind it, among what it has shown.                 *)
Walks ==
  \A c \in Clients :
    /\ ~Listing(c) => pos[c] = 0
    /\ pc[c] \in {"entry", "text"} => pos[c] \in Ids
    /\ \A g \in before[c] : g[1] \in Kept =>
         HasPair(g[1], g[2]) /\ (~fooled[c] /\ g[2] < pos[c] => g \in seen[c])

IInv == TypeOK /\ FreelistExact /\ Held /\ IndexKept /\ PairsKept /\ Walks

-----------------------------------------------------------------------------
(* What the model is built from.                                           *)
LEMMA GrownGrows == ASSUME NEW n \in Nat PROVE Grown(n) \in Nat /\ Grown(n) > n
  BY DEF Grown

(* A set of identifiers as a sequence: each of them once.                   *)
LEMMA SetAsSeq ==
  ASSUME NEW I, IsFiniteSet(I)
  PROVE  /\ SetToSeq(I) \in Seq(I) /\ IsInjective(SetToSeq(I))
         /\ ToSet(SetToSeq(I)) = I
<1> DEFINE n == Cardinality(I)
<1>1. n \in Nat /\ Bijection(1 .. n, I) # {}
  BY FS_CardinalityType, Fun_ExistsBij
<1>2. PICK f : f \in Bijection(1 .. n, I)
  BY <1>1
<1>3. f \in [1 .. n -> I] /\ IsInjective(f)
  BY <1>2 DEF Bijection, Injection
<1>4. SetToSeq(I) \in [1 .. n -> I] /\ IsInjective(SetToSeq(I))
  BY <1>3 DEF SetToSeq
<1> DEFINE q == SetToSeq(I)
<1>5. q \in Injection(1 .. n, I)
  BY <1>4 DEF Injection
<1>6. Cardinality(1 .. n) = n
  BY <1>1, FS_Interval
<1>7. q \in Surjection(1 .. n, I)
  BY <1>5, <1>6, FS_Injection
<1>8. \A x \in I : \E k \in 1 .. n : q[k] = x
  BY <1>7 DEF Surjection
<1>9. q \in Seq(I)
  BY <1>1, <1>4, SeqDef
<1>10. ToSet(q) = I
  BY <1>4, <1>8 DEF ToSet
<1>11. QED
  BY <1>4, <1>9, <1>10

(* A sequence without its end.                                              *)
LEMMA Prefix ==
  ASSUME NEW free \in Seq(Nat), NEW k \in Nat, k <= Len(free)
  PROVE  /\ SubSeq(free, 1, k) \in Seq(Nat) /\ Len(SubSeq(free, 1, k)) = k
         /\ \A i \in 1 .. k : SubSeq(free, 1, k)[i] = free[i]
<1>1. SubSeq(free, 1, k) \in Seq(Nat)
  OBVIOUS
<1>2. Len(SubSeq(free, 1, k)) = k
  OBVIOUS
<1>3. \A i \in 1 .. k : SubSeq(free, 1, k)[i] = free[i]
  OBVIOUS
<1>4. QED
  BY <1>1, <1>2, <1>3

(* freelist_pop of a stack that is not empty.                               *)
LEMMA PopExact ==
  ASSUME NEW con \in Seq(Entries), NEW free \in Seq(Nat), Exact(con, free), free # <<>>,
         Free # Blank
  PROVE  /\ Last(free) \in 0 .. Len(con) - 1 /\ con[Last(free) + 1] = Free
         /\ Front(free) \in Seq(Nat)
         /\ [con EXCEPT ![Last(free) + 1] = Blank] \in Seq(Entries)
         /\ Exact([con EXCEPT ![Last(free) + 1] = Blank], Front(free))
<1> DEFINE n == Len(free)
           p == Last(free)
           new == [con EXCEPT ![p + 1] = Blank]
<1>0. n \in Nat /\ n >= 1
  BY EmptySeq
<1>1. n \in 1 .. n /\ DOMAIN free = 1 .. n /\ Len(con) \in Nat /\ DOMAIN con = 1 .. Len(con)
  BY <1>0, LenProperties
<1>2. p \in ToSet(free) /\ p \in Nat
  BY <1>1 DEF Last, ToSet
<1>3. p \in 0 .. Len(con) - 1 /\ con[p + 1] = Free
  BY <1>2 DEF Exact
<1>4. /\ Front(free) \in Seq(Nat) /\ Len(Front(free)) = n - 1
      /\ \A i \in 1 .. n - 1 : Front(free)[i] = free[i]
  <2>1. n - 1 \in Nat /\ n - 1 <= Len(free) /\ Front(free) = SubSeq(free, 1, n - 1)
    BY <1>0 DEF Front
  <2> DEFINE k == n - 1
  <2> HIDE DEF n, k
  <2>2. k \in Nat /\ k <= Len(free) /\ Front(free) = SubSeq(free, 1, k)
    BY <2>1 DEF k
  <2>3. /\ SubSeq(free, 1, k) \in Seq(Nat) /\ Len(SubSeq(free, 1, k)) = k
        /\ \A i \in 1 .. k : SubSeq(free, 1, k)[i] = free[i]
    BY <2>2, Prefix
  <2>4. QED
    BY <2>2, <2>3 DEF k
<1>5. DOMAIN Front(free) = 1 .. n - 1
  BY <1>4, LenProperties
<1> HIDE DEF n
<1>0a. \A i \in 1 .. n - 1 : i \in 1 .. n /\ i # n
  BY <1>0
<1>0b. \A i \in 1 .. n : i # n => i \in 1 .. n - 1
  BY <1>0
<1>6. IsInjective(Front(free))
  BY <1>0a, <1>1, <1>4, <1>5 DEF IsInjective, Exact
<1>7. ToSet(Front(free)) = ToSet(free) \ {p}
  <2>1. p = free[n]
    BY DEF Last, n
  <2>2. ASSUME NEW i \in 1 .. n - 1 PROVE free[i] # p
    BY <1>0a, <1>1, <2>1 DEF Exact, IsInjective
  <2>3. ToSet(Front(free)) = {free[i] : i \in 1 .. n - 1}
    BY <1>4, <1>5 DEF ToSet
  <2>4. ToSet(free) = {free[i] : i \in 1 .. n}
    BY <1>1 DEF ToSet
  <2> HIDE DEF p
  <2>5. QED
    BY <1>0a, <1>0b, <1>1, <2>1, <2>2, <2>3, <2>4
<1>8. /\ new \in Seq(Entries) /\ Len(new) = Len(con)
      /\ \A j \in 1 .. Len(con) : new[j] = IF j = p + 1 THEN Blank ELSE con[j]
  <2>1. p + 1 \in 1 .. Len(con) /\ Blank \in Entries
    BY <1>1, <1>3 DEF Entries
  <2>2. QED
    BY <2>1, ExceptSeq
<1>9. {i \in 0 .. Len(new) - 1 : new[i + 1] = Free} = {i \in 0 .. Len(con) - 1 : con[i + 1] = Free} \ {p}
  <2>1. \A i \in 0 .. Len(con) - 1 : i + 1 \in 1 .. Len(con) /\ (i + 1 = p + 1 <=> i = p)
    BY <1>1, <1>2
  <2>2. QED
    BY <1>1, <1>8, <2>1
<1>10. QED
  BY <1>3, <1>4, <1>6, <1>7, <1>8, <1>9 DEF Exact

(* A position that growth adds.                                             *)
LEMMA ExtendExact ==
  ASSUME NEW con \in Seq(Entries), NEW free \in Seq(Nat), Exact(con, free)
  PROVE  /\ Append(con, Free) \in Seq(Entries) /\ Append(free, Len(con)) \in Seq(Nat)
         /\ Len(Append(con, Free)) = Len(con) + 1 /\ Append(con, Free)[Len(con) + 1] = Free
         /\ \A i \in 1 .. Len(con) : Append(con, Free)[i] = con[i]
         /\ Exact(Append(con, Free), Append(free, Len(con)))
<1> DEFINE n == Len(con)
           m == Len(free)
           all == Append(con, Free)
           new == Append(free, n)
<1>1. n \in Nat /\ m \in Nat /\ DOMAIN free = 1 .. m
  OBVIOUS
<1>2. /\ all \in Seq(Entries) /\ Len(all) = n + 1 /\ all[n + 1] = Free
      /\ \A i \in 1 .. n : all[i] = con[i]
  <2>1. Free \in Entries
    BY DEF Entries
  <2>2. QED
    BY <2>1, AppendProperties
<1>3. /\ new \in Seq(Nat) /\ Len(new) = m + 1 /\ new[m + 1] = n
      /\ \A i \in 1 .. m : new[i] = free[i]
  BY <1>1, AppendProperties
<1>4. DOMAIN new = 1 .. m + 1
  BY <1>3, LenProperties
<1> HIDE DEF all, new, n, m
<1>5. \A x \in ToSet(free) : x \in 0 .. n - 1 /\ x # n
  BY <1>1 DEF Exact, n
<1>6. \A i \in 1 .. m : new[i] \in ToSet(free)
  BY <1>1, <1>3 DEF ToSet
<1>7. IsInjective(new)
  <2> SUFFICES ASSUME NEW a \in 1 .. m + 1, NEW b \in 1 .. m + 1, new[a] = new[b] PROVE a = b
    BY <1>4 DEF IsInjective
  <2>1. CASE a \in 1 .. m /\ b \in 1 .. m
    BY <1>1, <1>3, <2>1 DEF Exact, IsInjective
  <2>2. CASE a = m + 1 \/ b = m + 1
    BY <1>1, <1>3, <1>5, <1>6, <2>2
  <2>3. QED
    BY <1>1, <2>1, <2>2
<1>8. ToSet(new) = ToSet(free) \cup {n}
  <2>1. \A x \in ToSet(free) : \E i \in 1 .. m + 1 : new[i] = x
    <3>1. \A x \in ToSet(free) : \E i \in 1 .. m : free[i] = x
      BY <1>1 DEF ToSet
    <3>2. QED
      BY <1>1, <1>3, <3>1
  <2>2. \A i \in 1 .. m + 1 : new[i] \in ToSet(free) \cup {n}
    BY <1>1, <1>3, <1>6
  <2>3. m + 1 \in 1 .. m + 1
    BY <1>1
  <2>4. QED
    BY <1>3, <1>4, <2>1, <2>2, <2>3 DEF ToSet
<1>9. {i \in 0 .. Len(all) - 1 : all[i + 1] = Free} = {i \in 0 .. n - 1 : con[i + 1] = Free} \cup {n}
  <2>1. 0 .. Len(all) - 1 = (0 .. n - 1) \cup {n}
    BY <1>1, <1>2
  <2>2. \A i \in 0 .. n - 1 : i + 1 \in 1 .. n
    BY <1>1
  <2>3. QED
    BY <1>2, <2>1, <2>2
<1>10. Exact(all, new)
  BY <1>7, <1>8, <1>9 DEF Exact, n
<1>11. QED
  BY <1>2, <1>3, <1>10 DEF all, new, n

(* The positions that removal pushes.                                       *)
LEMMA PushExact ==
  ASSUME NEW con \in Seq(Entries), NEW free \in Seq(Nat), Exact(con, free),
         NEW I \in SUBSET (0 .. Len(con) - 1), \A i \in I : con[i + 1] # Free
  PROVE  LET new == [k \in DOMAIN con |-> IF k - 1 \in I THEN Free ELSE con[k]]
         IN  /\ new \in Seq(Entries) /\ Len(new) = Len(con)
             /\ free \o SetToSeq(I) \in Seq(Nat)
             /\ Exact(new, free \o SetToSeq(I))
<1> DEFINE n == Len(con)
           m == Len(free)
           new == [k \in DOMAIN con |-> IF k - 1 \in I THEN Free ELSE con[k]]
           q == SetToSeq(I)
           r == Len(q)
<1>1. n \in Nat /\ m \in Nat /\ DOMAIN con = 1 .. n /\ DOMAIN free = 1 .. m
  OBVIOUS
<1>2. IsFiniteSet(I)
  <2>1. IsFiniteSet(0 .. n - 1)
    BY <1>1, FS_Interval
  <2>2. QED
    BY <2>1, FS_Subset
<1>3. q \in Seq(I) /\ IsInjective(q) /\ ToSet(q) = I /\ I \subseteq Nat
  BY <1>1, <1>2, SetAsSeq
<1>4. q \in Seq(Nat) /\ r \in Nat /\ DOMAIN q = 1 .. r
  BY <1>3, SeqMonotonic, LenProperties
<1>5. new \in Seq(Entries) /\ Len(new) = n
  <2>1. new \in [1 .. n -> Entries]
    BY <1>1, LenProperties DEF Entries
  <2>2. QED
    BY <1>1, <2>1, SeqDef
<1>6. /\ free \o q \in Seq(Nat) /\ Len(free \o q) = m + r
      /\ \A i \in 1 .. m + r : (free \o q)[i] = IF i <= m THEN free[i] ELSE q[i - m]
  BY <1>4, ConcatProperties
<1>7. DOMAIN (free \o q) = 1 .. m + r
  BY <1>6, LenProperties
<1>8. ToSet(free) \cap I = {}
  BY DEF Exact
<1>9. \A i \in 1 .. m : i \in 1 .. m + r /\ (free \o q)[i] = free[i] /\ free[i] \in ToSet(free)
  <2>1. \A i \in 1 .. m : i \in 1 .. m + r /\ i <= m
    BY <1>1, <1>4
  <2>2. \A i \in 1 .. m : free[i] \in ToSet(free)
    BY <1>1 DEF ToSet
  <2>3. QED
    BY <1>6, <2>1, <2>2
<1>10. \A i \in 1 .. m + r : i \notin 1 .. m => /\ i - m \in 1 .. r
                                            /\ (free \o q)[i] = q[i - m] /\ q[i - m] \in I
  BY <1>1, <1>3, <1>4, <1>6 DEF ToSet
<1>11. IsInjective(free \o q)
  <2> SUFFICES ASSUME NEW a \in 1 .. m + r, NEW b \in 1 .. m + r, (free \o q)[a] = (free \o q)[b]
               PROVE  a = b
    BY <1>7 DEF IsInjective
  <2>1. CASE a \in 1 .. m /\ b \in 1 .. m
    BY <1>1, <1>9, <2>1 DEF Exact, IsInjective
  <2>2. CASE a \notin 1 .. m /\ b \notin 1 .. m
    <3>1. a - m = b - m
      BY <1>3, <1>4, <1>10, <2>2 DEF IsInjective
    <3>2. QED
      BY <1>1, <1>4, <3>1
  <2>3. QED
    BY <1>8, <1>9, <1>10, <2>1, <2>2
<1>12. ToSet(free \o q) = ToSet(free) \cup I
  <2>1. \A x \in ToSet(free) : \E i \in 1 .. m + r : (free \o q)[i] = x
    BY <1>1, <1>9 DEF ToSet
  <2>2. ASSUME NEW x \in I PROVE \E i \in 1 .. m + r : (free \o q)[i] = x
    <3>1. PICK k \in 1 .. r : q[k] = x
      BY <1>3, <1>4 DEF ToSet
    <3>2. m + k \in 1 .. m + r /\ ~(m + k <= m) /\ (m + k) - m = k
      BY <1>1, <1>4
    <3>3. QED
      BY <1>6, <3>1, <3>2
  <2>3. \A i \in 1 .. m + r : (free \o q)[i] \in ToSet(free) \cup I
    BY <1>9, <1>10
  <2>4. QED
    BY <1>7, <2>1, <2>2, <2>3 DEF ToSet
<1>13. {i \in 0 .. n - 1 : new[i + 1] = Free} = {i \in 0 .. n - 1 : con[i + 1] = Free} \cup I
  <2>1. \A i \in 0 .. n - 1 : new[i + 1] = IF i \in I THEN Free ELSE con[i + 1]
    BY <1>1
  <2>2. QED
    BY <2>1
<1>14. QED
  BY <1>5, <1>6, <1>11, <1>12, <1>13 DEF Exact

-----------------------------------------------------------------------------
(* What a lookup answers.                                                  *)
LEMMA FoundTypes ==
  ASSUME TypeOK, NEW s PROVE Found(s) \subseteq Nat \cup {NotFound}
  BY DEF TypeOK, Found, NullId, NotFound

LEMMA FoundKept ==
  ASSUME TypeOK, IndexKept, NEW s \in Kept
  PROVE  /\ \A i : HasPair(s, i) => Found(s) = {i}
         /\ (\A e \in index : e.key # s) => Found(s) = {NotFound}
         /\ \A i \in Found(s) : i # NotFound => HasPair(s, i)
         /\ NotFound \in Found(s) => \A e \in index : e.key # s
<1>1. s # Null
  BY DictAssumption DEF Kept
<1>2. \A e \in index : e.key = s => ~e.stale /\ e.id # NotFound
  BY DEF IndexKept, TypeOK, NotFound
<1>3. Found(s) = {e.id : e \in {x \in index : x.key = s}}
                   \cup IF \E e \in index : e.key = s /\ ~e.stale THEN {} ELSE {NotFound}
  BY <1>1 DEF Found
<1>4. ASSUME NEW i, HasPair(s, i) PROVE Found(s) = {i}
  <2>1. \A e \in index : e.key = s => e.id = i
    BY <1>4 DEF HasPair, IndexKept
  <2>2. QED
    BY <1>2, <1>3, <1>4, <2>1 DEF HasPair
<1>5. \A i \in Found(s) : i # NotFound => HasPair(s, i)
  BY <1>3 DEF HasPair
<1>6. QED
  BY <1>2, <1>3, <1>4, <1>5

(* Steps that leave the dictionary alone.                                  *)
LEMMA DictStays ==
  ASSUME FreelistExact, IndexKept, UNCHANGED dictvars
  PROVE  /\ FreelistExact' /\ IndexKept'
         /\ \A s, i : HasPair(s, i)' <=> HasPair(s, i)
<1> USE DEF dictvars
<1>1. Ids' = Ids
  BY DEF Ids
<1>2. \A s, i : HasPair(s, i)' <=> HasPair(s, i)
  BY DEF HasPair
<1>3. FreelistExact'
  BY <1>1 DEF FreelistExact
<1>4. QED
  BY <1>1, <1>2, <1>3 DEF IndexKept

(* Steps that leave the listings alone.                                    *)
LEMMA WalksStay ==
  ASSUME TypeOK, Walks, UNCHANGED <<pos, seen, before, fooled>>,
         Ids \subseteq Ids', \A s, i : HasPair(s, i) => HasPair(s, i)',
         \A c \in Clients : (Listing(c) => Listing(c)') /\ (pc'[c] \in {"entry", "text"} => pc'[c] = pc[c])
  PROVE  Walks'
<1> SUFFICES ASSUME NEW c \in Clients
             PROVE  /\ ~Listing(c)' => pos'[c] = 0
                    /\ pc'[c] \in {"entry", "text"} => pos'[c] \in Ids'
                    /\ \A g \in before'[c] : g[1] \in Kept =>
                         HasPair(g[1], g[2])' /\ (~fooled'[c] /\ g[2] < pos'[c] => g \in seen'[c])
  BY DEF Walks
<1>1. QED
  BY DEF Walks

-----------------------------------------------------------------------------
LEMMA BatchTypes ==
  ASSUME NEW b \in Batches
  PROVE  b \in Seq(Strings \cup {Null}) /\ Len(b) \in Nat /\ DOMAIN b = 1 .. Len(b)
<1>1. PICK n \in 1 .. MaxBatch : b \in [1 .. n -> Strings \cup {Null}]
  BY DEF Batches
<1>2. n \in Nat
  BY <1>1, DictAssumption
<1>3. b \in Seq(Strings \cup {Null})
  BY <1>1, <1>2, SeqDef
<1>4. QED
  BY <1>3, LenProperties

LEMMA Beginning ==
  ASSUME IInv, NEW c \in Clients, NEW b \in Batches, InsertBegin(c, b) PROVE IInv'
<1> USE DEF IInv
<1>0. /\ lock = Null /\ lock' = c /\ pc[c] = "idle" /\ pc' = [pc EXCEPT ![c] = "insert"]
      /\ calls[c] < MaxCalls[c] /\ calls' = [calls EXCEPT ![c] = @ + 1]
      /\ batch' = [batch EXCEPT ![c] = b] /\ ids' = [ids EXCEPT ![c] = {}]
      /\ UNCHANGED <<dictvars, slot, more, listvars, got>>
  BY DEF InsertBegin, Goto
<1>1. PICK k \in [1 .. Len(b) -> Ids \cup {NotFound}] :
        (\A i \in 1 .. Len(b) : k[i] \in Found(b[i])) /\ known' = [known EXCEPT ![c] = k]
  BY DEF InsertBegin
<1>2. b \in Seq(Strings \cup {Null}) /\ Len(b) \in Nat
  BY BatchTypes
<1>3. k \in Seq(Nat \cup {NotFound}) /\ Len(k) = Len(b)
  <2>1. Ids \subseteq Nat
    BY DEF Ids, TypeOK
  <2>2. k \in [1 .. Len(b) -> Nat \cup {NotFound}]
    BY <1>1, <2>1
  <2>3. QED
    BY <1>2, <2>2, SeqDef
<1>4. TypeOK'
  <2>1. calls' \in [Clients -> Nat]
    BY <1>0, DictAssumption DEF TypeOK
  <2>2. QED
    BY <1>0, <1>1, <1>2, <1>3, <2>1 DEF TypeOK, dictvars, listvars
<1>5. FreelistExact' /\ IndexKept' /\ (\A s, i : HasPair(s, i)' <=> HasPair(s, i))
  BY <1>0, DictStays
<1>6. \A d \in Clients : d # c => ~Inserting(d)
  BY <1>0, DictAssumption DEF Held
<1>7. \A d \in Clients : d # c => pc'[d] = pc[d] /\ ~Inserting(d)' /\ ~Filling(d)'
  BY <1>0, <1>6 DEF TypeOK, Inserting, Filling
<1>8. pc'[c] = "insert" /\ batch'[c] = b /\ known'[c] = k /\ ids'[c] = {}
  BY <1>0, <1>1 DEF TypeOK
<1>9. Held'
  BY <1>0, <1>3, <1>7, <1>8 DEF Held, Inserting, Filling
<1>10. \A i \in 1 .. Len(b) : b[i] \in Kept /\ k[i] # NotFound => HasPair(b[i], k[i])
  BY <1>1, FoundKept
<1>11. PairsKept'
  <2>1. \A g \in got' : g[1] \in Kept => HasPair(g[1], g[2])'
    BY <1>0, <1>5 DEF PairsKept
  <2>2. ASSUME NEW d \in Clients
        PROVE  /\ \A g \in ids'[d] : g[1] \in Kept => HasPair(g[1], g[2])'
               /\ \A l \in seen'[d] : l[1] \in Kept => HasPair(l[1], l[2])'
    BY <1>0, <1>5, <1>8 DEF PairsKept, TypeOK, listvars
  <2>3. QED
    BY <1>5, <1>7, <1>8, <1>10, <2>1, <2>2 DEF PairsKept, Filling
<1>12. Walks'
  <2>1. Ids' = Ids
    BY <1>0 DEF Ids, dictvars
  <2>2. \A d \in Clients : (Listing(d) => Listing(d)') /\ (pc'[d] \in {"entry", "text"} => pc'[d] = pc[d])
    BY <1>0, <1>7, <1>8 DEF Listing
  <2>3. QED
    BY <1>0, <1>5, <2>1, <2>2, WalksStay DEF listvars
<1>13. QED
  BY <1>4, <1>5, <1>9, <1>11, <1>12

(* A string of the batch is dealt with.                                    *)
LEMMA Rest ==
  ASSUME NEW S, NEW q \in Seq(S), q # <<>>
  PROVE  /\ Head(q) \in S /\ Head(q) = q[1] /\ 1 \in 1 .. Len(q)
         /\ Tail(q) \in Seq(S) /\ Len(Tail(q)) = Len(q) - 1
         /\ \A i \in 1 .. Len(Tail(q)) : i + 1 \in 1 .. Len(q) /\ Tail(q)[i] = q[i + 1]
  OBVIOUS

LEMMA Knowing ==
  ASSUME IInv, NEW c \in Clients, Known(c) PROVE IInv'
<1> USE DEF IInv
<1> DEFINE s == Head(batch[c])
<1>0. /\ pc[c] = "insert" /\ batch[c] # <<>>
      /\ batch' = [batch EXCEPT ![c] = Tail(@)] /\ known' = [known EXCEPT ![c] = Tail(@)]
      /\ UNCHANGED <<dictvars, slot, more, calls, listvars, lock, pc, got>>
  BY DEF Known
<1>1. PICK i \in IF Head(known[c]) # NotFound THEN {Head(known[c])} ELSE Found(s) \ {NotFound} :
        ids' = [ids EXCEPT ![c] = @ \cup {<<s, i>>}]
  BY DEF Known
<1>2. /\ batch[c] \in Seq(Strings \cup {Null}) /\ known[c] \in Seq(Nat \cup {NotFound})
      /\ Len(known[c]) = Len(batch[c]) /\ Len(batch[c]) \in Nat \ {0}
  <2>1. batch[c] \in Seq(Strings \cup {Null}) /\ known[c] \in Seq(Nat \cup {NotFound})
    BY DEF TypeOK
  <2>2. Len(batch[c]) \in Nat \ {0}
    BY <1>0, <2>1, EmptySeq
  <2>3. QED
    BY <1>0, <2>1, <2>2 DEF Held, Inserting
<1>3. known[c] # <<>>
  BY <1>2
<1>4. s \in Strings \cup {Null} /\ i \in Nat
  <2>1. s \in Strings \cup {Null}
    BY <1>0, <1>2, Rest
  <2>2. Head(known[c]) \in Nat \cup {NotFound}
    BY <1>2, <1>3, Rest
  <2>3. QED
    BY <1>1, <2>1, <2>2, FoundTypes
<1>5. TypeOK'
  <2>1. Tail(batch[c]) \in Seq(Strings \cup {Null}) /\ Tail(known[c]) \in Seq(Nat \cup {NotFound})
    BY <1>0, <1>2, <1>3, Rest
  <2>2. <<s, i>> \in (Strings \cup {Null}) \X Nat
    BY <1>4
  <2> HIDE DEF s
  <2>3. QED
    BY <1>0, <1>1, <2>1, <2>2 DEF TypeOK, dictvars, listvars
<1>6. FreelistExact' /\ IndexKept' /\ (\A t, j : HasPair(t, j)' <=> HasPair(t, j))
  BY <1>0, DictStays
<1>7. s \in Kept => HasPair(s, i)
  <2>1. CASE Head(known[c]) # NotFound
    <3>1. i = known[c][1] /\ s = batch[c][1] /\ 1 \in 1 .. Len(batch[c])
      BY <1>0, <1>1, <1>2, <1>3, <2>1, Rest
    <3>2. QED
      BY <1>0, <1>2, <1>3, <2>1, <3>1, Rest DEF PairsKept, Inserting
  <2>2. CASE Head(known[c]) = NotFound
    BY <1>1, <2>2, FoundKept
  <2>3. QED
    BY <2>1, <2>2
<1>8. /\ batch'[c] = Tail(batch[c]) /\ known'[c] = Tail(known[c])
      /\ ids'[c] = ids[c] \cup {<<s, i>>}
      /\ \A d \in Clients : d # c => batch'[d] = batch[d] /\ known'[d] = known[d] /\ ids'[d] = ids[d]
  BY <1>0, <1>1 DEF TypeOK
<1>9. Len(Tail(known[c])) = Len(Tail(batch[c]))
  BY <1>0, <1>2, <1>3, Rest
<1>10. Held'
  <2>1. UNCHANGED <<pc, lock, slot, more, contents, cap>> /\ Ids' = Ids
    BY <1>0 DEF dictvars, Ids
  <2>2. ASSUME NEW d \in Clients, Inserting(d)'
        PROVE  lock' = d /\ Len(known'[d]) = Len(batch'[d])
    <3>1. Inserting(d)
      BY <2>1, <2>2 DEF Inserting
    <3>2. CASE d = c
      BY <1>0, <1>8, <1>9, <2>1, <3>1, <3>2 DEF Held
    <3>3. CASE d # c
      BY <1>8, <2>1, <3>1, <3>3 DEF Held
    <3>4. QED
      BY <3>2, <3>3
  <2>3. ASSUME NEW d \in Clients, Filling(d)'
        PROVE  batch'[d] # <<>> /\ Head(batch'[d]) \in Strings
    <3>1. d # c /\ Filling(d)
      BY <1>0, <2>1, <2>3 DEF Filling
    <3>2. QED
      BY <1>8, <3>1 DEF Held
  <2>4. QED
    BY <2>1, <2>2, <2>3 DEF Held
<1>11. \A j \in 1 .. Len(Tail(batch[c])) :
         Tail(batch[c])[j] \in Kept /\ Tail(known[c])[j] # NotFound =>
           HasPair(Tail(batch[c])[j], Tail(known[c])[j])
  <2>1. \A j \in 1 .. Len(Tail(batch[c])) :
          /\ j + 1 \in 1 .. Len(batch[c])
          /\ Tail(batch[c])[j] = batch[c][j + 1] /\ Tail(known[c])[j] = known[c][j + 1]
    BY <1>0, <1>2, <1>3, <1>9, Rest
  <2>2. QED
    BY <1>0, <2>1 DEF PairsKept, Inserting
<1>12. PairsKept'
  <2>1. UNCHANGED <<got, seen, pc>>
    BY <1>0 DEF listvars
  <2>2. \A g \in ids'[c] : g[1] \in Kept => HasPair(g[1], g[2])
    <3> HIDE DEF s
    <3>1. QED
      BY <1>7, <1>8 DEF PairsKept
  <2>3. ~Filling(c)
    BY <1>0 DEF Filling
  <2>4. \A g \in got' : g[1] \in Kept => HasPair(g[1], g[2])'
    BY <1>6, <2>1 DEF PairsKept
  <2>5. ASSUME NEW d \in Clients
        PROVE  /\ \A g \in ids'[d] : g[1] \in Kept => HasPair(g[1], g[2])'
               /\ \A l \in seen'[d] : l[1] \in Kept => HasPair(l[1], l[2])'
    BY <1>6, <1>8, <2>1, <2>2 DEF PairsKept
  <2>6. ASSUME NEW d \in Clients, Inserting(d)', NEW j \in 1 .. Len(batch'[d]),
               batch'[d][j] \in Kept, known'[d][j] # NotFound
        PROVE  HasPair(batch'[d][j], known'[d][j])
    <3>1. CASE d = c
      <4>1. batch'[d] = Tail(batch[c]) /\ known'[d] = Tail(known[c])
        BY <1>8, <3>1
      <4> HIDE DEF s
      <4>2. QED
        BY <1>11, <2>6, <4>1
    <3>2. CASE d # c
      <4>1. batch'[d] = batch[d] /\ known'[d] = known[d] /\ Inserting(d)
        BY <1>8, <2>1, <2>6, <3>2 DEF Inserting
      <4> HIDE DEF s
      <4>2. QED
        BY <2>6, <4>1 DEF PairsKept
    <3>3. QED
      BY <3>1, <3>2
  <2>7. ASSUME NEW d \in Clients, Filling(d)', Head(batch'[d]) \in Kept
        PROVE  \A e \in index : e.key # Head(batch'[d])
    <3>1. Filling(d)
      BY <2>1, <2>7 DEF Filling
    <3>2. QED
      BY <1>8, <2>3, <2>7, <3>1 DEF PairsKept
  <2>8. index' = index
    BY <1>0 DEF dictvars
  <2>9. QED
    BY <1>6, <2>4, <2>5, <2>6, <2>7, <2>8 DEF PairsKept
<1>13. Walks'
  <2>1. Ids' = Ids
    BY <1>0 DEF Ids, dictvars
  <2>2. QED
    BY <1>0, <1>6, <2>1, WalksStay DEF listvars, Listing
<1>14. QED
  BY <1>5, <1>6, <1>10, <1>12, <1>13

(* No string that is kept changes its place, comes or goes.                 *)
KeptStay ==
  /\ \A i \in Ids : contents[i + 1] \in Kept => i \in Ids' /\ contents'[i + 1] = contents[i + 1]
  /\ \A i \in Ids' : contents'[i + 1] \in Kept => i \in Ids /\ contents'[i + 1] = contents[i + 1]

(* A client that has a string to store and whose places change: the others  *)
(* are outside the lock.                                                    *)
LEMMA Alone ==
  ASSUME TypeOK, Held, NEW c \in Clients, Inserting(c), NEW p, p \in {"move", "extend", "store"},
         pc' = [pc EXCEPT ![c] = p]
  PROVE  /\ lock = c /\ pc'[c] = p /\ Inserting(c)' /\ Filling(c)'
         /\ \A d \in Clients : d # c => pc'[d] = pc[d] /\ ~Inserting(d)' /\ ~Filling(d)'
         /\ \A d \in Clients :
              (Listing(d) => Listing(d)') /\ (pc'[d] \in {"entry", "text"} => pc'[d] = pc[d])
<1>1. lock = c /\ \A d \in Clients : d # c => ~Inserting(d)
  BY DEF Held
<1>2. pc'[c] = p /\ \A d \in Clients : d # c => pc'[d] = pc[d]
  BY DEF TypeOK
<1>3. ~Listing(c)
  BY DEF Listing, Inserting
<1>4. QED
  BY <1>1, <1>2, <1>3 DEF Inserting, Filling, Listing

(* The head of a batch that is found nowhere can be stored.                 *)
LEMMA NewStrings ==
  ASSUME IInv, NEW c \in Clients, IsNew(c)
  PROVE  /\ batch[c] # <<>> /\ Head(batch[c]) \in Strings
         /\ Head(batch[c]) \in Kept => \A e \in index : e.key # Head(batch[c])
<1> USE DEF IInv
<1>1. batch[c] # <<>> /\ NotFound \in Found(Head(batch[c]))
  BY DEF IsNew
<1>2. Head(batch[c]) \in Strings
  <2>1. Head(batch[c]) \in Strings \cup {Null}
    BY <1>1, Rest DEF TypeOK
  <2>2. Head(batch[c]) # Null
    BY <1>1 DEF Found, NotFound, NullId
  <2>3. QED
    BY <2>1, <2>2
<1>3. QED
  BY <1>1, <1>2, FoundKept

(* Both vectors get the memory for the positions to be added.               *)
LEMMA Growing ==
  ASSUME IInv, NEW c \in Clients, Grow(c) PROVE IInv' /\ KeptStay
<1> USE DEF IInv
<1>1. /\ IsNew(c) /\ freecap' = Grown(freecap) /\ cap' = Grown(cap)
      /\ more' = [more EXCEPT ![c] = freecap' - freecap]
      /\ UNCHANGED <<contents, freelist, index, batch, known, ids, slot, calls,
                     pos, seen, before, fooled, lock, got>>
  BY DEF Grow
<1>2. PICK p \in {"move", "extend"} : pc[c] = "insert" /\ pc' = [pc EXCEPT ![c] = p]
  BY DEF Grow, Goto
<1>3. dangling' \in [Clients -> BOOLEAN]
  BY DEF Grow, TypeOK
<1>4. /\ lock = c /\ pc'[c] = p /\ Inserting(c)' /\ Filling(c)'
      /\ \A d \in Clients : d # c => pc'[d] = pc[d] /\ ~Inserting(d)' /\ ~Filling(d)'
      /\ \A d \in Clients :
           (Listing(d) => Listing(d)') /\ (pc'[d] \in {"entry", "text"} => pc'[d] = pc[d])
  BY <1>2, Alone DEF Inserting
<1>5. /\ cap \in Nat /\ cap = freecap /\ Len(contents) \in Nat /\ Len(contents) <= cap
      /\ cap' \in Nat /\ cap' > cap /\ cap' = freecap' /\ cap' - cap \in Nat
  <2>1. cap \in Nat /\ cap = freecap /\ Len(contents) \in Nat /\ Len(contents) <= cap
    BY DEF TypeOK, FreelistExact
  <2>2. Grown(cap) \in Nat /\ Grown(cap) > cap
    BY <2>1, GrownGrows
  <2>3. QED
    BY <1>1, <2>1, <2>2
<1>6. Ids' = Ids /\ \A s, i : HasPair(s, i)' <=> HasPair(s, i)
  BY <1>1 DEF Ids, HasPair
<1>7. TypeOK'
  <2>1. pc' \in [Clients -> {"idle", "insert", "move", "extend", "store", "list", "entry", "text"}]
    BY <1>2 DEF TypeOK
  <2>2. more' \in [Clients -> Nat]
    BY <1>1, <1>5 DEF TypeOK
  <2>3. QED
    BY <1>1, <1>3, <1>5, <2>1, <2>2 DEF TypeOK
<1>8. FreelistExact'
  BY <1>1, <1>5, <1>6 DEF FreelistExact
<1>9. Held'
  <2>1. Len(known[c]) = Len(batch[c])
    BY <1>2 DEF Held, Inserting
  <2>2. more'[c] = cap' - cap
    BY <1>1, <1>5 DEF TypeOK
  <2>3. Len(contents) + more'[c] <= cap'
    BY <1>5, <2>2
  <2>4. batch[c] # <<>> /\ Head(batch[c]) \in Strings
    BY <1>1, NewStrings
  <2>5. \A d \in Clients : Inserting(d)' \/ Filling(d)' \/ pc'[d] \in {"move", "extend", "store"} => d = c
    BY <1>4 DEF Filling
  <2>6. QED
    BY <1>1, <1>2, <1>4, <2>1, <2>3, <2>4, <2>5 DEF Held
<1>10. IndexKept'
  BY <1>1, <1>6 DEF IndexKept
<1>11. PairsKept'
  BY <1>1, <1>2, <1>4, <1>6, NewStrings DEF PairsKept, Inserting
<1>12. Walks'
  BY <1>1, <1>4, <1>6, WalksStay
<1>13. KeptStay
  BY <1>1, <1>6 DEF KeptStay
<1>14. QED
  BY <1>7, <1>8, <1>9, <1>10, <1>11, <1>12, <1>13

LEMMA StoringBase ==
  ASSUME IInv, NEW c \in Clients, StoreBase(c) PROVE IInv'
<1> USE DEF IInv
<1>1. /\ pc[c] = "move" /\ pc' = [pc EXCEPT ![c] = "extend"]
      /\ UNCHANGED <<dictvars, callvars, listvars, lock, got>>
  BY DEF StoreBase, Goto
<1>2. /\ lock = c /\ pc'[c] = "extend" /\ Inserting(c)' /\ Filling(c)'
      /\ \A d \in Clients : d # c => pc'[d] = pc[d] /\ ~Inserting(d)' /\ ~Filling(d)'
      /\ \A d \in Clients :
           (Listing(d) => Listing(d)') /\ (pc'[d] \in {"entry", "text"} => pc'[d] = pc[d])
  BY <1>1, Alone DEF Inserting
<1>3. FreelistExact' /\ IndexKept' /\ (\A s, i : HasPair(s, i)' <=> HasPair(s, i)) /\ Ids' = Ids
  BY <1>1, DictStays DEF Ids, dictvars
<1>4. TypeOK'
  BY <1>1 DEF TypeOK, dictvars, callvars, listvars
<1>5. Inserting(c) /\ Filling(c)
  BY <1>1 DEF Inserting, Filling
<1>6. Held'
  <2>1. \A d \in Clients : Inserting(d)' \/ Filling(d)' \/ pc'[d] \in {"move", "extend", "store"} => d = c
    BY <1>2 DEF Filling
  <2>2. QED
    BY <1>1, <1>2, <1>5, <2>1 DEF Held, dictvars, callvars
<1>7. PairsKept'
  BY <1>1, <1>2, <1>3, <1>5 DEF PairsKept, dictvars, callvars, listvars
<1>8. Walks'
  BY <1>1, <1>2, <1>3, WalksStay DEF listvars
<1>9. QED
  BY <1>3, <1>4, <1>6, <1>7, <1>8

LEMMA Extending ==
  ASSUME IInv, NEW c \in Clients, Extend(c) PROVE IInv' /\ KeptStay
<1> USE DEF IInv
<1> DEFINE n == Len(contents)
<1>1. /\ pc[c] = "extend" /\ more[c] > 0
      /\ freelist' = Append(freelist, n) /\ contents' = Append(contents, Free)
      /\ more' = [more EXCEPT ![c] = @ - 1]
      /\ UNCHANGED <<cap, freecap, index, batch, known, ids, slot, calls, listvars, lock, pc, got>>
  BY DEF Extend
<1>2. /\ contents \in Seq(Entries) /\ freelist \in Seq(Nat) /\ n \in Nat
      /\ cap \in Nat /\ cap = freecap /\ more[c] \in Nat /\ Exact(contents, freelist)
  BY DEF TypeOK, FreelistExact, Exact, Ids
<1>3. /\ contents' \in Seq(Entries) /\ freelist' \in Seq(Nat) /\ Len(contents') = n + 1
      /\ contents'[n + 1] = Free /\ (\A i \in 1 .. n : contents'[i] = contents[i])
      /\ Exact(contents', freelist')
  BY <1>1, <1>2, ExtendExact
<1>4. Inserting(c) /\ Filling(c) /\ lock = c /\ n + more[c] <= cap
      /\ \A d \in Clients : d # c => ~Inserting(d) /\ ~Filling(d)
  BY <1>1 DEF Held, Inserting, Filling
<1>5. more'[c] = more[c] - 1 /\ more' \in [Clients -> Nat]
  BY <1>1, <1>2 DEF TypeOK
<1>6. n + 1 + more'[c] <= cap /\ n + 1 <= cap
  BY <1>1, <1>2, <1>4, <1>5
<1>7. /\ Ids' = Ids \cup {n} /\ (\A i \in Ids : i + 1 \in 1 .. n /\ contents'[i + 1] = contents[i + 1])
      /\ \A i \in Ids' : i \in Ids \/ contents'[i + 1] = Free
  <2>1. Ids = 0 .. n - 1 /\ Ids' = 0 .. n
    BY <1>2, <1>3 DEF Ids
  <2>2. Ids' = Ids \cup {n} /\ \A i \in Ids : i + 1 \in 1 .. n
    BY <1>2, <2>1
  <2> HIDE DEF n
  <2>3. QED
    BY <1>3, <2>2
<1> HIDE DEF n
<1>8. \A s, i : HasPair(s, i)' <=> HasPair(s, i)
  BY <1>1 DEF HasPair
<1>9. TypeOK'
  BY <1>1, <1>3, <1>5 DEF TypeOK, listvars
<1>10. FreelistExact'
  BY <1>1, <1>2, <1>3, <1>6 DEF FreelistExact, Exact, Ids
<1>11. Held'
  <2>1. \A d \in Clients : (Inserting(d)' <=> Inserting(d)) /\ (Filling(d)' <=> Filling(d))
    BY <1>1 DEF Inserting, Filling
  <2>2. \A d \in Clients : pc'[d] \in {"move", "extend", "store"} => d = c
    BY <1>1, <1>4 DEF Filling
  <2>3. Len(contents') + more'[c] <= cap'
    BY <1>1, <1>3, <1>6
  <2>4. pc'[c] # "store"
    BY <1>1
  <2>5. UNCHANGED <<lock, known, batch>>
    BY <1>1
  <2>6. QED
    BY <2>1, <2>2, <2>3, <2>4, <2>5 DEF Held
<1>12. Free \notin Kept
  BY DictAssumption DEF Kept
<1>13. KeptStay
  BY <1>7, <1>12 DEF KeptStay
<1>14. IndexKept'
  <2>1. index' = index
    BY <1>1
  <2>2. \A i \in Ids' : contents'[i + 1] \in Kept => HasPair(contents'[i + 1], i)
    BY <1>7, <1>12 DEF IndexKept
  <2>3. \A e \in index : e.key \in Kept => ~e.stale /\ e.id \in Ids' /\ contents'[e.id + 1] = e.key
    BY <1>7 DEF IndexKept
  <2>4. QED
    BY <1>8, <2>1, <2>2, <2>3 DEF IndexKept
<1>15. PairsKept'
  <2>1. \A d \in Clients : (Inserting(d)' <=> Inserting(d)) /\ (Filling(d)' <=> Filling(d))
    BY <1>1 DEF Inserting, Filling
  <2>2. QED
    BY <1>1, <1>8, <2>1 DEF PairsKept, listvars
<1>16. Walks'
  BY <1>1, <1>7, <1>8, WalksStay DEF listvars, Listing
<1>17. QED
  BY <1>9, <1>10, <1>11, <1>13, <1>14, <1>15, <1>16

(* The entry the stack gives away gets a client that is going to fill it.   *)
LEMMA Claiming ==
  ASSUME IInv, NEW c \in Clients, Claim(c) PROVE IInv' /\ KeptStay
<1> USE DEF IInv
<1> DEFINE n == Len(contents)
           p == Last(freelist)
           s == Head(batch[c])
<1>1. /\ freelist # <<>> /\ slot' = [slot EXCEPT ![c] = p]
      /\ freelist' = Front(freelist) /\ contents' = [contents EXCEPT ![p + 1] = Blank]
      /\ pc' = [pc EXCEPT ![c] = "store"]
      /\ UNCHANGED <<cap, freecap, index, batch, known, ids, more, calls, listvars, lock, got>>
  BY DEF Claim, Goto
<1>2. (pc[c] = "insert" /\ IsNew(c)) \/ pc[c] = "extend"
  BY DEF Claim, Goto
<1>3. Inserting(c)
  BY <1>2 DEF Inserting
<1>4. /\ batch[c] # <<>> /\ s \in Strings
      /\ s \in Kept => \A e \in index : e.key # s
  <2>1. CASE pc[c] = "insert" /\ IsNew(c)
    BY <2>1, NewStrings
  <2>2. CASE pc[c] = "extend"
    BY <2>2 DEF Filling, Held, PairsKept
  <2>3. QED
    BY <1>2, <2>1, <2>2
<1>5. /\ lock = c /\ pc'[c] = "store" /\ Inserting(c)' /\ Filling(c)'
      /\ \A d \in Clients : d # c => pc'[d] = pc[d] /\ ~Inserting(d)' /\ ~Filling(d)'
      /\ \A d \in Clients :
           (Listing(d) => Listing(d)') /\ (pc'[d] \in {"entry", "text"} => pc'[d] = pc[d])
  BY <1>1, <1>3, Alone
<1>6. /\ contents \in Seq(Entries) /\ freelist \in Seq(Nat) /\ n \in Nat /\ DOMAIN contents = 1 .. n
      /\ Exact(contents, freelist)
  BY DEF TypeOK, FreelistExact, Exact, Ids
<1>7. /\ p \in 0 .. n - 1 /\ contents[p + 1] = Free
      /\ freelist' \in Seq(Nat) /\ contents' \in Seq(Entries) /\ Exact(contents', freelist')
  BY <1>1, <1>6, DictAssumption, PopExact
<1>8. p \in Nat /\ p \in Ids /\ p + 1 \in 1 .. n
  BY <1>6, <1>7 DEF Ids
<1>9. /\ Len(contents') = n /\ Ids' = Ids
      /\ \A j \in 1 .. n : contents'[j] = IF j = p + 1 THEN Blank ELSE contents[j]
  <2>1. /\ Len(contents') = n
        /\ \A j \in 1 .. n : contents'[j] = IF j = p + 1 THEN Blank ELSE contents[j]
    <3>1. Blank \in Entries
      BY DEF Entries
    <3>2. QED
      BY <1>1, <1>6, <1>8, <3>1, ExceptSeq
  <2>2. QED
    BY <2>1 DEF Ids
<1> HIDE DEF p, s
<1>10. \A i \in Ids : i + 1 \in 1 .. n /\ contents'[i + 1] = IF i = p THEN Blank ELSE contents[i + 1]
  <2>1. \A i \in Ids : i \in Int /\ i + 1 \in 1 .. n
    BY <1>6 DEF Ids
  <2>2. \A i \in Ids : i + 1 = p + 1 <=> i = p
    BY <1>8, <2>1
  <2>3. QED
    BY <1>9, <2>1, <2>2
<1> HIDE DEF n
<1>11. \A x, i : HasPair(x, i)' <=> HasPair(x, i)
  BY <1>1 DEF HasPair
<1>12. TypeOK'
  BY <1>1, <1>7, <1>8 DEF TypeOK, listvars
<1>13. FreelistExact'
  <2>1. cap' = freecap' /\ Len(contents') <= cap'
    BY <1>1, <1>9 DEF FreelistExact, n
  <2>2. QED
    BY <1>7, <2>1 DEF FreelistExact, Exact, Ids
<1>14. Held'
  <2>1. Len(known'[c]) = Len(batch'[c]) /\ lock' = c
    BY <1>1, <1>3, <1>5 DEF Held
  <2>2. slot'[c] = p /\ p \in Ids' /\ contents'[p + 1] = Blank
    BY <1>1, <1>8, <1>9 DEF TypeOK
  <2>3. batch'[c] # <<>> /\ Head(batch'[c]) \in Strings
    BY <1>1, <1>4 DEF s
  <2>4. \A d \in Clients : Inserting(d)' \/ Filling(d)' \/ pc'[d] \in {"move", "extend", "store"} => d = c
    BY <1>5 DEF Filling
  <2>5. QED
    BY <1>5, <2>1, <2>2, <2>3, <2>4 DEF Held
<1>15. \A i \in Ids : contents'[i + 1] \in Kept \/ contents[i + 1] \in Kept => contents'[i + 1] = contents[i + 1]
  <2>1. Blank \notin Kept /\ Free \notin Kept
    BY DictAssumption DEF Kept
  <2>2. QED
    BY <1>7, <1>10, <2>1
<1>16. KeptStay
  BY <1>9, <1>15 DEF KeptStay
<1>17. IndexKept'
  <2>1. index' = index
    BY <1>1
  <2>2. \A i \in Ids' : contents'[i + 1] \in Kept => HasPair(contents'[i + 1], i)
    BY <1>9, <1>15 DEF IndexKept
  <2>3. \A e \in index : e.key \in Kept => ~e.stale /\ e.id \in Ids' /\ contents'[e.id + 1] = e.key
    BY <1>9, <1>15 DEF IndexKept
  <2>4. QED
    BY <1>11, <2>1, <2>2, <2>3 DEF IndexKept
<1>18. PairsKept'
  <2>1. UNCHANGED <<index, batch, known, ids, seen, got>>
    BY <1>1 DEF listvars
  <2>2. \A d \in Clients : Inserting(d)' \/ Filling(d)' => d = c
    BY <1>5
  <2>3. QED
    BY <1>3, <1>4, <1>11, <2>1, <2>2 DEF PairsKept, s
<1>19. Walks'
  BY <1>1, <1>5, <1>9, <1>11, WalksStay DEF listvars
<1>20. QED
  BY <1>12, <1>13, <1>14, <1>16, <1>17, <1>18, <1>19

(* The string and its index entry appear together.                         *)
LEMMA Storing ==
  ASSUME IInv, NEW c \in Clients, Store(c)
  PROVE  /\ IInv'
         /\ slot[c] \in Ids /\ contents[slot[c] + 1] = Blank
         /\ Head(batch[c]) \in Strings /\ Ids' = Ids
         /\ contents' = [contents EXCEPT ![slot[c] + 1] = Head(batch[c])]
         /\ Head(batch[c]) \in Kept => \A i \in Ids : contents[i + 1] # Head(batch[c])
<1> USE DEF IInv
<1> DEFINE s == Head(batch[c])
           p == slot[c]
           n == Len(contents)
           After(t, i) == \E e \in index' : e.key = t /\ e.id = i
<1>0. /\ pc[c] = "store" /\ pc' = [pc EXCEPT ![c] = "insert"]
      /\ contents' = [contents EXCEPT ![p + 1] = s]
      /\ ids' = [ids EXCEPT ![c] = @ \cup {<<s, p>>}]
      /\ batch' = [batch EXCEPT ![c] = Tail(@)] /\ known' = [known EXCEPT ![c] = Tail(@)]
      /\ slot' = [slot EXCEPT ![c] = NotFound]
      /\ UNCHANGED <<freelist, cap, freecap, more, calls, listvars, lock, got>>
  BY DEF Store, Goto
<1>1. PICK f \in Found(s) : PutExact(s, p, f)
  BY DEF Store
<1>2. batch[c] # <<>> /\ s \in Strings /\ p \in Ids /\ contents[p + 1] = Blank /\ lock = c
  BY <1>0 DEF Held, Inserting, Filling
<1>3. contents \in Seq(Entries) /\ n \in Nat /\ p \in 0 .. n - 1 /\ p \in Nat /\ p + 1 \in 1 .. n
  BY <1>2 DEF TypeOK, Ids
<1>4. s \in Entries /\ s # Free /\ s # Blank
  BY <1>2, DictAssumption DEF Entries
<1>5. /\ contents' \in Seq(Entries) /\ Len(contents') = n /\ Ids' = Ids
      /\ \A j \in 1 .. n : contents'[j] = IF j = p + 1 THEN s ELSE contents[j]
  <2>1. /\ contents' \in Seq(Entries) /\ Len(contents') = n
        /\ \A j \in 1 .. n : contents'[j] = IF j = p + 1 THEN s ELSE contents[j]
    BY <1>0, <1>3, <1>4, ExceptSeq
  <2>2. QED
    BY <2>1 DEF Ids
<1>5a. \A i \in Ids : i + 1 \in 1 .. n /\ contents'[i + 1] = IF i = p THEN s ELSE contents[i + 1]
  <2>1. \A i \in Ids : i \in Int /\ i + 1 \in 1 .. n
    BY <1>3 DEF Ids
  <2>2. \A i \in Ids : i + 1 = p + 1 <=> i = p
    BY <1>3, <2>1
  <2>3. QED
    BY <1>5, <2>1, <2>2
<1>6. /\ batch[c] \in Seq(Strings \cup {Null}) /\ known[c] \in Seq(Nat \cup {NotFound})
      /\ Len(known[c]) = Len(batch[c]) /\ Len(batch[c]) \in Nat \ {0}
  <2>1. batch[c] \in Seq(Strings \cup {Null}) /\ known[c] \in Seq(Nat \cup {NotFound})
    BY DEF TypeOK
  <2>2. Len(batch[c]) \in Nat \ {0}
    BY <1>2, <2>1, EmptySeq
  <2>3. QED
    BY <1>0, <2>1, <2>2 DEF Held, Inserting
<1>7. known[c] # <<>>
  BY <1>6
<1>8. /\ batch'[c] = Tail(batch[c]) /\ known'[c] = Tail(known[c])
      /\ ids'[c] = ids[c] \cup {<<s, p>>}
      /\ \A d \in Clients : d # c => batch'[d] = batch[d] /\ known'[d] = known[d] /\ ids'[d] = ids[d]
      /\ pc'[c] = "insert" /\ \A d \in Clients : d # c => pc'[d] = pc[d]
  BY <1>0 DEF TypeOK
<1>9. /\ \A d \in Clients : d # c => ~Inserting(d) /\ ~Inserting(d)' /\ ~Filling(d)'
      /\ Inserting(c)' /\ ~Filling(c)'
  <2>1. \A d \in Clients : d # c => ~Inserting(d)
    BY <1>2 DEF Held
  <2>2. QED
    BY <1>8, <2>1 DEF Inserting, Filling
<1>10. /\ index \subseteq index'
       /\ \A e \in index' : e \in index \/ e = [key |-> s, id |-> p, stale |-> FALSE]
  BY <1>1 DEF PutExact
<1>11. s \in Kept => (\A e \in index : e.key # s) /\ [key |-> s, id |-> p, stale |-> FALSE] \in index'
  <2> SUFFICES ASSUME s \in Kept
               PROVE  (\A e \in index : e.key # s) /\ [key |-> s, id |-> p, stale |-> FALSE] \in index'
    OBVIOUS
  <2>1. \A e \in index : e.key # s
    BY <1>0 DEF PairsKept, Filling
  <2>2. f = NotFound
    BY <2>1, FoundKept
  <2>3. QED
    BY <1>1, <2>1, <2>2 DEF PutExact
<1>12. \A t, i : HasPair(t, i) => After(t, i)
  BY <1>10 DEF HasPair
<1>13. s \in Kept => After(s, p)
  <2> SUFFICES ASSUME s \in Kept PROVE After(s, p)
    OBVIOUS
  <2> HIDE DEF s, p
  <2>1. QED
    BY <1>11
<1>14. TypeOK'
  <2>1. Tail(batch[c]) \in Seq(Strings \cup {Null}) /\ Tail(known[c]) \in Seq(Nat \cup {NotFound})
    BY <1>2, <1>6, <1>7, Rest
  <2> HIDE DEF s, p
  <2>2. <<s, p>> \in (Strings \cup {Null}) \X Nat
    BY <1>2, <1>3
  <2>3. index' \subseteq [key : Strings, id : Nat, stale : BOOLEAN]
    <3>1. [key |-> s, id |-> p, stale |-> FALSE] \in [key : Strings, id : Nat, stale : BOOLEAN]
      BY <1>2, <1>3
    <3>2. index \subseteq [key : Strings, id : Nat, stale : BOOLEAN]
      BY DEF TypeOK
    <3>3. QED
      BY <1>10, <3>1, <3>2
  <2>4. QED
    BY <1>0, <1>5, <2>1, <2>2, <2>3 DEF TypeOK, listvars
<1>15. FreelistExact'
  <2>1. Free # Blank
    BY DictAssumption
  <2>2. {i \in Ids' : contents'[i + 1] = Free} = {i \in Ids : contents[i + 1] = Free}
    <3> HIDE DEF s, p
    <3>1. \A i \in Ids : contents'[i + 1] = Free <=> contents[i + 1] = Free
      BY <1>2, <1>4, <1>5a, <2>1
    <3>2. QED
      BY <1>5, <3>1
  <2>3. UNCHANGED <<freelist, cap, freecap>>
    BY <1>0
  <2>4. QED
    BY <1>5, <2>2, <2>3 DEF FreelistExact
<1>16. Held'
  <2>1. Len(Tail(known[c])) = Len(Tail(batch[c]))
    BY <1>2, <1>6, <1>7, Rest
  <2>2. lock' = lock
    BY <1>0
  <2>3. QED
    BY <1>2, <1>8, <1>9, <2>1, <2>2 DEF Held, Filling
<1>17. IndexKept'
  <2> HIDE DEF s, p
  <2>1. ASSUME NEW e \in index', e.key \in Kept
        PROVE  ~e.stale /\ e.id \in Ids' /\ contents'[e.id + 1] = e.key
    <3>1. CASE e \in index
      <4>1. ~e.stale /\ e.id \in Ids /\ contents[e.id + 1] = e.key
        BY <2>1, <3>1 DEF IndexKept
      <4>2. e.key # Blank
        BY <2>1, DictAssumption DEF Kept
      <4>3. e.id # p
        BY <1>2, <4>1, <4>2
      <4>4. QED
        BY <1>5, <1>5a, <4>1, <4>3
    <3>2. CASE e = [key |-> s, id |-> p, stale |-> FALSE]
      BY <1>2, <1>5, <1>5a, <3>2
    <3>3. QED
      BY <1>10, <3>1, <3>2
  <2>2. ASSUME NEW e \in index', NEW g \in index', e.key = g.key, e.key \in Kept PROVE e.id = g.id
    BY <1>10, <1>11, <2>2 DEF IndexKept
  <2>3. ASSUME NEW i \in Ids', contents'[i + 1] \in Kept PROVE After(contents'[i + 1], i)
    <3>1. CASE i = p
      BY <1>2, <1>5, <1>5a, <1>13, <2>3, <3>1
    <3>2. CASE i # p
      BY <1>5, <1>5a, <1>12, <2>3, <3>2 DEF IndexKept
    <3>3. QED
      BY <3>1, <3>2
  <2>4. QED
    BY <2>1, <2>2, <2>3 DEF IndexKept, HasPair
<1>18. PairsKept'
  <2>1. UNCHANGED <<got, seen>>
    BY <1>0 DEF listvars
  <2>2. \A g \in got' : g[1] \in Kept => After(g[1], g[2])
    BY <1>12, <2>1 DEF PairsKept
  <2>3. \A g \in ids'[c] : g[1] \in Kept => After(g[1], g[2])
    <3> HIDE DEF s, p
    <3>1. \A g \in ids[c] : g[1] \in Kept => After(g[1], g[2])
      BY <1>12 DEF PairsKept
    <3>2. QED
      BY <1>8, <1>13, <3>1
  <2>4. ASSUME NEW d \in Clients
        PROVE  /\ \A g \in ids'[d] : g[1] \in Kept => After(g[1], g[2])
               /\ \A l \in seen'[d] : l[1] \in Kept => After(l[1], l[2])
    BY <1>8, <1>12, <2>1, <2>3 DEF PairsKept
  <2>5. \A j \in 1 .. Len(Tail(batch[c])) :
          Tail(batch[c])[j] \in Kept /\ Tail(known[c])[j] # NotFound =>
            After(Tail(batch[c])[j], Tail(known[c])[j])
    <3>1. \A j \in 1 .. Len(Tail(batch[c])) :
            /\ j + 1 \in 1 .. Len(batch[c])
            /\ Tail(batch[c])[j] = batch[c][j + 1] /\ Tail(known[c])[j] = known[c][j + 1]
      BY <1>2, <1>6, <1>7, Rest
    <3>2. \A j \in 1 .. Len(Tail(batch[c])) :
            Tail(batch[c])[j] \in Kept /\ Tail(known[c])[j] # NotFound =>
              HasPair(Tail(batch[c])[j], Tail(known[c])[j])
      BY <1>0, <3>1 DEF PairsKept, Inserting
    <3> HIDE DEF After
    <3>3. QED
      BY <1>12, <3>2
  <2>6. ASSUME NEW d \in Clients, Inserting(d)'
        PROVE  /\ d = c
               /\ \A j \in 1 .. Len(batch'[d]) :
                    batch'[d][j] \in Kept /\ known'[d][j] # NotFound =>
                      After(batch'[d][j], known'[d][j])
    <3>1. d = c
      BY <1>8, <1>9, <2>6
    <3>2. batch'[d] = Tail(batch[c]) /\ known'[d] = Tail(known[c])
      BY <1>8, <3>1
    <3> HIDE DEF After
    <3>3. QED
      BY <2>5, <3>1, <3>2
  <2>7. \A d \in Clients : ~Filling(d)'
    BY <1>9
  <2>8. QED
    BY <2>2, <2>4, <2>6, <2>7 DEF PairsKept, HasPair
<1>19. s \in Kept => \A i \in Ids : contents[i + 1] # s
  BY <1>11 DEF IndexKept, HasPair
<1>20. Walks'
  <2>1. \A d \in Clients : (Listing(d) => Listing(d)') /\ (pc'[d] \in {"entry", "text"} => pc'[d] = pc[d])
    BY <1>0, <1>8 DEF Listing
  <2>2. \A t, i : HasPair(t, i) => HasPair(t, i)'
    BY <1>12 DEF HasPair
  <2> HIDE DEF s, p
  <2>3. QED
    BY <1>0, <1>5, <2>1, <2>2, WalksStay DEF listvars
<1>21. QED
  BY <1>0, <1>2, <1>5, <1>14, <1>15, <1>16, <1>17, <1>18, <1>19, <1>20

LEMMA Ending ==
  ASSUME IInv, NEW c \in Clients, InsertEnd(c) PROVE IInv'
<1> USE DEF IInv
<1>0. /\ pc[c] = "insert" /\ pc' = [pc EXCEPT ![c] = "idle"] /\ lock' = Null
      /\ got' = got \cup ids[c] /\ ids' = [ids EXCEPT ![c] = {}]
      /\ UNCHANGED <<dictvars, batch, known, slot, more, calls, listvars>>
  BY DEF InsertEnd, Goto
<1>1. TypeOK'
  BY <1>0 DEF TypeOK, dictvars, listvars
<1>2. FreelistExact' /\ IndexKept' /\ (\A s, i : HasPair(s, i)' <=> HasPair(s, i))
  BY <1>0, DictStays
<1>3. \A d \in Clients : ~Inserting(d)' /\ ~Filling(d)'
  <2>1. \A d \in Clients : Inserting(d) => d = c
    BY <1>0 DEF Held, Inserting
  <2>2. QED
    BY <1>0, <2>1 DEF TypeOK, Inserting, Filling
<1>4. Held'
  BY <1>3 DEF Held, Filling
<1>5. PairsKept'
  <2>1. \A g \in got' : g[1] \in Kept => HasPair(g[1], g[2])'
    BY <1>0, <1>2 DEF PairsKept
  <2>2. ASSUME NEW d \in Clients
        PROVE  /\ \A g \in ids'[d] : g[1] \in Kept => HasPair(g[1], g[2])'
               /\ \A l \in seen'[d] : l[1] \in Kept => HasPair(l[1], l[2])'
    BY <1>0, <1>2 DEF PairsKept, TypeOK, listvars
  <2>3. QED
    BY <1>3, <2>1, <2>2 DEF PairsKept
<1>6. Walks'
  <2>1. Ids' = Ids
    BY <1>0 DEF Ids, dictvars
  <2>2. \A d \in Clients : (Listing(d) => Listing(d)') /\ (pc'[d] \in {"entry", "text"} => pc'[d] = pc[d])
    BY <1>0 DEF TypeOK, Listing
  <2>3. QED
    BY <1>0, <1>2, <2>1, <2>2, WalksStay DEF listvars
<1>7. QED
  BY <1>1, <1>2, <1>4, <1>5, <1>6

(* Entries in removal are not those of a string that is kept.               *)
LEMMA Removing ==
  ASSUME IInv, NEW c \in Clients, NEW I \in SUBSET Ids, RemoveStrings(c, I)
  PROVE  /\ IInv' /\ Ids' = Ids
         /\ \A i \in Ids : IF i \in I THEN contents[i + 1] \notin Kept /\ contents'[i + 1] = Free
                           ELSE contents'[i + 1] = contents[i + 1]
<1> USE DEF IInv
<1> DEFINE n == Len(contents)
           After(t, i) == \E e \in index' : e.key = t /\ e.id = i
           Marked(e) == [e EXCEPT !.stale = @ \/ e.id \in I]
<1>0. /\ lock = Null /\ \A i \in I : contents[i + 1] \in Removable
      /\ contents' = [k \in DOMAIN contents |-> IF k - 1 \in I THEN Free ELSE contents[k]]
      /\ freelist' = freelist \o SetToSeq(I)
      /\ index' = {[e EXCEPT !.stale = @ \/ e.id \in I] : e \in index}
      /\ got' = {g \in got : g[2] \notin I}
      /\ UNCHANGED <<cap, freecap, callvars, listvars, lock, pc>>
  BY DEF RemoveStrings
<1>1. contents \in Seq(Entries) /\ freelist \in Seq(Nat) /\ n \in Nat /\ DOMAIN contents = 1 .. n
  BY DEF TypeOK
<1>2. \A i \in I : contents[i + 1] # Free /\ contents[i + 1] \notin Kept
  BY <1>0, DictAssumption DEF Kept
<1>3. Exact(contents, freelist)
  BY DEF FreelistExact, Exact, Ids
<1>4. /\ contents' \in Seq(Entries) /\ Len(contents') = n
      /\ freelist' \in Seq(Nat) /\ Exact(contents', freelist')
  BY <1>0, <1>1, <1>2, <1>3, PushExact DEF Ids
<1>5. Ids' = Ids
  BY <1>4 DEF Ids
<1>6. \A i \in Ids : contents'[i + 1] = IF i \in I THEN Free ELSE contents[i + 1]
  <2>1. \A i \in Ids : i + 1 \in DOMAIN contents /\ (i + 1) - 1 = i
    BY <1>1 DEF Ids
  <2>2. QED
    BY <1>0, <2>1
<1>7. FreelistExact'
  <2>1. cap' = cap /\ freecap' = freecap
    BY <1>0
  <2>2. QED
    BY <1>4, <2>1 DEF FreelistExact, Exact, Ids
<1>8. ASSUME NEW x \in index
      PROVE  /\ Marked(x) \in [key : Strings, id : Nat, stale : BOOLEAN]
             /\ Marked(x).key = x.key /\ Marked(x).id = x.id
             /\ ~x.stale /\ x.id \notin I => ~Marked(x).stale
  <2>1. x \in [key : Strings, id : Nat, stale : BOOLEAN]
    BY DEF TypeOK
  <2>2. QED
    BY <2>1
<1>8b. index' = {Marked(x) : x \in index}
  BY <1>0
<1> HIDE DEF Marked
<1>8a. /\ \A e \in index' : \E x \in index :
            e.key = x.key /\ e.id = x.id /\ (~x.stale /\ x.id \notin I => ~e.stale)
       /\ \A x \in index : \E e \in index' : e.key = x.key /\ e.id = x.id
  BY <1>8, <1>8b
<1>9. \A s, i : HasPair(s, i) <=> After(s, i)
  BY <1>8a DEF HasPair
<1>10. TypeOK'
  <2>1. index' \subseteq [key : Strings, id : Nat, stale : BOOLEAN]
    BY <1>8, <1>8b
  <2>2. QED
    BY <1>0, <1>4, <2>1 DEF TypeOK, callvars, listvars
<1>11. \A d \in Clients : ~Inserting(d)' /\ ~Filling(d)'
  <2>1. \A d \in Clients : ~Inserting(d)
    BY <1>0, DictAssumption DEF Held
  <2>2. QED
    BY <1>0, <2>1 DEF Inserting, Filling
<1>12. Held'
  BY <1>11 DEF Held, Filling
<1>13. IndexKept'
  <2>1. ASSUME NEW e \in index', e.key \in Kept
        PROVE  ~e.stale /\ e.id \in Ids' /\ contents'[e.id + 1] = e.key
    <3>1. PICK x \in index :
            e.key = x.key /\ e.id = x.id /\ (~x.stale /\ x.id \notin I => ~e.stale)
      BY <1>8a
    <3>2. ~x.stale /\ x.id \in Ids /\ contents[x.id + 1] = x.key
      BY <2>1, <3>1 DEF IndexKept
    <3>3. x.id \notin I
      BY <1>2, <2>1, <3>1, <3>2
    <3>4. QED
      BY <1>5, <1>6, <3>1, <3>2, <3>3
  <2>2. ASSUME NEW e \in index', NEW g \in index', e.key = g.key, e.key \in Kept PROVE e.id = g.id
    <3>1. PICK x \in index : e.key = x.key /\ e.id = x.id
      BY <1>8a
    <3>2. PICK y \in index : g.key = y.key /\ g.id = y.id
      BY <1>8a
    <3>3. QED
      BY <2>2, <3>1, <3>2 DEF IndexKept
  <2>3. ASSUME NEW i \in Ids', contents'[i + 1] \in Kept PROVE After(contents'[i + 1], i)
    <3>1. Free \notin Kept
      BY DictAssumption DEF Kept
    <3>2. contents'[i + 1] = contents[i + 1]
      BY <1>5, <1>6, <2>3, <3>1
    <3>3. HasPair(contents[i + 1], i)
      BY <1>5, <2>3, <3>2 DEF IndexKept
    <3>4. QED
      BY <1>9, <3>2, <3>3
  <2>4. QED
    BY <2>1, <2>2, <2>3 DEF IndexKept, HasPair
<1>14. PairsKept'
  <2>1. UNCHANGED <<ids, seen, pc>> /\ got' \subseteq got
    BY <1>0 DEF callvars, listvars
  <2>2. /\ \A g \in got' : g[1] \in Kept => After(g[1], g[2])
        /\ \A d \in Clients :
             /\ \A g \in ids[d] : g[1] \in Kept => After(g[1], g[2])
             /\ \A l \in seen[d] : l[1] \in Kept => After(l[1], l[2])
    BY <1>9, <2>1 DEF PairsKept
  <2>3. QED
    BY <1>11, <2>1, <2>2 DEF PairsKept, HasPair
<1>15. Walks'
  <2>1. \A s, i : HasPair(s, i) => HasPair(s, i)'
    BY <1>9 DEF HasPair
  <2>2. QED
    BY <1>0, <1>5, <2>1, WalksStay DEF listvars, Listing
<1>16. QED
  BY <1>2, <1>5, <1>6, <1>7, <1>10, <1>12, <1>13, <1>14, <1>15

(* The steps of a listing change nothing that belongs to the dictionary.    *)
LEMMA Aside ==
  ASSUME IInv, NEW c \in Clients, UNCHANGED <<dictvars, batch, known, ids, slot, more, lock, got>>,
         NEW p \in {"idle", "list", "entry", "text"}, ~Inserting(c), pc' = [pc EXCEPT ![c] = p],
         \A d \in Clients : \A l \in seen'[d] : l[1] \in Kept => HasPair(l[1], l[2])
  PROVE  /\ FreelistExact' /\ Held' /\ IndexKept' /\ PairsKept'
         /\ Ids' = Ids /\ (\A s, i : HasPair(s, i)' <=> HasPair(s, i))
         /\ pc' \in [Clients -> {"idle", "insert", "move", "extend", "store", "list", "entry", "text"}]
<1> USE DEF IInv
<1>1. FreelistExact' /\ IndexKept' /\ (\A s, i : HasPair(s, i)' <=> HasPair(s, i)) /\ Ids' = Ids
  BY DictStays DEF Ids, dictvars
<1>2. \A d \in Clients : Inserting(d)' => Inserting(d) /\ pc'[d] = pc[d]
  BY DEF TypeOK, Inserting
<1>3. \A d \in Clients : Filling(d)' => Filling(d) /\ Inserting(d)' /\ pc'[d] = pc[d]
  BY <1>2 DEF Inserting, Filling
<1>4. Held'
  <2>1. contents' = contents /\ cap' = cap
    BY DEF dictvars
  <2>2. \A d \in Clients : pc'[d] \in {"move", "extend", "store"} => pc'[d] = pc[d]
    BY <1>3 DEF Filling
  <2>3. QED
    BY <1>1, <1>2, <1>3, <2>1, <2>2 DEF Held
<1>5. PairsKept'
  BY <1>1, <1>2, <1>3 DEF PairsKept, dictvars
<1>6. QED
  BY <1>1, <1>4, <1>5 DEF TypeOK

LEMMA Starting ==
  ASSUME IInv, NEW c \in Clients, ListBegin(c) PROVE IInv'
<1> USE DEF IInv
<1>1. /\ pc[c] = "idle" /\ pc' = [pc EXCEPT ![c] = "list"] /\ calls' = [calls EXCEPT ![c] = @ + 1]
      /\ before' = [before EXCEPT ![c] = got]
      /\ UNCHANGED <<dictvars, batch, known, ids, slot, more, pos, seen, dangling, fooled, lock, got>>
  BY DEF ListBegin, Goto
<1>2. /\ FreelistExact' /\ Held' /\ IndexKept' /\ PairsKept'
      /\ Ids' = Ids /\ (\A s, i : HasPair(s, i)' <=> HasPair(s, i))
      /\ pc' \in [Clients -> {"idle", "insert", "move", "extend", "store", "list", "entry", "text"}]
  BY <1>1, Aside DEF Inserting, PairsKept
<1>3. TypeOK'
  <2>1. /\ before' \in [Clients -> SUBSET ((Strings \cup {Null}) \X Nat)]
        /\ calls' \in [Clients -> Nat]
    BY <1>1 DEF TypeOK
  <2>2. QED
    BY <1>1, <1>2, <2>1 DEF TypeOK, dictvars
<1>4. Walks'
  <2>1. pos[c] = 0
    BY <1>1 DEF Walks, Listing
  <2>2. ASSUME NEW g \in got, g[1] \in Kept PROVE HasPair(g[1], g[2])' /\ ~(g[2] < pos'[c])
    <3>1. g[2] \in Nat
      BY DEF TypeOK
    <3>2. QED
      BY <1>1, <1>2, <2>1, <2>2, <3>1 DEF PairsKept
  <2>3. /\ Listing(c)' /\ pc'[c] = "list" /\ before'[c] = got
        /\ \A d \in Clients : d # c => pc'[d] = pc[d] /\ before'[d] = before[d]
    BY <1>1 DEF TypeOK, Listing
  <2>4. QED
    BY <1>1, <1>2, <2>2, <2>3 DEF Walks, Listing
<1>5. QED
  BY <1>2, <1>3, <1>4

LEMMA Addressing ==
  ASSUME IInv, NEW c \in Clients, ListEntry(c) \/ InUse(c) PROVE IInv'
<1> USE DEF IInv
<1>1. PICK p \in {"entry", "text"} : pc' = [pc EXCEPT ![c] = p]
  BY DEF ListEntry, InUse, Goto
<1>2. /\ ~Inserting(c) /\ Listing(c)
      /\ UNCHANGED <<dictvars, callvars, pos, seen, before, lock, got>>
      /\ dangling' \in [Clients -> BOOLEAN] /\ fooled' \in [Clients -> BOOLEAN]
      /\ \A d \in Clients : fooled[d] => fooled'[d]
  BY DEF ListEntry, InUse, Goto, Inserting, Listing, TypeOK
<1>3. pos[c] \in Ids
  <2>1. CASE ListEntry(c)
    BY <2>1 DEF ListEntry, TypeOK, Ids
  <2>2. CASE InUse(c)
    BY <2>2 DEF InUse, Walks
  <2>3. QED
    BY <2>1, <2>2
<1>4. /\ FreelistExact' /\ Held' /\ IndexKept' /\ PairsKept'
      /\ Ids' = Ids /\ (\A s, i : HasPair(s, i)' <=> HasPair(s, i))
      /\ pc' \in [Clients -> {"idle", "insert", "move", "extend", "store", "list", "entry", "text"}]
  BY <1>1, <1>2, Aside DEF PairsKept, callvars
<1>5. TypeOK'
  BY <1>2, <1>4 DEF TypeOK, dictvars, callvars
<1>6. Walks'
  <2>1. pc'[c] = p /\ Listing(c)' /\ \A d \in Clients : d # c => pc'[d] = pc[d]
    BY <1>1 DEF TypeOK, Listing
  <2>2. QED
    BY <1>2, <1>3, <1>4, <2>1 DEF Walks, Listing
<1>7. QED
  BY <1>4, <1>5, <1>6

(* An entry is passed over or shown: if the listing has not read memory     *)
(* given back, a string that was there before is shown.                     *)
LEMMA Passing ==
  ASSUME IInv, NEW c \in Clients, Skip(c) \/ Show(c) PROVE IInv'
<1> USE DEF IInv
<1> DEFINE i == pos[c]
<1>1. /\ pc[c] \in {"entry", "text"} /\ pc' = [pc EXCEPT ![c] = "list"]
      /\ pos' = [pos EXCEPT ![c] = @ + 1]
      /\ fooled' = [fooled EXCEPT ![c] = @ \/ dangling[c]]
      /\ dangling' = [dangling EXCEPT ![c] = FALSE]
      /\ UNCHANGED <<dictvars, callvars, before, lock, got>>
  BY DEF Skip, Show, Looked, Goto
<1>2. i \in Ids /\ i \in Nat /\ i + 1 \in 1 .. Len(contents) /\ contents[i + 1] \in Entries
  <2>1. i \in Ids
    BY <1>1 DEF Walks
  <2>2. i \in Nat /\ i + 1 \in 1 .. Len(contents)
    BY <2>1 DEF Ids, TypeOK
  <2>3. QED
    BY <2>1, <2>2, ElementOfSeq DEF TypeOK
<1>3. Shown(c) \in (Strings \cup {Blank}) \X Nat
      /\ Shown(c) = IF contents[i + 1] = Free THEN <<Blank, i>> ELSE <<contents[i + 1], i>>
  BY <1>2 DEF Shown, Entries
<1>4. fooled'[c] = (fooled[c] \/ dangling[c]) /\ \A d \in Clients : d # c => fooled'[d] = fooled[d]
  BY <1>1 DEF TypeOK
<1>5. \/ /\ seen' = seen
         /\ ~fooled'[c] => contents[i + 1] = Free
      \/ seen' = [seen EXCEPT ![c] = @ \cup {Shown(c)}]
  BY <1>1, <1>4 DEF Skip, Show
<1> DEFINE P == (Strings \cup {Blank}) \X Nat
<1>6. /\ seen' \in [Clients -> SUBSET P]
      /\ \A d \in Clients : seen[d] \subseteq seen'[d]
      /\ \A d \in Clients : \A l \in seen'[d] : l \in seen[d] \/ l = Shown(c)
      /\ ~fooled'[c] => contents[i + 1] = Free \/ Shown(c) \in seen'[c]
  <2>1. seen \in [Clients -> SUBSET P]
    BY DEF TypeOK
  <2>2. Shown(c) \in P
    BY <1>3
  <2> HIDE DEF P, i
  <2>3. QED
    BY <1>5, <2>1, <2>2
<1> HIDE DEF P
<1>7. Shown(c)[1] \in Kept => HasPair(Shown(c)[1], Shown(c)[2])
  <2>1. Blank \notin Kept
    BY DictAssumption DEF Kept
  <2>2. QED
    BY <1>2, <1>3, <2>1 DEF IndexKept
<1>8. ~Inserting(c)
  BY <1>1 DEF Inserting
<1>9. \A d \in Clients : \A l \in seen'[d] : l[1] \in Kept => HasPair(l[1], l[2])
  BY <1>6, <1>7 DEF PairsKept
<1>10. /\ FreelistExact' /\ Held' /\ IndexKept' /\ PairsKept'
       /\ Ids' = Ids /\ (\A x, j : HasPair(x, j)' <=> HasPair(x, j))
       /\ pc' \in [Clients -> {"idle", "insert", "move", "extend", "store", "list", "entry", "text"}]
  BY <1>1, <1>8, <1>9, Aside DEF callvars
<1>11. TypeOK'
  <2>1. pos' \in [Clients -> Nat] /\ dangling' \in [Clients -> BOOLEAN] /\ fooled' \in [Clients -> BOOLEAN]
    BY <1>1 DEF TypeOK
  <2>2. QED
    BY <1>1, <1>6, <1>10, <2>1 DEF TypeOK, dictvars, callvars, P
<1>12. ASSUME NEW g \in before[c], g[1] \in Kept, ~fooled'[c], g[2] < i + 1 PROVE g \in seen'[c]
  <2>1. g[2] \in Nat /\ g = <<g[1], g[2]>> /\ HasPair(g[1], g[2])
    BY <1>12 DEF TypeOK, Walks
  <2>2. CASE g[2] < i
    BY <1>4, <1>6, <1>12, <2>2 DEF Walks
  <2>3. CASE g[2] = i
    <3>1. contents[i + 1] = g[1]
      BY <1>12, <2>1, <2>3 DEF HasPair, IndexKept
    <3>2. g[1] # Free
      BY <1>12, DictAssumption DEF Kept
    <3>3. Shown(c) = g
      BY <1>3, <2>1, <2>3, <3>1, <3>2
    <3>4. QED
      BY <1>6, <1>12, <3>1, <3>2, <3>3
  <2>4. QED
    BY <1>2, <1>12, <2>1, <2>2, <2>3
<1>13. Walks'
  <2>1. /\ pc'[c] = "list" /\ Listing(c)' /\ pos'[c] = i + 1
        /\ \A d \in Clients : d # c => pc'[d] = pc[d] /\ pos'[d] = pos[d] /\ fooled'[d] = fooled[d]
    BY <1>1 DEF TypeOK, Listing
  <2> HIDE DEF i
  <2>2. ASSUME NEW d \in Clients
        PROVE  /\ ~Listing(d)' => pos'[d] = 0
               /\ pc'[d] \in {"entry", "text"} => pos'[d] \in Ids'
               /\ \A g \in before'[d] : g[1] \in Kept =>
                    HasPair(g[1], g[2])' /\ (~fooled'[d] /\ g[2] < pos'[d] => g \in seen'[d])
    <3>1. CASE d = c
      <4>1. \A g \in before'[d] : g[1] \in Kept =>
              HasPair(g[1], g[2])' /\ (~fooled'[d] /\ g[2] < pos'[d] => g \in seen'[d])
        BY <1>1, <1>10, <1>12, <2>1, <3>1 DEF Walks
      <4>2. QED
        BY <2>1, <3>1, <4>1
    <3>2. CASE d # c
      BY <1>1, <1>6, <1>10, <2>1, <3>2 DEF Walks, Listing
    <3>3. QED
      BY <3>1, <3>2
  <2>3. QED
    BY <2>2 DEF Walks
<1>14. QED
  BY <1>10, <1>11, <1>13

LEMMA Stopping ==
  ASSUME IInv, NEW c \in Clients, ListEnd(c) PROVE IInv'
<1> USE DEF IInv
<1>1. /\ pc[c] = "list" /\ pc' = [pc EXCEPT ![c] = "idle"]
      /\ pos' = [pos EXCEPT ![c] = 0] /\ seen' = [seen EXCEPT ![c] = {}]
      /\ before' = [before EXCEPT ![c] = {}] /\ fooled' = [fooled EXCEPT ![c] = FALSE]
      /\ UNCHANGED <<dictvars, callvars, dangling, lock, got>>
  BY DEF ListEnd, Goto
<1>2. /\ pc'[c] = "idle" /\ pos'[c] = 0 /\ seen'[c] = {} /\ before'[c] = {}
      /\ \A d \in Clients : d # c =>
           /\ pc'[d] = pc[d] /\ pos'[d] = pos[d] /\ seen'[d] = seen[d]
           /\ before'[d] = before[d] /\ fooled'[d] = fooled[d]
  BY <1>1 DEF TypeOK
<1>3. /\ FreelistExact' /\ Held' /\ IndexKept' /\ PairsKept'
      /\ Ids' = Ids /\ (\A s, i : HasPair(s, i)' <=> HasPair(s, i))
      /\ pc' \in [Clients -> {"idle", "insert", "move", "extend", "store", "list", "entry", "text"}]
  <2>1. \A d \in Clients : \A l \in seen'[d] : l[1] \in Kept => HasPair(l[1], l[2])
    BY <1>2 DEF PairsKept
  <2>2. ~Inserting(c)
    BY <1>1 DEF Inserting
  <2>3. QED
    BY <1>1, <2>1, <2>2, Aside DEF callvars
<1>4. TypeOK'
  BY <1>1, <1>3 DEF TypeOK, dictvars, callvars
<1>5. Walks'
  BY <1>2, <1>3 DEF Walks, Listing
<1>6. QED
  BY <1>3, <1>4, <1>5

-----------------------------------------------------------------------------
LEMMA Created == Init => IInv
<1> SUFFICES ASSUME Init PROVE IInv
  OBVIOUS
<1> USE DEF Init
<1>1. InitCap \in Nat \ {0}
  BY DictAssumption
<1>2. contents \in Seq(Entries) /\ Len(contents) = InitCap /\ \A i \in 1 .. InitCap : contents[i] = Free
  <2>1. contents \in [1 .. InitCap -> Entries] /\ \A i \in 1 .. InitCap : contents[i] = Free
    BY DEF Entries
  <2>2. contents \in Seq(Entries)
    BY ONLY <1>1, <2>1, SeqDef
  <2>3. DOMAIN contents = 1 .. Len(contents) /\ Len(contents) \in Nat
    BY ONLY <2>2, LenProperties
  <2>4. Len(contents) = InitCap
    BY ONLY <1>1, <2>1, <2>3
  <2>5. QED
    BY ONLY <2>1, <2>2, <2>4
<1>3. freelist \in [1 .. InitCap -> Nat] /\ freelist \in Seq(Nat)
  <2>1. freelist \in [1 .. InitCap -> Nat]
    BY <1>1
  <2>2. QED
    BY <1>1, <2>1, SeqDef
<1>4. \A i \in Ids : contents[i + 1] = Free
  BY <1>1, <1>2 DEF Ids
<1>5. FreelistExact
  <2>1. IsInjective(freelist)
    BY <1>1 DEF IsInjective
  <2>2. ToSet(freelist) = Ids
    <3>1. \A i \in 1 .. InitCap : freelist[i] \in Ids
      BY <1>1, <1>2 DEF Ids
    <3>2. \A j \in Ids : j + 1 \in 1 .. InitCap /\ freelist[j + 1] = j
      BY <1>1, <1>2 DEF Ids
    <3>3. QED
      BY <1>3, <3>1, <3>2 DEF ToSet
  <2>3. cap = freecap /\ Len(contents) <= cap
    BY <1>1, <1>2
  <2>4. {i \in Ids : contents[i + 1] = Free} = Ids
    BY <1>4
  <2> HIDE DEF Init
  <2>5. QED
    BY <2>1, <2>2, <2>3, <2>4 DEF FreelistExact
<1>6. TypeOK
  BY <1>1, <1>2, <1>3, DictAssumption DEF TypeOK
<1>7. Held /\ PairsKept /\ Walks
  BY DEF Held, PairsKept, Walks, Inserting, Filling
<1>8. IndexKept
  BY <1>4, DictAssumption DEF IndexKept, Kept
<1>9. QED
  BY <1>5, <1>6, <1>7, <1>8 DEF IInv

LEMMA Unchanging ==
  ASSUME IInv, UNCHANGED vars PROVE IInv'
<1> USE DEF IInv, vars, dictvars, callvars, listvars
<1>1. FreelistExact' /\ IndexKept' /\ (\A s, i : HasPair(s, i)' <=> HasPair(s, i)) /\ Ids' = Ids
  BY DictStays DEF Ids
<1>2. TypeOK'
  BY DEF TypeOK
<1>3. Held'
  BY <1>1 DEF Held, Inserting, Filling
<1>4. PairsKept'
  BY <1>1 DEF PairsKept, Inserting, Filling
<1>5. Walks'
  BY <1>1, WalksStay DEF Listing
<1>6. QED
  BY <1>1, <1>2, <1>3, <1>4, <1>5

LEMMA Invariance == Spec => []IInv
<1>1. IInv /\ [Next]_vars => IInv'
  <2> SUFFICES ASSUME IInv, [Next]_vars PROVE IInv'
    OBVIOUS
  <2>1. ASSUME NEW c \in Clients, Client(c) PROVE IInv'
    BY <2>1, Beginning, Knowing, Growing, StoringBase, Extending, Claiming, Storing, Ending,
       Removing, Starting, Addressing, Passing, Stopping DEF Client
  <2>2. QED
    BY <2>1, Unchanging DEF Next
<1>2. QED
  BY <1>1, Created, PTL DEF Spec

(* The stack of free positions is exact: it holds every position that is    *)
(* not in use once and none that is.                                       *)
THEOREM StackIsExact == Spec => []FreelistExact
<1>1. IInv => FreelistExact
  BY DEF IInv
<1>2. QED
  BY <1>1, Invariance, PTL

(* Every value stays in its type.                                          *)
THEOREM TypesHold == Spec => []TypeOK
<1>1. IInv => TypeOK
  BY DEF IInv
<1>2. QED
  BY <1>1, Invariance, PTL

(* A string that was inserted and is never removed is found for good, under *)
(* the identifier the insert gave and no other.                            *)
THEOREM InsertedIsFound == Spec => []InsertedStaysFound
<1>1. IInv => InsertedStaysFound
  BY FoundKept DEF IInv, PairsKept, InsertedStaysFound
<1>2. QED
  BY <1>1, Invariance, PTL

(* What a lookup finds, extract turns back into the string.                 *)
THEOREM FoundIsExtracted == Spec => []LocatedIsExtracted
<1>1. IInv => LocatedIsExtracted
  BY FoundKept DEF IInv, IndexKept, HasPair, LocatedIsExtracted, Extracted
<1>2. QED
  BY <1>1, Invariance, PTL

(* A listing that runs beside inserts and removals and has not read memory  *)
(* that growth gave back shows the identifiers that a lookup gives ...      *)
THEOREM ListedIsFound == Spec => []ListsWhatIsFound
<1>1. IInv => ListsWhatIsFound
  BY FoundKept DEF IInv, PairsKept, ListsWhatIsFound
<1>2. QED
  BY <1>1, Invariance, PTL

(* ... and passes over nothing that was there when it began.                *)
THEOREM ListedIsComplete == Spec => []ListsWhatWasThere
<1>1. IInv => ListsWhatWasThere
  BY DEF IInv, Walks, ListsWhatWasThere
<1>2. QED
  BY <1>1, Invariance, PTL

-----------------------------------------------------------------------------
(* The dictionary that the entries stand for.                              *)
Stands == {j \in Ids : contents[j + 1] \in Kept}
Dictionary == [i \in Stands |-> contents[i + 1]]

LEMMA SameDictionary == ASSUME KeptStay PROVE Dictionary' = Dictionary
<1>1. Stands' = Stands /\ \A i \in Stands : contents'[i + 1] = contents[i + 1]
  BY DEF KeptStay, Stands
<1>2. QED
  BY <1>1 DEF Dictionary

LEMMA StoreInterns ==
  ASSUME IInv, NEW c \in Clients, Store(c)
  PROVE  \/ Dictionary' = Dictionary
         \/ \E s \in Kept, i \in DOMAIN Dictionary' :
              /\ s \notin Range(Dictionary) /\ i \notin DOMAIN Dictionary
              /\ Dictionary' = [j \in DOMAIN Dictionary \cup {i} |-> IF j = i THEN s ELSE Dictionary[j]]
<1> DEFINE s == Head(batch[c])
           p == slot[c]
<1>1. /\ p \in Ids /\ contents[p + 1] = Blank /\ s \in Strings /\ Ids' = Ids
      /\ contents' = [contents EXCEPT ![p + 1] = s]
      /\ s \in Kept => \A i \in Ids : contents[i + 1] # s
  BY Storing
<1>2. \A i \in Ids : contents'[i + 1] = IF i = p THEN s ELSE contents[i + 1]
  <2>1. \A i \in Ids : i \in Int /\ i + 1 \in DOMAIN contents
    BY DEF Ids, IInv, TypeOK
  <2>2. \A i \in Ids : i + 1 = p + 1 <=> i = p
    BY <1>1, <2>1
  <2>3. QED
    BY <1>1, <2>1, <2>2
<1>3. p \notin Stands
  BY <1>1, DictAssumption DEF Stands, Kept
<1> HIDE DEF s, p
<1>4. CASE s \notin Kept
  BY <1>1, <1>2, <1>3, <1>4, SameDictionary DEF Stands, KeptStay
<1>5. CASE s \in Kept
  <2>1. Stands' = Stands \cup {p}
    BY <1>1, <1>2, <1>5 DEF Stands
  <2>2. Dictionary' = [j \in Stands \cup {p} |-> IF j = p THEN s ELSE Dictionary[j]]
    <3>1. \A j \in Stands \cup {p} : contents'[j + 1] = IF j = p THEN s ELSE Dictionary[j]
      BY <1>1, <1>2, <1>3 DEF Stands, Dictionary
    <3>2. QED
      BY <2>1, <3>1 DEF Dictionary
  <2>3. s \notin Range(Dictionary)
    BY <1>1, <1>5 DEF Range, Dictionary, Stands
  <2>4. DOMAIN Dictionary = Stands /\ p \in DOMAIN Dictionary'
    BY <2>1 DEF Dictionary
  <2>5. QED
    BY <1>3, <1>5, <2>2, <2>3, <2>4
<1>6. QED
  BY <1>4, <1>5

(* Vectors, stack, index and lock together are a string dictionary: of the  *)
(* strings that are kept, each step of a client adds one under a fresh      *)
(* identifier or changes nothing.                                          *)
THEOREM Implements == Spec => ImplementsStringDict
<1>1. Init => Dict!DictInit
  <2>1. Init => Stands = {}
    BY DictAssumption DEF Init, Stands, Ids, Kept
  <2>2. QED
    BY <2>1 DEF Dict!DictInit, Stands
<1>2. IInv /\ [Next]_vars => [Dict!DictNext]_Dictionary
  <2> SUFFICES ASSUME IInv, [Next]_vars, Dictionary' # Dictionary PROVE Dict!DictNext
    OBVIOUS
  <2>1. ASSUME UNCHANGED contents PROVE FALSE
    BY <2>1 DEF Dictionary, Stands, Ids
  <2>2. PICK c \in Clients : Client(c)
    BY <2>1 DEF Next, vars, dictvars
  <2>3. ~Grow(c) /\ ~Extend(c) /\ ~Claim(c)
    BY Growing, Extending, Claiming, SameDictionary
  <2>4. ASSUME NEW I \in SUBSET Ids, RemoveStrings(c, I) PROVE FALSE
    <3>1. Free \notin Kept
      BY DictAssumption DEF Kept
    <3>2. KeptStay
      BY <2>4, <3>1, Removing DEF KeptStay
    <3>3. QED
      BY <3>2, SameDictionary
  <2>5. Store(c)
    BY <2>1, <2>2, <2>3, <2>4
       DEF Client, InsertBegin, Known, StoreBase, InsertEnd, ListBegin, ListEntry, Skip, InUse, Show,
           Looked, ListEnd, dictvars
  <2>6. QED
    BY <2>5, StoreInterns DEF Dict!DictNext, Dict!Intern, Dictionary, Stands, Range, Dict!Range
<1>3. QED
  BY <1>1, <1>2, Invariance, PTL DEF Spec, ImplementsStringDict, Dict!DictSpec, Dictionary, Stands
=============================================================================
