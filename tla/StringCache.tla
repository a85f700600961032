----------------------------- MODULE StringCache -----------------------------
(***************************************************************************)
(* The cache of the strings of an archive (archive/cache.c): an identifier *)
(* belongs to a bucket by its hash, a bucket is a list of ListLength       *)
(* entries that is linked both ways, and an entry that is asked for is     *)
(* moved to the front by patching pointers.  Pointer 0 is NULL.  An entry  *)
(* is made of zeros: until it is used it has no string and identifier 0,   *)
(* which is an identifier as well.                                         *)
(***************************************************************************)
EXTENDS Integers, Sequences

CONSTANTS
    Ids,                \* identifiers of an archive
    Content,            \* the string of each, as the archive finds it
    Hash,               \* HASH_BERNSTEIN
    ListLength,         \* 1024
    MaxStrings          \* bound on the strings of an archive

NoString == "no string"  \* a string that is NULL
NoCall   == -1
Crashed  == -1           \* where the cursor is when the process has ended
Slots    == 1 .. ListLength

ASSUME CacheAssumption ==
    /\ Ids \subseteq Nat
    /\ Hash \in [Ids -> Nat]
    /\ DOMAIN Content = Ids
    /\ \A id \in Ids : Content[id] # NoString
    /\ ListLength \in Nat /\ ListLength > 1
    /\ MaxStrings \in Nat

VARIABLES
    lists,              \* the list of each bucket; empty before the cache is made
    sought,             \* the identifier that a call asks for, or NoCall
    cursor,             \* the entry that the call looks at
    answer              \* the identifier asked for last and its string

cvars == <<lists, sought, cursor, answer>>

(* init_list                                                               *)
FreshList ==
    [most |-> 1, least |-> ListLength,
     prev |-> [e \in Slots |-> e - 1],
     next |-> [e \in Slots |-> IF e < ListLength THEN e + 1 ELSE 0],
     id   |-> [e \in Slots |-> 0],
     string |-> [e \in Slots |-> NoString]]

(* Variant: the entry in front of the last one never becomes the last one. *)
MakeMostRecent_keeps(list, e) ==
    LET p == list.prev[e]
        n == list.next[e]
        unlinked == [list EXCEPT !.next = IF p = 0 THEN @ ELSE [@ EXCEPT ![p] = n],
                                 !.prev = IF n = 0 THEN @ ELSE [@ EXCEPT ![n] = p]]
    IN  IF e = list.most THEN list
        ELSE [unlinked EXCEPT !.prev[list.most] = e, !.next[e] = list.most, !.most = e]

(* make_most_recent.  The entry keeps the pointer to the one that was in   *)
(* front of it, which nobody follows while it is the first.                *)
MakeMostRecent(list, e) ==
    LET p == list.prev[e]
        n == list.next[e]
        unlinked == [list EXCEPT !.next = IF p = 0 THEN @ ELSE [@ EXCEPT ![p] = n],
                                 !.prev = IF n = 0 THEN @ ELSE [@ EXCEPT ![n] = p],
                                 !.least = IF n = 0 THEN p ELSE @]
    IN  IF e = list.most THEN list
        ELSE [unlinked EXCEPT !.prev[list.most] = e, !.next[e] = list.most, !.most = e]

BucketOf(id) == 1 + (Hash[id] % Len(lists))

CacheInit == lists = <<>> /\ sought = NoCall /\ cursor = 0 /\ answer = <<>>

(* string_id_cache_create_lru: a bucket for each four strings.             *)
CreateLru(strings) ==
    LET capacity == strings \div 4
    IN  /\ lists = <<>>
        /\ lists' = [b \in 1 .. (IF capacity < 1 THEN 1 ELSE capacity) |-> FreshList]
        /\ UNCHANGED <<sought, cursor, answer>>

(* string_id_cache_get: the call, the steps along the list and its ends.   *)
GetBegin(id) ==
    /\ lists # <<>> /\ sought = NoCall
    /\ sought' = id
    /\ cursor' = lists[BucketOf(id)].most
    /\ UNCHANGED <<lists, answer>>

ReturnString(list, string) ==
    /\ lists' = [lists EXCEPT ![BucketOf(sought)] = list]
    /\ answer' = <<sought, string>>
    /\ sought' = NoCall /\ cursor' = 0

List == lists[BucketOf(sought)]

GetNext ==
    /\ sought # NoCall /\ cursor \in Slots
    /\ List.id[cursor] # sought
    /\ cursor' = List.next[cursor]
    /\ UNCHANGED <<lists, sought, answer>>

GetHit ==
    /\ sought # NoCall /\ cursor \in Slots
    /\ List.id[cursor] = sought /\ List.string[cursor] # NoString
    /\ ReturnString(MakeMostRecent(List, cursor), List.string[cursor])

(* The walk takes an unused entry for identifier 0, and strdup of NULL ends *)
(* the process.                                                            *)
GetUnused ==
    /\ sought # NoCall /\ cursor \in Slots
    /\ List.id[cursor] = sought /\ List.string[cursor] = NoString
    /\ answer' = <<sought, NoString>>
    /\ cursor' = Crashed
    /\ UNCHANGED <<lists, sought>>

(* The entry used longest ago is taken for the string that the archive has *)
(* found.                                                                  *)
GetMiss(string) ==
    LET last == List.least
    IN  /\ sought # NoCall /\ cursor = 0
        /\ ReturnString(MakeMostRecent([List EXCEPT !.string[last] = string, !.id[last] = sought], last),
                        string)

CacheNext ==
    \/ \E strings \in 0 .. MaxStrings : CreateLru(strings)
    \/ \E id \in Ids : GetBegin(id)
    \/ GetNext \/ GetHit \/ GetUnused \/ GetMiss(Content[sought])

CacheSpec == CacheInit /\ [][CacheNext]_cvars

-----------------------------------------------------------------------------
(* The places of the entries in a list, from its front; 0 if the list is   *)
(* broken.                                                                 *)
WellPlaced(list, place) ==
    /\ place \in [Slots -> Slots]
    /\ \A d, e \in Slots : place[d] = place[e] => d = e
    /\ place[list.most] = 1 /\ place[list.least] = ListLength
    /\ \A e \in Slots : IF place[e] = ListLength THEN list.next[e] = 0
                         ELSE list.next[e] # 0 /\ place[list.next[e]] = place[e] + 1
    /\ \A e \in Slots : place[e] # 1 =>
            list.prev[e] # 0 /\ place[list.prev[e]] = place[e] - 1

Places(list) ==
    LET places == {place \in [Slots -> Slots] : WellPlaced(list, place)}
    IN  IF places = {} THEN [e \in Slots |-> 0] ELSE CHOOSE place \in places : TRUE

(* The identifiers that a list keeps, each with its place.                 *)
Used(list) == {e \in Slots : list.string[e] # NoString}

KeptIn(list) ==
    LET slot(id) == CHOOSE e \in Used(list) : list.id[e] = id
    IN  [id \in {list.id[e] : e \in Used(list)} |-> Places(list)[slot(id)]]

Lru == INSTANCE LruCache WITH kept <- [b \in DOMAIN lists |-> KeptIn(lists[b])]

(* The lists of pointers keep what was asked for last, each string once    *)
(* and in the bucket of its hash, and the answer is the string of the      *)
(* identifier, although entries are overwritten and moved by pointers that *)
(* are left stale (make_most_recent).  Identifier 0 is one like the others *)
(* once its bucket is full; before, the call for it ends the process.      *)
CacheIsLru == Lru!Spec
=============================================================================
