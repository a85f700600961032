------------------------------ MODULE LruCache -------------------------------
(***************************************************************************)
(* What a cache of strings promises: it answers with the string of an      *)
(* identifier, and of the identifiers of a bucket it keeps those that were *)
(* asked for last.  One call it does not answer: that for identifier 0     *)
(* while the bucket has room.                                              *)
(***************************************************************************)
EXTENDS Integers, Sequences

CONSTANTS
    Ids,                \* identifiers
    Content,            \* the string of each
    Hash,               \* the hash of each
    ListLength,         \* identifiers that a bucket keeps
    NoString            \* the answer of a call that fails

VARIABLES
    kept,               \* of each bucket, the rank of each identifier it keeps:
                        \* 1 is the one asked for last
    answer              \* the identifier asked for last and its string

vars == <<kept, answer>>

NoneKept == [id \in {} |-> 0]

Init == kept = <<>> /\ answer = <<>>

(* Some number of buckets, all empty.                                      *)
Create ==
    /\ kept = <<>>
    /\ kept' \in Seq({NoneKept}) \ {<<>>}
    /\ UNCHANGED answer

(* The rank of another identifier once one was asked for: those between it *)
(* and the front move back.                                                *)
NewRank(rank, id, other) ==
    IF other = id THEN 1
    ELSE IF id \in DOMAIN rank /\ rank[id] < rank[other] THEN rank[other]
    ELSE rank[other] + 1

Ranked(rank, id) ==
    LET stay == {other \in DOMAIN rank \cup {id} : NewRank(rank, id, other) <= ListLength}
    IN  [other \in stay |-> NewRank(rank, id, other)]

BucketOf(id) == 1 + (Hash[id] % Len(kept))

Get(id) ==
    /\ kept # <<>>
    /\ kept' = [kept EXCEPT ![BucketOf(id)] = Ranked(kept[BucketOf(id)], id)]
    /\ answer' = <<id, Content[id]>>

HasRoom(rank) == \E place \in 1 .. ListLength : \A id \in DOMAIN rank : rank[id] # place

Fail(id) ==
    /\ kept # <<>>
    /\ id = 0 /\ id \notin DOMAIN kept[BucketOf(id)]
    /\ HasRoom(kept[BucketOf(id)])
    /\ answer' = <<id, NoString>>
    /\ UNCHANGED kept

Next == Create \/ \E id \in Ids : Get(id) \/ Fail(id)

Spec == Init /\ [][Next]_vars
=============================================================================
