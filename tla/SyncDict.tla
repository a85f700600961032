------------------------------ MODULE SyncDict -------------------------------
(***************************************************************************)
(* archive/encode_sync.c: a string dictionary made of a vector of entries  *)
(* (`contents`), a stack of unused positions (`freelist`) and a hash index *)
(* from strings to positions.  A position is the identifier of the string  *)
(* stored in it.                                                           *)
(*                                                                         *)
(* insert, remove, locate and extract hold one lock from their first to    *)
(* their last access (that the lock excludes is SpinLock's matter).        *)
(* get_contents takes none: it finds an entry in the vector's memory, reads *)
(* in_use and then str, one access after the other, while an insert may     *)
(* grow the vector and give that memory back.  So every change of           *)
(* `contents` is a step of its own here, and so is every access of a        *)
(* listing.  The stack and the index are read under the lock only.          *)
(***************************************************************************)
EXTENDS Integers, Sequences, SequencesExt

CONSTANTS
  Clients,     \* threads that call the dictionary
  Strings,     \* the strings that are inserted
  Null,        \* a NULL char pointer among the strings
  Free,        \* entry that is not in use
  Blank,       \* entry that is in use and whose str is still NULL
  InitCap,     \* capacity given to encode_sync_create
  MaxBatch,    \* bound: strings per insert
  MaxCalls,    \* bound: inserts and listings, per client
  Removable,   \* the strings among them that clients may remove
  Listers      \* the clients that call get_contents

ASSUME DictAssumption ==
  /\ {Null, Free, Blank} \cap Strings = {} /\ Free # Blank
  /\ Null \notin Clients
  /\ InitCap \in Nat \ {0} /\ MaxBatch \in Nat /\ MaxCalls \in [Clients -> Nat]
  /\ Removable \subseteq Strings /\ Listers \subseteq Clients

VARIABLES
  contents,    \* vector of entries; identifier i is position i + 1
  freelist,    \* vector of unused identifiers, popped from its end
  cap,         \* cap_elems of contents
  freecap,     \* cap_elems of freelist
  index,       \* what str_hash holds: records of key, id and whether stale
  lock,        \* the client inside the lock, or Null
  pc,          \* where each client is
  batch,       \* strings of the client's insert that are not processed yet
  known,       \* identifiers the bulk lookup found for them (-1: none)
  ids,         \* the pairs the insert has computed so far
  slot,        \* the identifier a client took from the freelist
  more,        \* the positions a client that grows the vectors has to add
  pos, seen,   \* position and findings of a get_contents
  dangling,    \* whether the entry it reads lies in memory given back
  before,      \* history: got when the listing began
  fooled,      \* history: the listing has read memory given back
  calls,       \* inserts and listings each client has made (bound)
  got          \* history: the pairs <<string, id>> that inserts returned

dictvars == <<contents, freelist, cap, freecap, index>>
callvars == <<batch, known, ids, slot, more, calls>>
listvars == <<pos, seen, dangling, before, fooled>>
vars == <<dictvars, callvars, listvars, lock, pc, got>>

NotFound == -1
NullId   == 0                    \* NULL_ENCODED_STRING
Ids      == 0 .. Len(contents) - 1

(* The stack is filled from 0 up while both vectors are created.            *)
Init ==
  /\ contents = [i \in 1 .. InitCap |-> Free]
  /\ freelist = [i \in 1 .. InitCap |-> i - 1]
  /\ cap = InitCap /\ freecap = InitCap
  /\ index = {}
  /\ lock = Null
  /\ pc = [c \in Clients |-> "idle"]
  /\ batch = [c \in Clients |-> <<>>] /\ known = [c \in Clients |-> <<>>]
  /\ ids = [c \in Clients |-> {}] /\ slot = [c \in Clients |-> NotFound]
  /\ more = [c \in Clients |-> 0]
  /\ pos = [c \in Clients |-> 0] /\ seen = [c \in Clients |-> {}]
  /\ dangling = [c \in Clients |-> FALSE] /\ before = [c \in Clients |-> {}]
  /\ fooled = [c \in Clients |-> FALSE]
  /\ calls = [c \in Clients |-> 0]
  /\ got = {}

------------------------------------------------------------------------------
(* The answers a lookup of s may give.  An entry that remove should have    *)
(* taken out stays, with a pointer to freed memory: it matches or it does   *)
(* not.  A NULL key is always found, under NULL_ENCODED_STRING.             *)
Found(s) ==
  IF s = Null THEN {NullId}
  ELSE {e.id : e \in {x \in index : x.key = s}}
         \cup IF \E e \in index : e.key = s /\ ~e.stale THEN {} ELSE {NotFound}

(* vec_grow; the grow factor is 1.7.                                        *)
Grown(n) == (n * 17) \div 10 + 1

(* Variant: the pair does not reach the index.                              *)
PutExact_lost(s, i, found) == index' = index

(* str_hash_put_exact: nothing is added for a key that seems to be there.   *)
PutExact(s, i, found) ==
  index' = IF found # NotFound THEN index
           ELSE index \cup {[key |-> s, id |-> i, stale |-> FALSE]}

Goto(c, from, to) == pc[c] = from /\ pc' = [pc EXCEPT ![c] = to]

------------------------------------------------------------------------------
(* insert: lock, look all strings of the batch up ...                       *)
InsertBegin(c, b) ==
  /\ lock = Null /\ calls[c] < MaxCalls[c]
  /\ Goto(c, "idle", "insert")
  /\ lock' = c
  /\ calls' = [calls EXCEPT ![c] = @ + 1]
  /\ batch' = [batch EXCEPT ![c] = b]
  /\ \E k \in [1 .. Len(b) -> Ids \cup {NotFound}] :
       /\ \A i \in 1 .. Len(b) : k[i] \in Found(b[i])
       /\ known' = [known EXCEPT ![c] = k]
  /\ ids' = [ids EXCEPT ![c] = {}]
  /\ UNCHANGED <<dictvars, slot, more, listvars, got>>

(* ... then string by string.  A string that was not there is looked up     *)
(* again when the filter says that it occurred earlier in the batch; the    *)
(* filter errs only in saying so of a string that did not, and then the     *)
(* index has the last word.                                                 *)
Known(c) ==
  /\ pc[c] = "insert" /\ batch[c] # <<>>
  /\ \E i \in IF Head(known[c]) # NotFound THEN {Head(known[c])}
              ELSE Found(Head(batch[c])) \ {NotFound} :
       ids' = [ids EXCEPT ![c] = @ \cup {<<Head(batch[c]), i>>}]
  /\ batch' = [batch EXCEPT ![c] = Tail(@)]
  /\ known' = [known EXCEPT ![c] = Tail(@)]
  /\ UNCHANGED <<dictvars, slot, more, calls, listvars, lock, pc, got>>

(* The head of the batch is found nowhere.                                  *)
IsNew(c) ==
  /\ batch[c] # <<>>
  /\ Head(known[c]) = NotFound /\ NotFound \in Found(Head(batch[c]))

(* freelist_pop of an empty stack: both vectors grow, by their capacities.  *)
(* The block of the entries stays where it is or moves, and an entry that a *)
(* listing is about to read lies in the old block then.                     *)
Grow(c) ==
  /\ IsNew(c) /\ freelist = <<>>
  /\ freecap' = Grown(freecap) /\ cap' = Grown(cap)
  /\ more' = [more EXCEPT ![c] = freecap' - freecap]
  /\ \/ Goto(c, "insert", "extend") /\ UNCHANGED dangling
     \/ /\ Goto(c, "insert", "move")
        /\ dangling' = [d \in Clients |-> dangling[d] \/ pc[d] \in {"entry", "text"}]
  /\ UNCHANGED <<contents, freelist, index, batch, known, ids, slot, calls,
                 pos, seen, before, fooled, lock, got>>

(* The old block has been given back, the vector gets the new one.          *)
StoreBase(c) ==
  /\ Goto(c, "move", "extend")
  /\ UNCHANGED <<dictvars, callvars, listvars, lock, got>>

(* A position that growth adds.                                             *)
Extend(c) ==
  /\ pc[c] = "extend" /\ more[c] > 0
  /\ freelist' = Append(freelist, Len(contents))
  /\ contents' = Append(contents, Free)
  /\ more' = [more EXCEPT ![c] = @ - 1]
  /\ UNCHANGED <<cap, freecap, index, batch, known, ids, slot, calls, listvars, lock, pc, got>>

(* A position is popped; its entry is claimed before it gets its string.    *)
Claim(c) ==
  /\ freelist # <<>>
  /\ \/ IsNew(c) /\ Goto(c, "insert", "store")
     \/ more[c] = 0 /\ Goto(c, "extend", "store")
  /\ slot' = [slot EXCEPT ![c] = Last(freelist)]
  /\ freelist' = Front(freelist)
  /\ contents' = [contents EXCEPT ![Last(freelist) + 1] = Blank]
  /\ UNCHANGED <<cap, freecap, index, batch, known, ids, more, calls, listvars, lock, got>>

(* The copy of the string is stored and put into the index.                 *)
Store(c) ==
  LET s == Head(batch[c])
  IN  /\ Goto(c, "store", "insert")
      /\ contents' = [contents EXCEPT ![slot[c] + 1] = s]
      /\ \E f \in Found(s) : PutExact(s, slot[c], f)
      /\ ids' = [ids EXCEPT ![c] = @ \cup {<<s, slot[c]>>}]
      /\ batch' = [batch EXCEPT ![c] = Tail(@)]
      /\ known' = [known EXCEPT ![c] = Tail(@)]
      /\ slot' = [slot EXCEPT ![c] = NotFound]
      /\ UNCHANGED <<freelist, cap, freecap, more, calls, listvars, lock, got>>

InsertEnd(c) ==
  /\ batch[c] = <<>>
  /\ Goto(c, "insert", "idle")
  /\ lock' = Null
  /\ got' = got \cup ids[c]
  /\ ids' = [ids EXCEPT ![c] = {}]
  /\ UNCHANGED <<dictvars, batch, known, slot, more, calls, listvars>>

(* Variant: the entries are emptied, their positions are not pushed.        *)
RemoveStrings_leak(c, I) ==
  /\ lock = Null /\ pc[c] = "idle"
  /\ I # {} /\ \A i \in I : i \in Ids /\ contents[i + 1] \in Removable
  /\ contents' = [k \in DOMAIN contents |-> IF k - 1 \in I THEN Free ELSE contents[k]]
  /\ index' = {[e EXCEPT !.stale = @ \/ e.id \in I] : e \in index}
  /\ got' = {g \in got : g[2] \notin I}
  /\ UNCHANGED <<freelist, cap, freecap, callvars, listvars, lock, pc>>

(* Variant: the positions are pushed by the callee and the caller.         *)
RemoveStrings_twice(c, I) ==
  /\ lock = Null /\ pc[c] = "idle"
  /\ I # {} /\ \A i \in I : i \in Ids /\ contents[i + 1] \in Removable
  /\ contents' = [k \in DOMAIN contents |-> IF k - 1 \in I THEN Free ELSE contents[k]]
  /\ freelist' = freelist \o SetToSeq(I) \o SetToSeq(I)
  /\ index' = {[e EXCEPT !.stale = @ \/ e.id \in I] : e \in index}
  /\ got' = {g \in got : g[2] \notin I}
  /\ UNCHANGED <<cap, freecap, callvars, listvars, lock, pc>>

(* remove of identifiers that are in use: the entries are emptied and their *)
(* positions pushed; slice_list_remove, which should take them out of the   *)
(* index, is not implemented and its error is dropped on the way up.  To a  *)
(* listing that runs beside it, a removal of several is several of one.     *)
RemoveStrings(c, I) ==
  /\ lock = Null /\ pc[c] = "idle"
  /\ I # {} /\ \A i \in I : i \in Ids /\ contents[i + 1] \in Removable
  /\ contents' = [k \in DOMAIN contents |-> IF k - 1 \in I THEN Free ELSE contents[k]]
  /\ freelist' = freelist \o SetToSeq(I)
  /\ index' = {[e EXCEPT !.stale = @ \/ e.id \in I] : e \in index}
  /\ got' = {g \in got : g[2] \notin I}
  /\ UNCHANGED <<cap, freecap, callvars, listvars, lock, pc>>

(* get_contents walks over the entries without the lock: below the length   *)
(* of the vector it takes the address of an entry from the base pointer,    *)
(* which names memory given back while an insert has not stored the new one.*)
ListBegin(c) ==
  /\ c \in Listers /\ calls[c] < MaxCalls[c]
  /\ Goto(c, "idle", "list")
  /\ calls' = [calls EXCEPT ![c] = @ + 1]
  /\ before' = [before EXCEPT ![c] = got]
  /\ UNCHANGED <<dictvars, batch, known, ids, slot, more, pos, seen, dangling, fooled, lock, got>>

(* The listing is done with an entry.                                       *)
Looked(c) ==
  /\ fooled' = [fooled EXCEPT ![c] = @ \/ dangling[c]]
  /\ dangling' = [dangling EXCEPT ![c] = FALSE]
  /\ UNCHANGED <<dictvars, callvars, before, lock, got>>

ListEntry(c) ==
  /\ pos[c] < Len(contents)
  /\ Goto(c, "list", "entry")
  /\ dangling' = [dangling EXCEPT ![c] = \E d \in Clients : pc[d] = "move"]
  /\ UNCHANGED <<dictvars, callvars, pos, seen, before, fooled, lock, got>>

(* Variant: the first entry that is not in use is taken for the end.        *)
Skip_stops(c) ==
  /\ pc[c] = "entry" /\ (dangling[c] \/ contents[pos[c] + 1] = Free)
  /\ Goto(c, "entry", "list")
  /\ pos' = [pos EXCEPT ![c] = Len(contents)]
  /\ Looked(c)
  /\ UNCHANGED seen

(* in_use is read, and is anything in memory that was given back: the entry *)
(* is passed over ...                                                       *)
Skip(c) ==
  /\ pc[c] = "entry" /\ (dangling[c] \/ contents[pos[c] + 1] = Free)
  /\ Goto(c, "entry", "list")
  /\ pos' = [pos EXCEPT ![c] = @ + 1]
  /\ Looked(c)
  /\ UNCHANGED seen

(* ... or is going to be shown ...                                          *)
InUse(c) ==
  /\ pc[c] = "entry" /\ (dangling[c] \/ contents[pos[c] + 1] # Free)
  /\ Goto(c, "entry", "text")
  /\ fooled' = [fooled EXCEPT ![c] = @ \/ dangling[c]]
  /\ UNCHANGED <<dictvars, callvars, pos, seen, dangling, before, lock, got>>

(* Variant: the position is advanced before it is stored with the string.   *)
Shown_ahead(c) ==
  LET str == contents[pos[c] + 1]
  IN  IF str = Free THEN <<Blank, pos[c] + 1>> ELSE <<str, pos[c] + 1>>

(* What is pushed of the entry: str is NULL again when the string has been  *)
(* removed since in_use was read.                                           *)
Shown(c) ==
  LET str == contents[pos[c] + 1]
  IN  IF str = Free THEN <<Blank, pos[c]>> ELSE <<str, pos[c]>>

(* ... for which str is read.  What a listing shows that has read memory    *)
(* given back is anything, and is not recorded.                             *)
Show(c) ==
  /\ Goto(c, "text", "list")
  /\ pos' = [pos EXCEPT ![c] = @ + 1]
  /\ Looked(c)
  /\ seen' = IF fooled'[c] THEN seen ELSE [seen EXCEPT ![c] = @ \cup {Shown(c)}]

ListEnd(c) ==
  /\ pos[c] = Len(contents)
  /\ Goto(c, "list", "idle")
  /\ pos' = [pos EXCEPT ![c] = 0] /\ seen' = [seen EXCEPT ![c] = {}]
  /\ before' = [before EXCEPT ![c] = {}] /\ fooled' = [fooled EXCEPT ![c] = FALSE]
  /\ UNCHANGED <<dictvars, callvars, dangling, lock, got>>

Batches == UNION {[1 .. n -> Strings \cup {Null}] : n \in 1 .. MaxBatch}

Client(c) ==
  \/ \E b \in Batches : InsertBegin(c, b)
  \/ Known(c) \/ Grow(c) \/ StoreBase(c) \/ Extend(c) \/ Claim(c) \/ Store(c) \/ InsertEnd(c)
  \/ \E I \in SUBSET Ids : RemoveStrings(c, I)
  \/ ListBegin(c) \/ ListEntry(c) \/ Skip(c) \/ InUse(c) \/ Show(c) \/ ListEnd(c)

Next == \E c \in Clients : Client(c)

Spec == Init /\ [][Next]_vars

(* What extract gives for an identifier.                                    *)
Extracted(i) == IF i # NullId THEN contents[i + 1] ELSE Null

------------------------------------------------------------------------------
Entries == Strings \cup {Free, Blank}

TypeOK ==
  /\ contents \in Seq(Entries) /\ freelist \in Seq(Nat)
  /\ cap \in Nat /\ freecap \in Nat
  /\ index \subseteq [key : Strings, id : Nat, stale : BOOLEAN]
  /\ lock \in Clients \cup {Null}
  /\ pc \in [Clients -> {"idle", "insert", "move", "extend", "store", "list", "entry", "text"}]
  /\ batch \in [Clients -> Seq(Strings \cup {Null})]
  /\ known \in [Clients -> Seq(Nat \cup {NotFound})]
  /\ ids \in [Clients -> SUBSET ((Strings \cup {Null}) \X Nat)]
  /\ slot \in [Clients -> Nat \cup {NotFound}]
  /\ more \in [Clients -> Nat] /\ pos \in [Clients -> Nat]
  /\ seen \in [Clients -> SUBSET ((Strings \cup {Blank}) \X Nat)]
  /\ dangling \in [Clients -> BOOLEAN] /\ fooled \in [Clients -> BOOLEAN]
  /\ before \in [Clients -> SUBSET ((Strings \cup {Null}) \X Nat)]
  /\ calls \in [Clients -> Nat]
  /\ got \subseteq (Strings \cup {Null}) \X Nat

(* The stack holds every unused position once and no position in use,      *)
(* through growth, batches with duplicates and removals; both vectors grow  *)
(* in step (encode_sync.c asserts it) and never past their memory.          *)
FreelistExact ==
  /\ IsInjective(freelist)
  /\ ToSet(freelist) = {i \in Ids : contents[i + 1] = Free}
  /\ cap = freecap /\ Len(contents) <= cap

Kept == Strings \ Removable

(* Whatever an insert returned of a string that is never removed stays      *)
(* true: the string is found under that identifier for good and under no    *)
(* other, whoever inserted it and however often, while positions of other   *)
(* strings are given back and handed out again.                             *)
InsertedStaysFound == \A g \in got : g[1] \in Kept => Found(g[1]) = {g[2]}

(* What a lookup answers, extract turns back into the string, unless the    *)
(* string was removed or its identifier is 0, which is handed out like any  *)
(* other and which extract takes for the encoding of NULL.                  *)
LocatedIsExtracted ==
  \A s \in Kept : \A i \in Found(s) \ {NotFound, NullId} : Extracted(i) = s

(* A listing runs without the lock beside inserts that grow the vector and  *)
(* removals that empty entries.  It may read memory that growth gave back,  *)
(* and shows anything then.  As long as it has not, what it shows of a      *)
(* string that is never removed is the identifier a lookup gives, although  *)
(* an entry may change between the read of in_use and the read of str.  (Of *)
(* a string that is being inserted it may show an entry without text.)      *)
ListsWhatIsFound ==
  \A c \in Clients : \A l \in seen[c] :
    ~fooled[c] /\ l[1] \in Kept => Found(l[1]) \subseteq {l[2], NotFound}

(* ... and it has shown every string that an insert had returned before it  *)
(* began, up to where it is: nothing is passed over while strings around it *)
(* come and go and the vector moves to other memory.                        *)
ListsWhatWasThere ==
  \A c \in Clients : \A g \in before[c] :
    ~fooled[c] /\ g[1] \in Kept /\ g[2] < pos[c] => g \in seen[c]

(* The dictionary, as its interface describes it: new strings only ever get *)
(* free identifiers, one each (strings that were removed may be doubled,    *)
(* for the index does not forget them).                                     *)
Dict == INSTANCE StringDict WITH
  Strings <- Kept,
  dict    <- [i \in {j \in Ids : contents[j + 1] \in Kept} |-> contents[i + 1]]

ImplementsStringDict == Dict!DictSpec
==============================================================================
