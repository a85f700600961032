------------------------------ MODULE AsyncDict ------------------------------
(***************************************************************************)
(* archive/encode_async.c: a dictionary split over `carriers`, each a      *)
(* dictionary of its own.  A call takes the spin lock, starts one thread   *)
(* per carrier, joins them one after the other and merges their results.   *)
(* The handle of a carrier's thread is stored in the carrier, so a call    *)
(* that is not alone joins the threads of another.                         *)
(*                                                                         *)
(* The lock is SpinLock, step by step.  A carrier's dictionary is what     *)
(* SyncDict implements: a one to one mapping, looked up and extended under *)
(* a lock of its own.  remove is left out: what it leaves behind in a      *)
(* carrier's index is SyncDict's subject.                                  *)
(*                                                                         *)
(* Nothing keeps the carriers below CarrierIds (encode_async_create), only *)
(* a comment says so: it is no assumption here.  A carrier never holds     *)
(* more than LocalIds strings, which 2^54 entries of memory see to.        *)
(***************************************************************************)
EXTENDS Integers, Sequences, FiniteSets

CONSTANTS
  Threads,     \* the clients
  None,
  Strings,
  Carriers,    \* number of carriers
  OwnerOf,     \* hash code modulo Carriers, per string
  CarrierIds,  \* what the upper field of an identifier tells apart (2^10)
  LocalIds,    \* what the lower field tells apart (2^54)
  NullText,    \* the text that stands for NULL
  Ops,         \* the operations the clients call
  Alone,       \* those of them called only while no other call is running
  Batches,     \* bound: sets of strings that calls are about
  MaxCalls     \* bound: calls per client

ASSUME AsyncAssumption ==
  /\ LET all == {"insert", "locate", "extract", "locate_fast", "get_contents"}
     IN  Ops \subseteq all /\ None \notin Threads \cup Strings \cup all
  /\ IsFiniteSet(Strings) /\ Carriers \in Nat \ {0}
  /\ \A s \in Strings : OwnerOf[s] \in 0 .. Carriers - 1
  /\ CarrierIds \in Nat \ {0} /\ LocalIds \in Nat \ {0}
  /\ \A t \in 0 .. Carriers - 1 : Cardinality({s \in Strings : OwnerOf[s] = t}) <= LocalIds
  /\ Alone \subseteq Ops /\ Batches \subseteq SUBSET Strings
  /\ MaxCalls \in Nat

VARIABLES
  flag, owner, depth, pc,   \* SpinLock
  op,        \* the operation a client is in, or None
  keys,      \* its strings, or identifiers for extract
  step,      \* position in the script of the operation
  cursor,    \* progress through the carriers
  thread,    \* carrier->thread: the client that started it, or None
  worker,    \* the thread a client started for a carrier
  out,       \* what that thread has written for its client
  dict,      \* the carriers' dictionaries: [string -> local id]
  answer,    \* what the call of a client returns, per key
  calls,     \* calls each client has made (bound)
  before,    \* history: pairs inserted or found before the call started
  got        \* history: the pairs <<string, id>> that calls returned

lockvars == <<flag, owner, depth, pc>>
workvars == <<thread, worker, out, dict>>
callvars == <<op, keys, calls, before>>
vars == <<lockvars, workvars, callvars, step, cursor, answer, got>>

Lock == INSTANCE SpinLock WITH MaxDepth <- 2

Carrier == 0 .. Carriers - 1
NotFound == -1

(* Variant: a shift that is one bit short.                                  *)
MakeGlobal_short(t, i) == ((t * (LocalIds \div 2)) % (CarrierIds * LocalIds)) + i

(* MAKE_GLOBAL, GET_OWNER, GET_string_id_t: a shift by 54 bits in a word of *)
(* 64, where the bits of a carrier beyond CarrierIds fall off.  The local   *)
(* identifier is below LocalIds, so that adding it is the disjunction.      *)
MakeGlobal(t, i) == ((t * LocalIds) % (CarrierIds * LocalIds)) + i
GetOwner(g)      == g \div LocalIds
GetLocal(g)      == g % LocalIds

(* Variant: a call that returns with the lock held.                         *)
Script_keeps(o) == <<"lock", "work">>

(* The order of lock calls and work in each operation: locate_fast calls    *)
(* locate_safe, and get_contents calls num_distinct, with the lock held.    *)
Script(o) ==
  CASE o = "locate_fast"  -> <<"lock", "lock", "work", "unlock", "unlock">>
    [] o = "get_contents" -> <<"lock", "lock", "unlock", "list", "unlock">>
    [] OTHER              -> <<"lock", "work", "unlock">>

At(c, stage) ==
  /\ op[c] # None /\ step[c] <= Len(Script(op[c]))
  /\ Script(op[c])[step[c]] = stage

NextStep(c) == step' = [step EXCEPT ![c] = @ + 1]

Init ==
  /\ Lock!Init
  /\ op = [c \in Threads |-> None] /\ keys = [c \in Threads |-> {}]
  /\ step = [c \in Threads |-> 1] /\ cursor = [c \in Threads |-> 0]
  /\ thread = [t \in Carrier |-> None]
  /\ worker = [c \in Threads |-> [t \in Carrier |-> "none"]]
  /\ out = [c \in Threads |-> [t \in Carrier |-> <<>>]]
  /\ dict = [t \in Carrier |-> <<>>]
  /\ answer = [c \in Threads |-> <<>>]
  /\ calls = [c \in Threads |-> 0] /\ before = [c \in Threads |-> {}]
  /\ got = {}

------------------------------------------------------------------------------
Call(c, o, K) ==
  /\ op[c] = None /\ calls[c] < MaxCalls
  /\ \A d \in Threads : o \in Alone \/ op[d] \in Alone => op[d] = None
  /\ op' = [op EXCEPT ![c] = o]
  /\ keys' = [keys EXCEPT ![c] = K]
  /\ calls' = [calls EXCEPT ![c] = @ + 1]
  /\ before' = [before EXCEPT ![c] = got]
  /\ step' = [step EXCEPT ![c] = 1] /\ cursor' = [cursor EXCEPT ![c] = 0]
  /\ answer' = [answer EXCEPT ![c] = <<>>]
  /\ UNCHANGED <<lockvars, workvars, got>>

(* One step of spinlock_acquire; the call goes on when it has returned.     *)
LockStep(c) ==
  /\ At(c, "lock")
  /\ Lock!Acquire(c)
  /\ step' = [step EXCEPT ![c] = IF depth'[c] > depth[c] THEN @ + 1 ELSE @]
  /\ UNCHANGED <<workvars, callvars, cursor, answer, got>>

UnlockStep(c) ==
  /\ At(c, "unlock")
  /\ Lock!Release(c)
  /\ step' = [step EXCEPT ![c] = IF pc'[c] = "idle" THEN @ + 1 ELSE @]
  /\ UNCHANGED <<workvars, callvars, cursor, answer, got>>

(* The keys of the call that carrier t gets.                                *)
Share(c, t) ==
  {k \in keys[c] : (IF op[c] = "extract" THEN GetOwner(k) ELSE OwnerOf[k]) = t}

Advance(c) == cursor' = [cursor EXCEPT ![c] = @ + 1]

(* pthread_create into carrier->thread, carrier after carrier ...           *)
Spawn(c) ==
  LET t == cursor[c]
  IN  /\ At(c, "work") /\ t < Carriers
      /\ thread' = [thread EXCEPT ![t] = c]
      /\ worker' = [worker EXCEPT ![c][t] = "run"]
      /\ out' = [out EXCEPT ![c][t] = <<>>]
      /\ Advance(c)
      /\ UNCHANGED <<lockvars, callvars, step, dict, answer, got>>

(* ... and the threads' work on their carriers' dictionaries.               *)
Finish(c, t, result) ==
  /\ worker[c][t] = "run"
  /\ worker' = [worker EXCEPT ![c][t] = "done"]
  /\ out' = [out EXCEPT ![c][t] = result]
  /\ UNCHANGED <<lockvars, callvars, step, cursor, thread, answer, got>>

(* Variant: the carrier does not look the strings up first.                 *)
NewStrings_all(c, t) == Share(c, t)

(* The strings of the share that the carrier does not know yet.             *)
NewStrings(c, t) == Share(c, t) \ DOMAIN dict[t]

UsedIds(t) == {dict[t][s] : s \in DOMAIN dict[t]}

WorkInsert(c, t) ==
  LET new  == NewStrings(c, t)
      free == (0 .. LocalIds - 1) \ UsedIds(t)
  IN  /\ op[c] = "insert"
      /\ \E f \in [new -> free] :
            /\ \A r, s \in new : f[r] = f[s] => r = s
            /\ dict' = [dict EXCEPT ![t] =
                          [s \in DOMAIN @ \cup new |-> IF s \in new THEN f[s] ELSE @[s]]]
      /\ Finish(c, t, [s \in Share(c, t) |-> dict'[t][s]])

WorkLocate(c, t) ==
  /\ op[c] \in {"locate", "locate_fast"}
  /\ Finish(c, t, [s \in Share(c, t) |-> IF s \in DOMAIN dict[t] THEN dict[t][s]
                                         ELSE NotFound])
  /\ UNCHANGED dict

(* The carrier gives the null text for local identifier 0, whether a string *)
(* has it or not; it asserts that others are in use.                        *)
TextOf(t, i) ==
  IF i = 0 THEN NullText ELSE CHOOSE s \in DOMAIN dict[t] : dict[t][s] = i

WorkExtract(c, t) ==
  /\ op[c] = "extract"
  /\ \A g \in Share(c, t) : GetLocal(g) \in {0} \cup UsedIds(t)
  /\ Finish(c, t, [g \in Share(c, t) |-> TextOf(t, GetLocal(g))])
  /\ UNCHANGED dict

(* Variant: the call does not wait for the threads.                         *)
Join_skips(c) ==
  LET t == cursor[c] - Carriers
  IN  /\ At(c, "work") /\ t \in Carrier
      /\ Advance(c)
      /\ UNCHANGED <<lockvars, workvars, callvars, step, answer, got>>

(* synchronize: joins whatever thread the carrier's handle names by now.    *)
Join(c) ==
  LET t == cursor[c] - Carriers
  IN  /\ At(c, "work") /\ t \in Carrier
      /\ worker[thread[t]][t] # "run"
      /\ Advance(c)
      /\ UNCHANGED <<lockvars, workvars, callvars, step, answer, got>>

(* The results are merged.  num_not_found is left out: it adds a value that *)
(* was never written for every carrier without keys.  A merge of results    *)
(* that are not there yet is undefined: the model stops before it.          *)
Merge(c) ==
  LET Own(k) == IF op[c] = "extract" THEN GetOwner(k) ELSE OwnerOf[k]
      raw == [k \in keys[c] |-> out[c][Own(k)][k]]
      found == {k \in keys[c] : raw[k] # NotFound}
  IN  /\ At(c, "work") /\ cursor[c] = 2 * Carriers
      /\ \A t \in Carrier : worker[c][t] = "done"
      /\ answer' = [answer EXCEPT ![c] =
           [k \in keys[c] |-> IF op[c] = "extract" \/ k \notin found THEN raw[k]
                              ELSE MakeGlobal(OwnerOf[k], raw[k])]]
      /\ worker' = [worker EXCEPT ![c] = [t \in Carrier |-> "none"]]
      /\ out' = [out EXCEPT ![c] = [t \in Carrier |-> <<>>]]
      /\ NextStep(c)
      /\ UNCHANGED <<lockvars, callvars, cursor, thread, dict, got>>

(* get_contents reads one carrier after the other.                          *)
List(c) ==
  LET t == cursor[c]
  IN  /\ At(c, "list") /\ t < Carriers
      /\ answer' = [answer EXCEPT ![c] =
           [s \in DOMAIN @ \cup DOMAIN dict[t] |->
              IF s \in DOMAIN dict[t] THEN MakeGlobal(t, dict[t][s]) ELSE @[s]]]
      /\ Advance(c)
      /\ IF t + 1 = Carriers THEN NextStep(c) ELSE UNCHANGED step
      /\ UNCHANGED <<lockvars, workvars, callvars, got>>

Return(c) ==
  /\ op[c] # None /\ step[c] > Len(Script(op[c]))
  /\ op' = [op EXCEPT ![c] = None]
  /\ keys' = [keys EXCEPT ![c] = {}] /\ before' = [before EXCEPT ![c] = {}]
  /\ answer' = [answer EXCEPT ![c] = <<>>]
  /\ got' = IF op[c] = "extract" THEN got
            ELSE got \cup {<<k, answer[c][k]>> : k \in {s \in DOMAIN answer[c] : answer[c][s] # NotFound}}
  /\ UNCHANGED <<lockvars, workvars, calls, step, cursor>>

(* The calls a client may make: extract and locate_fast only with what is   *)
(* known to be contained, as the interface asks.                            *)
Calls(c) ==
  \/ \E o \in Ops \cap {"insert", "locate"}, K \in Batches : Call(c, o, K)
  \/ \E K \in Batches :
       /\ "locate_fast" \in Ops /\ K \subseteq {g[1] : g \in got}
       /\ Call(c, "locate_fast", K)
  \/ \E K \in Batches :
       /\ "extract" \in Ops /\ K \subseteq {g[1] : g \in got}
       /\ Call(c, "extract", {g[2] : g \in {h \in got : h[1] \in K}})
  \/ "get_contents" \in Ops /\ Call(c, "get_contents", {})

Proceed(c) ==
  \/ LockStep(c) \/ UnlockStep(c)
  \/ Spawn(c) \/ Join(c) \/ Merge(c) \/ List(c) \/ Return(c)

Work(c, t) == WorkInsert(c, t) \/ WorkLocate(c, t) \/ WorkExtract(c, t)

Next == \E c \in Threads :
  Calls(c) \/ Proceed(c) \/ \E t \in Carrier : Work(c, t)

Spec == Init /\ [][Next]_vars

(* Every thread that runs is scheduled; nobody has to make a call.          *)
FairSpec ==
  Spec /\ \A c \in Threads :
            WF_vars(Proceed(c)) /\ \A t \in Carrier : WF_vars(Work(c, t))
------------------------------------------------------------------------------
TypeOK ==
  /\ Lock!TypeOK
  /\ op \in [Threads -> Ops \cup {None}] /\ step \in [Threads -> 1 .. 6]
  /\ cursor \in [Threads -> 0 .. 2 * Carriers]
  /\ thread \in [Carrier -> Threads \cup {None}]
  /\ worker \in [Threads -> [Carrier -> {"none", "run", "done"}]]
  /\ \A t \in Carrier : dict[t] \in [DOMAIN dict[t] -> 0 .. LocalIds - 1]
  /\ calls \in [Threads -> 0 .. MaxCalls]
  /\ got \subseteq Strings \X Nat

(* string_dict.h: "Implementation must ensure thread-safeness".  A call     *)
(* that has joined all its carriers' handles has joined its own threads:    *)
(* everything it is about to merge has been written.                        *)
ResultsReady ==
  \A c \in Threads : At(c, "work") /\ cursor[c] = 2 * Carriers =>
    \A t \in Carrier : worker[c][t] = "done"

(* Over all clients and carriers a string has one identifier and an         *)
(* identifier one string: the packing of owner and local identifier loses   *)
(* nothing and no two inserts of a string give it two identifiers.          *)
IdsOneToOne == \A g, h \in got : g[1] = h[1] <=> g[2] = h[2]

(* A call sees everything that calls before it returned, whichever client   *)
(* made them: a locate finds what was inserted, with the same identifier,   *)
(* a listing leaves nothing out, and an extract gives the string that the   *)
(* identifier was handed out for, unless it is the first of its carrier:    *)
(* for that the client gets the null text.                                  *)
SeesEarlierCalls ==
  \A c \in Threads : \A g \in before[c] :
    /\ op[c] \notin {None, "extract"} /\ g[1] \in DOMAIN answer[c]
         => answer[c][g[1]] = g[2]
    /\ op[c] = "extract" /\ g[2] \in DOMAIN answer[c]
         => answer[c][g[2]] = IF GetLocal(g[2]) = 0 THEN NullText ELSE g[1]
    /\ op[c] = "get_contents" /\ step[c] > 4 => g[1] \in DOMAIN answer[c]

(* Every call returns, although clients spin for the lock and wait for the  *)
(* carriers' threads.                                                       *)
CallsReturn == \A c \in Threads : op[c] # None ~> op[c] = None

================================================================================
