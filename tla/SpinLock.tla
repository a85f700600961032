------------------------------ MODULE SpinLock -------------------------------
(***************************************************************************)
(* std/spinlock.c: an atomic flag plus the identity of the thread that set *)
(* it.  A thread that finds itself in `owner` walks through acquire without *)
(* touching the flag; release clears the flag first and wipes `owner` in a *)
(* second store, whoever owns the lock by then.                            *)
(*                                                                         *)
(* `owner` is a plain pthread_t written and read without synchronisation.  *)
(* The build stores and loads it with one machine word, so a racing read   *)
(* sees the value before or after the store and never a mixture.           *)
(***************************************************************************)
EXTENDS Naturals

CONSTANTS
  Threads,    \* the threads that use the lock
  None,       \* the all-zero pthread_t that init and release write
  MaxDepth    \* how many acquires one thread nests (1: never re-entrant)

ASSUME NoneAssumption  == None \notin Threads
ASSUME DepthAssumption == MaxDepth \in Nat \ {0}

VARIABLES
  flag,       \* spinlock.lock, an atomic_flag
  owner,      \* spinlock.owner
  depth,      \* acquires of each thread that returned and were not released
  pc          \* where each thread is in acquire or release

lockvars == <<flag, owner, depth, pc>>

(* "idle"    outside acquire and release (inside the section iff depth > 0) *)
(* "spin"    in the test-and-set loop                                       *)
(* "won"     the loop is left, owner is not written yet                     *)
(* "cleared" release has cleared the flag, owner is not wiped yet           *)
Stages == {"idle", "spin", "won", "cleared"}

Move(t, from, to) == pc[t] = from /\ pc' = [pc EXCEPT ![t] = to]

Init ==
  /\ flag = FALSE
  /\ owner = None
  /\ depth = [t \in Threads |-> 0]
  /\ pc = [t \in Threads |-> "idle"]

(* acquire by the thread that `owner` names: the flag is not looked at.     *)
Reenter(t) ==
  /\ pc[t] = "idle"
  /\ depth[t] < MaxDepth
  /\ owner = t
  /\ depth' = [depth EXCEPT ![t] = @ + 1]
  /\ UNCHANGED <<flag, owner, pc>>

(* acquire by any other thread enters the loop.                             *)
Contend(t) ==
  /\ depth[t] < MaxDepth
  /\ owner # t
  /\ Move(t, "idle", "spin")
  /\ UNCHANGED <<flag, owner, depth>>

(* Variant: a plain store in place of the test-and-set.                     *)
TestAndSet_blind(t) ==
  /\ flag' = TRUE
  /\ Move(t, "spin", "won")
  /\ UNCHANGED <<owner, depth>>

(* The test-and-set that finds the flag clear; one that finds it set leaves *)
(* the state as it is and the thread in the loop.                           *)
TestAndSet(t) ==
  /\ ~flag
  /\ flag' = TRUE
  /\ Move(t, "spin", "won")
  /\ UNCHANGED <<owner, depth>>

Remember(t) ==
  /\ Move(t, "won", "idle")
  /\ owner' = t
  /\ depth' = [depth EXCEPT ![t] = @ + 1]
  /\ UNCHANGED flag

(* Variants: a release nobody acquired for; the flag is not cleared.        *)
ReleaseClear_unpaired(t) ==
  /\ Move(t, "idle", "cleared")
  /\ flag' = FALSE
  /\ depth' = [depth EXCEPT ![t] = @ - 1]
  /\ UNCHANGED owner

ReleaseClear_keeps(t) ==
  /\ depth[t] > 0
  /\ Move(t, "idle", "cleared")
  /\ depth' = [depth EXCEPT ![t] = @ - 1]
  /\ UNCHANGED <<flag, owner>>

(* release: nobody checks that the caller holds the lock, its callers do so *)
(* by pairing every release with an acquire of their own.                   *)
ReleaseClear(t) ==
  /\ depth[t] > 0
  /\ Move(t, "idle", "cleared")
  /\ flag' = FALSE
  /\ depth' = [depth EXCEPT ![t] = @ - 1]
  /\ UNCHANGED owner

(* Variant: the owner is not wiped.                                         *)
ReleaseForget_keeps(t) ==
  /\ Move(t, "cleared", "idle")
  /\ UNCHANGED <<flag, owner, depth>>

ReleaseForget(t) ==
  /\ Move(t, "cleared", "idle")
  /\ owner' = None
  /\ UNCHANGED <<flag, depth>>

Acquire(t) == Reenter(t) \/ Contend(t) \/ TestAndSet(t) \/ Remember(t)
Release(t) == ReleaseClear(t) \/ ReleaseForget(t)

Next == \E t \in Threads : Acquire(t) \/ Release(t)

(* A running thread finishes a call it has started and the section it is   *)
(* in; nothing makes it start another acquire.                             *)
Proceed(t) == TestAndSet(t) \/ Remember(t) \/ Release(t)

Spec     == Init /\ [][Next]_lockvars
FairSpec == Spec /\ \A t \in Threads : WF_lockvars(Proceed(t))

------------------------------------------------------------------------------
(* TLC goes up to the first nested acquire and not beyond: one release ends *)
(* all acquires of a thread, and a thread whose `owner` was wiped late      *)
(* waits for itself.                                                        *)
NotNested ==
  \A t \in Threads : depth[t] <= 1 /\ (pc[t] = "spin" => depth[t] = 0)

TypeOK ==
  /\ flag \in BOOLEAN
  /\ owner \in Threads \cup {None}
  /\ depth \in [Threads -> 0 .. MaxDepth]
  /\ pc \in [Threads -> Stages]

Inside(t) == depth[t] > 0

(* At most one thread is between an acquire that returned and its release.  *)
(* The wiping of `owner` that follows the clearing of the flag may hit the  *)
(* next holder; for threads that never nest acquires that must not matter.  *)
MutualExclusion ==
  \A t, u \in Threads : Inside(t) /\ Inside(u) => t = u

(* A thread that starts an acquire is never taken for the holder because    *)
(* of what an earlier section left in `owner`: whenever owner names a       *)
(* thread, that thread is inside or has not finished its release.           *)
OwnerNotStale ==
  \A t \in Threads : owner = t => Inside(t) \/ pc[t] = "cleared"

(* Spinning is not starvation free, but somebody always gets in: while a    *)
(* thread waits in the loop the section is entered again and again.         *)
SomebodyEnters ==
  (\E t \in Threads : pc[t] = "spin") ~> (\E t \in Threads : Inside(t))

(* The thread inside, as the abstract lock sees it: from the test-and-set   *)
(* that won until the flag is clear again.                                  *)
HolderBar ==
  IF \E t \in Threads : pc[t] = "won" \/ Inside(t)
  THEN CHOOSE t \in Threads : pc[t] = "won" \/ Inside(t)
  ELSE None

Lock == INSTANCE Mutex WITH holder <- HolderBar

(* The spin lock implements the abstract lock.                              *)
ImplementsMutex == Lock!MutexSpec
==============================================================================
