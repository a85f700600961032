--------------------------- MODULE SpinLockProofs ----------------------------
(***************************************************************************)
(* What holds of the spin lock for every set of threads.  OwnerNotStale    *)
(* holds however deep acquires are nested.  Mutual exclusion, and what it  *)
(* takes, is proved of the behaviours in which no thread nests acquires,   *)
(* although the lock would let it: after a nested acquire it is not true.  *)
(***************************************************************************)
EXTENDS SpinLock, TLAPS

(* The thread that won the test-and-set and has not cleared the flag.      *)
Busy(t) == pc[t] = "won" \/ Inside(t)

(* Inductive while nobody nests: whoever is busy keeps the flag set, and is *)
(* alone; a thread in the middle of a call is not inside.                   *)
LockInv ==
  /\ TypeOK
  /\ OwnerNotStale
  /\ \A t \in Threads : pc[t] # "idle" => depth[t] = 0
  /\ \A t \in Threads : Busy(t) => flag
  /\ \A t, u \in Threads : Busy(t) /\ Busy(u) => t = u

(* A thread on its way in has room for one more acquire: the bound is checked *)
(* when it enters the loop, the depth grows when it leaves it.              *)
RoomOnTheWayIn ==
  \A t \in Threads : pc[t] \in {"spin", "won"} => depth[t] < MaxDepth

LEMMA TypeInit == Init => TypeOK
<1> SUFFICES ASSUME Init PROVE TypeOK
  OBVIOUS
<1>1. flag \in BOOLEAN
  BY DEF Init
<1>2. depth \in [Threads -> 0 .. MaxDepth]
  BY DepthAssumption DEF Init
<1>3. owner \in Threads \cup {None} /\ pc \in [Threads -> Stages]
  BY DEF Init, Stages
<1>4. QED
  BY <1>1, <1>2, <1>3 DEF TypeOK

(* Every variable keeps its type, whatever the nesting.                     *)
THEOREM TypeCorrect == Spec => []TypeOK
<1> DEFINE Inv == TypeOK /\ RoomOnTheWayIn
<1>1. Init => Inv
  BY TypeInit DEF Init, RoomOnTheWayIn
<1>2. Inv /\ [Next]_lockvars => Inv'
  <2> SUFFICES ASSUME TypeOK, RoomOnTheWayIn, [Next]_lockvars
               PROVE  TypeOK' /\ RoomOnTheWayIn'
    OBVIOUS
  <2>1. (flag \in BOOLEAN)'
    BY DEF TypeOK, Next, Acquire, Release, Reenter, Contend, TestAndSet,
           Remember, ReleaseClear, ReleaseForget, lockvars
  <2>2. (owner \in Threads \cup {None} /\ pc \in [Threads -> Stages])'
    BY DEF TypeOK, Stages, Move, Next, Acquire, Release, Reenter, Contend,
           TestAndSet, Remember, ReleaseClear, ReleaseForget, lockvars
  <2>3. (depth \in [Threads -> 0 .. MaxDepth])' /\ RoomOnTheWayIn'
    <3> DEFINE DepthOK == depth \in [Threads -> 0 .. MaxDepth] /\ RoomOnTheWayIn
    <3> USE DepthAssumption DEF TypeOK, RoomOnTheWayIn, Move
    <3>1. ASSUME NEW t \in Threads, Reenter(t) PROVE DepthOK'
      BY <3>1 DEF Reenter
    <3>2. ASSUME NEW t \in Threads, Contend(t) PROVE DepthOK'
      BY <3>2 DEF Contend
    <3>3. ASSUME NEW t \in Threads, TestAndSet(t) PROVE DepthOK'
      BY <3>3 DEF TestAndSet
    <3>4. ASSUME NEW t \in Threads, Remember(t) PROVE DepthOK'
      BY <3>4 DEF Remember
    <3>5. ASSUME NEW t \in Threads, ReleaseClear(t) PROVE DepthOK'
      BY <3>5 DEF ReleaseClear
    <3>6. ASSUME NEW t \in Threads, ReleaseForget(t) PROVE DepthOK'
      BY <3>6 DEF ReleaseForget
    <3>7. CASE UNCHANGED lockvars
      BY <3>7 DEF lockvars
    <3>8. QED
      BY <3>1, <3>2, <3>3, <3>4, <3>5, <3>6, <3>7 DEF Next, Acquire, Release
  <2>4. QED
    BY <2>1, <2>2, <2>3 DEF TypeOK
<1>3. QED
  BY <1>1, <1>2, PTL DEF Spec

(* An acquire is never skipped because of an owner left over from an        *)
(* earlier section, however deep the threads nest.                          *)
THEOREM OwnerNeverStale == Spec => []OwnerNotStale
<1>1. Init => OwnerNotStale
  BY NoneAssumption DEF Init, OwnerNotStale
<1>2. TypeOK /\ OwnerNotStale /\ [Next]_lockvars => OwnerNotStale'
  <2> SUFFICES ASSUME TypeOK, OwnerNotStale, [Next]_lockvars
               PROVE OwnerNotStale'
    OBVIOUS
  <2> USE NoneAssumption, DepthAssumption DEF TypeOK, OwnerNotStale, Inside, Move
  <2>1. ASSUME NEW t \in Threads, Acquire(t) PROVE OwnerNotStale'
    BY <2>1 DEF Acquire, Reenter, Contend, TestAndSet, Remember
  <2>2. ASSUME NEW t \in Threads, Release(t) PROVE OwnerNotStale'
    BY <2>2 DEF Release, ReleaseClear, ReleaseForget
  <2>3. CASE UNCHANGED lockvars
    BY <2>3 DEF lockvars
  <2>4. QED
    BY <2>1, <2>2, <2>3 DEF Next
<1>3. QED
  BY <1>1, <1>2, TypeCorrect, PTL DEF Spec

LEMMA LockInvInit == Init => LockInv
  BY TypeInit, NoneAssumption
  DEF Init, LockInv, OwnerNotStale, Busy, Inside

LEMMA LockInvStep ==
  ASSUME LockInv, NotNested, NotNested', [Next]_lockvars
  PROVE  LockInv'
<1> USE NoneAssumption, DepthAssumption
    DEF LockInv, NotNested, TypeOK, Stages, OwnerNotStale, Busy, Inside, Move
<1>1. ASSUME NEW t \in Threads, Reenter(t) PROVE LockInv'
  BY <1>1 DEF Reenter      \* impossible: t is inside and would nest
<1>2. ASSUME NEW t \in Threads, Contend(t) PROVE LockInv'
  BY <1>2 DEF Contend
<1>3. ASSUME NEW t \in Threads, TestAndSet(t) PROVE LockInv'
  BY <1>3 DEF TestAndSet
<1>4. ASSUME NEW t \in Threads, Remember(t) PROVE LockInv'
  BY <1>4 DEF Remember
<1>5. ASSUME NEW t \in Threads, ReleaseClear(t) PROVE LockInv'
  <2>1. depth[t] = 1 /\ depth' = [depth EXCEPT ![t] = 0] /\ Busy(t)
    <3>1. depth[t] \in 0 .. MaxDepth /\ depth[t] <= 1 /\ depth[t] > 0
      BY <1>5 DEF ReleaseClear
    <3>2. depth[t] = 1 /\ depth[t] - 1 = 0
      BY <3>1
    <3>3. QED
      BY <1>5, <3>2 DEF ReleaseClear
  <2>2. TypeOK'
    <3>1. flag' \in BOOLEAN
      BY <1>5 DEF ReleaseClear
    <3>2. 0 \in 0 .. MaxDepth
      OBVIOUS
    <3>3. QED
      BY <1>5, <2>1, <3>1, <3>2 DEF ReleaseClear
  <2>3. \A u \in Threads : ~Busy(u)'
    <3>1. ASSUME NEW u \in Threads, u # t PROVE ~Busy(u)'
      BY <1>5, <2>1, <3>1 DEF ReleaseClear
    <3>2. ~Busy(t)'
      BY <1>5, <2>1 DEF ReleaseClear
    <3>3. QED
      BY <3>1, <3>2
  <2>4. OwnerNotStale' /\ \A u \in Threads : (pc[u] # "idle" => depth[u] = 0)'
    BY <1>5, <2>1 DEF ReleaseClear
  <2>5. QED
    BY <2>2, <2>3, <2>4
<1>6. ASSUME NEW t \in Threads, ReleaseForget(t) PROVE LockInv'
  BY <1>6 DEF ReleaseForget
<1>7. CASE UNCHANGED lockvars
  BY <1>7 DEF lockvars
<1>8. QED
  BY <1>1, <1>2, <1>3, <1>4, <1>5, <1>6, <1>7 DEF Next, Acquire, Release

LEMMA LockInvariant == Spec /\ []NotNested => []LockInv
<1>1. LockInv /\ NotNested /\ NotNested' /\ [Next]_lockvars => LockInv'
  BY LockInvStep
<1>2. QED
  BY <1>1, LockInvInit, PTL DEF Spec

(* Threads that do not nest acquires exclude each other, however many they  *)
(* are and however late a release wipes `owner`.                            *)
THEOREM MutualExclusionHolds ==
  Spec /\ []NotNested => []MutualExclusion
<1>1. LockInv => MutualExclusion
  BY DEF LockInv, MutualExclusion, Busy
<1>2. QED
  BY <1>1, LockInvariant, PTL

LEMMA HolderIsBusy ==
  ASSUME LockInv, NEW t \in Threads, Busy(t)
  PROVE  HolderBar = t
  BY DEF LockInv, HolderBar, Busy

LEMMA NobodyBusy ==
  ASSUME \A t \in Threads : ~Busy(t)
  PROVE  HolderBar = None
  BY DEF HolderBar, Busy

(* The spin lock implements the abstract lock for every set of threads:     *)
(* winning the test-and-set is Enter, clearing the flag is Leave, every     *)
(* other step stutters.                                                     *)
THEOREM SpinLockImplementsMutex ==
  Spec /\ []NotNested => ImplementsMutex
<1>1. Init => Lock!MutexInit
  BY NobodyBusy DEF Init, Lock!MutexInit, Busy, Inside
<1>2. /\ LockInv /\ LockInv' /\ NotNested /\ NotNested' /\ [Next]_lockvars
      => [Lock!MutexNext]_HolderBar
  <2> SUFFICES ASSUME LockInv, LockInv', NotNested, NotNested', [Next]_lockvars
               PROVE  [Lock!MutexNext]_HolderBar
    OBVIOUS
  <2> DEFINE Same == \A v \in Threads : Busy(v)' = Busy(v)
  <2>1. ASSUME Same PROVE UNCHANGED HolderBar
    <3>1. CASE \E v \in Threads : Busy(v)
      <4>1. PICK v \in Threads : Busy(v)
        BY <3>1
      <4>2. Busy(v)'
        BY <2>1, <4>1
      <4>3. HolderBar' = v
        BY <4>2 DEF LockInv, HolderBar, Busy
      <4>4. QED
        BY <4>1, <4>3, HolderIsBusy
    <3>2. CASE \A v \in Threads : ~Busy(v)
      <4>1. \A v \in Threads : ~Busy(v)'
        BY <2>1, <3>2
      <4>2. HolderBar' = None
        BY <4>1 DEF HolderBar, Busy
      <4>3. QED
        BY <3>2, <4>2, NobodyBusy
    <3>3. QED
      BY <3>1, <3>2
  <2>2. ASSUME NEW t \in Threads, TestAndSet(t)
        PROVE  Lock!Enter(t)
    <3>1. \A v \in Threads : ~Busy(v)
      BY <2>2 DEF TestAndSet, LockInv
    <3>2. Busy(t)'
      BY <2>2 DEF TestAndSet, Move, Busy, LockInv, TypeOK
    <3>3. HolderBar' = t
      BY <3>2 DEF LockInv, HolderBar, Busy
    <3>4. QED
      BY <3>1, <3>3, NobodyBusy DEF Lock!Enter
  <2>3. ASSUME NEW t \in Threads, ReleaseClear(t)
        PROVE  Lock!Leave(t)
    <3>1. Busy(t)
      BY <2>3 DEF ReleaseClear, Busy, Inside
    <3>2. \A v \in Threads : ~Busy(v)'
      BY <2>3, <3>1, DepthAssumption
      DEF ReleaseClear, Move, LockInv, NotNested, TypeOK, Busy, Inside
    <3>3. HolderBar' = None
      BY <3>2 DEF HolderBar, Busy
    <3>4. QED
      BY <3>1, <3>3, HolderIsBusy DEF Lock!Leave
  <2> USE DepthAssumption
      DEF LockInv, NotNested, TypeOK, OwnerNotStale, Busy, Inside, Move
  <2>4. ASSUME NEW t \in Threads, Reenter(t) \/ Contend(t) PROVE Same
    BY <2>4 DEF Reenter, Contend
  <2>5. ASSUME NEW t \in Threads, Remember(t) PROVE Same
    BY <2>5 DEF Remember
  <2>6. ASSUME NEW t \in Threads, ReleaseForget(t) PROVE Same
    BY <2>6 DEF ReleaseForget
  <2>7. ASSUME UNCHANGED lockvars PROVE Same
    BY <2>7 DEF lockvars
  <2>8. QED
    BY <2>1, <2>2, <2>3, <2>4, <2>5, <2>6, <2>7
    DEF Next, Acquire, Release, Lock!MutexNext
<1>3. QED
  BY <1>1, <1>2, LockInvariant, PTL DEF Spec, ImplementsMutex, Lock!MutexSpec
==============================================================================
