-------------------------- MODULE ThreadPoolProofs --------------------------
(***************************************************************************)
(* What holds of the thread pool for any number of tasks, groups, waiters  *)
(* and threads, with or without monitoring and resizing: the counter of a  *)
(* group is exact, no wait returns before the tasks it waits for, no       *)
(* resize leaves a slot without a thread, and no thread outlives a pool    *)
(* that was never shrunk.                                                  *)
(***************************************************************************)
EXTENDS ThreadPool, FiniteSetTheorems, TLAPS

(* A thread with a task whose end it has not counted yet.                  *)
Busy(h) == pc[h] \in {"run", "count"}

(* Where a task that was taken for a run waits for it.                     *)
Awaits(t) ==
  \/ t \in queue
  \/ \E h \in Threads : task[h] = t /\ pc[h] = "run"
  \/ otask = t /\ opc = "helprun"

(* The variables the argument is about.                                    *)
Types ==
  /\ queue \subseteq Tasks /\ runs \in [Tasks -> Nat]
  /\ count \in [Group -> Nat] /\ generation \in [Group -> Nat]
  /\ groupOf \in [Tasks -> Group \cup {None}]
  /\ pc \in [Threads -> {"none", "take", "run", "count", "stats", "check", "finish", "exit"}]
  /\ task \in [Threads -> Tasks \cup {None}]
  /\ opc \in OwnerCalls /\ otask \in Tasks \cup {None}
  /\ pending \subseteq Tasks /\ inline \in Tasks \cup {None}
  /\ idx \in Nat /\ size \in Nat /\ target \in Nat

(* A task is in one place at a time: with the caller, in the queue, or in   *)
(* the hands of one thread.                                                *)
Places ==
  /\ \A t \in queue : groupOf[t] # None
  /\ \A h \in Threads : Busy(h) =>
        /\ task[h] \in Tasks /\ groupOf[task[h]] # None
        /\ task[h] \notin queue /\ task[h] # otask
  /\ \A h, k \in Threads : Busy(h) /\ Busy(k) /\ task[h] = task[k] => h = k
  /\ otask # None => groupOf[otask] # None /\ otask \notin queue
  /\ otask # None <=> opc \in {"helprun", "helpcount"}
  /\ \A t \in pending : groupOf[t] = None
  /\ inline # None => groupOf[inline] = None /\ inline \notin pending

(* What the calls of the owner keep between their steps.                   *)
Calls ==
  /\ opc \notin {"enqueue", "push"} => pending = {}
  /\ opc \notin {"enqueue", "push", "inline"} => inline = None
  /\ opc = "inline" => inline # None
  /\ opc \in {"enqueue", "push"} => idx \in Group
  /\ opc = "enqueue" => count[idx] = 0

(* A task in the queue or on its way to a run was not run, any other that   *)
(* was queued was run once.                                                *)
RunsOnce ==
  /\ \A t \in Tasks : groupOf[t] # None => runs[t] = IF Awaits(t) THEN 0 ELSE 1
  /\ \A t \in pending : runs[t] = 0
  /\ inline # None => runs[inline] = 0

CountInv == Types /\ Places /\ Calls /\ CountMatches

(* The tasks of a handle are in its group, and if the group has moved on to *)
(* a later generation they are done.                                       *)
Good(h) ==
  /\ h \in Handles
  /\ h.generation <= generation[h.index]
  /\ \A t \in h.tasks :
        \/ groupOf[t] = h.index
        \/ t \in pending /\ opc = "push" /\ idx = h.index
  /\ h.generation < generation[h.index] => \A t \in h.tasks : groupOf[t] # None /\ runs[t] = 1

HandlesGood ==
  /\ Good(hndl)
  /\ \A h \in handles : Good(h)
  /\ whndl \in [Waiters -> Handles] /\ \A w \in Waiters : Good(whndl[w])
  /\ \A h \in returned : \A t \in h.tasks : t \in Tasks /\ groupOf[t] # None /\ runs[t] = 1

(* While the owner adds the counters up they only fall, so that those it    *)
(* has found at 0 stay there.                                              *)
ScanInv ==
  opc = "scan" =>
    /\ queue = {} /\ idx \in 0 .. Groups /\ sum \in Nat
    /\ sum = 0 => \A g \in Group : g < idx => count[g] = 0

IInv == CountInv /\ RunsOnce /\ HandlesGood /\ ScanInv

-----------------------------------------------------------------------------
LEMMA OutstandingFinite ==
  ASSUME Types, NEW g \in Group
  PROVE  /\ Outstanding(g) \subseteq Tasks
         /\ IsFiniteSet(Outstanding(g))
         /\ Cardinality(Outstanding(g)) \in Nat
<1>1. Outstanding(g) \subseteq Tasks
  BY DEF Outstanding, Types
<1>2. QED
  BY <1>1, PoolAssumption, FS_Subset, FS_CardinalityType

(* A counter at 0 says that nothing of the group is outstanding.           *)
LEMMA NothingLeft ==
  ASSUME Types, CountMatches, NEW g \in Group, count[g] = 0
  PROVE  Outstanding(g) = {}
  BY OutstandingFinite, FS_EmptySet DEF CountMatches

LEMMA TypesInit == Init => Types
  BY PoolAssumption DEF Init, Types, OwnerCalls, Group, Threads

LEMMA CountInvInit == Init => CountInv
<1> SUFFICES ASSUME Init PROVE CountInv
  OBVIOUS
<1>1. Places /\ Calls
  BY PoolAssumption DEF Init, Places, Calls, Busy
<1>2. \A g \in Group : Outstanding(g) = {}
  BY PoolAssumption DEF Init, Outstanding, InHand
<1>3. CountMatches
  BY <1>2, FS_EmptySet DEF Init, CountMatches
<1>4. QED
  BY <1>1, <1>3, TypesInit DEF CountInv

-----------------------------------------------------------------------------
(* Steps that move no task, no counter and none of the calls that do.      *)
OwnerElsewhere ==
  \/ opc' = opc /\ idx' = idx
  \/ {opc, opc'} \cap {"enqueue", "push", "inline", "helprun", "helpcount"} = {}

TasksStay ==
  /\ UNCHANGED <<queue, count, groupOf, runs, pending, inline, otask>>
  /\ \A h \in Threads : Busy(h)' = Busy(h) /\ (pc[h] = "run")' = (pc[h] = "run")
  /\ \A h \in Threads : Busy(h) => task'[h] = task[h]
  /\ OwnerElsewhere

LEMMA CountQuiet ==
  ASSUME CountInv, TasksStay
  PROVE  Places' /\ Calls' /\ CountMatches'
<1> USE DEF CountInv, TasksStay, OwnerElsewhere
<1>1. Places'
  BY DEF Places
<1>2. Calls'
  BY DEF Calls
<1>3. ASSUME NEW g \in Group PROVE Outstanding(g)' = Outstanding(g)
  <2>1. \A t : InHand(t)' <=> InHand(t)
    BY DEF InHand, Busy
  <2>2. (IF opc = "push" /\ idx = g THEN pending ELSE {})' = IF opc = "push" /\ idx = g THEN pending ELSE {}
    OBVIOUS
  <2>3. QED
    BY <2>1, <2>2 DEF Outstanding
<1>4. QED
  BY <1>1, <1>2, <1>3 DEF CountMatches

(* ... which is what these steps are.                                      *)
LEMMA QuietWorker ==
  ASSUME CountInv, NEW h \in Threads,
         TakeNull(h) \/ WriteStats(h) \/ CheckStatus(h) \/ Finish(h)
  PROVE  Types' /\ TasksStay
<1> USE DEF CountInv, Types, TasksStay, OwnerElsewhere, Busy, Goto, queuevars, slotvars,
            ownervars, waitvars
<1>1. CASE TakeNull(h)
  BY <1>1 DEF TakeNull
<1>2. CASE WriteStats(h)
  BY <1>2 DEF WriteStats
<1>3. CASE CheckStatus(h)
  BY <1>3 DEF CheckStatus
<1>4. CASE Finish(h)
  BY <1>4 DEF Finish
<1>5. QED
  BY <1>1, <1>2, <1>3, <1>4

LEMMA QuietOwnerCall ==
  ASSUME CountInv,
         (\E h \in handles : StartWait(h)) \/ WaitAll \/ (\E n \in Sizes : Resize(n)) \/ StartFree
  PROVE  Types' /\ TasksStay
<1> USE PoolAssumption DEF CountInv, Types, TasksStay, OwnerElsewhere, Busy, Call, OwnerCalls,
            queuevars, slotvars, threadvars, waitvars
<1>1. CASE \E h \in handles : StartWait(h)
  BY <1>1 DEF StartWait
<1>2. CASE WaitAll
  BY <1>2 DEF WaitAll
<1>3. ASSUME NEW n \in Sizes, Resize(n) PROVE Types' /\ TasksStay
  <2>1. idx' \in Nat
    BY <1>3 DEF Resize
  <2>2. QED
    BY <1>3, <2>1 DEF Resize
<1>4. CASE StartFree
  BY <1>4 DEF StartFree
<1>5. QED
  BY <1>1, <1>2, <1>3, <1>4

LEMMA QuietOwnerStep ==
  ASSUME CountInv,
         \/ OwnerWait \/ HelpDone \/ Scan
         \/ Revive \/ (\E h \in Threads : CreateThread(h)) \/ Shrink \/ Resized
         \/ Mark \/ Join \/ Release
  PROVE  Types' /\ TasksStay
<1> USE DEF CountInv, Types, TasksStay, OwnerElsewhere, Busy, Call, OwnerCalls,
            queuevars, slotvars, threadvars, waitvars
<1>1. CASE OwnerWait
  BY <1>1 DEF OwnerWait
<1>2. CASE HelpDone \/ Scan
  BY <1>2 DEF HelpDone, Scan
<1>3. CASE Revive \/ Shrink \/ Resized
  BY <1>3 DEF Revive, Shrink, Resized
<1>4. ASSUME NEW h \in Threads, CreateThread(h) PROVE Types' /\ TasksStay
  <2>1. pc[h] = "none" /\ pc' = [pc EXCEPT ![h] = "take"]
    BY <1>4 DEF CreateThread, Unused
  <2>2. \A k \in Threads : Busy(k)' = Busy(k)
    BY <2>1
  <2>3. QED
    BY <1>4, <2>1, <2>2 DEF CreateThread
<1>5. CASE Mark \/ Join \/ Release
  BY <1>5 DEF Mark, Join, Release
<1>6. QED
  BY <1>1, <1>2, <1>3, <1>4, <1>5

LEMMA QuietRest ==
  ASSUME CountInv, (\E w \in Waiters : WaiterStart(w) \/ WaiterStep(w)) \/ UNCHANGED vars
  PROVE  Types' /\ TasksStay
<1> USE DEF CountInv, Types, TasksStay, OwnerElsewhere, Busy,
            queuevars, slotvars, threadvars, ownervars, waitvars
<1>1. ASSUME NEW w \in Waiters, WaiterStart(w) \/ WaiterStep(w) PROVE Types' /\ TasksStay
  BY <1>1 DEF WaiterStart, WaiterStep
<1>2. CASE UNCHANGED vars
  BY <1>2 DEF vars
<1>3. QED
  BY <1>1, <1>2

LEMMA CountQuietStep ==
  ASSUME CountInv, Types', TasksStay PROVE CountInv'
  BY CountQuiet DEF CountInv

(* The outstanding tasks of every group, when hands and calls stay what     *)
(* they are for the outstanding set.                                       *)
LEMMA SameOutstanding ==
  ASSUME CountMatches, count' = count, \A g \in Group : Outstanding(g)' = Outstanding(g)
  PROVE  CountMatches'
  BY DEF CountMatches

(* One task of a group is done and the counter went down by one.           *)
LEMMA OneLess ==
  ASSUME CountInv, NEW t \in Tasks, groupOf[t] # None, InHand(t),
         count' = [count EXCEPT ![groupOf[t]] = @ - 1],
         \A g \in Group : Outstanding(g)' = Outstanding(g) \ {t}
  PROVE  count' \in [Group -> Nat] /\ CountMatches'
<1> DEFINE mine == groupOf[t]
<1> USE DEF CountInv, Types
<1>1. mine \in Group /\ t \in Outstanding(mine)
  BY DEF Outstanding
<1>2. Cardinality(Outstanding(mine) \ {t}) = count[mine] - 1 /\ count[mine] - 1 \in Nat
  <2>1. Cardinality(Outstanding(mine) \ {t}) = Cardinality(Outstanding(mine)) - 1
    BY <1>1, OutstandingFinite, FS_RemoveElement
  <2>2. Cardinality(Outstanding(mine) \ {t}) \in Nat
    BY <1>1, OutstandingFinite, FS_RemoveElement, FS_CardinalityType
  <2>3. QED
    BY <1>1, <2>1, <2>2 DEF CountMatches
<1>3. ASSUME NEW g \in Group, g # mine PROVE t \notin Outstanding(g)
  <2>1. t \notin pending
    BY DEF Places
  <2>2. QED
    BY <1>3, <2>1 DEF Outstanding
<1>4. ASSUME NEW g \in Group PROVE count'[g] = Cardinality(Outstanding(g)')
  <2>1. CASE g = mine
    BY <1>1, <1>2, <2>1
  <2>2. CASE g # mine
    BY <1>3, <2>2 DEF CountMatches
  <2>3. QED
    BY <2>1, <2>2
<1>5. QED
  BY <1>1, <1>2, <1>4 DEF CountMatches

LEMMA CountTake ==
  ASSUME CountInv, NEW h \in Threads, NEW t \in Tasks, TakeTask(h, t) PROVE CountInv'
<1> USE DEF CountInv, Types, Busy, Goto, TakeTask, slotvars, ownervars, waitvars
<1>1. Types'
  OBVIOUS
<1>2. Places' /\ Calls'
  BY PoolAssumption DEF Places, Calls
<1>3. \A u : InHand(u)' <=> InHand(u)
  BY DEF InHand, Places
<1>4. \A g \in Group : Outstanding(g)' = Outstanding(g)
  BY <1>3 DEF Outstanding
<1>5. QED
  BY <1>1, <1>2, <1>4, SameOutstanding

LEMMA CountRun ==
  ASSUME CountInv, NEW h \in Threads, RunTask(h) PROVE CountInv'
<1> USE DEF CountInv, Busy, Goto, RunTask, slotvars, ownervars, waitvars
<1>1. task[h] \in Tasks
  BY DEF Places
<1>2. Types'
  BY <1>1 DEF Types
<1>3. \A k \in Threads : Busy(k)' = Busy(k)
  BY DEF Types
<1>4. Places' /\ Calls'
  BY <1>3 DEF Places, Calls
<1>5. \A u : InHand(u)' <=> InHand(u)
  BY <1>3 DEF InHand
<1>6. \A g \in Group : Outstanding(g)' = Outstanding(g)
  BY <1>5 DEF Outstanding
<1>7. QED
  BY <1>2, <1>4, <1>6, SameOutstanding

LEMMA CountDone ==
  ASSUME CountInv, NEW h \in Threads, CountDown(h) PROVE CountInv'
<1> DEFINE t == task[h]
<1> USE DEF CountInv, Busy, Goto, CountDown, slotvars, ownervars, waitvars
<1>1. /\ t \in Tasks /\ groupOf[t] # None /\ t \notin queue /\ t # otask
      /\ \A k \in Threads : Busy(k) /\ task[k] = t => k = h
  BY DEF Places
<1>2. /\ pc' = [pc EXCEPT ![h] = IF Monitoring THEN "stats" ELSE "check"]
      /\ task' = [task EXCEPT ![h] = IF Monitoring THEN @ ELSE None]
      /\ UNCHANGED <<queue, groupOf, opc, otask, idx, pending, inline, generation, runs, size, target>>
  OBVIOUS
<1>3. \A u : InHand(u)' <=> InHand(u) /\ u # t
  BY <1>1, <1>2 DEF InHand, Types
<1>4. InHand(t) /\ t \notin pending
  BY <1>1 DEF InHand, Places
<1>5. \A g \in Group : Outstanding(g)' = Outstanding(g) \ {t}
  BY <1>2, <1>3, <1>4 DEF Outstanding
<1>6. count' \in [Group -> Nat] /\ CountMatches'
  BY <1>1, <1>4, <1>5, OneLess
<1>7. Types'
  BY <1>2, <1>6 DEF Types
<1>8. Places' /\ Calls'
  <2>1. opc # "enqueue"' \/ count' = count \/ opc = "enqueue"
    BY <1>2
  <2>2. Places'
    BY <1>1, <1>2 DEF Places, Types
  <2>3. opc = "enqueue" => count[idx] = 0 /\ Outstanding(idx) = {} /\ idx \in Group
    BY NothingLeft DEF Calls
  <2>4. opc = "enqueue" => groupOf[t] # idx
    BY <1>1, <1>4, <2>3 DEF Outstanding
  <2>5. Calls'
    BY <1>2, <2>3, <2>4 DEF Calls, Types
  <2>6. QED
    BY <2>2, <2>5
<1>9. QED
  BY <1>6, <1>7, <1>8

LEMMA CountEnqueue ==
  ASSUME CountInv, NEW S \in SUBSET Tasks, NEW own \in Tasks \cup {None}, Enqueue(S, own)
  PROVE  CountInv'
<1> USE DEF CountInv, Busy, Call, Enqueue, slotvars, threadvars, waitvars
<1>1. PICK g \in Group : /\ FreeGroup(g)
                         /\ generation' = [generation EXCEPT ![g] = @ + 1]
                         /\ idx' = g
  OBVIOUS
<1>2. count[g] = 0
  BY <1>1 DEF FreeGroup
<1>3. Types'
  BY <1>1 DEF Types, OwnerCalls, Group
<1>4. /\ \A t \in S : groupOf[t] = None
      /\ own # None => groupOf[own] = None /\ own \notin S
  BY DEF Submitted, Types
<1>5. Places' /\ Calls'
  BY <1>1, <1>2, <1>4 DEF Places, Calls
<1>6. \A u : InHand(u)' <=> InHand(u)
  BY DEF InHand
<1>7. \A f \in Group : Outstanding(f)' = Outstanding(f)
  BY <1>6 DEF Outstanding
<1>8. QED
  BY <1>3, <1>5, <1>7, SameOutstanding

LEMMA CountSet ==
  ASSUME CountInv, SetCount PROVE CountInv'
<1> USE DEF CountInv, Busy, Call, SetCount, slotvars, threadvars, waitvars
<1>1. idx \in Group /\ count[idx] = 0 /\ Outstanding(idx) = {}
  BY NothingLeft DEF Calls
<1>2. \A u : InHand(u)' <=> InHand(u)
  BY DEF InHand
<1>3. IsFiniteSet(pending) /\ Cardinality(pending) \in Nat
  BY PoolAssumption, FS_Subset, FS_CardinalityType DEF Types
<1>4. Types'
  BY <1>1, <1>3 DEF Types, OwnerCalls
<1>5. Places' /\ Calls'
  BY <1>1 DEF Places, Calls
<1>6. Outstanding(idx)' = pending
  BY <1>1, <1>2 DEF Outstanding
<1>7. \A g \in Group : g # idx => Outstanding(g)' = Outstanding(g)
  BY <1>2 DEF Outstanding
<1>8. CountMatches'
  BY <1>1, <1>6, <1>7 DEF CountMatches, Types
<1>9. QED
  BY <1>4, <1>5, <1>8

LEMMA CountPush ==
  ASSUME CountInv, NEW t \in Tasks, PushTask(t) PROVE CountInv'
<1> USE DEF CountInv, Busy, Call, PushTask, slotvars, threadvars, waitvars
<1>1. idx \in Group /\ idx # None /\ groupOf[t] = None /\ t # inline
  BY PoolAssumption DEF Places, Calls, Group
<1>2. /\ t \notin queue /\ t # otask
      /\ \A h \in Threads : Busy(h) => task[h] # t
  BY <1>1, PoolAssumption DEF Places
<1>3. Types'
  BY <1>1 DEF Types
<1>4. Places' /\ Calls'
  BY <1>1, <1>2, PoolAssumption DEF Places, Calls, Types
<1>5. \A u : InHand(u)' <=> InHand(u) \/ u = t
  BY DEF InHand
<1>6. \A g \in Group : Outstanding(g)' = Outstanding(g)
  BY <1>1, <1>5, PoolAssumption DEF Outstanding, Group, Types
<1>7. QED
  BY <1>3, <1>4, <1>6, SameOutstanding

LEMMA CountOwner ==
  ASSUME CountInv, Enqueued \/ RunInline \/ HelpRun PROVE CountInv'
<1> USE DEF CountInv, Busy, Call, slotvars, threadvars, waitvars
<1>1. Types'
  <2>1. CASE Enqueued
    BY <2>1 DEF Enqueued, Types, OwnerCalls, queuevars
  <2>2. CASE RunInline
    <3>1. inline \in Tasks
      BY <2>2 DEF RunInline, Calls, Types
    <3>2. QED
      BY <2>2, <3>1 DEF RunInline, Types, OwnerCalls
  <2>3. CASE HelpRun
    <3>1. otask \in Tasks
      BY <2>3 DEF HelpRun, Places, Types
    <3>2. QED
      BY <2>3, <3>1 DEF HelpRun, Types, OwnerCalls
  <2>4. QED
    BY <2>1, <2>2, <2>3
<1>2. Places' /\ Calls'
  BY DEF Enqueued, RunInline, HelpRun, Places, Calls, queuevars
<1>3. \A u : InHand(u)' <=> InHand(u)
  BY DEF Enqueued, RunInline, HelpRun, InHand, queuevars
<1>4. \A g \in Group : Outstanding(g)' = Outstanding(g)
  BY <1>3 DEF Enqueued, RunInline, HelpRun, Outstanding, queuevars
<1>5. count' = count
  BY DEF Enqueued, RunInline, HelpRun, queuevars
<1>6. QED
  BY <1>1, <1>2, <1>4, <1>5, SameOutstanding

LEMMA CountHelp ==
  ASSUME CountInv, NEW t \in Tasks, HelpTake(t) PROVE CountInv'
<1> USE DEF CountInv, Busy, Call, HelpTake, slotvars, threadvars, waitvars
<1>1. Types'
  BY DEF Types, OwnerCalls
<1>2. otask = None
  BY DEF Places
<1>3. Places' /\ Calls'
  BY <1>2, PoolAssumption DEF Places, Calls
<1>4. \A u \in Tasks : InHand(u)' <=> InHand(u)
  BY <1>2, PoolAssumption DEF InHand
<1>5. \A g \in Group : Outstanding(g)' = Outstanding(g)
  BY <1>4 DEF Outstanding
<1>6. QED
  BY <1>1, <1>3, <1>5, SameOutstanding

LEMMA CountHelped ==
  ASSUME CountInv, HelpCount PROVE CountInv'
<1> USE DEF CountInv, Busy, Call, HelpCount, slotvars, threadvars, waitvars
<1>1. /\ otask \in Tasks /\ groupOf[otask] # None /\ otask \notin queue
      /\ \A h \in Threads : Busy(h) => task[h] # otask
  BY DEF Places, Types
<1>2. InHand(otask) /\ otask \notin pending
  BY <1>1 DEF InHand, Places
<1>3. \A u \in Tasks : InHand(u)' <=> InHand(u) /\ u # otask
  BY <1>1, PoolAssumption DEF InHand
<1>4. \A g \in Group : Outstanding(g)' = Outstanding(g) \ {otask}
  BY <1>1, <1>2, <1>3 DEF Outstanding
<1>5. count' \in [Group -> Nat] /\ CountMatches'
  BY <1>1, <1>2, <1>4, OneLess
<1>6. Types'
  BY <1>5 DEF Types, OwnerCalls
<1>7. Places' /\ Calls'
  BY <1>1, PoolAssumption DEF Places, Calls
<1>8. QED
  BY <1>5, <1>6, <1>7

LEMMA CountStep == CountInv /\ [Next]_vars => CountInv'
<1> SUFFICES ASSUME CountInv, [Next]_vars PROVE CountInv'
  OBVIOUS
<1>1. ASSUME NEW h \in Threads, Worker(h) PROVE CountInv'
  BY <1>1, CountTake, CountRun, CountDone, QuietWorker, CountQuietStep DEF Worker
<1>2. CASE OwnerCall
  BY <1>2, CountEnqueue, QuietOwnerCall, CountQuietStep DEF OwnerCall
<1>3. CASE OwnerStep
  <2>1. CASE SetCount \/ Enqueued \/ RunInline \/ HelpRun \/ HelpCount
    BY <2>1, CountSet, CountOwner, CountHelped
  <2>2. ASSUME NEW t \in Tasks, PushTask(t) \/ HelpTake(t) PROVE CountInv'
    BY <2>2, CountPush, CountHelp
  <2>3. CASE \/ OwnerWait \/ HelpDone \/ Scan
             \/ Revive \/ (\E h \in Threads : CreateThread(h)) \/ Shrink \/ Resized
             \/ Mark \/ Join \/ Release
    BY <2>3, QuietOwnerStep, CountQuietStep
  <2>4. QED
    BY <1>3, <2>1, <2>2, <2>3 DEF OwnerStep
<1>4. CASE (\E w \in Waiters : WaiterStart(w) \/ WaiterStep(w)) \/ UNCHANGED vars
  BY <1>4, QuietRest, CountQuietStep
<1>5. QED
  BY <1>1, <1>2, <1>3, <1>4 DEF Next

(* The counter of a group is the number of its tasks that are not finished, *)
(* with any number of workers that count down while the owner pushes, helps *)
(* or resizes the pool.                                                    *)
THEOREM CountsExact == Spec => []CountMatches
<1>1. CountInv => CountMatches
  BY DEF CountInv
<1>2. QED
  BY <1>1, CountInvInit, CountStep, PTL DEF Spec

-----------------------------------------------------------------------------
(* Every task is run once.                                                 *)
LEMMA RunsInit == Init => RunsOnce
  BY DEF Init, RunsOnce

LEMMA RunsQuiet ==
  ASSUME CountInv, RunsOnce, TasksStay PROVE RunsOnce'
<1>1. ASSUME NEW t \in Tasks PROVE Awaits(t)' = Awaits(t)
  <2>1. queue' = queue /\ otask' = otask
    BY DEF TasksStay
  <2>2. (opc' = "helprun") = (opc = "helprun")
    BY DEF TasksStay, OwnerElsewhere
  <2>3. ASSUME NEW h \in Threads
        PROVE  (task'[h] = t /\ pc'[h] = "run") = (task[h] = t /\ pc[h] = "run")
    <3>1. (pc'[h] = "run") = (pc[h] = "run")
      BY DEF TasksStay
    <3>2. pc[h] = "run" => task'[h] = task[h]
      BY DEF TasksStay, Busy
    <3>3. QED
      BY <3>1, <3>2
  <2>4. QED
    BY <2>1, <2>2, <2>3 DEF Awaits
<1>2. QED
  BY <1>1 DEF RunsOnce, TasksStay

(* A task that was in a group stays there, and is run no second time.      *)
Settled ==
  \A t \in Tasks : groupOf[t] # None =>
    groupOf'[t] = groupOf[t] /\ (runs[t] = 1 => runs'[t] = 1)

LEMMA RunsWorker ==
  ASSUME CountInv, RunsOnce, NEW h \in Threads,
         (\E t \in Tasks : TakeTask(h, t)) \/ RunTask(h) \/ CountDown(h)
  PROVE  RunsOnce' /\ Settled
<1> USE DEF CountInv, Types, Busy, Goto, slotvars, ownervars, waitvars
<1>1. ASSUME NEW t \in Tasks, TakeTask(h, t) PROVE RunsOnce' /\ Settled
  <2>1. \A u \in Tasks : Awaits(u)' = Awaits(u)
    BY <1>1 DEF TakeTask, Awaits
  <2>2. QED
    BY <1>1, <2>1 DEF TakeTask, RunsOnce, Settled
<1>2. CASE RunTask(h)
  <2>1. /\ task[h] \in Tasks /\ groupOf[task[h]] # None
        /\ task[h] \notin queue /\ task[h] # otask
        /\ \A k \in Threads : pc[k] = "run" /\ task[k] = task[h] => k = h
    BY <1>2 DEF RunTask, Places
  <2>2. \A u \in Tasks : Awaits(u)' <=> Awaits(u) /\ u # task[h]
    BY <1>2, <2>1 DEF RunTask, Awaits
  <2>3. runs[task[h]] = 0 /\ runs' = [runs EXCEPT ![task[h]] = 1]
    <3>1. Awaits(task[h])
      BY <1>2 DEF RunTask, Awaits
    <3>2. runs[task[h]] = 0
      BY <2>1, <3>1 DEF RunsOnce
    <3>3. QED
      BY <1>2, <2>1, <3>2 DEF RunTask
  <2>4. task[h] \notin pending /\ (inline # None => task[h] # inline)
    BY <2>1 DEF Places
  <2>5. QED
    BY <1>2, <2>1, <2>2, <2>3, <2>4 DEF RunTask, RunsOnce, Settled
<1>3. CASE CountDown(h)
  <2>1. \A u \in Tasks : Awaits(u)' = Awaits(u)
    BY <1>3 DEF CountDown, Awaits
  <2>2. QED
    BY <1>3, <2>1 DEF CountDown, RunsOnce, Settled
<1>4. QED
  BY <1>1, <1>2, <1>3

LEMMA RunsEnqueue ==
  ASSUME CountInv, RunsOnce, NEW S \in SUBSET Tasks, NEW own \in Tasks \cup {None},
         Enqueue(S, own)
  PROVE  RunsOnce' /\ Settled
<1> USE DEF CountInv, Types, Call, Enqueue, slotvars, threadvars, waitvars
<1>1. \A t \in Tasks : t \in S \/ t = own => runs[t] = 0
  BY DEF Submitted
<1>2. \A t \in Tasks : Awaits(t)' = Awaits(t)
  BY DEF Awaits
<1>3. QED
  BY <1>1, <1>2 DEF RunsOnce, Settled

LEMMA RunsPush ==
  ASSUME CountInv, RunsOnce, NEW t \in Tasks, PushTask(t)
  PROVE  RunsOnce' /\ Settled
<1> USE DEF CountInv, Types, Call, PushTask, slotvars, threadvars, waitvars
<1>1. groupOf[t] = None /\ runs[t] = 0
  BY DEF Places, RunsOnce
<1>2. \A u \in Tasks : Awaits(u)' <=> Awaits(u) \/ u = t
  BY DEF Awaits
<1>3. QED
  BY <1>1, <1>2 DEF RunsOnce, Settled

LEMMA RunsOwner ==
  ASSUME CountInv, RunsOnce, SetCount \/ Enqueued \/ RunInline
  PROVE  RunsOnce' /\ Settled
<1> USE DEF CountInv, Types, Call, queuevars, slotvars, threadvars, waitvars
<1>1. \A t \in Tasks : Awaits(t)' = Awaits(t)
  BY DEF SetCount, Enqueued, RunInline, Awaits
<1>2. CASE SetCount \/ Enqueued
  BY <1>1, <1>2 DEF SetCount, Enqueued, RunsOnce, Settled
<1>3. CASE RunInline
  <2>1. inline \in Tasks /\ groupOf[inline] = None /\ inline \notin pending
    BY <1>3 DEF RunInline, Calls, Places
  <2>2. QED
    BY <1>1, <1>3, <2>1 DEF RunInline, RunsOnce, Settled
<1>4. QED
  BY <1>2, <1>3

LEMMA RunsHelp ==
  ASSUME CountInv, RunsOnce, (\E t \in Tasks : HelpTake(t)) \/ HelpRun \/ HelpCount
  PROVE  RunsOnce' /\ Settled
<1> USE DEF CountInv, Types, Call, queuevars, slotvars, threadvars, waitvars
<1>1. ASSUME NEW t \in Tasks, HelpTake(t) PROVE RunsOnce' /\ Settled
  <2>1. otask = None
    BY <1>1 DEF HelpTake, Places
  <2>2. \A u \in Tasks : Awaits(u)' = Awaits(u)
    BY <1>1, <2>1, PoolAssumption DEF HelpTake, Awaits
  <2>3. QED
    BY <1>1, <2>2 DEF HelpTake, RunsOnce, Settled
<1>2. CASE HelpRun
  <2>1. /\ otask \in Tasks /\ groupOf[otask] # None /\ otask \notin queue
        /\ otask \notin pending /\ (inline # None => otask # inline)
        /\ \A h \in Threads : pc[h] = "run" => task[h] # otask
    BY <1>2 DEF HelpRun, Places, Busy
  <2>2. \A u \in Tasks : Awaits(u)' <=> Awaits(u) /\ u # otask
    BY <1>2, <2>1 DEF HelpRun, Awaits
  <2>3. runs[otask] = 0 /\ runs' = [runs EXCEPT ![otask] = 1]
    <3>1. Awaits(otask)
      BY <1>2 DEF HelpRun, Awaits
    <3>2. runs[otask] = 0
      BY <2>1, <3>1 DEF RunsOnce
    <3>3. QED
      BY <1>2, <2>1, <3>2 DEF HelpRun
  <2>4. QED
    BY <1>2, <2>1, <2>2, <2>3 DEF HelpRun, RunsOnce, Settled
<1>3. CASE HelpCount
  <2>1. \A u \in Tasks : Awaits(u)' = Awaits(u)
    BY <1>3 DEF HelpCount, Awaits
  <2>2. QED
    BY <1>3, <2>1 DEF HelpCount, RunsOnce, Settled
<1>4. QED
  BY <1>1, <1>2, <1>3

LEMMA RunsStep ==
  ASSUME CountInv, RunsOnce, [Next]_vars PROVE RunsOnce' /\ Settled
<1>1. ASSUME TasksStay PROVE RunsOnce' /\ Settled
  BY <1>1, RunsQuiet DEF TasksStay, Settled
<1>2. ASSUME NEW h \in Threads, Worker(h) PROVE RunsOnce' /\ Settled
  BY <1>1, <1>2, RunsWorker, QuietWorker DEF Worker
<1>3. CASE OwnerCall
  BY <1>1, <1>3, RunsEnqueue, QuietOwnerCall DEF OwnerCall
<1>4. CASE OwnerStep
  BY <1>1, <1>4, RunsPush, RunsOwner, RunsHelp, QuietOwnerStep DEF OwnerStep
<1>5. CASE (\E w \in Waiters : WaiterStart(w) \/ WaiterStep(w)) \/ UNCHANGED vars
  BY <1>1, <1>5, QuietRest
<1>6. QED
  BY <1>2, <1>3, <1>4, <1>5 DEF Next

-----------------------------------------------------------------------------
(* Handles.                                                                *)
LEMMA HandlesInit == Init => HandlesGood
<1>1. 0 \in Group
  BY PoolAssumption DEF Group
<1>2. QED
  BY <1>1 DEF Init, HandlesGood, Good, NoHandle, Handles

(* A wait that sees a later generation, or the counter at 0, is over.       *)
LEMMA WaitOver ==
  ASSUME CountInv, RunsOnce, NEW h, Good(h),
         generation[h.index] # h.generation \/ count[h.index] = 0
  PROVE  \A t \in h.tasks : t \in Tasks /\ groupOf[t] # None /\ runs[t] = 1
<1> USE DEF CountInv, Types
<1>1. h \in Handles /\ h.index \in Group /\ h.index # None /\ h.tasks \subseteq Tasks
  BY PoolAssumption DEF Good, Handles, Group
<1>2. CASE generation[h.index] # h.generation
  <2>1. h.generation < generation[h.index]
    BY <1>1, <1>2 DEF Good, Handles
  <2>2. QED
    BY <1>1, <2>1 DEF Good
<1>3. CASE count[h.index] = 0
  <2>1. Outstanding(h.index) = {}
    BY <1>1, <1>3, NothingLeft
  <2> SUFFICES ASSUME NEW t \in h.tasks PROVE groupOf[t] = h.index /\ runs[t] = 1
    BY <1>1
  <2>2. ~(t \in pending /\ opc = "push" /\ idx = h.index)
    BY <2>1 DEF Outstanding
  <2>3. groupOf[t] = h.index
    BY <2>2 DEF Good
  <2>4. ~InHand(t)
    BY <1>1, <2>1, <2>3 DEF Outstanding
  <2>5. ~Awaits(t)
    BY <1>1, <2>4, PoolAssumption DEF Awaits, InHand
  <2>6. QED
    BY <1>1, <2>3, <2>5 DEF RunsOnce
<1>4. QED
  BY <1>2, <1>3

(* What keeps a handle good: tasks on their way to the queue arrive in the  *)
(* group, or are still on their way.                                       *)
OnTheWay ==
  opc = "push" =>
    \A t \in pending : groupOf'[t] = idx \/ (t \in pending' /\ opc' = "push" /\ idx' = idx)

LEMMA GoodStays ==
  ASSUME CountInv, Settled, OnTheWay, generation' = generation, NEW h, Good(h)
  PROVE  Good(h)'
<1>1. h.tasks \subseteq Tasks /\ h.index # None /\ h.index \in Group
  BY PoolAssumption DEF Good, Handles, Group
<1>2. \A t \in h.tasks : groupOf'[t] = h.index \/ (t \in pending /\ opc = "push" /\ idx = h.index)
  BY <1>1 DEF Good, Settled
<1>3. \A t \in h.tasks : groupOf'[t] = h.index \/ (t \in pending /\ opc = "push" /\ idx = h.index)'
  BY <1>2 DEF OnTheWay
<1>4. h.generation < generation[h.index] =>
        \A t \in h.tasks : groupOf'[t] # None /\ runs'[t] = 1
  BY <1>1 DEF Good, Settled
<1>5. QED
  BY <1>3, <1>4 DEF Good

LEMMA ReturnedStay ==
  ASSUME HandlesGood, Settled, NEW h \in returned
  PROVE  \A t \in h.tasks : t \in Tasks /\ groupOf'[t] # None /\ runs'[t] = 1
  BY DEF HandlesGood, Settled

LEMMA HandlesQuiet ==
  ASSUME CountInv, HandlesGood, Settled, OnTheWay,
         UNCHANGED <<generation, hndl, handles, whndl, returned>>
  PROVE  HandlesGood'
  BY GoodStays, ReturnedStay DEF HandlesGood

LEMMA HandlesEnqueue ==
  ASSUME CountInv, RunsOnce, HandlesGood, Settled,
         NEW S \in SUBSET Tasks, NEW own \in Tasks \cup {None}, Enqueue(S, own)
  PROVE  HandlesGood'
<1> USE DEF CountInv, Types
<1>1. PICK g \in Group : /\ FreeGroup(g)
                         /\ generation' = [generation EXCEPT ![g] = @ + 1]
  BY DEF Enqueue
<1>2. count[g] = 0
  BY <1>1 DEF FreeGroup
<1>3. /\ opc = "idle" /\ opc' = "enqueue"
      /\ UNCHANGED <<groupOf, runs, hndl, handles, whndl, returned>>
  BY DEF Enqueue, Call, waitvars
<1>4. ASSUME NEW h, Good(h) PROVE Good(h)'
  <2>1. h \in Handles /\ h.index \in Group /\ h.generation \in Nat /\ h.generation <= generation[h.index]
    BY <1>4 DEF Good, Handles
  <2>2. \A t \in h.tasks : groupOf[t] = h.index
    BY <1>3, <1>4 DEF Good
  <2>3. CASE h.index = g
    <3>1. \A t \in h.tasks : groupOf[t] # None /\ runs[t] = 1
      BY <1>2, <1>4, <2>3, WaitOver
    <3>2. generation'[g] = generation[g] + 1 /\ generation[g] \in Nat
      BY <1>1
    <3>3. QED
      BY <1>3, <2>1, <2>2, <2>3, <3>1, <3>2 DEF Good
  <2>4. CASE h.index # g
    <3>1. generation'[h.index] = generation[h.index]
      BY <1>1, <2>1, <2>4
    <3>2. QED
      BY <1>3, <1>4, <2>1, <2>2, <3>1 DEF Good
  <2>5. QED
    BY <2>3, <2>4
<1>5. QED
  BY <1>3, <1>4, ReturnedStay DEF HandlesGood

LEMMA HandlesSetCount ==
  ASSUME CountInv, HandlesGood, Settled, SetCount PROVE HandlesGood'
<1> USE DEF CountInv, Types
<1>1. /\ opc = "enqueue" /\ opc' = "push" /\ idx \in Group
      /\ hndl' = [index |-> idx, generation |-> generation[idx], tasks |-> pending]
      /\ UNCHANGED <<generation, groupOf, runs, idx, pending, handles, whndl, returned>>
  BY DEF SetCount, Call, Calls, waitvars
<1>2. OnTheWay
  BY <1>1 DEF OnTheWay
<1>3. Good(hndl)'
  <2>1. hndl' \in Handles
    BY <1>1 DEF Handles
  <2>2. hndl'.index = idx /\ hndl'.generation = generation[idx] /\ hndl'.tasks = pending
    BY <1>1
  <2>3. ~(hndl'.generation < generation'[hndl'.index]) /\ hndl'.generation <= generation'[hndl'.index]
    BY <1>1, <2>2
  <2>4. QED
    BY <1>1, <2>1, <2>2, <2>3 DEF Good
<1>4. (\A h \in handles : Good(h))' /\ (\A w \in Waiters : Good(whndl[w]))'
  BY <1>1, <1>2, GoodStays DEF HandlesGood
<1>5. QED
  BY <1>1, <1>3, <1>4, ReturnedStay DEF HandlesGood

LEMMA HandlesPush ==
  ASSUME CountInv, HandlesGood, Settled, (\E t \in Tasks : PushTask(t)) \/ Enqueued \/ RunInline
  PROVE  HandlesGood'
<1> USE DEF CountInv, Types, Call, queuevars, slotvars, threadvars, waitvars
<1>1. ASSUME NEW t \in Tasks, PushTask(t) PROVE HandlesGood'
  BY <1>1, HandlesQuiet DEF PushTask, OnTheWay
<1>2. CASE Enqueued
  <2>1. OnTheWay
    BY <1>2 DEF Enqueued, OnTheWay
  <2>2. UNCHANGED <<generation, hndl, whndl, returned>> /\ handles' = handles \cup {hndl}
    BY <1>2 DEF Enqueued
  <2>3. QED
    BY <2>1, <2>2, GoodStays, ReturnedStay DEF HandlesGood
<1>3. CASE RunInline
  BY <1>3, HandlesQuiet DEF RunInline, OnTheWay
<1>4. QED
  BY <1>1, <1>2, <1>3

(* The steps of the waits.                                                 *)
LEMMA HandlesOwnerWait ==
  ASSUME CountInv, RunsOnce, HandlesGood, Settled,
         (\E h \in handles : StartWait(h)) \/ OwnerWait
  PROVE  HandlesGood'
<1> USE DEF CountInv, Types, Call, queuevars, slotvars, threadvars, waitvars
<1>1. OnTheWay
  BY DEF StartWait, OwnerWait, OnTheWay
<1>2. CASE \E h \in handles : StartWait(h)
  BY <1>1, <1>2, GoodStays, ReturnedStay DEF StartWait, HandlesGood
<1>3. CASE OwnerWait
  <2>1. UNCHANGED <<generation, hndl, handles, whndl, groupOf, runs>>
    BY <1>3 DEF OwnerWait
  <2>2. returned' \subseteq returned \cup {hndl}
    BY <1>3 DEF OwnerWait
  <2>3. hndl \in returned' => \/ hndl \in returned
                              \/ generation[hndl.index] # hndl.generation
                              \/ count[hndl.index] = 0
    BY <1>3 DEF OwnerWait
  <2>4. hndl \in returned' => \A t \in hndl.tasks : t \in Tasks /\ groupOf[t] # None /\ runs[t] = 1
    BY <2>3, WaitOver DEF HandlesGood
  <2>5. QED
    BY <1>1, <2>1, <2>2, <2>4, GoodStays DEF HandlesGood
<1>4. QED
  BY <1>2, <1>3

LEMMA HandlesWaiter ==
  ASSUME CountInv, RunsOnce, HandlesGood, Settled, NEW w \in Waiters,
         WaiterStart(w) \/ WaiterStep(w)
  PROVE  HandlesGood'
<1> USE DEF CountInv, Types, queuevars, slotvars, threadvars, ownervars
<1>1. OnTheWay
  BY DEF WaiterStart, WaiterStep, OnTheWay
<1>2. CASE WaiterStart(w)
  <2>1. PICK h \in handles : whndl' = [whndl EXCEPT ![w] = h]
    BY <1>2 DEF WaiterStart
  <2>2. UNCHANGED <<generation, hndl, handles, returned>>
    BY <1>2 DEF WaiterStart
  <2>3. whndl' \in [Waiters -> Handles] /\ \A v \in Waiters : Good(whndl'[v])
    BY <2>1 DEF HandlesGood, Good
  <2>4. ASSUME NEW v \in Waiters PROVE Good(whndl[v])'
    <3>1. PICK k : k = whndl'[v] /\ Good(k)
      BY <2>3
    <3>2. Good(k)'
      BY <1>1, <2>2, <3>1, GoodStays
    <3>3. QED
      BY <3>1, <3>2 DEF Good
  <2>5. QED
    BY <1>1, <2>2, <2>3, <2>4, GoodStays, ReturnedStay DEF HandlesGood
<1>3. CASE WaiterStep(w)
  <2> DEFINE h == whndl[w]
  <2>1. UNCHANGED <<generation, hndl, handles, whndl, groupOf, runs>>
    BY <1>3 DEF WaiterStep
  <2>2. returned' \subseteq returned \cup {h}
    BY <1>3 DEF WaiterStep
  <2>3. h \in returned' => h \in returned \/ generation[h.index] # h.generation \/ count[h.index] = 0
    BY <1>3 DEF WaiterStep
  <2>4. h \in returned' => \A t \in h.tasks : t \in Tasks /\ groupOf[t] # None /\ runs[t] = 1
    BY <2>3, WaitOver DEF HandlesGood
  <2>5. QED
    BY <1>1, <2>1, <2>2, <2>4, GoodStays DEF HandlesGood
<1>4. QED
  BY <1>2, <1>3

LEMMA HandlesStep ==
  ASSUME CountInv, RunsOnce, HandlesGood, [Next]_vars PROVE HandlesGood'
<1>1. Settled
  BY RunsStep
<1> USE DEF queuevars, slotvars, threadvars, ownervars, waitvars
<1>2. ASSUME NEW h \in Threads, Worker(h) PROVE HandlesGood'
  <2>1. UNCHANGED <<generation, hndl, handles, whndl, returned, pending, opc, idx>>
    BY <1>2 DEF Worker, TakeTask, TakeNull, RunTask, CountDown, WriteStats, CheckStatus, Finish
  <2>2. QED
    BY <1>1, <2>1, HandlesQuiet DEF OnTheWay
<1>3. CASE OwnerCall
  <2>1. ASSUME WaitAll \/ (\E n \in Sizes : Resize(n)) \/ StartFree PROVE HandlesGood'
    BY <1>1, <2>1, HandlesQuiet DEF WaitAll, Resize, StartFree, Call, OnTheWay
  <2>2. QED
    BY <1>1, <1>3, <2>1, HandlesEnqueue, HandlesOwnerWait DEF OwnerCall
<1>4. CASE OwnerStep
  <2>1. ASSUME \/ (\E t \in Tasks : HelpTake(t)) \/ HelpRun \/ HelpCount \/ HelpDone \/ Scan
               \/ Revive \/ (\E h \in Threads : CreateThread(h)) \/ Shrink \/ Resized
               \/ Mark \/ Join \/ Release
        PROVE  HandlesGood'
    <3>1. UNCHANGED <<generation, hndl, handles, whndl, returned>> /\ opc # "push"
      BY <2>1 DEF HelpTake, HelpRun, HelpCount, HelpDone, Scan, Revive, CreateThread, Shrink,
                  Resized, Mark, Join, Release, Call
    <3>2. QED
      BY <1>1, <3>1, HandlesQuiet DEF OnTheWay
  <2>2. QED
    BY <1>1, <1>4, <2>1, HandlesSetCount, HandlesPush, HandlesOwnerWait DEF OwnerStep
<1>5. CASE UNCHANGED vars
  BY <1>1, <1>5, HandlesQuiet DEF vars, OnTheWay
<1>6. QED
  BY <1>1, <1>2, <1>3, <1>4, <1>5, HandlesWaiter DEF Next

-----------------------------------------------------------------------------
(* The scan of wait_for_all.                                               *)
LEMMA ZeroStays ==
  ASSUME CountInv, NEW g \in Group, count[g] = 0, NEW h \in Threads, CountDown(h)
  PROVE  count'[g] = 0
<1>1. task[h] \in Tasks /\ groupOf[task[h]] # None /\ InHand(task[h])
  BY DEF CountInv, Places, CountDown, Goto, Busy, InHand
<1>2. Outstanding(g) = {}
  BY NothingLeft DEF CountInv
<1>3. groupOf[task[h]] # g
  BY <1>1, <1>2 DEF Outstanding
<1>4. QED
  BY <1>3 DEF CountDown, CountInv, Types

LEMMA ScanStep ==
  ASSUME CountInv, ScanInv, [Next]_vars PROVE ScanInv'
<1> USE DEF ScanInv
<1> SUFFICES ASSUME opc' = "scan" PROVE ScanInv'
  OBVIOUS
<1>1. ASSUME NEW h \in Threads, Worker(h) PROVE ScanInv'
  <2>1. UNCHANGED <<opc, idx, sum>>
    BY <1>1 DEF Worker, TakeTask, TakeNull, RunTask, CountDown, WriteStats, CheckStatus, Finish, ownervars
  <2>2. CASE CountDown(h)
    BY <2>1, <2>2, ZeroStays DEF CountDown
  <2>3. CASE ~CountDown(h)
    BY <1>1, <2>1, <2>3 DEF Worker, TakeTask, TakeNull, RunTask, WriteStats, CheckStatus, Finish, queuevars
  <2>4. QED
    BY <2>2, <2>3
<1>2. CASE OwnerCall
  BY <1>2 DEF OwnerCall, Enqueue, StartWait, WaitAll, Resize, StartFree, Call
<1>3. CASE HelpDone
  BY <1>3, PoolAssumption DEF HelpDone, queuevars, CountInv, Types, Group
<1>4. CASE Scan
  <2>1. UNCHANGED <<queue, count>> /\ opc = "scan"
    BY <1>4 DEF Scan, queuevars
  <2>2. CASE idx < Groups
    <3>1. idx \in Group /\ count[idx] \in Nat
      BY <2>1, <2>2, PoolAssumption DEF Group, CountInv, Types
    <3>2. idx' = idx + 1 /\ sum' = sum + count[idx]
      BY <1>4, <2>2 DEF Scan
    <3>3. sum' = 0 => sum = 0 /\ count[idx] = 0
      BY <2>1, <3>1, <3>2
    <3>4. QED
      BY <2>1, <2>2, <3>1, <3>2, <3>3, PoolAssumption DEF Group
  <2>3. CASE ~(idx < Groups)
    BY <1>4, <2>1, <2>3, PoolAssumption DEF Scan, Group
  <2>4. QED
    BY <2>2, <2>3
<1>5. CASE OwnerStep /\ ~HelpDone /\ ~Scan
  BY <1>5 DEF OwnerStep, SetCount, PushTask, Enqueued, RunInline, OwnerWait, HelpTake, HelpRun,
              HelpCount, Revive, CreateThread, Shrink, Resized, Mark, Join, Release, Call
<1>6. CASE (\E w \in Waiters : WaiterStart(w) \/ WaiterStep(w)) \/ UNCHANGED vars
  BY <1>6 DEF WaiterStart, WaiterStep, vars, queuevars, ownervars
<1>7. QED
  BY <1>1, <1>2, <1>3, <1>4, <1>5, <1>6 DEF Next

-----------------------------------------------------------------------------
LEMMA Invariance == Spec => []IInv
<1>1. Init => IInv
  BY CountInvInit, RunsInit, HandlesInit DEF IInv, ScanInv, Init
<1>2. IInv /\ [Next]_vars => IInv'
  BY CountStep, RunsStep, HandlesStep, ScanStep DEF IInv
<1>3. QED
  BY <1>1, <1>2, PTL DEF Spec

(* A wait that has returned, in the owner or in any other thread, waited    *)
(* for each task of its handle, which was run exactly once, however often   *)
(* its group was given to other tasks in the meantime.                     *)
THEOREM WaitsAreSound == Spec => []WaitSound
<1>1. IInv => WaitSound
  BY DEF IInv, HandlesGood, WaitSound
<1>2. QED
  BY <1>1, Invariance, PTL

(* wait_for_all returns only when every task that was queued has run.       *)
THEOREM WaitAllIsSound == Spec => WaitAllSound
<1>1. IInv /\ [Next]_vars =>
        [opc = "scan" /\ opc' = "idle" =>
           \A t \in Tasks : groupOf[t] # None => runs[t] = 1]_vars
  <2> SUFFICES ASSUME IInv, Next, opc = "scan", opc' = "idle",
                      NEW t \in Tasks, groupOf[t] # None
               PROVE  runs[t] = 1
    BY DEF Next
  <2>1. Scan
    BY DEF Next, Worker, TakeTask, TakeNull, RunTask, CountDown, WriteStats, CheckStatus, Finish,
           OwnerCall, Enqueue, StartWait, WaitAll, Resize, StartFree,
           OwnerStep, SetCount, PushTask, Enqueued, RunInline, OwnerWait, HelpTake, HelpRun,
           HelpCount, HelpDone, Revive, CreateThread, Shrink, Resized, Mark, Join, Release,
           WaiterStart, WaiterStep, Call, ownervars
  <2>2. ~(idx < Groups) /\ sum = 0
    BY <2>1 DEF Scan, Call
  <2>3. idx = Groups
    BY <2>2, PoolAssumption DEF IInv, ScanInv
  <2>4. groupOf[t] \in Group /\ count[groupOf[t]] = 0
    BY <2>2, <2>3, PoolAssumption DEF IInv, ScanInv, CountInv, Types, Group
  <2>5. Outstanding(groupOf[t]) = {}
    BY <2>4, NothingLeft DEF IInv, CountInv
  <2>6. ~Awaits(t)
    BY <2>5, PoolAssumption DEF Outstanding, InHand, Awaits
  <2>7. QED
    BY <2>6 DEF IInv, RunsOnce
<1>2. QED
  BY <1>1, Invariance, PTL DEF Spec, WaitAllSound

-----------------------------------------------------------------------------
(* A thread that works for slot i and is not on its way out.                 *)
Served(i) == \E h \in Threads : slot[h] = i /\ Running(h) /\ pc[h] # "finish"

(* The slots of the pool that nobody has told to terminate, at each point of *)
(* a call that changes the number of threads.                                *)
Safe(i) ==
  CASE opc = "grow"             -> i < idx
    [] opc = "shrink"           -> i < size /\ (i < target \/ idx <= i)
    [] opc = "mark"             -> idx <= i /\ i < size
    [] opc \in {"join", "freed"} -> FALSE
    [] OTHER                    -> i < size

SlotTypes ==
  /\ status \in [Slots -> Statuses] /\ joinable \in [Slots -> Threads \cup {None}]
  /\ size \in 0 .. Capacity /\ target \in 0 .. Capacity /\ idx \in Nat /\ freed \in BOOLEAN
  /\ slot \in [Threads -> Slots \cup {None}]
  /\ pc \in [Threads -> {"none", "take", "run", "count", "stats", "check", "finish", "exit"}]
  /\ \A h \in Threads : pc[h] # "none" => slot[h] \in Slots
  /\ opc \in OwnerCalls
  /\ opc = "grow" => size <= idx /\ idx <= target
  /\ opc = "shrink" => target <= idx /\ idx <= size
  /\ sum \in Int /\ wpc \in [Waiters -> {"idle", "waitgen", "waitcount"}]

(* A slot that is told to terminate has a thread that can still see it: the  *)
(* first that does changes the status, and only for the other statuses a     *)
(* grow starts a new thread.                                                 *)
SlotsKept ==
  \A i \in Slots :
    /\ status[i] = "WILL_TERMINATE" => Served(i)
    /\ Safe(i) => status[i] # "WILL_TERMINATE" /\ Served(i)

SlotInv == SlotTypes /\ SlotsKept

LEMMA SlotInit == Init => SlotInv
<1> SUFFICES ASSUME Init PROVE SlotInv
  OBVIOUS
<1> USE PoolAssumption
<1>1. InitSize \in 1 .. Capacity /\ Slots = 0 .. Capacity - 1 /\ Capacity \in Nat
  BY DEF Slots, Capacity
<1>2. \A i \in 0 .. InitSize - 1 : i + 1 \in Threads /\ i \in Slots
  BY <1>1 DEF Threads
<1>3. \A h \in Threads : h <= InitSize => h - 1 \in Slots
  BY <1>1 DEF Threads
<1>4. SlotTypes
  <2>0. freed \in BOOLEAN
    BY DEF Init
  <2>1. /\ size \in 0 .. Capacity /\ target \in 0 .. Capacity /\ idx \in Nat
        /\ opc \in OwnerCalls /\ opc = "idle" /\ sum \in Int
    BY <1>1 DEF Init, OwnerCalls
  <2>2. status \in [Slots -> Statuses] /\ joinable \in [Slots -> Threads \cup {None}]
    <3>1. \A i \in Slots : i < InitSize => i + 1 \in Threads
      BY <1>1, <1>2
    <3>2. QED
      BY <3>1 DEF Init, Statuses
  <2>3. slot \in [Threads -> Slots \cup {None}] /\ \A h \in Threads : pc[h] # "none" => slot[h] \in Slots
    BY <1>3 DEF Init
  <2>4. /\ pc \in [Threads -> {"none", "take", "run", "count", "stats", "check", "finish", "exit"}]
        /\ wpc \in [Waiters -> {"idle", "waitgen", "waitcount"}]
    BY DEF Init
  <2>5. QED
    BY <2>0, <2>1, <2>2, <2>3, <2>4 DEF SlotTypes
<1>5. ASSUME NEW i \in Slots, Safe(i) PROVE Served(i)
  <2>1. i < InitSize
    BY <1>5 DEF Init, Safe
  <2>2. i + 1 \in Threads /\ slot[i + 1] = i /\ pc[i + 1] = "take"
    BY <1>1, <1>2, <2>1 DEF Init
  <2>3. QED
    BY <2>2 DEF Served, Running
<1>6. \A i \in Slots : status[i] # "WILL_TERMINATE"
  BY DEF Init
<1>7. QED
  BY <1>4, <1>5, <1>6 DEF SlotInv, SlotsKept

LEMMA SlotWorker ==
  ASSUME SlotInv, NEW h \in Threads, Worker(h) PROVE SlotInv'
<1> USE DEF queuevars, slotvars, ownervars, waitvars
<1>1. UNCHANGED <<joinable, size, target, idx, freed, slot, opc, sum, wpc>>
  BY DEF Worker, TakeTask, TakeNull, RunTask, CountDown, WriteStats, CheckStatus, Finish, Goto
<1>2. pc[h] \notin {"none", "exit"}
  BY DEF Worker, TakeTask, TakeNull, RunTask, CountDown, WriteStats, CheckStatus, Finish, Goto
<1>3. PICK to \in {"take", "run", "count", "stats", "check", "finish", "exit"} :
        pc' = [pc EXCEPT ![h] = to]
  BY DEF Worker, TakeTask, TakeNull, RunTask, CountDown, WriteStats, CheckStatus, Finish, Goto
<1>4. slot[h] \in Slots /\ \A k \in Threads : k # h => pc'[k] = pc[k]
  BY <1>2, <1>3 DEF SlotInv, SlotTypes
<1>5. \/ status' = status /\ to \notin {"finish", "exit"} /\ pc[h] # "finish"
      \/ /\ status[slot[h]] = "WILL_TERMINATE" /\ status' = [status EXCEPT ![slot[h]] = "KILLED"]
      \/ pc[h] = "finish" /\ status' = [status EXCEPT ![slot[h]] = "FINISHED"]
  <2>1. CASE CheckStatus(h)
    BY <1>3, <2>1 DEF CheckStatus, Goto, SlotInv, SlotTypes
  <2>2. CASE Finish(h)
    BY <2>2 DEF Finish, Goto
  <2>3. CASE ~CheckStatus(h) /\ ~Finish(h)
    BY <1>3, <2>3 DEF Worker, TakeTask, TakeNull, RunTask, CountDown, WriteStats, Goto, SlotInv, SlotTypes
  <2>4. QED
    BY <2>1, <2>2, <2>3
<1>6. SlotTypes'
  BY <1>1, <1>2, <1>3, <1>5 DEF SlotInv, SlotTypes, Statuses
<1>7. \A i \in Slots : Safe(i)' <=> Safe(i)
  BY <1>1 DEF Safe
<1>8. ASSUME NEW i \in Slots, Served(i), i # slot[h] \/ pc[h] = "finish" \/ to \notin {"finish", "exit"}
      PROVE  Served(i)'
  <2>1. PICK k \in Threads : slot[k] = i /\ Running(k) /\ pc[k] # "finish"
    BY <1>8 DEF Served
  <2>2. slot'[k] = i /\ Running(k)' /\ pc'[k] # "finish"
    BY <1>1, <1>3, <1>4, <1>8, <2>1 DEF Running, SlotInv, SlotTypes
  <2>3. QED
    BY <2>2 DEF Served
<1>9. SlotsKept'
  <2>1. CASE status' = status /\ to \notin {"finish", "exit"}
    BY <1>7, <1>8, <2>1 DEF SlotInv, SlotsKept
  <2>2. CASE status[slot[h]] = "WILL_TERMINATE" /\ status' = [status EXCEPT ![slot[h]] = "KILLED"]
    BY <1>4, <1>7, <1>8, <2>2 DEF SlotInv, SlotsKept, SlotTypes
  <2>3. CASE pc[h] = "finish" /\ status' = [status EXCEPT ![slot[h]] = "FINISHED"]
    BY <1>4, <1>7, <1>8, <2>3 DEF SlotInv, SlotsKept, SlotTypes
  <2>4. QED
    BY <1>5, <2>1, <2>2, <2>3
<1>10. QED
  BY <1>6, <1>9 DEF SlotInv

(* Steps of the owner that leave threads and slots alone.                    *)
LEMMA SlotQuiet ==
  ASSUME SlotInv, SlotTypes', UNCHANGED <<status, slot, pc>>, \A i \in Slots : Safe(i)' => Safe(i)
  PROVE  SlotInv'
<1>1. \A i \in Slots : Served(i)' <=> Served(i)
  BY DEF Served, Running
<1>2. QED
  BY <1>1 DEF SlotInv, SlotsKept

LEMMA SlotCalls == ASSUME SlotInv, OwnerCall PROVE SlotInv'
<1> USE PoolAssumption DEF Call, queuevars, slotvars, threadvars, waitvars
<1>1. CASE (\E S \in SUBSET Tasks, own \in Tasks \cup {None} : Enqueue(S, own))
           \/ (\E h \in handles : StartWait(h)) \/ WaitAll
  <2>1. /\ opc = "idle" /\ opc' \in {"enqueue", "waitgen", "help"} /\ idx' \in Nat
        /\ UNCHANGED <<status, joinable, size, freed, slot, pc, target, sum, wpc>>
    BY <1>1 DEF Enqueue, StartWait, WaitAll, Group, SlotInv, SlotTypes
  <2>2. SlotTypes'
    BY <2>1 DEF SlotInv, SlotTypes, OwnerCalls
  <2>3. \A i \in Slots : Safe(i)' => Safe(i)
    BY <2>1 DEF Safe
  <2>4. QED
    BY <2>1, <2>2, <2>3, SlotQuiet
<1>2. CASE \E n \in Sizes : Resize(n)
  <2>1. PICK n \in Nat : Resize(n)
    BY <1>2
  <2>2. /\ opc = "idle" /\ n # size /\ n <= Capacity /\ target' = n
        /\ opc' = (IF n > size THEN "grow" ELSE "shrink") /\ idx' = (IF n > size THEN size ELSE n)
        /\ UNCHANGED <<status, joinable, size, freed, slot, pc, sum, wpc>>
    BY <2>1 DEF Resize
  <2>3. size \in 0 .. Capacity /\ n \in 0 .. Capacity /\ Capacity \in Nat
    BY <2>2 DEF SlotInv, SlotTypes, Capacity
  <2>4. SlotTypes'
    BY <2>2, <2>3 DEF SlotInv, SlotTypes, OwnerCalls
  <2>5. \A i \in Slots : Safe(i)' => Safe(i)
    BY <2>2, <2>3 DEF Safe, Slots
  <2>6. QED
    BY <2>2, <2>4, <2>5, SlotQuiet
<1>3. CASE StartFree
  <2>1. /\ opc = "idle" /\ opc' = "mark" /\ idx' = 0
        /\ UNCHANGED <<status, joinable, size, freed, slot, pc, target, sum, wpc>>
    BY <1>3 DEF StartFree
  <2>2. SlotTypes'
    BY <2>1 DEF SlotInv, SlotTypes, OwnerCalls
  <2>3. \A i \in Slots : Safe(i)' => Safe(i)
    BY <2>1 DEF Safe
  <2>4. QED
    BY <2>1, <2>2, <2>3, SlotQuiet
<1>4. QED
  BY <1>1, <1>2, <1>3 DEF OwnerCall

(* The owner changes the status of one slot, and may start a thread for it.  *)
LEMMA SlotMarked ==
  ASSUME SlotInv, SlotTypes', idx \in Slots, UNCHANGED <<slot, pc>>, Served(idx),
         NEW s \in {"IDLE", "WILL_TERMINATE"}, status' = [status EXCEPT ![idx] = s],
         \A i \in Slots : Safe(i)' => Safe(i) \/ i = idx,
         s = "WILL_TERMINATE" => \A i \in Slots : i = idx => ~Safe(i)'
  PROVE  SlotInv'
<1>1. \A i \in Slots : Served(i)' <=> Served(i)
  BY DEF Served, Running
<1>2. status'[idx] = s /\ \A i \in Slots : i # idx => status'[i] = status[i]
  BY DEF SlotInv, SlotTypes
<1>3. ASSUME NEW i \in Slots
      PROVE  /\ status'[i] = "WILL_TERMINATE" => Served(i)'
             /\ Safe(i)' => status'[i] # "WILL_TERMINATE" /\ Served(i)'
  <2>1. CASE i = idx
    BY <1>1, <1>2, <2>1
  <2>2. CASE i # idx
    BY <1>1, <1>2, <2>2 DEF SlotInv, SlotsKept
  <2>3. QED
    BY <2>1, <2>2
<1>4. QED
  BY <1>3 DEF SlotInv, SlotsKept

LEMMA SlotGrow ==
  ASSUME SlotInv, Revive \/ (\E h \in Threads : CreateThread(h)) \/ Shrink \/ Mark PROVE SlotInv'
<1> USE PoolAssumption DEF Call, queuevars, slotvars, threadvars, waitvars
<1>0. Slots = 0 .. Capacity - 1 /\ Capacity \in Nat /\ idx \in Nat /\ size \in 0 .. Capacity /\ target \in 0 .. Capacity
  BY DEF SlotInv, SlotTypes, Slots, Capacity
<1>1. CASE Revive
  <2>1. /\ opc = "grow" /\ opc' = "grow" /\ idx < target /\ status[idx] = "WILL_TERMINATE" /\ idx' = idx + 1
        /\ status' = [status EXCEPT ![idx] = "IDLE"]
        /\ UNCHANGED <<joinable, size, freed, slot, pc, target, sum, wpc>>
    BY <1>1 DEF Revive
  <2>2. idx \in Slots /\ Served(idx)
    BY <1>0, <2>1 DEF SlotInv, SlotsKept
  <2>3. SlotTypes'
    BY <1>0, <2>1, <2>2 DEF SlotInv, SlotTypes, Statuses
  <2>4. \A i \in Slots : Safe(i)' => Safe(i) \/ i = idx
    BY <1>0, <2>1 DEF Safe
  <2>5. QED
    BY <2>1, <2>2, <2>3, <2>4, SlotMarked
<1>2. CASE Shrink
  <2>1. /\ opc = "shrink" /\ opc' = "shrink" /\ idx < size /\ idx' = idx + 1 /\ target <= idx
        /\ status' = [status EXCEPT ![idx] = "WILL_TERMINATE"]
        /\ UNCHANGED <<joinable, size, freed, slot, pc, target, sum, wpc>>
    BY <1>2 DEF Shrink, SlotInv, SlotTypes
  <2>2. idx \in Slots /\ Served(idx)
    BY <1>0, <2>1 DEF SlotInv, SlotsKept, Safe
  <2>3. SlotTypes'
    BY <1>0, <2>1, <2>2 DEF SlotInv, SlotTypes, Statuses
  <2>4. \A i \in Slots : (Safe(i)' => Safe(i)) /\ (i = idx => ~Safe(i)')
    BY <1>0, <2>1 DEF Safe
  <2>5. QED
    BY <2>1, <2>2, <2>3, <2>4, SlotMarked
<1>3. CASE Mark /\ idx < size
  <2>1. /\ opc = "mark" /\ opc' = "mark" /\ idx < size /\ idx' = idx + 1
        /\ status' = [status EXCEPT ![idx] = "WILL_TERMINATE"]
        /\ UNCHANGED <<joinable, size, freed, slot, pc, target, sum, wpc>>
    BY <1>3 DEF Mark
  <2>2. idx \in Slots /\ Served(idx)
    BY <1>0, <2>1 DEF SlotInv, SlotsKept, Safe
  <2>3. SlotTypes'
    BY <1>0, <2>1, <2>2 DEF SlotInv, SlotTypes, Statuses
  <2>4. \A i \in Slots : (Safe(i)' => Safe(i)) /\ (i = idx => ~Safe(i)')
    BY <1>0, <2>1 DEF Safe
  <2>5. QED
    BY <2>1, <2>2, <2>3, <2>4, SlotMarked
<1>4. CASE Mark /\ ~(idx < size)
  <2>1. /\ opc = "mark" /\ opc' = "join" /\ idx' = 0
        /\ UNCHANGED <<status, joinable, size, freed, slot, pc, target, sum, wpc>>
    BY <1>4 DEF Mark
  <2>2. SlotTypes'
    BY <2>1 DEF SlotInv, SlotTypes, OwnerCalls
  <2>3. \A i \in Slots : Safe(i)' => Safe(i)
    BY <2>1 DEF Safe
  <2>4. QED
    BY <2>1, <2>2, <2>3, SlotQuiet
<1>5. CASE \E h \in Threads : CreateThread(h)
  <2>1. PICK h \in Threads : CreateThread(h)
    BY <1>5
  <2>2. /\ opc = "grow" /\ opc' = "grow" /\ idx < target /\ idx' = idx + 1 /\ pc[h] = "none"
        /\ status' = [status EXCEPT ![idx] = "CREATED"] /\ joinable' = [joinable EXCEPT ![idx] = h]
        /\ slot' = [slot EXCEPT ![h] = idx] /\ pc' = [pc EXCEPT ![h] = "take"]
        /\ UNCHANGED <<size, freed, target, sum, wpc>>
    BY <2>1 DEF CreateThread, Unused
  <2>3. idx \in Slots
    BY <1>0, <2>2
  <2>4. SlotTypes'
    BY <1>0, <2>2, <2>3 DEF SlotInv, SlotTypes, Statuses
  <2>5. \A i \in Slots : Safe(i)' => Safe(i) \/ i = idx
    BY <1>0, <2>2 DEF Safe
  <2>6. \A i \in Slots : i = idx => Served(i)'
    BY <2>2 DEF Served, Running, SlotInv, SlotTypes
  <2>7. ASSUME NEW i \in Slots, Served(i) PROVE Served(i)'
    <3>1. PICK k \in Threads : slot[k] = i /\ Running(k) /\ pc[k] # "finish"
      BY <2>7 DEF Served
    <3>2. k # h
      BY <2>2, <3>1 DEF Running
    <3>3. slot'[k] = i /\ Running(k)' /\ pc'[k] # "finish"
      BY <2>2, <3>1, <3>2 DEF Running, SlotInv, SlotTypes
    <3>4. QED
      BY <3>3 DEF Served
  <2>8. status'[idx] = "CREATED" /\ \A i \in Slots : i # idx => status'[i] = status[i]
    BY <2>2, <2>3 DEF SlotInv, SlotTypes
  <2>9. ASSUME NEW i \in Slots
        PROVE  /\ status'[i] = "WILL_TERMINATE" => Served(i)'
               /\ Safe(i)' => status'[i] # "WILL_TERMINATE" /\ Served(i)'
    <3>1. CASE i = idx
      BY <2>6, <2>8, <3>1
    <3>2. CASE i # idx
      BY <2>5, <2>7, <2>8, <3>2 DEF SlotInv, SlotsKept
    <3>3. QED
      BY <3>1, <3>2
  <2>10. QED
    BY <2>4, <2>9 DEF SlotInv, SlotsKept
<1>6. QED
  BY <1>1, <1>2, <1>3, <1>4, <1>5

LEMMA SlotOwner == ASSUME SlotInv, CountInv, OwnerStep PROVE SlotInv'
<1> USE PoolAssumption DEF Call, queuevars, slotvars, threadvars, waitvars
<1>1. CASE SetCount \/ (\E t \in Tasks : PushTask(t)) \/ Enqueued \/ RunInline \/ OwnerWait
           \/ (\E t \in Tasks : HelpTake(t)) \/ HelpRun \/ HelpCount \/ HelpDone \/ Scan
  <2>1. /\ opc \notin {"grow", "shrink", "mark", "join", "freed"} /\ opc' \notin {"grow", "shrink", "mark", "join", "freed"}
        /\ opc' \in OwnerCalls
        /\ UNCHANGED <<status, joinable, size, freed, slot, pc, target, wpc>>
    BY <1>1 DEF SetCount, PushTask, Enqueued, RunInline, OwnerWait, HelpTake, HelpRun, HelpCount, HelpDone,
                Scan, OwnerCalls
  <2>2. idx' \in Nat /\ sum' \in Int
    <3>1. CASE Scan
      <4>1. idx < Groups => count[idx] \in Nat
        BY DEF SlotInv, SlotTypes, CountInv, Types, Group
      <4>2. QED
        BY <3>1, <4>1 DEF Scan, SlotInv, SlotTypes
    <3>2. CASE ~Scan
      BY <1>1, <3>2 DEF SetCount, PushTask, Enqueued, RunInline, OwnerWait, HelpTake, HelpRun, HelpCount,
                        HelpDone, SlotInv, SlotTypes
    <3>3. QED
      BY <3>1, <3>2
  <2>3. SlotTypes'
    BY <2>1, <2>2 DEF SlotInv, SlotTypes
  <2>4. \A i \in Slots : Safe(i)' => Safe(i)
    BY <2>1 DEF Safe
  <2>5. QED
    BY <2>1, <2>3, <2>4, SlotQuiet
<1>2. CASE Resized
  <2>1. /\ (opc = "grow" /\ idx = target) \/ (opc = "shrink" /\ idx = size)
        /\ opc' = "idle" /\ size' = target
        /\ UNCHANGED <<status, joinable, freed, slot, pc, target, idx, sum, wpc>>
    BY <1>2 DEF Resized
  <2>2. SlotTypes'
    BY <2>1 DEF SlotInv, SlotTypes, OwnerCalls
  <2>3. \A i \in Slots : Safe(i)' => Safe(i)
    BY <2>1 DEF Safe, SlotInv, SlotTypes, Slots, Capacity
  <2>4. QED
    BY <2>1, <2>2, <2>3, SlotQuiet
<1>3. CASE Join \/ Release
  <2>0. freed' \in BOOLEAN
    BY <1>3 DEF Join, Release, SlotInv, SlotTypes
  <2>1. /\ opc = "join" /\ opc' \in {"join", "freed"} /\ idx' \in Nat
        /\ UNCHANGED <<status, joinable, size, slot, pc, target, sum, wpc>>
    BY <1>3 DEF Join, Release, SlotInv, SlotTypes
  <2>2. SlotTypes'
    BY <2>0, <2>1 DEF SlotInv, SlotTypes, OwnerCalls
  <2>3. \A i \in Slots : Safe(i)' => Safe(i)
    BY <2>1 DEF Safe
  <2>4. QED
    BY <2>1, <2>2, <2>3, SlotQuiet
<1>4. QED
  BY <1>1, <1>2, <1>3, SlotGrow DEF OwnerStep

LEMMA SlotStep == ASSUME SlotInv, CountInv, [Next]_vars PROVE SlotInv'
<1>1. ASSUME NEW w \in Waiters, WaiterStart(w) \/ WaiterStep(w) PROVE SlotInv'
  <2>1. /\ UNCHANGED <<status, joinable, size, freed, slot, pc, target, idx, opc, sum>>
        /\ wpc' \in [Waiters -> {"idle", "waitgen", "waitcount"}]
    BY <1>1 DEF WaiterStart, WaiterStep, slotvars, threadvars, ownervars, SlotInv, SlotTypes
  <2>2. SlotTypes'
    BY <2>1 DEF SlotInv, SlotTypes
  <2>3. \A i \in Slots : Safe(i)' => Safe(i)
    BY <2>1 DEF Safe
  <2>4. QED
    BY <2>1, <2>2, <2>3, SlotQuiet
<1>2. CASE UNCHANGED vars
  BY <1>2 DEF vars, slotvars, threadvars, ownervars, waitvars, SlotInv, SlotTypes, SlotsKept, Served, Running, Safe
<1>3. QED
  BY <1>1, <1>2, SlotWorker, SlotCalls, SlotOwner DEF Next

(* Between two calls of the owner every slot of the pool is served, however  *)
(* often it was resized while its threads saw or missed their marks.         *)
THEOREM SlotsAreServed == Spec => []SlotsServed
<1>1. SlotInv => SlotsServed
  <2> SUFFICES ASSUME SlotInv, opc = "idle", NEW i \in 0 .. size - 1 PROVE Served(i)
    BY DEF SlotsServed, Served
  <2>1. i \in Slots /\ i < size
    BY PoolAssumption DEF SlotInv, SlotTypes, Slots, Capacity
  <2>2. Safe(i)
    BY <2>1 DEF Safe
  <2>3. QED
    BY <2>1, <2>2 DEF SlotInv, SlotsKept
<1>2. CountInv /\ SlotInv /\ [Next]_vars => (CountInv /\ SlotInv)'
  BY SlotStep, CountStep
<1>3. QED
  BY <1>1, <1>2, SlotInit, CountInvInit, PTL DEF Spec

-----------------------------------------------------------------------------
(* A pool that is never made smaller, however often it grows.  Each thread    *)
(* keeps a slot of its own, in which a join finds it: a thread is started    *)
(* only for a slot nobody had, and no thread is marked before the pool is    *)
(* freed.  A shrink breaks this: the joins stop at size.                     *)
NoShrink == opc # "shrink"

Joinable ==
  /\ \A h \in Threads : pc[h] # "none" =>
        /\ slot[h] < IF opc = "grow" THEN idx ELSE size
        /\ joinable[slot[h]] = h
  /\ \A i \in Slots : status[i] = "WILL_TERMINATE" => opc \in {"mark", "join", "freed"}
  /\ opc = "join" => \A h \in Threads : pc[h] # "none" /\ slot[h] < idx => pc[h] = "exit"
  /\ freed => opc = "freed" /\ \A h \in Threads : pc[h] \in {"none", "exit"}

LEMMA JoinableInit == Init => Joinable
<1> SUFFICES ASSUME Init PROVE Joinable
  OBVIOUS
<1>1. ASSUME NEW h \in Threads, pc[h] # "none" PROVE slot[h] < size /\ joinable[slot[h]] = h
  <2>1. h <= InitSize /\ slot[h] = h - 1 /\ size = InitSize
    BY <1>1 DEF Init
  <2>2. h - 1 \in Slots /\ h - 1 < InitSize /\ (h - 1) + 1 = h
    BY <2>1, PoolAssumption DEF Threads, Slots, Capacity
  <2>3. QED
    BY <2>1, <2>2 DEF Init
<1>2. QED
  BY <1>1 DEF Init, Joinable

(* What the joins rely on: a step of a worker brings no thread back.         *)
LEMMA JoinableWorker ==
  ASSUME SlotInv, Joinable, NEW h \in Threads, Worker(h) PROVE Joinable'
<1> USE DEF queuevars, slotvars, ownervars
<1>1. UNCHANGED <<size, opc, slot, joinable, idx, freed>> /\ ~freed
  BY DEF Worker, TakeTask, TakeNull, RunTask, CountDown, WriteStats, CheckStatus, Finish, Goto
<1>2. pc[h] \notin {"none", "exit"}
  BY DEF Worker, TakeTask, TakeNull, RunTask, CountDown, WriteStats, CheckStatus, Finish, Goto
<1>3. PICK to \in {"take", "run", "count", "stats", "check", "finish", "exit"} :
        pc' = [pc EXCEPT ![h] = to]
  BY DEF Worker, TakeTask, TakeNull, RunTask, CountDown, WriteStats, CheckStatus, Finish, Goto
<1>4. \A k \in Threads : (pc'[k] = "none" <=> pc[k] = "none") /\ (pc[k] = "exit" => pc'[k] = "exit")
  BY <1>2, <1>3 DEF SlotInv, SlotTypes
<1>5. \/ status' = status
      \/ \E s \in {"KILLED", "FINISHED"} : status' = [status EXCEPT ![slot[h]] = s]
  BY DEF Worker, TakeTask, TakeNull, RunTask, CountDown, WriteStats, CheckStatus, Finish, Goto
<1>6. \A i \in Slots : status'[i] = "WILL_TERMINATE" => status[i] = "WILL_TERMINATE"
  BY <1>5 DEF SlotInv, SlotTypes
<1>7. QED
  BY <1>1, <1>4, <1>6 DEF Joinable

(* Steps of the owner that leave threads and slots alone.                    *)
LEMMA JoinableQuiet ==
  ASSUME Joinable, UNCHANGED <<status, joinable, freed, slot, pc>>,
         \/ UNCHANGED <<opc, idx, size>>
         \/ /\ ~freed /\ opc \notin {"grow", "mark", "join", "freed"}
            /\ opc' \notin {"grow", "join"} /\ size' = size
  PROVE  Joinable'
  BY DEF Joinable

LEMMA JoinableCalls ==
  ASSUME SlotInv, Joinable, NoShrink', OwnerCall PROVE Joinable'
<1> USE DEF Call, queuevars, slotvars, threadvars, waitvars
<1>1. CASE \E n \in Sizes : Resize(n)
  <2>1. /\ opc = "idle" /\ opc' = "grow" /\ idx' = size
        /\ UNCHANGED <<status, joinable, size, freed, slot, pc>>
    BY <1>1 DEF Resize, NoShrink
  <2>2. QED
    BY <2>1 DEF Joinable
<1>2. CASE ~(\E n \in Sizes : Resize(n))
  <2>1. /\ opc = "idle" /\ ~freed /\ opc' \in {"enqueue", "waitgen", "help", "mark"}
        /\ UNCHANGED <<status, joinable, size, freed, slot, pc>>
    BY <1>2 DEF OwnerCall, Enqueue, StartWait, WaitAll, StartFree
  <2>2. QED
    BY <2>1, JoinableQuiet
<1>3. QED
  BY <1>1, <1>2

LEMMA JoinableGrow ==
  ASSUME SlotInv, Joinable, NEW h \in Threads, CreateThread(h) PROVE Joinable'
<1>1. /\ opc = "grow" /\ opc' = "grow" /\ ~freed /\ idx < target /\ idx' = idx + 1 /\ pc[h] = "none"
      /\ status' = [status EXCEPT ![idx] = "CREATED"] /\ joinable' = [joinable EXCEPT ![idx] = h]
      /\ slot' = [slot EXCEPT ![h] = idx] /\ pc' = [pc EXCEPT ![h] = "take"]
      /\ UNCHANGED <<size, freed>>
  BY DEF CreateThread, Call, Unused
<1>2. idx \in Nat /\ idx \in Slots /\ size <= idx
  BY <1>1, PoolAssumption DEF SlotInv, SlotTypes, Slots, Capacity
<1>3. ASSUME NEW k \in Threads, pc'[k] # "none" PROVE slot'[k] < idx' /\ joinable'[slot'[k]] = k
  <2>1. CASE k = h
    BY <1>1, <1>2, <2>1 DEF SlotInv, SlotTypes
  <2>2. CASE k # h
    <3>1. pc[k] # "none" /\ slot'[k] = slot[k]
      BY <1>1, <1>3, <2>2 DEF SlotInv, SlotTypes
    <3>2. slot[k] \in Slots /\ slot[k] < idx /\ joinable[slot[k]] = k
      BY <1>1, <3>1 DEF Joinable, SlotInv, SlotTypes
    <3>3. slot[k] \in Int /\ slot[k] # idx
      BY <1>2, <3>2, PoolAssumption DEF Slots, Capacity
    <3>4. QED
      BY <1>1, <1>2, <3>1, <3>2, <3>3 DEF SlotInv, SlotTypes
  <2>3. QED
    BY <2>1, <2>2
<1>4. \A i \in Slots : status'[i] # "WILL_TERMINATE"
  BY <1>1, <1>2 DEF Joinable, SlotInv, SlotTypes
<1>5. QED
  BY <1>1, <1>3, <1>4 DEF Joinable

LEMMA JoinableFree ==
  ASSUME SlotInv, Joinable, Mark \/ Join \/ Release PROVE Joinable'
<1> USE DEF Call, queuevars, slotvars, threadvars, waitvars
<1>1. CASE Mark
  <2>1. /\ opc = "mark" /\ opc' \in {"mark", "join"} /\ ~freed
        /\ opc' = "join" => idx' = 0
        /\ UNCHANGED <<joinable, size, freed, slot, pc>>
    BY <1>1 DEF Mark
  <2>2. \A k \in Threads : pc[k] # "none" => slot[k] \in Nat
    BY PoolAssumption DEF SlotInv, SlotTypes, Slots, Capacity
  <2>3. \A k \in Threads : pc[k] # "none" => ~(slot[k] < 0)
    BY <2>2
  <2>4. QED
    BY <2>1, <2>3 DEF Joinable
<1>2. CASE Join
  <2>1. /\ opc = "join" /\ opc' = "join" /\ idx' = idx + 1 /\ ~freed /\ pc[joinable[idx]] = "exit"
        /\ UNCHANGED <<status, joinable, size, freed, slot, pc>>
    BY <1>2 DEF Join
  <2>2. ASSUME NEW k \in Threads, pc[k] # "none", slot[k] < idx + 1 PROVE pc[k] = "exit"
    <3>1. slot[k] \in Nat /\ idx \in Nat
      BY <2>2, PoolAssumption DEF SlotInv, SlotTypes, Slots, Capacity
    <3>2. slot[k] < idx \/ slot[k] = idx
      BY <2>2, <3>1
    <3>3. QED
      BY <2>1, <2>2, <3>2 DEF Joinable
  <2>3. QED
    BY <2>1, <2>2 DEF Joinable
<1>3. CASE Release
  <2>1. /\ opc = "join" /\ opc' = "freed" /\ idx = size
        /\ UNCHANGED <<status, joinable, size, slot, pc>>
    BY <1>3 DEF Release
  <2>2. \A k \in Threads : pc[k] # "none" => slot[k] < idx /\ pc[k] = "exit"
    BY <2>1 DEF Joinable
  <2>3. QED
    BY <2>1, <2>2 DEF Joinable
<1>4. QED
  BY <1>1, <1>2, <1>3

LEMMA JoinableOwner ==
  ASSUME SlotInv, Joinable, NoShrink, OwnerStep PROVE Joinable'
<1> USE DEF Call, queuevars, slotvars, threadvars, waitvars
<1>1. CASE SetCount \/ (\E t \in Tasks : PushTask(t)) \/ Enqueued \/ RunInline \/ OwnerWait
           \/ (\E t \in Tasks : HelpTake(t)) \/ HelpRun \/ HelpCount \/ HelpDone \/ Scan
  <2>1. /\ ~freed /\ opc \notin {"grow", "mark", "join", "freed"}
        /\ opc' \notin {"grow", "join"}
        /\ UNCHANGED <<status, joinable, size, freed, slot, pc>>
    BY <1>1 DEF SetCount, PushTask, Enqueued, RunInline, OwnerWait, HelpTake, HelpRun, HelpCount, HelpDone, Scan
  <2>2. QED
    BY <2>1, JoinableQuiet
<1>2. CASE Revive
  <2>1. opc = "grow" /\ status[idx] = "WILL_TERMINATE" /\ idx < target
    BY <1>2 DEF Revive
  <2>2. idx \in Slots
    BY <2>1, PoolAssumption DEF SlotInv, SlotTypes, Slots, Capacity
  <2>3. QED
    BY <2>1, <2>2 DEF Joinable
<1>3. CASE Shrink
  BY <1>3 DEF Shrink, NoShrink
<1>4. CASE Resized
  <2>1. /\ opc = "grow" /\ opc' = "idle" /\ idx = target /\ size' = target /\ ~freed
        /\ UNCHANGED <<status, joinable, freed, slot, pc>>
    BY <1>4 DEF Resized, NoShrink
  <2>2. QED
    BY <2>1 DEF Joinable
<1>5. QED
  BY <1>1, <1>2, <1>3, <1>4, JoinableGrow, JoinableFree DEF OwnerStep

(* When thread_pool_free has released a pool that was never shrunk, none of  *)
(* its threads runs, those that were created while it grew included.         *)
THEOREM FreeJoinsAll == Spec /\ []NoShrink => []NoThreadOutlivesPool
<1>1. SlotInv /\ Joinable /\ NoShrink /\ NoShrink' /\ [Next]_vars => Joinable'
  <2>1. ASSUME SlotInv, Joinable, (\E w \in Waiters : WaiterStart(w) \/ WaiterStep(w)) \/ UNCHANGED vars
        PROVE  Joinable'
    BY <2>1, JoinableQuiet DEF WaiterStart, WaiterStep, vars, slotvars, threadvars, ownervars
  <2>2. QED
    BY <2>1, JoinableWorker, JoinableCalls, JoinableOwner DEF Next
<1>2. CountInv /\ SlotInv /\ [Next]_vars => (CountInv /\ SlotInv)'
  BY SlotStep, CountStep
<1>3. Joinable => NoThreadOutlivesPool
  BY DEF Joinable, NoThreadOutlivesPool, Running
<1>4. QED
  BY <1>1, <1>2, <1>3, SlotInit, CountInvInit, JoinableInit, PTL DEF Spec

-----------------------------------------------------------------------------
LEMMA ReturnedStep == ASSUME IInv, returned \subseteq Handles, [Next]_vars PROVE returned' \subseteq Handles
<1> USE DEF waitvars
<1>1. hndl \in Handles /\ \A w \in Waiters : whndl[w] \in Handles
  BY DEF IInv, HandlesGood, Good
<1>2. ASSUME NEW h \in Threads, Worker(h) PROVE returned' = returned
  BY <1>2 DEF Worker, TakeTask, TakeNull, RunTask, CountDown, WriteStats, CheckStatus, Finish
<1>3. CASE OwnerCall
  BY <1>3 DEF OwnerCall, Enqueue, StartWait, WaitAll, Resize, StartFree
<1>4. CASE OwnerWait
  BY <1>1, <1>4 DEF OwnerWait
<1>5. CASE OwnerStep /\ ~OwnerWait
  BY <1>5 DEF OwnerStep, SetCount, PushTask, Enqueued, RunInline, HelpTake, HelpRun, HelpCount, HelpDone, Scan,
              Revive, CreateThread, Shrink, Resized, Mark, Join, Release
<1>6. ASSUME NEW w \in Waiters, WaiterStart(w) \/ WaiterStep(w) PROVE returned' \subseteq Handles
  BY <1>1, <1>6 DEF WaiterStart, WaiterStep
<1>7. CASE UNCHANGED vars
  BY <1>7 DEF vars
<1>8. QED
  BY <1>2, <1>3, <1>4, <1>5, <1>6, <1>7 DEF Next

(* The types of the model.                                                   *)
THEOREM TypesHold == Spec => []TypeOK
<1> DEFINE Inv == SlotInv /\ returned \subseteq Handles
<1>1. Init => Inv
  BY SlotInit DEF Init
<1>2. IInv /\ Inv /\ [Next]_vars => Inv'
  BY SlotStep, ReturnedStep DEF IInv
<1>3. IInv /\ Inv => TypeOK
  <2> SUFFICES ASSUME IInv, Inv PROVE TypeOK
    OBVIOUS
  <2>1. Types /\ hndl \in Handles /\ handles \subseteq Handles /\ whndl \in [Waiters -> Handles]
    BY DEF IInv, CountInv, HandlesGood, Good
  <2>2. QED
    BY <2>1 DEF SlotInv, SlotTypes, Types, TypeOK
<1> HIDE DEF Inv
<1>4. QED
  BY <1>1, <1>2, <1>3, Invariance, PTL DEF Spec
=============================================================================
