----------------------------- MODULE ThreadPool ------------------------------
(***************************************************************************)
(* std/thread_pool.c: worker threads that take tasks from a shared queue,  *)
(* task groups counted down in task_group_states, and a pool that can be   *)
(* resized and freed while the workers run.                                *)
(*                                                                         *)
(* One thread, the owner, enqueues, resizes and frees; any other thread    *)
(* may wait on a handle the owner obtained.  The queue is the bag that     *)
(* PriorityQueue implements.  After thread_pool_free has released the      *)
(* memory the model stops: what a thread still running does then is        *)
(* undefined.                                                              *)
(***************************************************************************)
EXTENDS Integers, FiniteSets

CONSTANTS
  Tasks,        \* thread_task objects; each is enqueued at most once
  Waiters,      \* threads other than the owner that wait on handles
  InitSize,     \* num_threads of thread_pool_create
  Groups,       \* number of task_group_states (THREAD_POOL_MAX_TASKS, 4097)
  Stride,       \* step of the search for a free group (8)
  Sizes,        \* the sizes the owner may ask thread_pool_resize for
  MaxThreads,   \* bound: pthreads created over the life of the pool
  MayFree,      \* whether the owner calls thread_pool_free
  Monitoring,   \* enable_monitoring
  None

ASSUME PoolAssumption ==
  /\ IsFiniteSet(Tasks) /\ None \notin Tasks \cup Nat
  /\ InitSize \in Nat \ {0}
  /\ Groups \in Nat \ {0} /\ Stride \in Nat
  /\ Sizes \subseteq Nat
  /\ MaxThreads \in Nat /\ MaxThreads >= InitSize
  /\ MayFree \in BOOLEAN /\ Monitoring \in BOOLEAN

Capacity == 2 * InitSize
Slots    == 0 .. Capacity - 1
Group    == 0 .. Groups - 1
Threads  == 1 .. MaxThreads      \* the pthreads, in the order of creation

(* A handle as the caller keeps it; `tasks` is a history of what it covers. *)
Handles == [index : Group, generation : Nat, tasks : SUBSET Tasks]

VARIABLES
  \* shared memory of the pool
  queue,        \* waiting_tasks
  count,        \* task_group_states[g].task_count
  generation,   \* task_group_states[g].generation
  groupOf,      \* group_id of each task
  status,       \* thread_infos[i]->status
  joinable,     \* pool[i]: the pthread a join of slot i waits for
  size,         \* pool->size
  freed,        \* thread_pool_free has released everything
  \* the worker threads
  slot,         \* the thread_info a thread was started with
  pc,           \* where in __thread_main a thread is
  task,         \* next_task of a thread
  \* the owner and the waiters
  opc,          \* the call the owner is in
  otask,        \* the task the owner runs itself
  idx,          \* loop variable of the owner's call
  target,       \* num_threads of a running resize
  sum,          \* running sum of wait_for_all
  pending,      \* tasks passed to enqueue that are not in the queue yet
  inline,       \* the task enqueue_tasks_wait keeps for its caller
  hndl,         \* the handle of the owner's last enqueue
  wpc, whndl,   \* stage and handle of each waiter
  \* history
  handles,      \* handles given out
  returned,     \* handles some wait has returned for
  runs          \* how often the routine of each task was called

queuevars  == <<queue, count, generation, groupOf, runs>>
slotvars   == <<status, joinable, size, freed>>
threadvars == <<slot, pc, task>>
ownervars  == <<opc, otask, idx, target, sum, pending, inline, hndl, handles>>
waitvars   == <<wpc, whndl, returned>>
vars == <<queuevars, slotvars, threadvars, ownervars, waitvars>>

NoHandle == [index |-> 0, generation |-> 0, tasks |-> {}]

Init ==
  /\ queue = {} /\ runs = [t \in Tasks |-> 0]
  /\ count = [g \in Group |-> 0] /\ generation = [g \in Group |-> 0]
  /\ groupOf = [t \in Tasks |-> None]
  \* thread_pool_create: InitSize slots are CREATED and run, the rest EMPTY
  /\ status = [i \in Slots |-> IF i < InitSize THEN "CREATED" ELSE "EMPTY"]
  /\ joinable = [i \in Slots |-> IF i < InitSize THEN i + 1 ELSE None]
  /\ slot = [h \in Threads |-> IF h <= InitSize THEN h - 1 ELSE None]
  /\ pc = [h \in Threads |-> IF h <= InitSize THEN "take" ELSE "none"]
  /\ task = [h \in Threads |-> None]
  /\ size = InitSize /\ freed = FALSE
  /\ opc = "idle" /\ otask = None /\ idx = 0 /\ target = 0 /\ sum = 0
  /\ pending = {} /\ inline = None /\ hndl = NoHandle
  /\ handles = {} /\ returned = {}
  /\ wpc = [w \in Waiters |-> "idle"] /\ whndl = [w \in Waiters |-> NoHandle]

------------------------------------------------------------------------------
(* __thread_main, one thread h; "take" is priority_queue_pop.               *)
Goto(h, from, to) == ~freed /\ pc[h] = from /\ pc' = [pc EXCEPT ![h] = to]

TakeTask(h, t) ==
  /\ t \in queue
  /\ Goto(h, "take", "run")
  /\ queue' = queue \ {t}
  /\ task' = [task EXCEPT ![h] = t]
  /\ UNCHANGED <<count, generation, groupOf, runs, slot, slotvars, ownervars, waitvars>>

TakeNull(h) ==
  /\ queue = {}
  /\ Goto(h, "take", "check")
  /\ UNCHANGED <<slot, task, queuevars, slotvars, ownervars, waitvars>>

(* __execute_task: the routine, then the decrement of the group's counter.  *)
RunTask(h) ==
  /\ Goto(h, "run", "count")
  /\ runs' = [runs EXCEPT ![task[h]] = @ + 1]
  /\ UNCHANGED <<queue, count, generation, groupOf, slot, task, slotvars, ownervars, waitvars>>

CountDown(h) ==
  /\ Goto(h, "count", IF Monitoring THEN "stats" ELSE "check")
  /\ count' = [count EXCEPT ![groupOf[task[h]]] = @ - 1]
  /\ task' = [task EXCEPT ![h] = IF Monitoring THEN @ ELSE None]
  /\ UNCHANGED <<queue, generation, groupOf, runs, slot, slotvars, ownervars, waitvars>>

(* With monitoring, complete_time is written into the task afterwards.      *)
WriteStats(h) ==
  /\ Goto(h, "stats", "check")
  /\ task' = [task EXCEPT ![h] = None]
  /\ UNCHANGED <<slot, queuevars, slotvars, ownervars, waitvars>>

(* The compare-and-swap WILL_TERMINATE -> KILLED.                           *)
CheckStatus(h) ==
  LET told == status[slot[h]] = "WILL_TERMINATE"
  IN  /\ Goto(h, "check", IF told THEN "finish" ELSE "take")
      /\ status' = IF told THEN [status EXCEPT ![slot[h]] = "KILLED"] ELSE status
      /\ UNCHANGED <<slot, task, queuevars, joinable, size, freed, ownervars, waitvars>>

(* The last store: it is not conditional on what the slot holds by then.    *)
Finish(h) ==
  /\ Goto(h, "finish", "exit")
  /\ status' = [status EXCEPT ![slot[h]] = "FINISHED"]
  /\ UNCHANGED <<slot, task, queuevars, joinable, size, freed, ownervars, waitvars>>

Worker(h) ==
  \/ \E t \in Tasks : TakeTask(h, t)
  \/ TakeNull(h) \/ RunTask(h) \/ CountDown(h) \/ WriteStats(h)
  \/ CheckStatus(h) \/ Finish(h)

Running(h) == pc[h] \notin {"none", "exit"}
Unused     == {h \in Threads : pc[h] = "none"}

------------------------------------------------------------------------------
(* The owner's calls.                                                       *)
Call(from, to) == ~freed /\ opc = from /\ opc' = to

(* The tasks the caller has passed to some enqueue call so far.             *)
Submitted ==
  {t \in Tasks : groupOf[t] # None \/ runs[t] > 0 \/ t \in pending \/ t = inline}

(* The first free group on the walk 0, Stride, 2 * Stride, ... (the loop    *)
(* keeps walking while all are taken).                                      *)
FreeGroup(g) ==
  LET At(k) == (k * Stride) % Groups
  IN  \E k \in 0 .. Groups - 1 :
        /\ g = At(k) /\ count[g] = 0
        /\ \A j \in 0 .. k - 1 : count[At(j)] # 0

(* enqueue_tasks of the tasks S; enqueue_tasks_wait also keeps `own`.       *)
(* The generation grows before the counter is set.                          *)
Enqueue(S, own) ==
  /\ Call("idle", "enqueue")
  /\ S \cap Submitted = {} /\ own \notin Submitted \cup S
  /\ \E g \in Group :
       /\ FreeGroup(g)
       /\ generation' = [generation EXCEPT ![g] = @ + 1]
       /\ idx' = g
  /\ pending' = S /\ inline' = own
  /\ UNCHANGED <<queue, count, groupOf, runs, slotvars, threadvars, waitvars,
                 otask, target, sum, hndl, handles>>

(* Variant: the counter does not cover the last task.                       *)
SetCount_short ==
  /\ Call("enqueue", "push")
  /\ count' = [count EXCEPT ![idx] = Cardinality(pending) - 1]
  /\ hndl' = [index |-> idx, generation |-> generation[idx], tasks |-> pending]
  /\ UNCHANGED <<queue, generation, groupOf, runs, slotvars, threadvars, waitvars,
                 otask, idx, target, sum, pending, inline, handles>>

SetCount ==
  /\ Call("enqueue", "push")
  /\ count' = [count EXCEPT ![idx] = Cardinality(pending)]
  /\ hndl' = [index |-> idx, generation |-> generation[idx], tasks |-> pending]
  /\ UNCHANGED <<queue, generation, groupOf, runs, slotvars, threadvars, waitvars,
                 otask, idx, target, sum, pending, inline, handles>>

PushTask(t) ==
  /\ t \in pending
  /\ Call("push", "push")
  /\ groupOf' = [groupOf EXCEPT ![t] = idx]
  /\ queue' = queue \cup {t}
  /\ pending' = pending \ {t}
  /\ UNCHANGED <<count, generation, runs, slotvars, threadvars, waitvars,
                 otask, idx, target, sum, inline, hndl, handles>>

(* The handle reaches the caller after the last push; enqueue_tasks_wait    *)
(* goes on with its own task and the wait.                                  *)
Enqueued ==
  /\ pending = {}
  /\ Call("push", IF inline = None THEN "idle" ELSE "inline")
  /\ handles' = handles \cup {hndl}
  /\ UNCHANGED <<queuevars, slotvars, threadvars, waitvars,
                 otask, idx, target, sum, pending, inline, hndl>>

RunInline ==
  /\ Call("inline", "waitgen")
  /\ runs' = [runs EXCEPT ![inline] = @ + 1]
  /\ inline' = None
  /\ UNCHANGED <<queue, count, generation, groupOf, slotvars, threadvars, waitvars,
                 otask, idx, target, sum, pending, hndl, handles>>

(* wait_for_task: the generation is read, then the counter, in a loop.      *)
StartWait(h) ==
  /\ Call("idle", "waitgen")
  /\ h \in handles
  /\ hndl' = h
  /\ UNCHANGED <<queuevars, slotvars, threadvars, waitvars,
                 otask, idx, target, sum, pending, inline, handles>>

OwnerWait ==
  \/ /\ opc = "waitgen"
     /\ IF generation[hndl.index] = hndl.generation
        THEN Call("waitgen", "waitcount") /\ UNCHANGED returned
        ELSE Call("waitgen", "idle") /\ returned' = returned \cup {hndl}
     /\ UNCHANGED <<queuevars, slotvars, threadvars, wpc, whndl,
                    otask, idx, target, sum, pending, inline, hndl, handles>>
  \/ /\ opc = "waitcount"
     /\ IF count[hndl.index] # 0
        THEN Call("waitcount", "waitgen") /\ UNCHANGED returned
        ELSE Call("waitcount", "idle") /\ returned' = returned \cup {hndl}
     /\ UNCHANGED <<queuevars, slotvars, threadvars, wpc, whndl,
                    otask, idx, target, sum, pending, inline, hndl, handles>>

WaiterStart(w) ==
  /\ ~freed /\ wpc[w] = "idle"
  /\ \E h \in handles : whndl' = [whndl EXCEPT ![w] = h]
  /\ wpc' = [wpc EXCEPT ![w] = "waitgen"]
  /\ UNCHANGED <<queuevars, slotvars, threadvars, ownervars, returned>>

(* Variant: a wait that is content with one task left.                      *)
WaiterStep_early(w) ==
  LET h    == whndl[w]
      done == \/ wpc[w] = "waitgen" /\ generation[h.index] # h.generation
              \/ wpc[w] = "waitcount" /\ count[h.index] <= 1
  IN  /\ ~freed /\ wpc[w] # "idle"
      /\ returned' = IF done THEN returned \cup {h} ELSE returned
      /\ wpc' = [wpc EXCEPT ![w] = IF done THEN "idle"
                                   ELSE IF @ = "waitgen" THEN "waitcount"
                                   ELSE "waitgen"]
      /\ UNCHANGED <<queuevars, slotvars, threadvars, ownervars, whndl>>

WaiterStep(w) ==
  LET h    == whndl[w]
      done == \/ wpc[w] = "waitgen" /\ generation[h.index] # h.generation
              \/ wpc[w] = "waitcount" /\ count[h.index] = 0
  IN  /\ ~freed /\ wpc[w] # "idle"
      /\ returned' = IF done THEN returned \cup {h} ELSE returned
      /\ wpc' = [wpc EXCEPT ![w] = IF done THEN "idle"
                                   ELSE IF @ = "waitgen" THEN "waitcount"
                                   ELSE "waitgen"]
      /\ UNCHANGED <<queuevars, slotvars, threadvars, ownervars, whndl>>

(* wait_for_all: the owner empties the queue itself ...                     *)
WaitAll ==
  /\ Call("idle", "help")
  /\ UNCHANGED <<queuevars, slotvars, threadvars, waitvars,
                 otask, idx, target, sum, pending, inline, hndl, handles>>

HelpTake(t) ==
  /\ t \in queue
  /\ Call("help", "helprun")
  /\ queue' = queue \ {t} /\ otask' = t
  /\ UNCHANGED <<count, generation, groupOf, runs, slotvars, threadvars, waitvars,
                 idx, target, sum, pending, inline, hndl, handles>>

HelpRun ==
  /\ Call("helprun", "helpcount")
  /\ runs' = [runs EXCEPT ![otask] = @ + 1]
  /\ UNCHANGED <<queue, count, generation, groupOf, slotvars, threadvars, waitvars,
                 otask, idx, target, sum, pending, inline, hndl, handles>>

HelpCount ==
  /\ Call("helpcount", "help")
  /\ count' = [count EXCEPT ![groupOf[otask]] = @ - 1]
  /\ otask' = None
  /\ UNCHANGED <<queue, generation, groupOf, runs, slotvars, threadvars, waitvars,
                 idx, target, sum, pending, inline, hndl, handles>>

(* Variant: the sum leaves the first group out.                             *)
HelpDone_skips ==
  /\ queue = {}
  /\ Call("help", "scan")
  /\ idx' = 1 /\ sum' = 0
  /\ UNCHANGED <<queuevars, slotvars, threadvars, waitvars,
                 otask, target, pending, inline, hndl, handles>>

HelpDone ==
  /\ queue = {}
  /\ Call("help", "scan")
  /\ idx' = 0 /\ sum' = 0
  /\ UNCHANGED <<queuevars, slotvars, threadvars, waitvars,
                 otask, target, pending, inline, hndl, handles>>

(* ... then sums up the counters, one load at a time, until the sum is 0.   *)
Scan ==
  /\ opc = "scan"
  /\ IF idx < Groups
     THEN Call("scan", "scan") /\ idx' = idx + 1 /\ sum' = sum + count[idx]
     ELSE Call("scan", IF sum = 0 THEN "idle" ELSE "scan") /\ idx' = 0 /\ sum' = 0
  /\ UNCHANGED <<queuevars, slotvars, threadvars, waitvars,
                 otask, target, pending, inline, hndl, handles>>

(* thread_pool_resize: one slot after the other, `size` last.               *)
Resize(n) ==
  /\ n # size /\ n <= Capacity
  /\ n - size <= Cardinality(Unused)      \* bound on the threads created
  /\ Call("idle", IF n > size THEN "grow" ELSE "shrink")
  /\ target' = n
  /\ idx' = IF n > size THEN size ELSE n
  /\ UNCHANGED <<queuevars, slotvars, threadvars, waitvars,
                 otask, sum, pending, inline, hndl, handles>>

(* Variant: a thread that has seen its mark is revived as well.             *)
Revive_late ==
  /\ idx < target /\ status[idx] \in {"WILL_TERMINATE", "KILLED"}
  /\ Call("grow", "grow")
  /\ status' = [status EXCEPT ![idx] = "IDLE"]
  /\ idx' = idx + 1
  /\ UNCHANGED <<queuevars, joinable, size, freed, threadvars, waitvars,
                 otask, target, sum, pending, inline, hndl, handles>>

(* A thread that has not seen its mark yet is revived ...                   *)
Revive ==
  /\ idx < target /\ status[idx] = "WILL_TERMINATE"
  /\ Call("grow", "grow")
  /\ status' = [status EXCEPT ![idx] = "IDLE"]
  /\ idx' = idx + 1
  /\ UNCHANGED <<queuevars, joinable, size, freed, threadvars, waitvars,
                 otask, target, sum, pending, inline, hndl, handles>>

(* ... for any other status a new thread gets the slot, whether or not the  *)
(* old one has stored its last status; pool[idx] forgets the old thread.    *)
CreateThread(h) ==
  /\ idx < target /\ status[idx] # "WILL_TERMINATE"
  /\ h \in Unused /\ h - 1 \notin Unused
  /\ Call("grow", "grow")
  /\ status' = [status EXCEPT ![idx] = "CREATED"]
  /\ joinable' = [joinable EXCEPT ![idx] = h]
  /\ slot' = [slot EXCEPT ![h] = idx]
  /\ pc' = [pc EXCEPT ![h] = "take"]
  /\ idx' = idx + 1
  /\ UNCHANGED <<queuevars, size, freed, task, waitvars,
                 otask, target, sum, pending, inline, hndl, handles>>

Shrink ==
  /\ idx < size
  /\ Call("shrink", "shrink")
  /\ status' = [status EXCEPT ![idx] = "WILL_TERMINATE"]
  /\ idx' = idx + 1
  /\ UNCHANGED <<queuevars, joinable, size, freed, threadvars, waitvars,
                 otask, target, sum, pending, inline, hndl, handles>>

Resized ==
  /\ \/ Call("grow", "idle") /\ idx = target
     \/ Call("shrink", "idle") /\ idx = size
  /\ size' = target
  /\ UNCHANGED <<queuevars, status, joinable, freed, threadvars, waitvars,
                 otask, idx, target, sum, pending, inline, hndl, handles>>

(* thread_pool_free: marks the slots below size, joins them, frees all.     *)
StartFree ==
  /\ MayFree
  /\ \A w \in Waiters : wpc[w] = "idle"   \* the caller frees when nobody waits
  /\ Call("idle", "mark")
  /\ idx' = 0
  /\ UNCHANGED <<queuevars, slotvars, threadvars, waitvars,
                 otask, target, sum, pending, inline, hndl, handles>>

(* Variant: the last slot is not marked.                                    *)
Mark_short ==
  /\ IF idx + 1 < size
     THEN Call("mark", "mark") /\ idx' = idx + 1
          /\ status' = [status EXCEPT ![idx] = "WILL_TERMINATE"]
     ELSE Call("mark", "join") /\ idx' = 0 /\ UNCHANGED status
  /\ UNCHANGED <<queuevars, joinable, size, freed, threadvars, waitvars,
                 otask, target, sum, pending, inline, hndl, handles>>

Mark ==
  /\ IF idx < size
     THEN Call("mark", "mark") /\ idx' = idx + 1
          /\ status' = [status EXCEPT ![idx] = "WILL_TERMINATE"]
     ELSE Call("mark", "join") /\ idx' = 0 /\ UNCHANGED status
  /\ UNCHANGED <<queuevars, joinable, size, freed, threadvars, waitvars,
                 otask, target, sum, pending, inline, hndl, handles>>

(* Variant: the threads are not waited for.                                 *)
Join_skips ==
  /\ idx < size
  /\ Call("join", "join")
  /\ idx' = idx + 1
  /\ UNCHANGED <<queuevars, slotvars, threadvars, waitvars,
                 otask, target, sum, pending, inline, hndl, handles>>

Join ==
  /\ idx < size /\ pc[joinable[idx]] = "exit"
  /\ Call("join", "join")
  /\ idx' = idx + 1
  /\ UNCHANGED <<queuevars, slotvars, threadvars, waitvars,
                 otask, target, sum, pending, inline, hndl, handles>>

Release ==
  /\ idx = size
  /\ Call("join", "freed")
  /\ freed' = TRUE
  /\ UNCHANGED <<queuevars, status, joinable, size, threadvars, waitvars,
                 otask, idx, target, sum, pending, inline, hndl, handles>>

(* What the owner decides to do, and what it does once it has decided.      *)
OwnerCall ==
  \/ \E S \in SUBSET Tasks, own \in Tasks \cup {None} :
       S \cup {own} # {None} /\ Enqueue(S, own)
  \/ \E h \in handles : StartWait(h)
  \/ WaitAll
  \/ \E n \in Sizes : Resize(n)
  \/ StartFree

OwnerStep ==
  \/ SetCount \/ (\E t \in Tasks : PushTask(t)) \/ Enqueued \/ RunInline
  \/ OwnerWait
  \/ (\E t \in Tasks : HelpTake(t)) \/ HelpRun \/ HelpCount \/ HelpDone \/ Scan
  \/ Revive \/ (\E h \in Threads : CreateThread(h)) \/ Shrink \/ Resized
  \/ Mark \/ Join \/ Release

Next ==
  \/ \E h \in Threads : Worker(h)
  \/ OwnerCall \/ OwnerStep
  \/ \E w \in Waiters : WaiterStart(w) \/ WaiterStep(w)

Spec == Init /\ [][Next]_vars

(* Every thread that runs keeps being scheduled; nothing obliges the owner  *)
(* to make another call.                                                    *)
FairSpec ==
  /\ Spec
  /\ \A h \in Threads : WF_vars(Worker(h))
  /\ WF_vars(OwnerStep)
  /\ \A w \in Waiters : WF_vars(WaiterStep(w))

------------------------------------------------------------------------------
Statuses == {"EMPTY", "CREATED", "IDLE", "WILL_TERMINATE", "KILLED", "FINISHED"}
OwnerCalls == {"idle", "enqueue", "push", "inline", "waitgen", "waitcount", "help",
               "helprun", "helpcount", "scan", "grow", "shrink", "mark", "join", "freed"}

TypeOK ==
  /\ queue \subseteq Tasks /\ runs \in [Tasks -> Nat]
  /\ count \in [Group -> Nat] /\ generation \in [Group -> Nat]
  /\ groupOf \in [Tasks -> Group \cup {None}]
  /\ status \in [Slots -> Statuses]
  /\ joinable \in [Slots -> Threads \cup {None}]
  /\ size \in 0 .. Capacity /\ freed \in BOOLEAN
  /\ slot \in [Threads -> Slots \cup {None}]
  /\ pc \in [Threads -> {"none", "take", "run", "count", "stats", "check", "finish", "exit"}]
  /\ task \in [Threads -> Tasks \cup {None}]
  /\ opc \in OwnerCalls /\ otask \in Tasks \cup {None}
  /\ idx \in Nat /\ target \in 0 .. Capacity /\ sum \in Int
  /\ pending \subseteq Tasks /\ inline \in Tasks \cup {None}
  /\ hndl \in Handles /\ handles \subseteq Handles /\ returned \subseteq Handles
  /\ wpc \in [Waiters -> {"idle", "waitgen", "waitcount"}]
  /\ whndl \in [Waiters -> Handles]

(* The tasks of group g that were announced and whose end is not counted.   *)
InHand(t) ==
  \/ t \in queue
  \/ \E h \in Threads : task[h] = t /\ pc[h] \in {"run", "count"}
  \/ otask = t

Outstanding(g) ==
  {t \in Tasks : groupOf[t] = g /\ InHand(t)}
     \cup (IF opc = "push" /\ idx = g THEN pending ELSE {})

(* The counter of a group is the number of its tasks that are still to be   *)
(* finished, although workers finish tasks while others are still being     *)
(* pushed: it never reaches 0 early, and never drops below.                 *)
CountMatches == \A g \in Group : count[g] = Cardinality(Outstanding(g))

(* A wait that returned, in any thread and however often the group was      *)
(* reused while it was spinning, waited for all tasks of its handle.        *)
WaitSound == \A h \in returned : \A t \in h.tasks : runs[t] = 1

(* wait_for_all returns only when everything enqueued so far has run,       *)
(* although it adds the counters up one by one while workers decrease them. *)
WaitAllSound ==
  [][opc = "scan" /\ opc' = "idle" =>
       \A t \in Tasks : groupOf[t] # None => runs[t] = 1]_vars

(* Between two calls of the owner every slot below size has a worker that   *)
(* is not on its way out: a grow that races with a thread that was told to  *)
(* terminate either revives it or starts another.                           *)
SlotsServed ==
  opc = "idle" =>
    \A i \in 0 .. size - 1 :
      \E h \in Threads : slot[h] = i /\ Running(h) /\ pc[h] # "finish"

(* Every task that reached the queue is run, unless the pool is freed: no   *)
(* resize leaves a pool of at least one thread without one.                 *)
QueuedTasksRun ==
  \A t \in Tasks : t \in queue ~> runs[t] > 0 \/ freed \/ size = 0

(* thread_pool_free comes back.                                             *)
FreeReturns == opc = "mark" ~> freed

(* thread_pool.h: free "releases all resources"; working threads may finish *)
(* but no thread runs on in a pool that is gone.                            *)
NoThreadOutlivesPool == freed => \A h \in Threads : ~Running(h)
==============================================================================
