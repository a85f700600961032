--------------------------- MODULE AsyncDictProofs ---------------------------
(***************************************************************************)
(* What holds of the carrier dictionary for any number of clients, strings  *)
(* and carriers, as long as the operations that nest the lock run alone:    *)
(* clients exclude each other by the spin lock, so that a call joins its    *)
(* own threads (LInv), and with nobody else at work its results stay what   *)
(* the carriers hold until they are merged (DInv).  What is said of         *)
(* identifiers needs carriers that fit into their field of an identifier.   *)
(***************************************************************************)
EXTENDS AsyncDict, TLAPS

(* The operations that take the lock again, and what the model asks of them.*)
Nested == {"locate_fast", "get_contents"}

NestedAlone == Ops \cap Nested \subseteq Alone

(* encode_async_create does not check what its comment asks for.            *)
CarriersFit == Carriers <= CarrierIds

(* Where a client is in the script of its operation.                        *)
Locks(c)    == step[c] = 1 \/ (op[c] \in Nested /\ step[c] = 2)
Working(c)  == IF op[c] \in Nested THEN op[c] = "locate_fast" /\ step[c] = 3
               ELSE op[c] # None /\ step[c] = 2
Lists(c)    == op[c] = "get_contents" /\ step[c] = 4
Unlocks(c)  ==
  \/ op[c] \notin Nested /\ step[c] = 3
  \/ op[c] = "locate_fast" /\ step[c] \in {4, 5}
  \/ op[c] = "get_contents" /\ step[c] \in {3, 5}
Returns(c)  == step[c] = 6 \/ (op[c] \notin Nested /\ step[c] >= 4)

(* How often an operation holds the lock when it starts a step.             *)
DepthAt(o, n) ==
  IF o \in Nested
  THEN IF n \in {1, 6} THEN 0 ELSE IF n = 3 \/ (n = 4 /\ o = "locate_fast") THEN 2 ELSE 1
  ELSE IF n \in {2, 3} THEN 1 ELSE 0

Busy(c) == pc[c] = "won" \/ depth[c] > 0

Types ==
  /\ flag \in BOOLEAN /\ owner \in Threads \cup {None}
  /\ depth \in [Threads -> 0 .. 2] /\ pc \in [Threads -> {"idle", "spin", "won", "cleared"}]
  /\ op \in [Threads -> Ops \cup {None}] /\ step \in [Threads -> 1 .. 6]
  /\ cursor \in [Threads -> 0 .. 2 * Carriers]
  /\ thread \in [Carrier -> Threads \cup {None}]
  /\ worker \in [Threads -> [Carrier -> {"none", "run", "done"}]]
  /\ calls \in [Threads -> 0 .. MaxCalls]

(* The depth and the place in the lock follow from the place in the script. *)
Stations ==
  \A c \in Threads :
    /\ op[c] = None => depth[c] = 0 /\ pc[c] = "idle"
    /\ op[c] # None =>
         /\ depth[c] = DepthAt(op[c], step[c]) - (IF pc[c] = "cleared" THEN 1 ELSE 0)
         /\ pc[c] \in {"spin", "won"} => Locks(c)
         /\ pc[c] = "cleared" => Unlocks(c)

(* Nobody is beside a client that nests the lock, and of the others one     *)
(* holds it.                                                               *)
Exclusion ==
  /\ \A c, d \in Threads : op[c] \in Nested /\ op[d] # None => c = d
  /\ \A c \in Threads : Busy(c) /\ op[c] \notin Nested => flag
  /\ \A c, d \in Threads : Busy(c) /\ Busy(d) => c = d
  /\ \A c \in Threads : owner = c => depth[c] > 0 \/ pc[c] = "cleared"

(* The handles of the carriers up to the cursor name the client, and up to  *)
(* the cursor of the second round its threads are done.                     *)
Workers ==
  /\ \A c \in Threads, t \in Carrier :
       IF Working(c)
       THEN /\ IF t < cursor[c] THEN thread[t] = c /\ worker[c][t] # "none"
               ELSE worker[c][t] = "none"
            /\ t + Carriers < cursor[c] => worker[c][t] = "done"
       ELSE worker[c][t] = "none"
  /\ \A c \in Threads :
       op[c] # None /\ (Locks(c) \/ (op[c] = "get_contents" /\ step[c] = 3)) => cursor[c] = 0

LInv == Types /\ Stations /\ Exclusion /\ Workers

-----------------------------------------------------------------------------
LEMMA ScriptTable ==
  ASSUME NEW c, op[c] \in Ops \cup {None}, step[c] \in 1 .. 6
  PROVE  /\ At(c, "lock") <=> op[c] # None /\ Locks(c)
         /\ At(c, "work") <=> Working(c)
         /\ At(c, "list") <=> Lists(c)
         /\ At(c, "unlock") <=> op[c] # None /\ Unlocks(c)
         /\ op[c] # None => (step[c] > Len(Script(op[c])) <=> Returns(c))
<1> DEFINE n == step[c]
<1>0. None \notin Ops \cup Nested /\ Ops \subseteq {"insert", "locate", "extract", "locate_fast", "get_contents"}
  BY AsyncAssumption DEF Nested
<1>1. CASE op[c] = None
  BY <1>0, <1>1 DEF At, Working, Lists, Nested
<1>2. CASE op[c] \in {"insert", "locate", "extract"}
  <2>1. Script(op[c]) = <<"lock", "work", "unlock">>
    BY <1>2 DEF Script
  <2>2. QED
    BY <1>0, <1>2, <2>1 DEF At, Locks, Working, Lists, Unlocks, Returns, Nested
<1>3. CASE op[c] = "locate_fast"
  <2>1. Script(op[c]) = <<"lock", "lock", "work", "unlock", "unlock">>
    BY <1>3 DEF Script
  <2>2. Len(Script(op[c])) = 5 /\ Script(op[c])[1] = "lock" /\ Script(op[c])[2] = "lock" /\ Script(op[c])[3] = "work" /\ Script(op[c])[4] = "unlock" /\ Script(op[c])[5] = "unlock"
    BY <2>1
  <2>3. n = 1 \/ n = 2 \/ n = 3 \/ n = 4 \/ n = 5 \/ n = 6
    OBVIOUS
  <2>4. CASE n = 1 \/ n = 2
    BY <1>0, <1>3, <2>2, <2>4 DEF At, Locks, Working, Lists, Unlocks, Returns, Nested
  <2>5. CASE n = 3 \/ n = 4
    BY <1>0, <1>3, <2>2, <2>5 DEF At, Locks, Working, Lists, Unlocks, Returns, Nested
  <2>6. CASE n = 5 \/ n = 6
    BY <1>0, <1>3, <2>2, <2>6 DEF At, Locks, Working, Lists, Unlocks, Returns, Nested
  <2>7. QED
    BY <2>3, <2>4, <2>5, <2>6
<1>4. CASE op[c] = "get_contents"
  <2>1. Script(op[c]) = <<"lock", "lock", "unlock", "list", "unlock">>
    BY <1>4 DEF Script
  <2>2. Len(Script(op[c])) = 5 /\ Script(op[c])[1] = "lock" /\ Script(op[c])[2] = "lock" /\ Script(op[c])[3] = "unlock" /\ Script(op[c])[4] = "list" /\ Script(op[c])[5] = "unlock"
    BY <2>1
  <2>3. n = 1 \/ n = 2 \/ n = 3 \/ n = 4 \/ n = 5 \/ n = 6
    OBVIOUS
  <2>4. CASE n = 1 \/ n = 2
    BY <1>0, <1>4, <2>2, <2>4 DEF At, Locks, Working, Lists, Unlocks, Returns, Nested
  <2>5. CASE n = 3 \/ n = 4
    BY <1>0, <1>4, <2>2, <2>5 DEF At, Locks, Working, Lists, Unlocks, Returns, Nested
  <2>6. CASE n = 5 \/ n = 6
    BY <1>0, <1>4, <2>2, <2>6 DEF At, Locks, Working, Lists, Unlocks, Returns, Nested
  <2>7. QED
    BY <2>3, <2>4, <2>5, <2>6
<1>5. QED
  BY <1>0, <1>1, <1>2, <1>3, <1>4

(* The same for a client of the model.                                      *)
LEMMA AtPlace ==
  ASSUME Types, NEW c \in Threads
  PROVE  /\ op[c] \in Ops \cup {None} /\ step[c] \in 1 .. 6 /\ cursor[c] \in 0 .. 2 * Carriers
         /\ At(c, "lock") <=> op[c] # None /\ Locks(c)
         /\ At(c, "work") <=> Working(c)
         /\ At(c, "list") <=> Lists(c)
         /\ At(c, "unlock") <=> op[c] # None /\ Unlocks(c)
         /\ op[c] # None => (step[c] > Len(Script(op[c])) <=> Returns(c))
<1>1. op[c] \in Ops \cup {None} /\ step[c] \in 1 .. 6 /\ cursor[c] \in 0 .. 2 * Carriers
  BY DEF Types
<1>2. QED
  BY <1>1, ScriptTable

LEMMA OpsNamed ==
  /\ None \notin Ops \cup Nested \cup Threads /\ Carriers \in Nat /\ Carriers > 0 /\ MaxCalls \in Nat
  /\ Ops \subseteq {"insert", "locate", "extract", "locate_fast", "get_contents"}
<1>1. Carriers \in Nat /\ Carriers > 0 /\ MaxCalls \in Nat
  BY AsyncAssumption
<1>2. Ops \subseteq {"insert", "locate", "extract", "locate_fast", "get_contents"}
  BY AsyncAssumption
<1>3. None \notin Ops \cup Nested \cup Threads
  BY AsyncAssumption DEF Nested
<1>4. QED
  BY <1>1, <1>2, <1>3

LEMMA DepthType == \A o, n : DepthAt(o, n) \in 0 .. 2
  BY DEF DepthAt

LEMMA LInit == Init => LInv
<1> USE OpsNamed DEF Init, Lock!Init
<1>1. Init => Types
  <2>0. Init => flag \in BOOLEAN
    OBVIOUS
  <2>1. Init => /\ owner \in Threads \cup {None} /\ depth \in [Threads -> 0 .. 2]
                /\ pc \in [Threads -> {"idle", "spin", "won", "cleared"}]
    OBVIOUS
  <2>2. Init => /\ op \in [Threads -> Ops \cup {None}] /\ step \in [Threads -> 1 .. 6]
                /\ cursor \in [Threads -> 0 .. 2 * Carriers] /\ calls \in [Threads -> 0 .. MaxCalls]
    OBVIOUS
  <2>3. Init => /\ thread \in [Carrier -> Threads \cup {None}]
                /\ worker \in [Threads -> [Carrier -> {"none", "run", "done"}]]
    OBVIOUS
  <2>4. QED
    BY <2>0, <2>1, <2>2, <2>3 DEF Types
<1>2. Init => Stations /\ Exclusion
  BY DEF Stations, Exclusion, Busy, Nested
<1>3. Init => Workers
  BY DEF Workers, Working, Nested
<1>4. QED
  BY <1>1, <1>2, <1>3 DEF LInv

LEMMA LCall ==
  ASSUME NestedAlone, LInv, NEW c \in Threads, NEW o \in Ops, NEW K, Call(c, o, K) PROVE LInv'
<1> USE OpsNamed DEF LInv, Call
<1>1. Types'
  BY DEF Types, lockvars, workvars
<1>2. Stations'
  BY DEF Types, Stations, lockvars, DepthAt, Locks, Unlocks
<1>3. Exclusion'
  <2>1. \A d, e \in Threads : (op[d] \in Nested /\ op[e] # None => d = e)'
    BY DEF Types, Exclusion, NestedAlone
  <2>2. QED
    BY <2>1 DEF Types, Stations, Exclusion, Busy, lockvars
<1>4. Workers'
  BY DEF Types, Workers, Working, Locks, Nested, lockvars, workvars
<1>5. QED
  BY <1>1, <1>2, <1>3, <1>4

LEMMA LLock == ASSUME LInv, NEW c \in Threads, LockStep(c) PROVE LInv'
<1> USE OpsNamed
<1>0. op[c] # None /\ Locks(c) /\ step[c] \in 1 .. 2 /\ DepthAt(op[c], step[c] + 1) = DepthAt(op[c], step[c]) + 1
  BY AtPlace DEF LInv, LockStep, Locks, DepthAt, Nested
<1>1. CASE Lock!Reenter(c)
  <2>1. pc[c] = "idle" /\ depth[c] > 0 /\ op[c] \in Nested /\ step[c] = 2
    BY <1>0, <1>1 DEF LInv, Types, Lock!Reenter, Exclusion, Stations, DepthAt, Locks
  <2>2. depth' = [depth EXCEPT ![c] = 2] /\ depth[c] = 1 /\ step' = [step EXCEPT ![c] = 3]
    <3>1. depth[c] = 1
      BY <1>0, <2>1 DEF LInv, Stations, DepthAt
    <3>2. depth' = [depth EXCEPT ![c] = 2] /\ depth'[c] = 2
      BY <1>1, <3>1 DEF LInv, Types, Lock!Reenter
    <3>3. step' = [step EXCEPT ![c] = 3]
      <4>1. step' = [step EXCEPT ![c] = IF depth'[c] > depth[c] THEN step[c] + 1 ELSE step[c]]
        BY DEF LockStep
      <4>2. depth'[c] > depth[c] /\ step[c] + 1 = 3
        BY <2>1, <3>1, <3>2
      <4>3. QED
        BY <4>1, <4>2
    <3>4. QED
      BY <3>1, <3>2, <3>3
  <2>3. UNCHANGED <<flag, owner, pc, op, thread, worker, calls, cursor>>
    BY <1>1 DEF Lock!Reenter, LockStep, workvars, callvars
  <2>4. Types'
    BY <2>2, <2>3 DEF LInv, Types
  <2>5. Stations'
    BY <2>1, <2>2, <2>3 DEF LInv, Types, Stations, Locks, Unlocks, DepthAt
  <2>6. Exclusion'
    BY <2>1, <2>2, <2>3 DEF LInv, Types, Exclusion, Busy
  <2>7. Workers'
    BY <1>0, <2>1, <2>2, <2>3 DEF LInv, Types, Workers, Working, Locks, Nested, Carrier
  <2>8. QED
    BY <2>4, <2>5, <2>6, <2>7 DEF LInv
<1>2. CASE Lock!Contend(c)
  <2>1. pc[c] = "idle" /\ pc' = [pc EXCEPT ![c] = "spin"] /\ UNCHANGED <<flag, owner, depth, op, step, thread, worker, calls, cursor>>
    BY <1>2 DEF LInv, Types, LockStep, Lock!Contend, Lock!Move, workvars, callvars
  <2>2. Types'
    BY <2>1 DEF LInv, Types
  <2>3. Stations'
    BY <1>0, <2>1 DEF LInv, Types, Stations, Locks, Unlocks, DepthAt
  <2>4. Exclusion' /\ Workers'
    BY <2>1 DEF LInv, Types, Exclusion, Busy, Workers, Working, Locks
  <2>5. QED
    BY <2>2, <2>3, <2>4 DEF LInv
<1>3. CASE Lock!TestAndSet(c)
  <2>1. pc[c] = "spin" /\ pc' = [pc EXCEPT ![c] = "won"] /\ ~flag /\ flag' = TRUE
        /\ UNCHANGED <<owner, depth, op, step, thread, worker, calls, cursor>>
    BY <1>3 DEF LInv, Types, LockStep, Lock!TestAndSet, Lock!Move, workvars, callvars
  <2>2. Types'
    BY <2>1 DEF LInv, Types
  <2>3. Stations'
    BY <1>0, <2>1 DEF LInv, Types, Stations, Locks, Unlocks, DepthAt
  <2>4. \A d \in Threads : Busy(d) => d = c
    BY <1>0, <2>1 DEF LInv, Types, Exclusion, Busy, Stations
  <2>5. Exclusion' /\ Workers'
    BY <2>1, <2>4 DEF LInv, Types, Exclusion, Busy, Workers, Working, Locks
  <2>6. QED
    BY <2>2, <2>3, <2>5 DEF LInv
<1>4. CASE Lock!Remember(c)
  <2>1. /\ pc[c] = "won" /\ pc' = [pc EXCEPT ![c] = "idle"] /\ owner' = c
        /\ depth' = [depth EXCEPT ![c] = @ + 1]
        /\ UNCHANGED <<flag, op, thread, worker, calls, cursor>>
    BY <1>4 DEF LInv, Types, LockStep, Lock!Remember, Lock!Move, workvars, callvars
  <2>2. step' = [step EXCEPT ![c] = @ + 1] /\ depth[c] \in 0 .. 1
    <3>1. depth[c] = DepthAt(op[c], step[c])
      BY <1>0, <2>1, DepthType DEF LInv, Stations
    <3>2. depth[c] \in 0 .. 1
      BY <1>0, <3>1 DEF DepthAt, Locks
    <3>3. depth'[c] > depth[c]
      BY <2>1, <3>2 DEF LInv, Types
    <3>4. QED
      BY <3>2, <3>3 DEF LockStep
  <2>3. Types'
    BY <1>0, <2>1, <2>2 DEF LInv, Types
  <2>4. Stations'
    <3>1. depth'[c] = DepthAt(op'[c], step'[c]) /\ pc'[c] = "idle"
      <4>1. depth[c] = DepthAt(op[c], step[c])
        BY <1>0, <2>1, DepthType DEF LInv, Stations
      <4>2. depth'[c] = depth[c] + 1 /\ step'[c] = step[c] + 1 /\ pc'[c] = "idle"
        BY <2>1, <2>2 DEF LInv, Types
      <4>3. QED
        BY <1>0, <2>1, <4>1, <4>2
    <3>2. \A d \in Threads : d # c => depth'[d] = depth[d] /\ step'[d] = step[d] /\ pc'[d] = pc[d]
      BY <2>1, <2>2 DEF LInv, Types
    <3>3. QED
      <4>1. ASSUME NEW d \in Threads, d # c, op[d] # None
            PROVE  /\ depth'[d] = DepthAt(op[d], step'[d]) - (IF pc'[d] = "cleared" THEN 1 ELSE 0)
                   /\ pc'[d] \in {"spin", "won"} => Locks(d)'
                   /\ pc'[d] = "cleared" => Unlocks(d)'
        BY <2>1, <3>2, <4>1 DEF LInv, Stations, Locks, Unlocks
      <4>2. depth'[c] = DepthAt(op[c], step'[c]) - (IF pc'[c] = "cleared" THEN 1 ELSE 0)
        BY <2>1, <3>1, DepthType
      <4>3. QED
        BY <1>0, <2>1, <3>1, <3>2, <4>1, <4>2 DEF LInv, Stations
  <2>5. Exclusion'
    BY <1>0, <2>1, <2>2 DEF LInv, Types, Exclusion, Busy
  <2>6. Workers'
    BY <1>0, <2>1, <2>2 DEF LInv, Types, Workers, Working, Locks, Nested, Carrier
  <2>7. QED
    BY <2>3, <2>4, <2>5, <2>6 DEF LInv
<1>5. QED
  BY <1>1, <1>2, <1>3, <1>4 DEF LockStep, Lock!Acquire

LEMMA LUnlock == ASSUME LInv, NEW c \in Threads, UnlockStep(c) PROVE LInv'
<1> USE OpsNamed
<1>0. op[c] # None /\ Unlocks(c) /\ ~Locks(c) /\ ~Working(c) /\ step[c] \in 3 .. 5
      /\ DepthAt(op[c], step[c] + 1) = DepthAt(op[c], step[c]) - 1
  BY AtPlace DEF LInv, UnlockStep, Unlocks, Locks, Working, DepthAt, Nested
<1>1. CASE Lock!ReleaseClear(c)
  <2>1. /\ pc[c] = "idle" /\ pc' = [pc EXCEPT ![c] = "cleared"] /\ flag' = FALSE
        /\ depth[c] > 0 /\ depth' = [depth EXCEPT ![c] = @ - 1]
        /\ UNCHANGED <<owner, op, thread, worker, calls, cursor, step>>
    BY <1>1 DEF LInv, Types, UnlockStep, Lock!ReleaseClear, Lock!Move, workvars, callvars
  <2>2. Types'
    <3>1. flag' \in BOOLEAN
      BY <2>1
    <3>2. depth[c] - 1 \in 0 .. 2
      BY <2>1 DEF LInv, Types
    <3>3. QED
      BY <2>1, <3>1, <3>2 DEF LInv, Types
  <2>3. Stations'
    <3>1. depth'[c] = DepthAt(op[c], step[c]) - 1
      BY <1>0, <2>1, DepthType DEF LInv, Types, Stations
    <3>2. \A d \in Threads : d # c => depth'[d] = depth[d] /\ pc'[d] = pc[d]
      BY <2>1 DEF LInv, Types
    <3>3. pc'[c] = "cleared"
      BY <2>1 DEF LInv, Types
    <3>4. QED
      BY <1>0, <2>1, <3>1, <3>2, <3>3 DEF LInv, Stations, Locks, Unlocks
  <2>4. \A d \in Threads : Busy(d) => d = c
    BY <2>1 DEF LInv, Exclusion, Busy
  <2>5. op[c] \notin Nested => depth[c] = 1
    BY <1>0, <2>1 DEF LInv, Stations, DepthAt
  <2>6. Exclusion'
    BY <2>1, <2>4, <2>5 DEF LInv, Types, Exclusion, Busy
  <2>7. Workers'
    BY <2>1 DEF LInv, Types, Workers, Working, Locks
  <2>8. QED
    BY <2>2, <2>3, <2>6, <2>7 DEF LInv
<1>2. CASE Lock!ReleaseForget(c)
  <2>1. /\ pc[c] = "cleared" /\ pc' = [pc EXCEPT ![c] = "idle"] /\ owner' = None
        /\ step' = [step EXCEPT ![c] = @ + 1]
        /\ UNCHANGED <<flag, depth, op, thread, worker, calls, cursor>>
    BY <1>2 DEF LInv, Types, UnlockStep, Lock!ReleaseForget, Lock!Move, workvars, callvars
  <2>2. Types'
    BY <1>0, <2>1 DEF LInv, Types
  <2>3. Stations'
    BY <1>0, <2>1 DEF LInv, Types, Stations, Locks, Unlocks
  <2>4. Exclusion'
    BY <1>0, <2>1 DEF LInv, Types, Exclusion, Busy
  <2>5. Workers'
    BY <1>0, <2>1 DEF LInv, Types, Workers, Working, Locks, Unlocks, Nested
  <2>6. QED
    BY <2>2, <2>3, <2>4, <2>5 DEF LInv
<1>3. QED
  BY <1>1, <1>2 DEF UnlockStep, Lock!Release

(* A client at work holds the lock, so only one is.                         *)
LEMMA OneAtWork ==
  ASSUME LInv, NEW c \in Threads, NEW d \in Threads, Working(c), Working(d) PROVE c = d
<1>1. \A e \in Threads : Working(e) => Busy(e)
  BY OpsNamed DEF LInv, Types, Stations, Working, Busy, DepthAt, Unlocks, Nested
<1>2. QED
  BY <1>1 DEF LInv, Exclusion

LEMMA LSpawn == ASSUME LInv, NEW c \in Threads, Spawn(c) PROVE LInv'
<1> USE OpsNamed
<1>1. /\ Working(c) /\ cursor[c] \in Carrier
      /\ thread' = [thread EXCEPT ![cursor[c]] = c]
      /\ worker' = [worker EXCEPT ![c][cursor[c]] = "run"]
      /\ cursor' = [cursor EXCEPT ![c] = @ + 1]
      /\ UNCHANGED <<flag, owner, depth, pc, op, step, calls>>
  <2>1. At(c, "work") /\ cursor[c] < Carriers
    BY DEF Spawn
  <2>2. cursor[c] \in Nat
    BY AtPlace DEF LInv
  <2>3. Working(c)
    BY <2>1, AtPlace DEF LInv
  <2>4. cursor[c] \in Carrier
    BY <2>1, <2>2 DEF Carrier
  <2>5. QED
    BY <2>3, <2>4 DEF Spawn, Advance, lockvars, callvars
<1>2. Types'
  BY <1>1 DEF LInv, Types, Carrier
<1>3. Stations' /\ Exclusion'
  BY <1>1 DEF LInv, Stations, Exclusion, Locks, Unlocks, Busy
<1>4. ASSUME NEW d \in Threads, NEW t \in Carrier
      PROVE  (IF Working(d)
              THEN /\ IF t < cursor[d] THEN thread[t] = d /\ worker[d][t] # "none"
                      ELSE worker[d][t] = "none"
                   /\ t + Carriers < cursor[d] => worker[d][t] = "done"
              ELSE worker[d][t] = "none")'
  <2>1. CASE d # c
    <3>1. ~Working(d) /\ ~Working(d)'
      BY <1>1, <2>1, OneAtWork DEF Working
    <3>2. QED
      BY <1>1, <2>1, <3>1 DEF LInv, Types, Workers
  <2>2. CASE d = c
    BY <1>1, <2>2 DEF LInv, Types, Workers, Working, Carrier
  <2>3. QED
    BY <2>1, <2>2
<1>5. \A d \in Threads : (op[d] # None /\ (Locks(d) \/ (op[d] = "get_contents" /\ step[d] = 3)) => cursor[d] = 0)'
  BY <1>1 DEF LInv, Types, Workers, Working, Locks, Nested
<1>6. QED
  BY <1>2, <1>3, <1>4, <1>5 DEF LInv, Workers

(* A thread that has done its work.                                         *)
LEMMA LWork ==
  ASSUME LInv, NEW c \in Threads, NEW t \in Carrier, Work(c, t)
  PROVE  LInv' /\ worker[c][t] = "run" /\ Working(c)
<1> USE OpsNamed
<1>1. /\ worker[c][t] = "run" /\ worker' = [worker EXCEPT ![c][t] = "done"]
      /\ UNCHANGED <<flag, owner, depth, pc, op, step, calls, cursor, thread>>
  BY DEF Work, WorkInsert, WorkLocate, WorkExtract, Finish, lockvars, callvars
<1>2. Working(c)
  BY <1>1 DEF LInv, Workers
<1>3. Types'
  BY <1>1 DEF LInv, Types
<1>4. Stations' /\ Exclusion'
  BY <1>1 DEF LInv, Stations, Exclusion, Locks, Unlocks, Busy
<1>5. Workers'
  BY <1>1, <1>2 DEF LInv, Types, Workers, Working, Locks
<1>6. QED
  BY <1>1, <1>2, <1>3, <1>4, <1>5 DEF LInv

LEMMA LJoin == ASSUME LInv, NEW c \in Threads, Join(c) PROVE LInv'
<1> USE OpsNamed
<1> DEFINE t == cursor[c] - Carriers
<1>1. /\ Working(c) /\ t \in Carrier /\ worker[thread[t]][t] # "run"
      /\ cursor' = [cursor EXCEPT ![c] = @ + 1]
      /\ UNCHANGED <<flag, owner, depth, pc, op, step, calls, thread, worker>>
  BY AtPlace DEF LInv, Join, Advance, lockvars, callvars, workvars
<1>2. Types'
  <2>1. cursor[c] \in Nat /\ cursor[c] < 2 * Carriers
    BY <1>1, AtPlace DEF LInv, Carrier
  <2>2. cursor[c] + 1 \in 0 .. 2 * Carriers
    BY <2>1
  <2>3. QED
    BY <1>1, <2>2 DEF LInv, Types
<1>3. Stations' /\ Exclusion'
  BY <1>1 DEF LInv, Stations, Exclusion, Locks, Unlocks, Busy
<1>4. worker[c][t] = "done"
  BY <1>1 DEF LInv, Types, Workers, Carrier
<1>5. Workers'
  <2>1. ASSUME NEW d \in Threads, NEW u \in Carrier
        PROVE  (IF Working(d)
                THEN /\ IF u < cursor[d] THEN thread[u] = d /\ worker[d][u] # "none"
                        ELSE worker[d][u] = "none"
                     /\ u + Carriers < cursor[d] => worker[d][u] = "done"
                ELSE worker[d][u] = "none")'
    <3>1. CASE d # c
      BY <1>1, <3>1 DEF LInv, Types, Workers, Working
    <3>2. CASE d = c
      <4>1. cursor'[c] = cursor[c] + 1 /\ cursor[c] \in Nat /\ u \in Nat /\ u < Carriers /\ t + Carriers = cursor[c]
        BY <1>1 DEF LInv, Types, Carrier
      <4>2. thread[u] = c /\ worker[c][u] # "none" /\ (u + Carriers < cursor[c] => worker[c][u] = "done")
        BY <1>1, <4>1 DEF LInv, Workers, Carrier
      <4>3. u + Carriers < cursor[c] + 1 => u + Carriers < cursor[c] \/ u = t
        BY <4>1
      <4>4. QED
        BY <1>1, <1>4, <3>2, <4>1, <4>2, <4>3 DEF Working, Carrier
    <3>3. QED
      BY <3>1, <3>2
  <2>2. \A d \in Threads : (op[d] # None /\ (Locks(d) \/ (op[d] = "get_contents" /\ step[d] = 3)) => cursor[d] = 0)'
    BY <1>1 DEF LInv, Types, Workers, Working, Locks, Nested
  <2>3. QED
    BY <2>1, <2>2 DEF Workers
<1>6. QED
  BY <1>2, <1>3, <1>5 DEF LInv

LEMMA LMerge == ASSUME LInv, NEW c \in Threads, Merge(c) PROVE LInv'
<1> USE OpsNamed
<1>1. /\ Working(c) /\ step[c] \in 2 .. 3
      /\ worker' = [worker EXCEPT ![c] = [t \in Carrier |-> "none"]]
      /\ step' = [step EXCEPT ![c] = @ + 1]
      /\ UNCHANGED <<flag, owner, depth, pc, op, calls, cursor, thread>>
  BY AtPlace DEF LInv, Merge, NextStep, lockvars, callvars, Working
<1>2. Types'
  BY <1>1 DEF LInv, Types
<1>3. Stations'
  <2>1. pc[c] \in {"idle", "spin", "won", "cleared"} /\ op[c] # None /\ ~Locks(c) /\ ~Unlocks(c)
    BY <1>1 DEF LInv, Types, Working, Locks, Unlocks, Nested
  <2>2. pc[c] = "idle"
    BY <2>1 DEF LInv, Stations
  <2>3. DepthAt(op[c], step[c] + 1) = DepthAt(op[c], step[c])
    BY <1>1 DEF Working, DepthAt, Nested
  <2>4. step'[c] = step[c] + 1 /\ \A d \in Threads : d # c => step'[d] = step[d]
    BY <1>1 DEF LInv, Types
  <2>5. QED
    BY <1>1, <2>1, <2>2, <2>3, <2>4 DEF LInv, Stations, Locks, Unlocks
<1>4. Exclusion'
  BY <1>1 DEF LInv, Exclusion, Busy
<1>5. Workers'
  BY <1>1 DEF LInv, Types, Workers, Working, Locks, Nested
<1>6. QED
  BY <1>2, <1>3, <1>4, <1>5 DEF LInv

LEMMA LList == ASSUME LInv, NEW c \in Threads, List(c) PROVE LInv'
<1> USE OpsNamed
<1>1. /\ Lists(c) /\ cursor[c] < Carriers
      /\ cursor' = [cursor EXCEPT ![c] = @ + 1]
      /\ step' = [step EXCEPT ![c] = @ + 1] \/ step' = step
      /\ UNCHANGED <<flag, owner, depth, pc, op, calls, thread, worker>>
  BY AtPlace DEF LInv, List, Advance, NextStep, lockvars, callvars, workvars
<1>2. Types'
  BY <1>1 DEF LInv, Types, Lists
<1>3. Stations'
  BY <1>1 DEF LInv, Types, Stations, Lists, Locks, Unlocks, DepthAt, Nested
<1>4. Exclusion'
  BY <1>1 DEF LInv, Exclusion, Busy
<1>5. Workers'
  BY <1>1 DEF LInv, Types, Workers, Working, Lists, Locks, Nested
<1>6. QED
  BY <1>2, <1>3, <1>4, <1>5 DEF LInv

LEMMA LReturn == ASSUME LInv, NEW c \in Threads, Return(c) PROVE LInv'
<1> USE OpsNamed
<1>1. /\ op[c] # None /\ Returns(c) /\ op' = [op EXCEPT ![c] = None]
      /\ UNCHANGED <<flag, owner, depth, pc, step, calls, cursor, thread, worker>>
  BY AtPlace DEF LInv, Return, lockvars, workvars
<1>2. Types'
  BY <1>1 DEF LInv, Types
<1>3. depth[c] = 0 /\ pc[c] = "idle"
  BY <1>1 DEF LInv, Types, Stations, Returns, Locks, Unlocks, DepthAt, Nested
<1>4. Stations'
  BY <1>1, <1>3 DEF LInv, Types, Stations, Locks, Unlocks
<1>5. Exclusion'
  BY <1>1, <1>3 DEF LInv, Types, Exclusion, Busy
<1>6. Workers'
  BY <1>1 DEF LInv, Types, Workers, Working, Returns, Locks, Nested
<1>7. QED
  BY <1>2, <1>4, <1>5, <1>6 DEF LInv

LEMMA LStep == ASSUME NestedAlone, LInv, [Next]_vars PROVE LInv'
<1>1. ASSUME NEW c \in Threads, Calls(c) PROVE LInv'
  BY <1>1, LCall DEF Calls
<1>2. ASSUME NEW c \in Threads, Proceed(c) PROVE LInv'
  BY <1>2, LLock, LUnlock, LSpawn, LJoin, LMerge, LList, LReturn DEF Proceed
<1>3. ASSUME NEW c \in Threads, NEW t \in Carrier, Work(c, t) PROVE LInv'
  BY <1>3, LWork
<1>4. CASE UNCHANGED vars
  BY <1>4 DEF vars, lockvars, workvars, callvars, LInv, Types, Stations, Exclusion, Workers,
              Working, Locks, Unlocks, Busy
<1>5. QED
  BY <1>1, <1>2, <1>3, <1>4 DEF Next

LEMMA LHolds == ASSUME NestedAlone PROVE Spec => []LInv
<1>1. LInv /\ [Next]_vars => LInv'
  BY LStep
<1>2. QED
  BY <1>1, LInit, PTL DEF Spec

(* A call that has joined the handles of all carriers has joined its own    *)
(* threads, for any number of clients and carriers.                         *)
THEOREM OwnThreadsAreJoined == ASSUME NestedAlone PROVE Spec => []ResultsReady
<1>1. LInv => ResultsReady
  <2> SUFFICES ASSUME LInv, NEW c \in Threads, At(c, "work"), cursor[c] = 2 * Carriers,
                      NEW t \in Carrier
               PROVE  worker[c][t] = "done"
    BY DEF ResultsReady
  <2>1. Working(c)
    BY AtPlace DEF LInv
  <2>2. t + Carriers < cursor[c]
    BY OpsNamed DEF Carrier
  <2>3. QED
    BY <2>1, <2>2 DEF LInv, Workers
<1>2. QED
  BY <1>1, LHolds, PTL

-----------------------------------------------------------------------------
(* What a string is known by: its owner's entry, packed with the owner.     *)
Known(s, g) ==
  /\ s \in Strings /\ s \in DOMAIN dict[OwnerOf[s]]
  /\ g = MakeGlobal(OwnerOf[s], dict[OwnerOf[s]][s])

DictOK ==
  /\ DOMAIN dict = Carrier
  /\ \A t \in Carrier :
       /\ DOMAIN dict[t] \subseteq Strings /\ dict[t] \in [DOMAIN dict[t] -> 0 .. LocalIds - 1]
       /\ \A s \in DOMAIN dict[t] : OwnerOf[s] = t
       /\ \A r, s \in DOMAIN dict[t] : dict[t][r] = dict[t][s] => r = s

(* What was returned is still known.                                        *)
Histories ==
  /\ got \subseteq Strings \X Nat /\ \A g \in got : Known(g[1], g[2])
  /\ DOMAIN before = Threads /\ \A c \in Threads : before[c] \subseteq got

KeysOK ==
  /\ DOMAIN keys = Threads
  /\ \A c \in Threads :
       /\ op[c] # "extract" => keys[c] \subseteq Strings
       /\ op[c] = "extract" => \A k \in keys[c] : \E s : Known(s, k)

(* What extract gives for local identifier i of carrier t.                  *)
Names(t, i, x) == IF i = 0 THEN x = NullText ELSE x \in DOMAIN dict[t] /\ dict[t][x] = i

(* What a thread that is done has written agrees with its carrier: nobody   *)
(* else is at work before the results are merged.                           *)
Results ==
  /\ DOMAIN out = Threads /\ \A c \in Threads : DOMAIN out[c] = Carrier
  /\ \A c \in Threads, t \in Carrier : worker[c][t] = "done" =>
       \A k \in Share(c, t) :
         IF op[c] = "extract"
         THEN Names(t, GetLocal(k), out[c][t][k])
         ELSE out[c][t][k] = IF k \in DOMAIN dict[t] THEN dict[t][k] ELSE NotFound

Answers ==
  /\ DOMAIN answer = Threads
  /\ \A c \in Threads :
       /\ op[c] = "extract" => \A k \in DOMAIN answer[c] :
            IF GetLocal(k) = 0 THEN answer[c][k] = NullText ELSE Known(answer[c][k], k)
       /\ op[c] \notin {None, "extract"} => \A k \in DOMAIN answer[c] :
            IF answer[c][k] = NotFound THEN \A g \in before[c] : g[1] # k
            ELSE Known(k, answer[c][k])
       /\ op[c] = "get_contents" => \A g \in before[c] :
            step[c] > 4 \/ (step[c] = 4 /\ OwnerOf[g[1]] < cursor[c]) => g[1] \in DOMAIN answer[c]

DInv == DictOK /\ Histories /\ KeysOK /\ Results /\ Answers

-----------------------------------------------------------------------------
LEMMA Packing ==
  ASSUME NEW L \in Nat, NEW t \in Nat, NEW u \in Nat, NEW i \in 0 .. L - 1, NEW j \in 0 .. L - 1,
         t * L + i = u * L + j
  PROVE  t = u /\ i = j
<1>1. ASSUME NEW a \in Nat, NEW b \in Nat, a < b PROVE a * L + L <= b * L
  <2>1. PICK d \in Nat : b = a + 1 + d
    <3>1. b - a - 1 \in Nat /\ b = a + 1 + (b - a - 1)
      BY <1>1
    <3>2. QED
      BY <3>1
  <2>2. b * L = a * L + L + d * L
    BY <2>1
  <2>3. d * L >= 0 /\ d * L \in Int /\ a * L \in Int
    OBVIOUS
  <2>4. QED
    BY <2>2, <2>3
<1>2. t * L \in Int /\ u * L \in Int
  OBVIOUS
<1>3. t = u
  BY <1>1, <1>2
<1>4. QED
  BY <1>2, <1>3

LEMMA Unpacking ==
  ASSUME NEW L \in Nat, L > 0, NEW g \in Nat
  PROVE  g \div L \in Nat /\ g % L \in 0 .. L - 1 /\ g = (g \div L) * L + (g % L)
OBVIOUS

LEMMA Sizes ==
  /\ LocalIds \in Nat /\ LocalIds > 0 /\ CarrierIds \in Nat /\ CarrierIds > 0
  /\ \A s \in Strings : OwnerOf[s] \in Carrier /\ OwnerOf[s] \in Nat
<1>1. /\ LocalIds \in Nat \ {0} /\ CarrierIds \in Nat \ {0} /\ Carriers \in Nat
      /\ \A s \in Strings : OwnerOf[s] \in 0 .. Carriers - 1
  BY AsyncAssumption
<1>2. QED
  BY <1>1 DEF Carrier

(* A carrier that fits into the upper field loses no bits by the shift.     *)
LEMMA Shifted ==
  ASSUME CarriersFit, NEW t \in Carrier
  PROVE  \A i : MakeGlobal(t, i) = t * LocalIds + i
<1> DEFINE W == CarrierIds * LocalIds
           x == t * LocalIds
<1>1. /\ LocalIds \in Nat /\ LocalIds > 0 /\ CarrierIds \in Nat /\ t \in Nat /\ t < CarrierIds
  BY Sizes, OpsNamed DEF CarriersFit, Carrier
<1>2. PICK d \in Nat : CarrierIds = t + 1 + d
  <2>1. CarrierIds - t - 1 \in Nat /\ CarrierIds = t + 1 + (CarrierIds - t - 1)
    BY <1>1
  <2>2. QED
    BY <2>1
<1>3. x \in Nat /\ x < W /\ W \in Nat /\ W > 0
  <2>1. W = x + LocalIds + d * LocalIds
    BY <1>1, <1>2
  <2>2. x \in Nat /\ d * LocalIds \in Nat
    BY <1>1
  <2>3. QED
    BY <1>1, <2>1, <2>2
<1> HIDE DEF W, x
<1>4. x % W = x
  BY <1>3
<1>5. QED
  BY <1>4 DEF MakeGlobal, W, x

(* A known pair can be taken apart again, and determines both its halves.   *)
LEMMA KnownPair ==
  ASSUME CarriersFit, DictOK, NEW s, NEW g, Known(s, g)
  PROVE  /\ g \in Nat /\ OwnerOf[s] \in Carrier /\ dict[OwnerOf[s]][s] \in 0 .. LocalIds - 1
         /\ GetOwner(g) = OwnerOf[s] /\ GetLocal(g) = dict[OwnerOf[s]][s]
<1> DEFINE t == OwnerOf[s]
           i == dict[t][s]
<1>1. t \in Nat /\ t \in Carrier /\ i \in 0 .. LocalIds - 1 /\ LocalIds \in Nat /\ LocalIds > 0
  BY Sizes DEF Known, DictOK
<1>2. g = t * LocalIds + i
  BY <1>1, Shifted DEF Known
<1>3. g \in Nat
  <2>1. t * LocalIds \in Nat
    BY <1>1
  <2>2. QED
    BY <1>1, <1>2, <2>1
<1>4. /\ g \div LocalIds \in Nat /\ g % LocalIds \in 0 .. LocalIds - 1
      /\ (g \div LocalIds) * LocalIds + (g % LocalIds) = t * LocalIds + i
  BY <1>1, <1>2, <1>3, Unpacking
<1>5. g \div LocalIds = t /\ g % LocalIds = i
  <2>1. \A q, u \in Nat : \A m, j \in 0 .. LocalIds - 1 : q * LocalIds + m = u * LocalIds + j => q = u /\ m = j
    BY <1>1, Packing
  <2>2. i \in 0 .. LocalIds - 1 /\ t \in Nat
    BY <1>1
  <2> HIDE DEF t, i
  <2>3. QED
    BY <1>4, <2>1, <2>2
<1>6. QED
  BY <1>1, <1>3, <1>5 DEF GetOwner, GetLocal

LEMMA KnownUnique ==
  ASSUME CarriersFit, DictOK, NEW r, NEW s, NEW g, NEW h, Known(r, g), Known(s, h)
  PROVE  r = s <=> g = h
<1>1. r = s => g = h
  BY DEF Known
<1>2. ASSUME g = h PROVE r = s
  <2>1. OwnerOf[r] = OwnerOf[s] /\ dict[OwnerOf[r]][r] = dict[OwnerOf[s]][s] /\ OwnerOf[r] \in Carrier
    BY <1>2, KnownPair
  <2>2. QED
    BY <2>1 DEF Known, DictOK
<1>3. QED
  BY <1>1, <1>2

(* Dictionaries that grow forget nothing.                                   *)
LEMMA Stable ==
  ASSUME \A t \in Carrier : /\ DOMAIN dict[t] \subseteq DOMAIN dict'[t]
                            /\ \A s \in DOMAIN dict[t] : dict'[t][s] = dict[t][s],
         NEW s, NEW g, Known(s, g)
  PROVE  Known(s, g)'
<1>1. OwnerOf[s] \in Carrier
  BY Sizes DEF Known
<1>2. QED
  BY <1>1 DEF Known, MakeGlobal

-----------------------------------------------------------------------------
LEMMA DInit == Init => DInv
<1> SUFFICES ASSUME Init PROVE DInv
  OBVIOUS
<1> USE OpsNamed
<1>1. DictOK
  <2>1. DOMAIN dict = Carrier /\ \A t \in Carrier : dict[t] = <<>>
    BY DEF Init
  <2>2. DOMAIN << >> = {} /\ << >> = [s \in {} |-> 0]
    OBVIOUS
  <2>3. QED
    BY <2>1, <2>2 DEF DictOK
<1>2. Histories /\ KeysOK
  BY DEF Init, Histories, KeysOK
<1>3. Results
  BY DEF Init, Results
<1>4. Answers
  BY DEF Init, Answers
<1>5. QED
  BY <1>1, <1>2, <1>3, <1>4 DEF DInv

(* Steps that leave dictionaries, histories, keys and answers alone.        *)
LEMMA DQuiet ==
  ASSUME LInv, DInv, UNCHANGED <<dict, got, before, keys, op, answer>>,
         DOMAIN out' = Threads, \A c \in Threads : DOMAIN out'[c] = Carrier,
         \A c \in Threads, t \in Carrier : worker'[c][t] = "done" =>
           worker[c][t] = "done" /\ out'[c][t] = out[c][t],
         \A c \in Threads, g \in got : op[c] = "get_contents" =>
           (step'[c] > 4 \/ (step'[c] = 4 /\ OwnerOf[g[1]] < cursor'[c])
              => step[c] > 4 \/ (step[c] = 4 /\ OwnerOf[g[1]] < cursor[c]))
  PROVE  DInv'
<1>1. DictOK' /\ Histories' /\ KeysOK'
  BY DEF DInv, DictOK, Histories, KeysOK, Known
<1>2. Results'
  BY DEF DInv, Results, Names, Share
<1>3. Answers'
  BY DEF DInv, Answers, Known, Histories
<1>4. QED
  BY <1>1, <1>2, <1>3 DEF DInv

LEMMA DCall ==
  ASSUME LInv, DInv, NEW c \in Threads, Calls(c) PROVE DInv'
<1> USE OpsNamed
<1>1. PICK o, K : /\ o \in Ops /\ Call(c, o, K)
                  /\ o # "extract" => K \subseteq Strings
                  /\ o = "extract" => \A k \in K : \E s : Known(s, k)
  <2>1. \A K \in Batches : K \subseteq Strings
    BY AsyncAssumption
  <2>2. CASE \E o \in Ops \cap {"insert", "locate"}, K \in Batches : Call(c, o, K)
    BY <2>1, <2>2
  <2>3. CASE \E K \in Batches : "locate_fast" \in Ops /\ Call(c, "locate_fast", K)
    BY <2>1, <2>3
  <2>4. CASE \E K \in Batches : "extract" \in Ops
                                /\ Call(c, "extract", {g[2] : g \in {h \in got : h[1] \in K}})
    <3>1. \A K : \A k \in {g[2] : g \in {h \in got : h[1] \in K}} : \E s : Known(s, k)
      BY DEF DInv, Histories
    <3>2. QED
      BY <2>4, <3>1
  <2>5. CASE "get_contents" \in Ops /\ Call(c, "get_contents", {})
    BY <2>5
  <2>6. QED
    BY <2>2, <2>3, <2>4, <2>5 DEF Calls
<1>2. /\ op[c] = None /\ op' = [op EXCEPT ![c] = o] /\ keys' = [keys EXCEPT ![c] = K]
      /\ before' = [before EXCEPT ![c] = got] /\ step' = [step EXCEPT ![c] = 1]
      /\ cursor' = [cursor EXCEPT ![c] = 0] /\ answer' = [answer EXCEPT ![c] = <<>>]
      /\ UNCHANGED <<worker, out, dict, got>>
  BY <1>1 DEF Call, workvars
<1>3. /\ op'[c] = o /\ keys'[c] = K /\ before'[c] = got /\ step'[c] = 1 /\ DOMAIN answer'[c] = {}
      /\ \A d \in Threads : d # c =>
           /\ op'[d] = op[d] /\ keys'[d] = keys[d] /\ before'[d] = before[d]
           /\ step'[d] = step[d] /\ cursor'[d] = cursor[d] /\ answer'[d] = answer[d]
      /\ DOMAIN keys' = Threads /\ DOMAIN before' = Threads /\ DOMAIN answer' = Threads
  BY <1>2 DEF DInv, LInv, Types, Histories, KeysOK, Answers
<1>4. \A t \in Carrier : worker[c][t] = "none"
  BY <1>2 DEF LInv, Workers, Working
<1>5. DictOK' /\ Histories'
  BY <1>2, <1>3 DEF DInv, DictOK, Histories, Known
<1>6. KeysOK'
  BY <1>1, <1>2, <1>3 DEF DInv, KeysOK, Known
<1>7. Results'
  BY <1>2, <1>3, <1>4 DEF DInv, Results, Names, Share
<1>8. Answers'
  BY <1>2, <1>3 DEF DInv, Answers, Known
<1>9. QED
  BY <1>5, <1>6, <1>7, <1>8 DEF DInv

LEMMA DLock == ASSUME LInv, DInv, NEW c \in Threads, LockStep(c) \/ UnlockStep(c) PROVE DInv'
<1> USE OpsNamed
<1>1. /\ UNCHANGED <<op, keys, before, answer, got, worker, out, dict, cursor>>
      /\ step' = [step EXCEPT ![c] = @ + 1] \/ step' = step
  <2>1. \A b \in BOOLEAN : [step EXCEPT ![c] = IF b THEN step[c] + 1 ELSE step[c]] \in {[step EXCEPT ![c] = step[c] + 1], step}
    <3>1. [step EXCEPT ![c] = step[c]] = step
      BY DEF LInv, Types
    <3>2. QED
      BY <3>1
  <2>2. step' = [step EXCEPT ![c] = step[c] + 1] \/ step' = step
    BY <2>1 DEF LockStep, UnlockStep
  <2>3. QED
    BY <2>2 DEF LockStep, UnlockStep, workvars, callvars
<1>2. At(c, "lock") \/ At(c, "unlock")
  BY DEF LockStep, UnlockStep
<1>3. op[c] # None /\ (Locks(c) \/ Unlocks(c))
  BY <1>2, AtPlace DEF LInv
<1>4. op[c] = "get_contents" => step[c] \in {1, 2, 3, 5} /\ (step[c] = 3 => cursor[c] = 0)
  BY <1>3 DEF LInv, Workers, Locks, Unlocks, Nested
<1>5. ASSUME NEW d \in Threads, NEW g \in got, op[d] = "get_contents",
             step'[d] > 4 \/ (step'[d] = 4 /\ OwnerOf[g[1]] < cursor'[d])
      PROVE  step[d] > 4 \/ (step[d] = 4 /\ OwnerOf[g[1]] < cursor[d])
  <2>1. OwnerOf[g[1]] \in Nat
    BY Sizes DEF DInv, Histories
  <2>2. CASE d = c
    <3>1. step'[c] = step[c] \/ step'[c] = step[c] + 1
      BY <1>1 DEF LInv, Types
    <3>2. QED
      BY <1>1, <1>4, <1>5, <2>1, <2>2, <3>1
  <2>3. CASE d # c
    BY <1>1, <1>5, <2>3 DEF LInv, Types
  <2>4. QED
    BY <2>2, <2>3
<1>6. QED
  BY <1>1, <1>5, DQuiet DEF DInv, Results

LEMMA DSpawn == ASSUME LInv, DInv, NEW c \in Threads, Spawn(c) PROVE DInv'
<1> USE OpsNamed
<1>1. /\ Working(c) /\ cursor[c] \in Carrier
      /\ worker' = [worker EXCEPT ![c][cursor[c]] = "run"]
      /\ out' = [out EXCEPT ![c][cursor[c]] = <<>>]
      /\ cursor' = [cursor EXCEPT ![c] = @ + 1]
      /\ UNCHANGED <<op, keys, before, answer, got, dict, step>>
  <2>1. At(c, "work") /\ cursor[c] < Carriers
    BY DEF Spawn
  <2>2. cursor[c] \in Nat
    BY AtPlace DEF LInv
  <2>3. Working(c)
    BY <2>1, AtPlace DEF LInv
  <2>4. cursor[c] \in Carrier
    BY <2>1, <2>2 DEF Carrier
  <2>5. QED
    BY <2>3, <2>4 DEF Spawn, Advance, callvars
<1>2. op[c] # "get_contents"
  BY <1>1 DEF Working, Nested
<1>3. \A d \in Threads : op[d] = "get_contents" => cursor'[d] = cursor[d]
  BY <1>1, <1>2 DEF LInv, Types
<1>4. DOMAIN out' = Threads /\ \A d \in Threads : DOMAIN out'[d] = Carrier
  BY <1>1 DEF DInv, Results
<1>5. \A d \in Threads, t \in Carrier : worker'[d][t] = "done" => worker[d][t] = "done" /\ out'[d][t] = out[d][t]
  BY <1>1 DEF DInv, Results, LInv, Types
<1>6. QED
  BY <1>1, <1>3, <1>4, <1>5, DQuiet

LEMMA DJoin == ASSUME LInv, DInv, NEW c \in Threads, Join(c) PROVE DInv'
<1> USE OpsNamed
<1>1. /\ Working(c) /\ cursor' = [cursor EXCEPT ![c] = @ + 1]
      /\ UNCHANGED <<op, keys, before, answer, got, dict, step, worker, out>>
  BY AtPlace DEF LInv, Join, Advance, callvars, workvars
<1>2. op[c] # "get_contents"
  BY <1>1 DEF Working, Nested
<1>3. \A d \in Threads : op[d] = "get_contents" => cursor'[d] = cursor[d]
  BY <1>1, <1>2 DEF LInv, Types
<1>4. QED
  BY <1>1, <1>3, DQuiet DEF DInv, Results

(* A thread's work grows its carrier at most, and its result agrees with    *)
(* what the carrier holds then.                                             *)
Grown(c, t) ==
  /\ DOMAIN dict' = Carrier
  /\ \A u \in Carrier : /\ DOMAIN dict[u] \subseteq DOMAIN dict'[u]
                        /\ \A s \in DOMAIN dict[u] : dict'[u][s] = dict[u][s]
                        /\ u # t => dict'[u] = dict[u]

LEMMA DInsert ==
  ASSUME LInv, DInv, NEW c \in Threads, NEW t \in Carrier, WorkInsert(c, t)
  PROVE  /\ Grown(c, t) /\ DictOK' /\ op[c] = "insert"
         /\ \A k \in Share(c, t) : k \in DOMAIN dict'[t] /\ out'[c][t][k] = dict'[t][k]
<1> USE OpsNamed
<1> DEFINE new  == NewStrings(c, t)
           ids  == (0 .. LocalIds - 1) \ UsedIds(t)
           old  == dict[t]
<1>1. op[c] = "insert" /\ Share(c, t) \subseteq keys[c] /\ keys[c] \subseteq Strings
  BY DEF WorkInsert, Share, DInv, KeysOK
<1>2. new \in SUBSET (Strings \ DOMAIN old) /\ Share(c, t) \subseteq DOMAIN old \cup new
      /\ \A s \in new : OwnerOf[s] = t
  BY <1>1 DEF NewStrings, Share
<1>3. PICK f \in [new -> ids] :
        /\ \A r, s \in new : f[r] = f[s] => r = s
        /\ dict' = [dict EXCEPT ![t] = [s \in DOMAIN @ \cup new |-> IF s \in new THEN f[s] ELSE @[s]]]
  BY DEF WorkInsert
<1> DEFINE d == [s \in DOMAIN old \cup new |-> IF s \in new THEN f[s] ELSE old[s]]
<1>4. dict' = [dict EXCEPT ![t] = d]
  BY <1>3
<1>5. out' = [out EXCEPT ![c][t] = [s \in Share(c, t) |-> dict'[t][s]]]
  BY DEF WorkInsert, Finish
<1> HIDE DEF new, ids
<1>6. DOMAIN old \cap new = {} /\ dict'[t] = d /\ DOMAIN dict' = Carrier
      /\ \A u \in Carrier : u # t => dict'[u] = dict[u]
  BY <1>2, <1>4 DEF DInv, DictOK
<1>7. Grown(c, t)
  BY <1>6 DEF Grown
<1>8. d \in [DOMAIN d -> 0 .. LocalIds - 1] /\ DOMAIN d \subseteq Strings /\ \A s \in DOMAIN d : OwnerOf[s] = t
  BY <1>2, <1>3 DEF DInv, DictOK, ids
<1>9. \A r, s \in DOMAIN d : d[r] = d[s] => r = s
  <2>1. \A r \in new, s \in DOMAIN old : f[r] # old[s]
    BY <1>3 DEF ids, UsedIds
  <2>2. QED
    BY <1>3, <1>6, <2>1 DEF DInv, DictOK
<1>10. DictOK'
  <2> HIDE DEF d
  <2>1. ASSUME NEW u \in Carrier
        PROVE  /\ DOMAIN dict'[u] \subseteq Strings /\ dict'[u] \in [DOMAIN dict'[u] -> 0 .. LocalIds - 1]
               /\ \A s \in DOMAIN dict'[u] : OwnerOf[s] = u
               /\ \A r, s \in DOMAIN dict'[u] : dict'[u][r] = dict'[u][s] => r = s
    <3>1. CASE u = t
      BY <1>6, <1>8, <1>9, <3>1
    <3>2. CASE u # t
      BY <1>6, <3>2 DEF DInv, DictOK
    <3>3. QED
      BY <3>1, <3>2
  <2>2. QED
    BY <1>6, <2>1 DEF DictOK
<1>11. \A k \in Share(c, t) : k \in DOMAIN dict'[t] /\ out'[c][t][k] = dict'[t][k]
  BY <1>2, <1>5, <1>6 DEF DInv, Results
<1>12. QED
  BY <1>1, <1>7, <1>10, <1>11

LEMMA DWork == ASSUME CarriersFit, LInv, DInv, NEW c \in Threads, NEW t \in Carrier, Work(c, t) PROVE DInv'
<1> USE OpsNamed
<1>1. /\ worker[c][t] = "run" /\ worker' = [worker EXCEPT ![c][t] = "done"]
      /\ UNCHANGED <<op, keys, before, answer, got, step, cursor>>
  BY DEF Work, WorkInsert, WorkLocate, WorkExtract, Finish, callvars
<1>2. Working(c) /\ \A d \in Threads : d # c => ~Working(d)
  BY LWork, OneAtWork
<1>3. \A d \in Threads, u \in Carrier : worker'[d][u] = "done" => d = c
  BY <1>1, <1>2 DEF LInv, Types, Workers
<1>4. DOMAIN out' = Threads /\ (\A d \in Threads : DOMAIN out'[d] = Carrier)
      /\ \A u \in Carrier : u # t => out'[c][u] = out[c][u]
  BY DEF DInv, Results, Work, WorkInsert, WorkLocate, WorkExtract, Finish
<1>5. /\ Grown(c, t) /\ DictOK'
      /\ \A k \in Share(c, t) :
           IF op[c] = "extract"
           THEN IF GetLocal(k) = 0 THEN out'[c][t][k] = NullText
                ELSE out'[c][t][k] \in DOMAIN dict'[t] /\ dict'[t][out'[c][t][k]] = GetLocal(k)
           ELSE out'[c][t][k] = IF k \in DOMAIN dict'[t] THEN dict'[t][k] ELSE NotFound
  <2>1. CASE WorkInsert(c, t)
    BY <2>1, DInsert
  <2>2. CASE WorkLocate(c, t)
    <3>1. /\ dict' = dict /\ op[c] # "extract"
          /\ out' = [out EXCEPT ![c][t] = [s \in Share(c, t) |->
                       IF s \in DOMAIN dict[t] THEN dict[t][s] ELSE NotFound]]
      BY <2>2 DEF WorkLocate, Finish
    <3>2. QED
      BY <3>1 DEF Grown, DInv, DictOK, Results
  <2>3. CASE WorkExtract(c, t)
    <3>1. /\ dict' = dict /\ op[c] = "extract"
          /\ out' = [out EXCEPT ![c][t] = [g \in Share(c, t) |-> TextOf(t, GetLocal(g))]]
          /\ \A g \in Share(c, t) : GetLocal(g) \in {0} \cup UsedIds(t)
      BY <2>3 DEF WorkExtract, Finish
    <3>2. \A k \in Share(c, t) : out'[c][t][k] = TextOf(t, GetLocal(k))
      BY <3>1 DEF DInv, Results
    <3>3. ASSUME NEW k \in Share(c, t), GetLocal(k) # 0
          PROVE  \E s \in DOMAIN dict[t] : dict[t][s] = GetLocal(k)
      BY <3>1, <3>3 DEF UsedIds
    <3>4. \A k \in Share(c, t) :
            IF GetLocal(k) = 0 THEN out'[c][t][k] = NullText
            ELSE out'[c][t][k] \in DOMAIN dict[t] /\ dict[t][out'[c][t][k]] = GetLocal(k)
      BY <3>2, <3>3 DEF TextOf
    <3>5. QED
      BY <3>1, <3>4 DEF Grown, DInv, DictOK
  <2>4. QED
    BY <2>1, <2>2, <2>3 DEF Work
<1>6. ASSUME NEW s, NEW g, Known(s, g) PROVE Known(s, g)'
  BY <1>5, <1>6, Stable DEF Grown
<1>7. Histories' /\ KeysOK'
  BY <1>1, <1>6 DEF DInv, Histories, KeysOK
<1>8. Answers'
  BY <1>1, <1>6 DEF DInv, Answers
<1>9. Results'
  <2>1. ASSUME NEW u \in Carrier, worker'[c][u] = "done", u # t
        PROVE  worker[c][u] = "done" /\ dict'[u] = dict[u] /\ out'[c][u] = out[c][u]
    BY <1>1, <1>4, <1>5, <2>1 DEF LInv, Types, Grown
  <2>2. \A u : Share(c, u)' = Share(c, u)
    BY <1>1 DEF Share
  <2>3. QED
    BY <1>1, <1>3, <1>4, <1>5, <2>1, <2>2 DEF DInv, Results, Names
<1>10. QED
  BY <1>5, <1>7, <1>8, <1>9 DEF DInv

LEMMA DMerge == ASSUME CarriersFit, LInv, DInv, NEW c \in Threads, Merge(c) PROVE DInv'
<1> USE OpsNamed
<1> DEFINE Own(k) == IF op[c] = "extract" THEN GetOwner(k) ELSE OwnerOf[k]
           raw(k) == out[c][Own(k)][k]
<1>1. /\ Working(c) /\ \A t \in Carrier : worker[c][t] = "done"
      /\ worker' = [worker EXCEPT ![c] = [t \in Carrier |-> "none"]]
      /\ out' = [out EXCEPT ![c] = [t \in Carrier |-> <<>>]]
      /\ step' = [step EXCEPT ![c] = @ + 1]
      /\ UNCHANGED <<op, keys, before, got, cursor, dict>>
  BY AtPlace DEF LInv, Merge, NextStep, lockvars, callvars
<1>2. DOMAIN answer' = Threads /\ \A d \in Threads : d # c => answer'[d] = answer[d] /\ step'[d] = step[d]
  BY <1>1 DEF Merge, DInv, Answers, LInv, Types
<1>3. /\ DOMAIN answer'[c] = keys[c]
      /\ \A k \in keys[c] : answer'[c][k] = IF op[c] = "extract" \/ raw(k) = NotFound THEN raw(k)
                                            ELSE MakeGlobal(OwnerOf[k], raw(k))
  BY DEF Merge, DInv, Answers
<1>4. DictOK' /\ Histories' /\ KeysOK'
  BY <1>1 DEF DInv, DictOK, Histories, KeysOK, Known
<1>5. Results'
  BY <1>1 DEF DInv, Results, Names, Share, LInv, Types
<1>6. op[c] \notin {None, "get_contents"}
  BY <1>1 DEF Working, Nested
<1>7. ASSUME op[c] = "extract", NEW k \in keys[c]
      PROVE  IF GetLocal(k) = 0 THEN answer'[c][k] = NullText ELSE Known(answer'[c][k], k)
  <2>1. PICK s : Known(s, k)
    BY <1>7 DEF DInv, KeysOK
  <2>2. GetOwner(k) \in Carrier /\ GetOwner(k) = OwnerOf[s] /\ s \in DOMAIN dict[GetOwner(k)]
        /\ dict[GetOwner(k)][s] = GetLocal(k)
    BY <2>1, KnownPair DEF DInv, Known
  <2>3. k \in Share(c, GetOwner(k))
    BY <1>7 DEF Share
  <2>4. Names(GetOwner(k), GetLocal(k), raw(k))
    BY <1>1, <1>7, <2>2, <2>3 DEF DInv, Results
  <2>5. answer'[c][k] = raw(k)
    BY <1>3, <1>7
  <2>6. CASE GetLocal(k) = 0
    BY <2>4, <2>5, <2>6 DEF Names
  <2>7. CASE GetLocal(k) # 0
    <3>1. raw(k) = s
      BY <2>2, <2>4, <2>7 DEF DInv, DictOK, Names
    <3>2. QED
      BY <2>1, <2>5, <2>7, <3>1
  <2>8. QED
    BY <2>6, <2>7
<1>8. ASSUME op[c] # "extract", NEW k \in keys[c]
      PROVE  IF answer'[c][k] = NotFound THEN \A g \in before[c] : g[1] # k ELSE Known(k, answer'[c][k])
  <2> DEFINE t == OwnerOf[k]
  <2>1. k \in Strings /\ t \in Carrier /\ k \in Share(c, t)
    BY <1>8, Sizes DEF DInv, KeysOK, Share
  <2>2. raw(k) = IF k \in DOMAIN dict[t] THEN dict[t][k] ELSE NotFound
    BY <1>1, <1>8, <2>1 DEF DInv, Results
  <2>3. CASE k \in DOMAIN dict[t]
    <3>1. raw(k) = dict[t][k] /\ raw(k) \in 0 .. LocalIds - 1 /\ raw(k) # NotFound
      BY <2>1, <2>2, <2>3, Sizes DEF DInv, DictOK, NotFound
    <3>2. Known(k, answer'[c][k])
      BY <1>3, <1>8, <2>1, <2>3, <3>1 DEF Known
    <3>3. answer'[c][k] # NotFound
      BY <3>2, KnownPair DEF DInv, NotFound
    <3>4. QED
      BY <3>2, <3>3
  <2>4. CASE k \notin DOMAIN dict[t]
    <3>1. answer'[c][k] = NotFound
      BY <1>3, <1>8, <2>2, <2>4
    <3>2. \A g \in before[c] : g[1] # k
      BY <2>4 DEF DInv, Histories, Known
    <3>3. QED
      BY <3>1, <3>2
  <2>5. QED
    BY <2>3, <2>4
<1>9. Answers'
  <2>1. \A s, g : Known(s, g)' <=> Known(s, g)
    BY <1>1 DEF Known
  <2>2. QED
    BY <1>1, <1>2, <1>3, <1>6, <1>7, <1>8, <2>1 DEF DInv, Answers
<1>10. QED
  BY <1>4, <1>5, <1>9 DEF DInv

LEMMA DList == ASSUME CarriersFit, LInv, DInv, NEW c \in Threads, List(c) PROVE DInv'
<1> USE OpsNamed
<1> DEFINE t == cursor[c]
<1>1. /\ Lists(c) /\ t \in Carrier
      /\ UNCHANGED <<op, keys, before, got, dict, worker, out>>
  <2>1. At(c, "list") /\ t < Carriers
    BY DEF List
  <2>2. Lists(c)
    BY <2>1, AtPlace DEF LInv
  <2>3. t \in Nat
    BY DEF LInv, Types
  <2>4. t \in Carrier
    BY <2>1, <2>3 DEF Carrier
  <2>5. QED
    BY <2>2, <2>4 DEF List, callvars, workvars
<1>2. /\ DOMAIN answer' = Threads
      /\ \A d \in Threads : d # c => answer'[d] = answer[d] /\ step'[d] = step[d] /\ cursor'[d] = cursor[d]
      /\ cursor'[c] = t + 1 /\ step'[c] = IF t + 1 = Carriers THEN 5 ELSE 4
  BY <1>1 DEF List, Lists, Advance, NextStep, LInv, Types, DInv, Answers
<1>3. /\ DOMAIN answer'[c] = DOMAIN answer[c] \cup DOMAIN dict[t]
      /\ \A s \in DOMAIN answer'[c] : answer'[c][s] =
            IF s \in DOMAIN dict[t] THEN MakeGlobal(t, dict[t][s]) ELSE answer[c][s]
  BY DEF List, DInv, Answers
<1>4. DictOK' /\ Histories' /\ KeysOK' /\ Results'
  BY <1>1 DEF DInv, DictOK, Histories, KeysOK, Results, Names, Known, Share
<1>5. \A s, g : Known(s, g)' <=> Known(s, g)
  BY <1>1 DEF Known
<1>6. ASSUME NEW s \in DOMAIN answer'[c]
      PROVE  IF answer'[c][s] = NotFound THEN \A g \in before[c] : g[1] # s ELSE Known(s, answer'[c][s])
  <2>1. CASE s \in DOMAIN dict[t]
    <3>1. Known(s, answer'[c][s])
      BY <1>1, <1>3, <2>1 DEF DInv, DictOK, Known
    <3>2. answer'[c][s] # NotFound
      BY <3>1, KnownPair DEF DInv, NotFound
    <3>3. QED
      BY <3>1, <3>2
  <2>2. CASE s \notin DOMAIN dict[t]
    <3>1. op[c] \notin {None, "extract"}
      BY <1>1 DEF Lists, Nested
    <3>2. s \in DOMAIN answer[c] /\ answer'[c][s] = answer[c][s]
      BY <1>3, <2>2
    <3>3. QED
      BY <3>1, <3>2 DEF DInv, Answers
  <2>3. QED
    BY <2>1, <2>2
<1>7. ASSUME NEW g \in before[c], step'[c] > 4 \/ (step'[c] = 4 /\ OwnerOf[g[1]] < cursor'[c])
      PROVE  g[1] \in DOMAIN answer'[c]
  <2>1. Known(g[1], g[2]) /\ OwnerOf[g[1]] \in Carrier
    BY Sizes DEF DInv, Histories, Known
  <2>2. OwnerOf[g[1]] = t \/ OwnerOf[g[1]] < t
    BY <1>1, <1>2, <1>7, <2>1 DEF Carrier
  <2>3. CASE OwnerOf[g[1]] = t
    BY <1>3, <2>1, <2>3 DEF Known
  <2>4. CASE OwnerOf[g[1]] < t
    BY <1>1, <1>3, <2>4 DEF DInv, Answers, Lists
  <2>5. QED
    BY <2>2, <2>3, <2>4
<1>8. Answers'
  BY <1>1, <1>2, <1>5, <1>6, <1>7 DEF DInv, Answers, Lists
<1>9. QED
  BY <1>4, <1>8 DEF DInv

LEMMA DReturn == ASSUME CarriersFit, LInv, DInv, NEW c \in Threads, Return(c) PROVE DInv'
<1> USE OpsNamed
<1>1. /\ op[c] # None /\ op' = [op EXCEPT ![c] = None]
      /\ keys' = [keys EXCEPT ![c] = {}] /\ before' = [before EXCEPT ![c] = {}]
      /\ answer' = [answer EXCEPT ![c] = <<>>]
      /\ got' = IF op[c] = "extract" THEN got
                ELSE got \cup {<<k, answer[c][k]>> : k \in {s \in DOMAIN answer[c] : answer[c][s] # NotFound}}
      /\ UNCHANGED <<worker, out, dict, step, cursor>>
  BY DEF Return, workvars
<1>2. \A s, g : Known(s, g)' <=> Known(s, g)
  BY <1>1 DEF Known
<1>3. /\ op'[c] = None /\ keys'[c] = {} /\ before'[c] = {} /\ DOMAIN answer'[c] = {}
      /\ \A d \in Threads : d # c => op'[d] = op[d] /\ keys'[d] = keys[d] /\ before'[d] = before[d]
                                     /\ answer'[d] = answer[d]
      /\ DOMAIN keys' = Threads /\ DOMAIN before' = Threads /\ DOMAIN answer' = Threads
  BY <1>1 DEF DInv, LInv, Types, Histories, KeysOK, Answers
<1>4. \A t \in Carrier : worker[c][t] = "none"
  <2>1. Returns(c) /\ ~Working(c)
    BY <1>1, AtPlace DEF Return, LInv, Returns, Working, Nested
  <2>2. QED
    BY <2>1 DEF LInv, Workers
<1>5. DictOK'
  BY <1>1 DEF DInv, DictOK
<1>6. Histories'
  <2>1. \A k \in DOMAIN answer[c] : op[c] # "extract" /\ answer[c][k] # NotFound => Known(k, answer[c][k])
    BY <1>1 DEF DInv, Answers
  <2>2. \A g \in got' : g \in Strings \X Nat /\ Known(g[1], g[2])
    <3>1. \A k \in DOMAIN answer[c] : op[c] # "extract" /\ answer[c][k] # NotFound =>
            k \in Strings /\ answer[c][k] \in Nat
      BY <2>1, KnownPair DEF DInv, Known
    <3>2. QED
      BY <1>1, <2>1, <3>1 DEF DInv, Histories
  <2>3. QED
    BY <1>1, <1>2, <1>3, <2>2 DEF DInv, Histories
<1>7. KeysOK'
  BY <1>2, <1>3 DEF DInv, KeysOK
<1>8. Results'
  BY <1>1, <1>3, <1>4 DEF DInv, Results, Names, Share
<1>9. Answers'
  BY <1>1, <1>2, <1>3 DEF DInv, Answers
<1>10. QED
  BY <1>5, <1>6, <1>7, <1>8, <1>9 DEF DInv

LEMMA DStep == ASSUME CarriersFit, LInv, DInv, [Next]_vars PROVE DInv'
<1>1. ASSUME NEW c \in Threads, Proceed(c) PROVE DInv'
  BY <1>1, DLock, DSpawn, DJoin, DMerge, DList, DReturn DEF Proceed
<1>2. CASE UNCHANGED vars
  <2>1. UNCHANGED <<dict, got, before, keys, op, answer, out, worker, step, cursor>>
    BY <1>2 DEF vars, workvars, callvars
  <2>2. DOMAIN out = Threads /\ \A c \in Threads : DOMAIN out[c] = Carrier
    BY DEF DInv, Results
  <2>3. QED
    BY <2>1, <2>2, DQuiet
<1>3. QED
  BY <1>1, <1>2, DCall, DWork DEF Next

LEMMA InvHolds == ASSUME NestedAlone, CarriersFit PROVE Spec => [](LInv /\ DInv)
<1>1. LInv /\ DInv /\ [Next]_vars => (LInv /\ DInv)'
  BY LStep, DStep
<1>2. Init => LInv /\ DInv
  BY LInit, DInit
<1>3. QED
  BY <1>1, <1>2, PTL DEF Spec

(* Over all carriers a string has one identifier and an identifier one      *)
(* string, for any number of clients and strings and as many carriers as    *)
(* the upper field of an identifier tells apart.                            *)
THEOREM IdsAreOneToOne == ASSUME NestedAlone, CarriersFit PROVE Spec => []IdsOneToOne
<1>1. DInv => IdsOneToOne
  BY KnownUnique DEF DInv, Histories, IdsOneToOne
<1>2. QED
  BY <1>1, InvHolds, PTL

(* A call sees all that calls returned before it started, but for the text  *)
(* of a carrier's first identifier, which extract gives as the null text.   *)
THEOREM EarlierCallsAreSeen == ASSUME NestedAlone, CarriersFit PROVE Spec => []SeesEarlierCalls
<1>1. LInv /\ DInv => SeesEarlierCalls
  <2> SUFFICES ASSUME LInv, DInv, NEW c \in Threads, NEW g \in before[c]
               PROVE  /\ op[c] \notin {None, "extract"} /\ g[1] \in DOMAIN answer[c]
                           => answer[c][g[1]] = g[2]
                      /\ op[c] = "extract" /\ g[2] \in DOMAIN answer[c]
                           => answer[c][g[2]] = IF GetLocal(g[2]) = 0 THEN NullText ELSE g[1]
                      /\ op[c] = "get_contents" /\ step[c] > 4 => g[1] \in DOMAIN answer[c]
    BY DEF SeesEarlierCalls
  <2>1. Known(g[1], g[2])
    BY DEF DInv, Histories
  <2>2. ASSUME op[c] \notin {None, "extract"}, g[1] \in DOMAIN answer[c] PROVE answer[c][g[1]] = g[2]
    <3>1. Known(g[1], answer[c][g[1]])
      BY <2>2 DEF DInv, Answers
    <3>2. QED
      BY <2>1, <3>1, KnownUnique DEF DInv
  <2>3. ASSUME op[c] = "extract", g[2] \in DOMAIN answer[c]
        PROVE  answer[c][g[2]] = IF GetLocal(g[2]) = 0 THEN NullText ELSE g[1]
    <3>1. IF GetLocal(g[2]) = 0 THEN answer[c][g[2]] = NullText ELSE Known(answer[c][g[2]], g[2])
      BY <2>3 DEF DInv, Answers
    <3>2. QED
      BY <2>1, <3>1, KnownUnique DEF DInv
  <2>4. op[c] = "get_contents" /\ step[c] > 4 => g[1] \in DOMAIN answer[c]
    BY DEF DInv, Answers
  <2>5. QED
    BY <2>2, <2>3, <2>4
<1>2. QED
  BY <1>1, InvHolds, PTL

(* The types of the model.                                                  *)
THEOREM TypesHold == ASSUME NestedAlone, CarriersFit PROVE Spec => []TypeOK
<1>1. LInv /\ DInv => TypeOK
  BY DEF LInv, Types, DInv, DictOK, Histories, TypeOK, Lock!TypeOK, Lock!Stages
<1>2. QED
  BY <1>1, InvHolds, PTL
==============================================================================
