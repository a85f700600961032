-------------------------------- MODULE Mutex --------------------------------
(***************************************************************************)
(* What a lock promises to the code between acquire and release: at most   *)
(* one thread is inside.  SpinLock implements it when every thread takes   *)
(* the lock at most once at a time.                                        *)
(***************************************************************************)
CONSTANTS Threads, None

VARIABLE holder

MutexInit == holder = None

Enter(t) == holder = None /\ holder' = t

Leave(t) == holder = t /\ holder' = None

MutexNext == \E t \in Threads : Enter(t) \/ Leave(t)

MutexSpec == MutexInit /\ [][MutexNext]_holder
==============================================================================
