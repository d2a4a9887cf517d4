------------------------------- MODULE Threading -------------------------------
(***************************************************************************)
(* start_thread_obtaining_mutex and threadfunc                             *)
(* (examples/threading/threading.c), with a caller that starts Threads one *)
(* after the other on one mutex, and that joins them and frees what they   *)
(* return (threading.h asks for that).  The caller is external; it may     *)
(* hold the mutex while it starts a thread.                                *)
(***************************************************************************)
EXTENDS Integers

CONSTANTS Threads, NULL

VARIABLES
  thread,   \* where each thread is
  data,     \* its thread_data: "none", "allocated", "lost" or "freed"
  started,  \* what the call has returned: "none", "true", "false"
  success,  \* thread_complete_success
  mutex,    \* who holds the mutex: a thread, "caller" or NULL
  failed    \* the threads whose pthread_mutex_lock has failed

vars == <<thread, data, started, success, mutex, failed>>

Init ==
  /\ thread = [t \in Threads |-> "none"]
  /\ data = [t \in Threads |-> "none"]
  /\ started = [t \in Threads |-> "none"]
  /\ success = [t \in Threads |-> FALSE]
  /\ mutex = NULL /\ failed = {}

Move(t, from, to) == thread[t] = from /\ thread' = [thread EXCEPT ![t] = to]

(* start_thread_obtaining_mutex.  Without memory it returns -1, which is   *)
(* true, and no thread has started.                                        *)
StartNoMemory(t) ==
  /\ started[t] = "none" /\ started' = [started EXCEPT ![t] = "true"]
  /\ UNCHANGED <<thread, data, success, mutex, failed>>

Start(t) ==
  /\ started[t] = "none" /\ started' = [started EXCEPT ![t] = "true"]
  /\ Move(t, "none", "obtain")
  /\ data' = [data EXCEPT ![t] = "allocated"]
  /\ UNCHANGED <<success, mutex, failed>>

(* pthread_create fails: the data is not freed.                            *)
StartNoThread(t) ==
  /\ started[t] = "none" /\ started' = [started EXCEPT ![t] = "false"]
  /\ data' = [data EXCEPT ![t] = "lost"]
  /\ UNCHANGED <<thread, success, mutex, failed>>

-----------------------------------------------------------------------------
(* Bug: the mutex is given back before the second sleep.                   *)
LockBriefly(t) ==
  /\ Move(t, "obtain", "release")
  /\ mutex = NULL
  /\ UNCHANGED <<data, started, success, mutex, failed>>

(* threadfunc: sleep, lock, sleep, unlock, report success.                 *)
Lock(t) ==
  /\ Move(t, "obtain", "release")
  /\ mutex = NULL /\ mutex' = t
  /\ UNCHANGED <<data, started, success, failed>>

(* pthread_mutex_lock fails, and the thread goes on.                       *)
LockFails(t) ==
  /\ Move(t, "obtain", "release")
  /\ failed' = failed \cup {t}
  /\ UNCHANGED <<data, started, success, mutex>>

(* Bug: the mutex is kept.                                                 *)
KeepLocked(t) ==
  /\ Move(t, "release", "report")
  /\ UNCHANGED <<data, started, success, mutex, failed>>

(* Whoever has the mutex, it is free now.                                  *)
Unlock(t) ==
  /\ Move(t, "release", "report")
  /\ mutex' = NULL
  /\ UNCHANGED <<data, started, success, failed>>

Report(t) ==
  /\ Move(t, "report", "done")
  /\ success' = [success EXCEPT ![t] = TRUE]
  /\ UNCHANGED <<data, started, mutex, failed>>

-----------------------------------------------------------------------------
(* The caller: pthread_join and free; and its own use of the mutex.        *)
Join(t) ==
  /\ Move(t, "done", "joined")
  /\ data' = [data EXCEPT ![t] = "freed"]
  /\ UNCHANGED <<started, success, mutex, failed>>

CallerLock ==
  /\ mutex = NULL /\ mutex' = "caller"
  /\ UNCHANGED <<thread, data, started, success, failed>>

CallerUnlock ==
  /\ mutex = "caller" /\ mutex' = NULL
  /\ UNCHANGED <<thread, data, started, success, failed>>

StartCall(t)  == StartNoMemory(t) \/ Start(t) \/ StartNoThread(t)
Threadfunc(t) == Lock(t) \/ LockFails(t) \/ Unlock(t) \/ Report(t)

Next ==
  \/ \E t \in Threads : StartCall(t) \/ Threadfunc(t) \/ Join(t)
  \/ CallerLock \/ CallerUnlock

(* Threads are scheduled, the caller does not keep the mutex for ever, and *)
(* a thread that waits for the mutex gets it if it is given back again and *)
(* again.                                                                  *)
Fairness ==
  /\ \A t \in Threads : SF_vars(Lock(t)) /\ WF_vars(Unlock(t) \/ Report(t))
  /\ WF_vars(CallerUnlock)

Spec == Init /\ [][Next]_vars /\ Fairness

-----------------------------------------------------------------------------
(* As long as every lock has succeeded, a thread that sleeps in between is *)
(* the holder of the mutex, and so the only one (lines 42-56).             *)
HoldersExclude == failed = {} => \A t \in Threads : thread[t] = "release" => mutex = t

(* Every thread that was started ends, also when the caller held the mutex *)
(* at the start, and whatever locks have failed (lines 28-62).             *)
ThreadsEnd == \A t \in Threads : thread[t] = "obtain" ~> thread[t] \in {"done", "joined"}
=============================================================================
