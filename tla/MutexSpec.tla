------------------------------ MODULE MutexSpec ------------------------------
(***************************************************************************)
(* What a mutual-exclusion lock promises its callers, with lock and unlock *)
(* single atomic steps: at most one owner, ownership given only to a       *)
(* thread that asked for it, and, when the lock is free and some thread    *)
(* waits, some waiting thread eventually gets it (deadlock freedom; no     *)
(* fairness among the waiters).  The spin locks of src/examples/04-*.rs    *)
(* and the futex mutexes of src/examples/09-*.rs are shown to refine it.   *)
(***************************************************************************)
CONSTANTS
  Threads,   \* the threads that use the lock
  NoOwner    \* the owner of a free lock

ASSUME NoOwner \notin Threads

VARIABLES
  owner,     \* the thread holding the lock, or NoOwner
  waiting    \* the threads inside lock(), not yet holding it

vars == <<owner, waiting>>

(* The lock starts free; threads may already be inside lock(). *)
Init == owner = NoOwner /\ waiting \in SUBSET Threads

(* A thread calls lock(). *)
Request(t) ==
  /\ t # owner /\ t \notin waiting
  /\ waiting' = waiting \cup {t}
  /\ UNCHANGED owner

(* lock() returns: the lock was free and now belongs to t. *)
Acquire(t) ==
  /\ t \in waiting /\ owner = NoOwner
  /\ owner' = t
  /\ waiting' = waiting \ {t}

(* A try-lock that succeeds: the lock was free and now belongs to t, who  *)
(* did not wait; a try-lock that fails changes nothing.                    *)
TryAcquire(t) ==
  /\ t # owner /\ t \notin waiting /\ owner = NoOwner
  /\ owner' = t
  /\ UNCHANGED waiting

(* unlock(), or the drop of the guard, by the owner. *)
Release(t) ==
  /\ owner = t
  /\ owner' = NoOwner
  /\ UNCHANGED waiting

Next == \E t \in Threads : Request(t) \/ Acquire(t) \/ TryAcquire(t) \/ Release(t)

Spec == Init /\ [][Next]_vars /\ WF_vars(\E t \in Threads : Acquire(t))

=============================================================================
