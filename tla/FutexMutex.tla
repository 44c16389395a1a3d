----------------------------- MODULE FutexMutex -----------------------------
(***************************************************************************)
(* The futex-based Mutex<T> of src/examples/09-01_mutex.rs and its two     *)
(* refinements 09-01-01_avoiding-system-call.rs (state 2 = locked with     *)
(* waiters, wake only when unlocking from 2) and                           *)
(* 09-01-02_further-improvements.rs (a bounded spin before sleeping).      *)
(*                                                                         *)
(* Each thread calls lock(), holds the MutexGuard, and drops it, Rounds    *)
(* times.  atomic_wait's wait(&state, v) checks state == v and enqueues    *)
(* the thread in one atomic step (the futex syscall) or returns at once;   *)
(* it may also return spuriously.  wake_one removes one sleeper, if any.   *)
(* Each atomic instruction is one step; orderings are not modelled.        *)
(***************************************************************************)
EXTENDS Naturals, FiniteSets

CONSTANTS
  Threads,    \* the threads that use the mutex
  Variants,   \* the files checked: a subset of the three below
  Rounds,     \* bound: lock()/drop(guard) cycles per thread
  SpinLimit   \* the spin bound of lock_contented (100 in 09-01-02)

ASSUME Variants \subseteq {"09-01", "09-01-01", "09-01-02"}
ASSUME Rounds \in Nat \ {0} /\ SpinLimit \in Nat

VARIABLES
  variant,  \* which file's Mutex this behaviour runs (fixed in Init)
  state,    \* Mutex.state: 0 unlocked, 1 locked, 2 locked with waiters
  queue,    \* the threads asleep in wait(&state, _)
  pc,       \* pc[t]: the step thread t executes next
  spin,     \* spin[t]: spin_count of lock_contented
  rounds    \* rounds[t]: lock() calls thread t has still to make

vars == <<variant, state, queue, pc, spin, rounds>>

Steps == {"idle", "swap1", "wait1", "cas", "spin", "cas2", "swap2", "wait2",
          "sleep", "cs", "wake"}

(* The head of the loop a thread returns to from wait(). *)
LoopHead == IF variant = "09-01" THEN "swap1" ELSE "swap2"

Goto(t, s) == pc' = [pc EXCEPT ![t] = s]

Init ==
  /\ variant \in Variants
  /\ state = 0
  /\ queue = {}
  /\ pc = [t \in Threads |-> "idle"]
  /\ spin = [t \in Threads |-> 0]
  /\ rounds = [t \in Threads |-> Rounds]

(* The client calls lock(). *)
StartLock(t) ==
  /\ pc[t] = "idle" /\ rounds[t] > 0
  /\ rounds' = [rounds EXCEPT ![t] = @ - 1]
  /\ Goto(t, IF variant = "09-01" THEN "swap1" ELSE "cas")
  /\ UNCHANGED <<variant, state, queue, spin>>

(* Mutant: the swap's result is ignored. *)
Swap1NoCheck(t) ==
  /\ pc[t] = "swap1"
  /\ state' = 1
  /\ Goto(t, "cs")
  /\ UNCHANGED <<variant, queue, spin, rounds>>

(* 09-01 lock: while state.swap(1) == 1 { wait(&state, 1) }. *)
Swap1(t) ==
  /\ pc[t] = "swap1"
  /\ state' = 1
  /\ Goto(t, IF state = 1 THEN "wait1" ELSE "cs")
  /\ UNCHANGED <<variant, queue, spin, rounds>>

(* wait(&state, v): sleep if state still equals v, else return. *)
Wait(t) ==
  /\ pc[t] \in {"wait1", "wait2"}
  /\ IF state = (IF pc[t] = "wait1" THEN 1 ELSE 2)
       THEN queue' = queue \cup {t} /\ Goto(t, "sleep")
       ELSE UNCHANGED queue /\ Goto(t, LoopHead)
  /\ UNCHANGED <<variant, state, spin, rounds>>

(* Mutant: the compare_exchange is a plain store of 1. *)
CasNoCheck(t) ==
  /\ pc[t] = "cas"
  /\ state' = 1 /\ Goto(t, "cs")
  /\ spin' = [spin EXCEPT ![t] = 0]
  /\ UNCHANGED <<variant, queue, rounds>>

(* 09-01-01 / 09-01-02 lock: compare_exchange(0, 1); on failure, 09-01-01  *)
(* goes to the swap(2) loop and 09-01-02 to lock_contented.                *)
Cas(t) ==
  /\ pc[t] = "cas"
  /\ IF state = 0
       THEN state' = 1 /\ Goto(t, "cs")
       ELSE UNCHANGED state
            /\ Goto(t, IF variant = "09-01-01" THEN "swap2" ELSE "spin")
  /\ spin' = [spin EXCEPT ![t] = 0]
  /\ UNCHANGED <<variant, queue, rounds>>

(* Mutant: spin_count <= 100, one spin too many. *)
SpinOffByOne(t) ==
  /\ pc[t] = "spin"
  /\ IF state = 1 /\ spin[t] <= SpinLimit
       THEN spin' = [spin EXCEPT ![t] = @ + 1] /\ UNCHANGED pc
       ELSE Goto(t, "cas2") /\ UNCHANGED spin
  /\ UNCHANGED <<variant, state, queue, rounds>>

(* lock_contented: while state.load() == 1 && spin_count < 100 { += 1 }. *)
Spin(t) ==
  /\ pc[t] = "spin"
  /\ IF state = 1 /\ spin[t] < SpinLimit
       THEN spin' = [spin EXCEPT ![t] = @ + 1] /\ UNCHANGED pc
       ELSE Goto(t, "cas2") /\ UNCHANGED spin
  /\ UNCHANGED <<variant, state, queue, rounds>>

(* lock_contented: compare_exchange(0, 1) once after spinning. *)
Cas2(t) ==
  /\ pc[t] = "cas2"
  /\ IF state = 0
       THEN state' = 1 /\ Goto(t, "cs")
       ELSE UNCHANGED state /\ Goto(t, "swap2")
  /\ UNCHANGED <<variant, queue, spin, rounds>>

(* while state.swap(2) != 0 { wait(&state, 2) }. *)
Swap2(t) ==
  /\ pc[t] = "swap2"
  /\ state' = 2
  /\ Goto(t, IF state # 0 THEN "wait2" ELSE "cs")
  /\ UNCHANGED <<variant, queue, spin, rounds>>

(* Mutant: every version skips wake_one unless the swap returned 2. *)
UnlockWakeIfTwo(t) ==
  /\ pc[t] = "cs"
  /\ state' = 0
  /\ Goto(t, IF state = 2 THEN "wake" ELSE "idle")
  /\ UNCHANGED <<variant, queue, spin, rounds>>

(* Mutant: the 09-01-01 and 09-01-02 drop wakes when the swap returned 1, not 2. *)
UnlockWakeIfOne(t) ==
  /\ pc[t] = "cs"
  /\ state' = 0
  /\ Goto(t, IF variant = "09-01" \/ state = 1 THEN "wake" ELSE "idle")
  /\ UNCHANGED <<variant, queue, spin, rounds>>

(* Drop for MutexGuard: swap(0); 09-01 always calls wake_one, the later    *)
(* versions only when the swap returned 2.                                 *)
Unlock(t) ==
  /\ pc[t] = "cs"
  /\ state' = 0
  /\ Goto(t, IF variant = "09-01" \/ state = 2 THEN "wake" ELSE "idle")
  /\ UNCHANGED <<variant, queue, spin, rounds>>

(* wake_one(&state): one sleeper, if any, returns from wait(). *)
WakeOne(t) ==
  /\ pc[t] = "wake"
  /\ IF queue = {}
       THEN Goto(t, "idle") /\ UNCHANGED queue
       ELSE \E w \in queue :
              /\ queue' = queue \ {w}
              /\ pc' = [pc EXCEPT ![t] = "idle", ![w] = LoopHead]
  /\ UNCHANGED <<variant, state, spin, rounds>>

(* A sleeper returns from wait() without a wake_one. *)
SpuriousWake(t) ==
  /\ t \in queue
  /\ queue' = queue \ {t}
  /\ Goto(t, LoopHead)
  /\ UNCHANGED <<variant, state, spin, rounds>>

(* The steps thread t takes itself; a sleeper takes none. *)
Thread(t) ==
  \/ StartLock(t) \/ Swap1(t) \/ Wait(t) \/ Cas(t) \/ Spin(t) \/ Cas2(t)
  \/ Swap2(t) \/ Unlock(t) \/ WakeOne(t)

Next ==
  \/ \E t \in Threads : StartLock(t)
  \/ \E t \in Threads : Swap1(t)
  \/ \E t \in Threads : Wait(t)
  \/ \E t \in Threads : Cas(t)
  \/ \E t \in Threads : Spin(t)
  \/ \E t \in Threads : Cas2(t)
  \/ \E t \in Threads : Swap2(t)
  \/ \E t \in Threads : Unlock(t)
  \/ \E t \in Threads : WakeOne(t)
  \/ \E t \in Threads : SpuriousWake(t)

(* The scheduler runs every runnable thread (WF); nothing makes spurious   *)
(* wake-ups happen, so they get no fairness.                               *)
Spec == Init /\ [][Next]_vars /\ \A t \in Threads : WF_vars(Thread(t))

-----------------------------------------------------------------------------
TypeOK ==
  /\ variant \in Variants
  /\ state \in {0, 1, 2}
  /\ queue \subseteq Threads
  /\ pc \in [Threads -> Steps]
  /\ spin \in [Threads -> 0..SpinLimit]
  /\ rounds \in [Threads -> 0..Rounds]

Holding(t) == pc[t] = "cs"

(* Every thread completes all its lock() calls: no thread sleeps forever   *)
(* and no thread spins forever.                                            *)
AllDone == <>(\A t \in Threads : pc[t] = "idle" /\ rounds[t] = 0)

(* The mutex, seen through who holds a guard and who is inside lock(),     *)
(* implements MutexSpec, deadlock freedom included.  MutexSpec's Acquire   *)
(* needs a free lock, so a second guard holder (a broken swap or           *)
(* compare_exchange) is a step MutexSpec cannot take: this is also mutual  *)
(* exclusion.                                                              *)
NoOwner == "none"
Mutex == INSTANCE MutexSpec
           WITH owner <- IF \E t \in Threads : Holding(t)
                         THEN CHOOSE t \in Threads : Holding(t) ELSE NoOwner,
                waiting <- {t \in Threads : pc[t] \notin {"idle", "cs", "wake"}}

ImplementsMutexSpec == Mutex!Spec

=============================================================================
