------------------------------ MODULE SpinLock ------------------------------
(***************************************************************************)
(* The spin locks of src/examples/04-01, 04-02 and 04-03 and the try-lock  *)
(* of 03-05-01, each with the program of its main; a variable fixes which  *)
(* file a behaviour runs.                                                  *)
(*   04-03     scoped threads push values into a Vec, each under one      *)
(*             guard (in the code s1 pushes 1, s2 pushes 2 then 3); after  *)
(*             the scope joins them, main locks and asserts that the Vec   *)
(*             contains every pushed value;                                *)
(*   04-02     main locks, increments, unlocks, then locks and unlocks     *)
(*             once more;                                                  *)
(*   04-01     main locks and unlocks once;                                *)
(*   03-05-01  scoped threads run f: if compare_exchange(false, true)      *)
(*             succeeds, push '!' to DATA and store false, else give up.   *)
(*                                                                         *)
(* lock is `while locked.swap(true, Acquire) {}` (04-02, 04-03): one step  *)
(* per swap, a swap that reads true changes nothing.  04-01 loops on       *)
(* compare_exchange_weak: a failed or spuriously failed attempt changes    *)
(* nothing, so only the successful one is a step.  unlock and Guard::drop  *)
(* are the Release store of false.  Vec::push / String::push is a read of  *)
(* the length and a write of the new element: two steps, so that pushes of *)
(* two threads inside the lock at once could lose one.  The data of the    *)
(* single-threaded mains of 04-01 and 04-02 is not modelled.               *)
(***************************************************************************)
EXTENDS Naturals, Sequences, Functions

CONSTANTS
  Variants, \* the files checked, a subset of AllVariants
  Workers,  \* the threads spawned in thread::scope (04-03, 03-05-01)
  Pushes    \* Pushes[w]: the values w pushes while holding one guard (04-03)

AllVariants == {"04-01", "04-02", "04-03", "03-05-01"}
ASSUME Variants \subseteq AllVariants
ASSUME Pushes \in [Workers -> Seq(Nat) \ {<<>>}]

Threads == Workers \cup {"main"}
Values == UNION {Range(Pushes[w]) : w \in Workers}
Total == SumFunction([w \in Workers |-> Len(Pushes[w])])

VARIABLES
  variant, \* which file's program this behaviour runs (fixed in Init)
  locked,  \* SpinLock.locked
  vec,     \* SpinLock.value: the Vec<i32>
  pc,      \* pc[t]: the step thread t executes next
  k,       \* k[t]: index in Pushes[t] of the next value to push
  len      \* len[t]: the length push read before writing

vars == <<variant, locked, vec, pc, k, len>>

Steps == {"lock", "relock", "try", "push_read", "push_write", "unlock", "join", "check",
          "panicked", "done"}

(* The steps at which thread t holds the guard. *)
Holding(t) == pc[t] \in {"push_read", "push_write", "check", "unlock"}

Goto(t, s) == pc' = [pc EXCEPT ![t] = s]

(* What thread t pushes next, and how many values it pushes. *)
Payload(t) == IF variant = "03-05-01" THEN "!" ELSE Pushes[t][k[t]]
NumPushes(t) == IF variant = "03-05-01" THEN 1 ELSE Len(Pushes[t])

(* Where lock() returns to: main asserts (04-03) or, in the mains of      *)
(* 04-01 and 04-02, unlocks; a worker pushes.                              *)
AfterLock(t) ==
  CASE t = "main" /\ variant = "04-03" -> "check"
    [] t = "main" -> "unlock"
    [] OTHER -> "push_read"

Init ==
  /\ variant \in Variants
  /\ locked = FALSE
  /\ vec = <<>>
  /\ pc = [t \in Threads |->
           CASE t = "main" -> IF variant \in {"04-03", "03-05-01"} THEN "join"
                                                                  ELSE "lock"
             [] variant = "04-03" -> "lock"
             [] variant = "03-05-01" -> "try"
             [] OTHER -> "done"]
  /\ k = [t \in Threads |-> 1]
  /\ len = [t \in Threads |-> 0]

(* Mutant: lock sets the flag without looking at the value it replaced. *)
LockNoCheck(t) ==
  /\ pc[t] = "lock" /\ variant \in {"04-02", "04-03"}
  /\ locked' = TRUE
  /\ Goto(t, AfterLock(t))
  /\ UNCHANGED <<variant, vec, k, len>>

(* 04-02 and 04-03 SpinLock::lock: one swap(true); lock returns once the  *)
(* swap read false.                                                        *)
Lock(t) ==
  /\ pc[t] = "lock" /\ variant \in {"04-02", "04-03"}
  /\ locked' = TRUE
  /\ IF locked THEN UNCHANGED pc ELSE Goto(t, AfterLock(t))
  /\ UNCHANGED <<variant, vec, k, len>>

(* 04-01 SpinLock::lock: the compare_exchange_weak(false, true) that      *)
(* succeeds.                                                               *)
LockCasWeak(t) ==
  /\ pc[t] = "lock" /\ variant = "04-01"
  /\ ~locked /\ locked' = TRUE
  /\ Goto(t, AfterLock(t))
  /\ UNCHANGED <<variant, vec, k, len>>

(* 03-05-01 f: compare_exchange(false, true); on failure f returns. *)
TryLock(t) ==
  /\ pc[t] = "try"
  /\ locked' = TRUE
  /\ Goto(t, IF locked THEN "done" ELSE "push_read")
  /\ UNCHANGED <<variant, vec, k, len>>

(* push(v): read the length, then write the element after it. *)
PushRead(t) ==
  /\ pc[t] = "push_read"
  /\ len' = [len EXCEPT ![t] = Len(vec)]
  /\ Goto(t, "push_write")
  /\ UNCHANGED <<variant, locked, vec, k>>

(* Mutant: the write does not move on to the next value. *)
PushWriteNoAdvance(t) ==
  /\ pc[t] = "push_write"
  /\ vec' = SubSeq(vec, 1, len[t]) \o <<Payload(t)>>
  /\ Goto(t, IF k[t] < NumPushes(t) THEN "push_read" ELSE "unlock")
  /\ UNCHANGED <<variant, locked, len, k>>

PushWrite(t) ==
  /\ pc[t] = "push_write"
  /\ vec' = SubSeq(vec, 1, len[t]) \o <<Payload(t)>>
  /\ k' = [k EXCEPT ![t] = @ + 1]
  /\ Goto(t, IF k[t] < NumPushes(t) THEN "push_read" ELSE "unlock")
  /\ UNCHANGED <<variant, locked, len>>

(* Mutant: unlock does not store false. *)
UnlockNoStore(t) ==
  /\ pc[t] = "unlock"
  /\ Goto(t, "done")
  /\ UNCHANGED <<variant, locked, vec, k, len>>

(* unlock(), Guard::drop or 03-05-01's LOCKED.store: the Release store of *)
(* false.  04-02's main then locks a second time.                          *)
Unlock(t) ==
  /\ pc[t] = "unlock"
  /\ locked' = FALSE
  /\ IF variant = "04-02" /\ k[t] = 1
       THEN k' = [k EXCEPT ![t] = 2] /\ Goto(t, "relock")
       ELSE UNCHANGED k /\ Goto(t, "done")
  /\ UNCHANGED <<variant, vec, len>>

(* 04-02's main calls lock() a second time. *)
Relock ==
  /\ pc["main"] = "relock"
  /\ Goto("main", "lock")
  /\ UNCHANGED <<variant, locked, vec, k, len>>

(* Mutant: main goes on without waiting for the scoped threads. *)
JoinNoWait ==
  /\ pc["main"] = "join"
  /\ Goto("main", IF variant = "04-03" THEN "lock" ELSE "done")
  /\ UNCHANGED <<variant, locked, vec, k, len>>

(* thread::scope returns once every scoped thread has finished; 04-03's   *)
(* main then locks.                                                        *)
Join ==
  /\ pc["main"] = "join" /\ \A w \in Workers : pc[w] = "done"
  /\ Goto("main", IF variant = "04-03" THEN "lock" ELSE "done")
  /\ UNCHANGED <<variant, locked, vec, k, len>>

(* The three assert!s of main; a failing one panics while holding the guard. *)
Check ==
  /\ pc["main"] = "check"
  /\ Goto("main", IF Values \subseteq Range(vec) THEN "unlock" ELSE "panicked")
  /\ UNCHANGED <<variant, locked, vec, k, len>>

Thread(t) ==
  \/ Lock(t) \/ LockCasWeak(t) \/ TryLock(t) \/ PushRead(t) \/ PushWrite(t)
  \/ Unlock(t)
  \/ t = "main" /\ (Relock \/ Join \/ Check)

Next ==
  \/ \E t \in Threads : Lock(t)
  \/ \E t \in Threads : LockCasWeak(t)
  \/ \E t \in Workers : TryLock(t)
  \/ \E t \in Workers : PushRead(t)
  \/ \E t \in Workers : PushWrite(t)
  \/ \E t \in Threads : Unlock(t)
  \/ Relock
  \/ Join
  \/ Check

(* Every runnable thread is eventually scheduled (WF); no step blocks. *)
Spec == Init /\ [][Next]_vars /\ \A t \in Threads : WF_vars(Thread(t))

-----------------------------------------------------------------------------
TypeOK ==
  /\ variant \in Variants
  /\ locked \in BOOLEAN
  /\ vec \in Seq(IF variant = "03-05-01" THEN {"!"} ELSE Values)
  /\ pc \in [Threads -> Steps]
  /\ k \in [Threads -> Nat \ {0}]
  /\ len \in [Threads -> 0..Total]

(* The assert!s of main never fail: no push is lost to a race and main     *)
(* reads the Vec only after the scope has joined both threads.             *)
MainAssertHolds == pc["main"] # "panicked"

(* The program terminates: every thread, main included, gets through the   *)
(* spin loop (or its try) and returns.                                     *)
Terminates == <>(\A t \in Threads : pc[t] = "done")

(* The lock and its guard, seen through who holds the guard and who is     *)
(* spinning, implement MutexSpec.                                          *)
NoOwner == "none"
Mutex == INSTANCE MutexSpec
           WITH owner <- IF \E t \in Threads : Holding(t)
                         THEN CHOOSE t \in Threads : Holding(t) ELSE NoOwner,
                waiting <- {t \in Threads : pc[t] = "lock"}

(* Every behaviour of the spin lock is one of MutexSpec, deadlock freedom  *)
(* included.  MutexSpec's Acquire needs a free lock, so a second guard     *)
(* holder (a swap that ignored `locked`) is a step MutexSpec cannot take:  *)
(* this is also mutual exclusion.                                          *)
ImplementsMutexSpec == Mutex!Spec

=============================================================================
