-------------------------- MODULE FencedSpinCounter --------------------------
(***************************************************************************)
(* src/examples/07-04-03_experiment.rs: scoped threads each increment a    *)
(* shared AtomicUsize Iters times under a spin lock built from an          *)
(* AtomicBool: swap(true) until it returns false, then a load and a store  *)
(* of the counter, then store(false).  main then prints                    *)
(* counter.into_inner().  The file runs the loop twice:                    *)
(*   "relaxed"  swap and store with Relaxed, each next to a                *)
(*              compiler_fence, which orders nothing between threads;      *)
(*   "acqrel"   swap with Acquire and the unlock store with Release.       *)
(* The failed swaps of the spin (true over true) are left out: a thread    *)
(* waits until the last value of locked is false, then swaps.              *)
(***************************************************************************)
EXTENDS Naturals, Sequences, FiniteSets

CONSTANTS
  Threads,  \* the scoped threads (4 in the code)
  Iters     \* increments per thread (1_000_000 in the code)

ASSUME Iters \in Nat \ {0}

Variants == {"relaxed", "acqrel"}

Locs == {"locked", "counter"}
Main == "main"
Procs == Threads \cup {Main}

VARIABLES
  mem, view, kept,  \* the memory: see WeakMemory
  variant,  \* which of the two loops, fixed in Init
  pc,       \* pc[p]: the step thread p (or main) executes next
  left,     \* left[t]: iterations thread t has still to run
  old,      \* old[t]: the counter value t loaded
  result    \* what main printed, or {} before

INSTANCE WeakMemory

memvars == <<mem, view, kept>>
vars == <<memvars, variant, pc, left, old, result>>

LockOrder == IF variant = "relaxed" THEN "Relaxed" ELSE "Acquire"
UnlockOrder == IF variant = "relaxed" THEN "Relaxed" ELSE "Release"

Init ==
  /\ MemInit([l \in Locs |-> IF l = "locked" THEN FALSE ELSE 0])
  /\ variant \in Variants
  /\ pc = [p \in Procs |-> IF p = Main THEN "join" ELSE "lock"]
  /\ left = [t \in Threads |-> Iters]
  /\ old = [t \in Threads |-> 0]
  /\ result = {}

Goto(p, s) == pc' = [pc EXCEPT ![p] = s]

(* Mutant: the lock is taken with a Relaxed swap in both loops. *)
LockRelaxed(t) ==
  /\ pc[t] = "lock" /\ Latest("locked") = FALSE
  /\ RMW(t, "locked", LAMBDA v : TRUE, "Relaxed")
  /\ Goto(t, "load")
  /\ UNCHANGED <<variant, left, old, result>>

(* while locked.swap(true, ..) {}, and compiler_fence(Acquire). *)
Lock(t) ==
  /\ pc[t] = "lock" /\ Latest("locked") = FALSE
  /\ RMW(t, "locked", LAMBDA v : TRUE, LockOrder)
  /\ Goto(t, "load")
  /\ UNCHANGED <<variant, left, old, result>>

(* let old = counter.load(Relaxed); *)
LoadCounter(t) ==
  /\ pc[t] = "load"
  /\ \E ts \in Readable(t, "counter") :
       /\ LoadAt(t, "counter", ts, "Relaxed")
       /\ old' = [old EXCEPT ![t] = mem["counter"][ts].val]
  /\ Goto(t, "store")
  /\ UNCHANGED <<variant, left, result>>

(* counter.store(old + 1, Relaxed); *)
StoreCounter(t) ==
  /\ pc[t] = "store"
  /\ Store(t, "counter", old[t] + 1, "Relaxed")
  /\ Goto(t, "unlock")
  /\ UNCHANGED <<variant, left, old, result>>

(* compiler_fence(Release) and locked.store(false, ..); the for loop.     *)
Unlock(t) ==
  /\ pc[t] = "unlock"
  /\ Store(t, "locked", FALSE, UnlockOrder)
  /\ left' = [left EXCEPT ![t] = @ - 1]
  /\ Goto(t, IF left[t] = 1 THEN "done" ELSE "lock")
  /\ UNCHANGED <<variant, old, result>>

(* The end of thread::scope joins every thread. *)
JoinScope ==
  /\ pc[Main] = "join" /\ \A t \in Threads : pc[t] = "done"
  /\ JoinAllViews(Main, Threads)
  /\ Goto(Main, "print")
  /\ UNCHANGED <<variant, left, old, result>>

(* println!("{}", counter.into_inner()). *)
IntoInner ==
  /\ pc[Main] = "print"
  /\ \E ts \in Readable(Main, "counter") :
       /\ LoadAt(Main, "counter", ts, "Relaxed")
       /\ result' = {mem["counter"][ts].val}
  /\ Goto(Main, "done")
  /\ UNCHANGED <<variant, left, old>>

Thread(t) == Lock(t) \/ LoadCounter(t) \/ StoreCounter(t) \/ Unlock(t)

Next == (\E t \in Threads : Thread(t)) \/ JoinScope \/ IntoInner

Spec ==
  /\ Init /\ [][Next]_vars
  /\ \A t \in Threads : WF_vars(Thread(t))
  /\ WF_vars(JoinScope) /\ WF_vars(IntoInner)

-----------------------------------------------------------------------------
TypeOK ==
  /\ MemTypeOK
  /\ variant \in Variants
  /\ pc \in [Procs -> {"lock", "load", "store", "unlock", "done", "join", "print"}]
  /\ left \in [Threads -> 0 .. Iters]
  /\ old \in [Threads -> Nat]
  /\ result \in SUBSET Nat

(* With the Acquire swap and the Release store, each critical section      *)
(* happens before the next, so no increment is lost: main prints           *)
(* threads * Iters.  (The Relaxed loop may print less, as its comments     *)
(* say.)                                                                    *)
CounterExact ==
  variant = "acqrel" => result \subseteq {Cardinality(Threads) * Iters}

(* Every thread leaves the spin and the loop, and main prints. *)
Terminates == <>(pc[Main] = "done")
=============================================================================
