----------------------------- MODULE BasicArc -----------------------------
(***************************************************************************)
(* The reference-counted pointer without weak references of               *)
(* src/examples/06-01_basic-reference-counter.rs and, with get_mut,        *)
(* src/examples/06-01-02_updating.rs.  One ref_count counts the Arc<T>s;   *)
(* the thread that takes it from 1 to 0 drops the Box, which runs T's      *)
(* destructor and then deallocates.  Each atomic instruction is one step;  *)
(* ref_count wraps modulo UsizeMax + 1; orderings are not modelled.        *)
(***************************************************************************)
EXTENDS Naturals, Functions

CONSTANTS
  Threads,     \* the threads that own and use handles
  UsizeMax,    \* usize::MAX of the model's usize
  MaxHandles   \* bound: clone starts only while fewer Arc<T>s are live

ASSUME UsizeMax \in Nat /\ UsizeMax >= 3
ASSUME MaxHandles \in Nat \ {0}

VARIABLES
  ref_count,  \* ArcData.ref_count
  data,       \* ArcData.data: "live" until the Box's destructor drops it
  freed,      \* the ArcData box has been deallocated
  arcs,       \* arcs[t]: Arc<T> handles owned by thread t
  pc,         \* pc[t]: the step thread t executes next
  aborted,    \* std::process::abort() has been called
  num_drops,  \* NUM_DROPS of the 06-01 test: destructor runs of T
  num_frees   \* deallocations of the ArcData box

vars == <<ref_count, data, freed, arcs, pc, aborted, num_drops, num_frees>>

Idle == "idle"
Steps == {Idle, "drop_box", "dealloc", "gm_mut"}
LiveArcs == SumFunction(arcs)

At(t, s) == ~aborted /\ pc[t] = s
Start(t) == At(t, Idle)
Goto(t, s) == pc' = [pc EXCEPT ![t] = s]

(* Arc::new *)
Init ==
  /\ ref_count = 1
  /\ data = "live"
  /\ freed = FALSE
  /\ \E t0 \in Threads : arcs = [t \in Threads |-> IF t = t0 THEN 1 ELSE 0]
  /\ pc = [t \in Threads |-> Idle]
  /\ aborted = FALSE
  /\ num_drops = 0
  /\ num_frees = 0

(* Mutant: clone reads the count with a load instead of a fetch_add. *)
ArcCloneLoad(t) ==
  /\ Start(t) /\ arcs[t] > 0 /\ LiveArcs < MaxHandles
  /\ IF ref_count > UsizeMax \div 2
       THEN aborted' = TRUE /\ UNCHANGED arcs
       ELSE arcs' = [arcs EXCEPT ![t] = @ + 1] /\ UNCHANGED aborted
  /\ UNCHANGED <<ref_count, data, freed, pc, num_drops, num_frees>>

(* Clone for Arc: fetch_add, abort() if the old count exceeds usize::MAX/2. *)
ArcClone(t) ==
  /\ Start(t) /\ arcs[t] > 0 /\ LiveArcs < MaxHandles
  /\ ref_count' = (ref_count + 1) % (UsizeMax + 1)
  /\ IF ref_count > UsizeMax \div 2
       THEN aborted' = TRUE /\ UNCHANGED arcs
       ELSE arcs' = [arcs EXCEPT ![t] = @ + 1] /\ UNCHANGED aborted
  /\ UNCHANGED <<data, freed, pc, num_drops, num_frees>>

(* Mutant: drop frees when the old count is 2 (tests the new value). *)
ArcDropNewValue(t) ==
  /\ Start(t) /\ arcs[t] > 0
  /\ arcs' = [arcs EXCEPT ![t] = @ - 1]
  /\ ref_count' = (ref_count + UsizeMax) % (UsizeMax + 1)
  /\ Goto(t, IF ref_count = 2 THEN "drop_box" ELSE Idle)
  /\ UNCHANGED <<data, freed, aborted, num_drops, num_frees>>

(* Mutant: drop of an Arc<T> the thread does not own (a double drop). *)
ArcDropUnowned(t) ==
  /\ Start(t)
  /\ arcs' = [arcs EXCEPT ![t] = @ - 1]
  /\ ref_count' = (ref_count + UsizeMax) % (UsizeMax + 1)
  /\ Goto(t, IF ref_count = 1 THEN "drop_box" ELSE Idle)
  /\ UNCHANGED <<data, freed, aborted, num_drops, num_frees>>

(* Drop for Arc: fetch_sub; the thread that saw 1 drops the Box. *)
ArcDrop(t) ==
  /\ Start(t) /\ arcs[t] > 0
  /\ arcs' = [arcs EXCEPT ![t] = @ - 1]
  /\ ref_count' = (ref_count + UsizeMax) % (UsizeMax + 1)
  /\ Goto(t, IF ref_count = 1 THEN "drop_box" ELSE Idle)
  /\ UNCHANGED <<data, freed, aborted, num_drops, num_frees>>

(* drop(Box::from_raw(ptr)), after fence(Acquire): the destructor of T... *)
DropBoxData(t) ==
  /\ At(t, "drop_box")
  /\ data' = "dropped"
  /\ num_drops' = num_drops + 1
  /\ Goto(t, "dealloc")
  /\ UNCHANGED <<ref_count, freed, arcs, aborted, num_frees>>

(* ...then the deallocation of the ArcData block. *)
Dealloc(t) ==
  /\ At(t, "dealloc")
  /\ freed' = TRUE
  /\ num_frees' = num_frees + 1
  /\ Goto(t, Idle)
  /\ UNCHANGED <<ref_count, data, arcs, aborted, num_drops>>

(* Arc::get_mut: &mut T (pc "gm_mut") if the Relaxed load reads 1. *)
GetMut(t) ==
  /\ Start(t) /\ arcs[t] > 0
  /\ IF ref_count = 1 THEN Goto(t, "gm_mut") ELSE UNCHANGED pc
  /\ UNCHANGED <<ref_count, data, freed, arcs, aborted, num_drops, num_frees>>

GetMutRelease(t) ==
  /\ At(t, "gm_mut")
  /\ Goto(t, Idle)
  /\ UNCHANGED <<ref_count, data, freed, arcs, aborted, num_drops, num_frees>>

(* std::thread::spawn(move || ...) of the test moves an Arc<T>. *)
SendArc(t, u) ==
  /\ Start(t) /\ arcs[t] > 0
  /\ arcs' = [arcs EXCEPT ![t] = @ - 1, ![u] = @ + 1]
  /\ UNCHANGED <<ref_count, data, freed, pc, aborted, num_drops, num_frees>>

Thread(t) ==
  \/ ArcClone(t) \/ ArcDrop(t) \/ DropBoxData(t) \/ Dealloc(t)
  \/ GetMut(t) \/ GetMutRelease(t)
  \/ \E u \in Threads \ {t} : SendArc(t, u)

Next ==
  \/ \E t \in Threads : ArcClone(t)
  \/ \E t \in Threads : ArcDrop(t)
  \/ \E t \in Threads : DropBoxData(t)
  \/ \E t \in Threads : Dealloc(t)
  \/ \E t \in Threads : GetMut(t)
  \/ \E t \in Threads : GetMutRelease(t)
  \/ \E t, u \in Threads : t # u /\ SendArc(t, u)

(* No step blocks; the OS scheduler runs every runnable thread (WF). *)
Spec == Init /\ [][Next]_vars /\ \A t \in Threads : WF_vars(Thread(t))

-----------------------------------------------------------------------------
TypeOK ==
  /\ ref_count \in 0..UsizeMax
  /\ data \in {"live", "dropped"}
  /\ freed \in BOOLEAN
  /\ arcs \in [Threads -> Nat]
  /\ pc \in [Threads -> Steps]
  /\ aborted \in BOOLEAN
  /\ num_drops \in Nat
  /\ num_frees \in Nat

(* T's destructor and the deallocation each run at most once, only after   *)
(* the last Arc<T> is gone and in that order, and no thread is left inside *)
(* an operation on a freed block.                                          *)
DroppedOnceAfterLastArc ==
  /\ num_drops <= 1 /\ num_frees <= 1
  /\ data = "dropped" => LiveArcs = 0
  /\ freed => data = "dropped" /\ \A t \in Threads : pc[t] = Idle

(* Refinement: an Arc<T> of 06-01 is an ArcSpec that never has a Weak<T>;  *)
(* ref_count is never ahead of the handles.                                *)
Abstract == INSTANCE ArcSpec
              WITH weaks <- [t \in Threads |-> 0],
                   mutable <- {t \in Threads : pc[t] = "gm_mut"},
                   OverflowLimit <- UsizeMax \div 2,
                   InFlight <- 0

(* Every behaviour of the basic Arc is one of ArcSpec, including the       *)
(* eventual destruction of T and release of the block after the last drop. *)
ImplementsArcSpec == Abstract!Spec

=============================================================================
