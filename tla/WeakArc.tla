------------------------------ MODULE WeakArc ------------------------------
(***************************************************************************)
(* The reference-counted pointer with weak references of                   *)
(* src/examples/06-02_weak-pointer.rs.                                     *)
(*                                                                         *)
(* An Arc<T> is a Weak<T> plus a strong count: alloc_ref_count counts      *)
(* every handle, data_ref_count the Arc<T>s, and the payload is an         *)
(* Option<T> set to None by the last Arc<T>.  Clone for Arc and upgrade    *)
(* touch both counters, in two steps.  As in OptimizedArc, each atomic     *)
(* instruction is one step, pc[t] and n[t] are a thread's locals, counters *)
(* wrap modulo UsizeMax + 1, and memory orderings are not modelled.        *)
(***************************************************************************)
EXTENDS Naturals, FiniteSets, Functions

CONSTANTS
  Threads,     \* the threads that own and use handles
  UsizeMax,    \* usize::MAX of the model's usize
  MaxHandles   \* bound: a handle-creating operation starts only while
               \* fewer than MaxHandles handles are live

ASSUME UsizeMax \in Nat /\ UsizeMax >= 3
ASSUME MaxHandles \in Nat \ {0}

VARIABLES
  data_ref_count,   \* ArcData.data_ref_count: number of Arc<T>
  alloc_ref_count,  \* ArcData.alloc_ref_count: Arc<T> + Weak<T>
  data,             \* ArcData.data: "live" (Some) or "dropped" (None)
  freed,            \* the ArcData box has been deallocated
  arcs,             \* arcs[t]: Arc<T> handles owned by thread t
  weaks,            \* weaks[t]: Weak<T> handles owned by thread t
  pc,               \* pc[t]: the step thread t executes next
  n,                \* n[t]: local `n` of upgrade
  aborted,          \* std::process::abort() has been called
  num_drops,        \* NUM_DROPS of the test: payload destructor runs
  num_frees         \* deallocations of the ArcData box

vars == <<data_ref_count, alloc_ref_count, data, freed, arcs, weaks, pc, n,
          aborted, num_drops, num_frees>>

Inc(x) == (x + 1) % (UsizeMax + 1)
Dec(x) == (x + UsizeMax) % (UsizeMax + 1)

Idle == "idle"
Steps == {Idle, "cl_data", "up_loop", "up_clone", "drop_data", "drop_weak",
          "free", "gm_mut"}

LiveArcs == SumFunction(arcs)
LiveWeaks == SumFunction(weaks)

At(t, s) == ~aborted /\ pc[t] = s
Start(t) == At(t, Idle)
Goto(t, s) == pc' = [pc EXCEPT ![t] = s]
CanCreate == LiveArcs + LiveWeaks < MaxHandles

(* Arc::new: one Arc, counted once in each counter, payload Some. *)
Init ==
  /\ data_ref_count = 1
  /\ alloc_ref_count = 1
  /\ data = "live"
  /\ freed = FALSE
  /\ \E t0 \in Threads : arcs = [t \in Threads |-> IF t = t0 THEN 1 ELSE 0]
  /\ weaks = [t \in Threads |-> 0]
  /\ pc = [t \in Threads |-> Idle]
  /\ n = [t \in Threads |-> 0]
  /\ aborted = FALSE
  /\ num_drops = 0
  /\ num_frees = 0

(* The fetch_add of Clone for Weak, aborting above usize::MAX / 2; the     *)
(* caller goes on at step `next`.                                          *)
(* Mutant: the fetch_add without the abort-on-overflow check. *)
AllocIncrementNoAbort(t, next) ==
  /\ alloc_ref_count' = Inc(alloc_ref_count)
  /\ Goto(t, next) /\ UNCHANGED aborted

AllocIncrement(t, next) ==
  /\ alloc_ref_count' = Inc(alloc_ref_count)
  /\ IF alloc_ref_count > UsizeMax \div 2
       THEN aborted' = TRUE /\ UNCHANGED pc
       ELSE Goto(t, next) /\ UNCHANGED aborted

(* Clone for Arc, first step: self.weak.clone(). *)
ArcCloneWeak(t) ==
  /\ Start(t) /\ arcs[t] > 0 /\ CanCreate
  /\ AllocIncrement(t, "cl_data")
  /\ UNCHANGED <<data_ref_count, data, freed, arcs, weaks, n, num_drops,
                 num_frees>>

(* Clone for Arc, second step: fetch_add on data_ref_count. *)
ArcCloneData(t) ==
  /\ At(t, "cl_data")
  /\ data_ref_count' = Inc(data_ref_count)
  /\ IF data_ref_count > UsizeMax \div 2
       THEN aborted' = TRUE /\ UNCHANGED <<arcs, pc>>
       ELSE /\ arcs' = [arcs EXCEPT ![t] = @ + 1]
            /\ Goto(t, Idle)
            /\ UNCHANGED aborted
  /\ UNCHANGED <<alloc_ref_count, data, freed, weaks, n, num_drops,
                 num_frees>>

(* Clone for Weak, and Arc::downgrade, which is arc.weak.clone(). *)
WeakClone(t) ==
  /\ Start(t) /\ (arcs[t] > 0 \/ weaks[t] > 0) /\ CanCreate
  /\ AllocIncrement(t, Idle)
  /\ weaks' = IF alloc_ref_count > UsizeMax \div 2 THEN weaks
              ELSE [weaks EXCEPT ![t] = @ + 1]
  /\ UNCHANGED <<data_ref_count, data, freed, arcs, n, num_drops, num_frees>>

(* Drop for Arc: fetch_sub on data_ref_count; from 1 the payload is set to *)
(* None; then the field `weak` is dropped (Drop for Weak).                 *)
(* Mutant: drop of a handle the thread does not own. *)
ArcDropUnowned(t) ==
  /\ Start(t)
  /\ arcs' = [arcs EXCEPT ![t] = @ - 1]
  /\ data_ref_count' = Dec(data_ref_count)
  /\ Goto(t, IF data_ref_count = 1 THEN "drop_data" ELSE "drop_weak")
  /\ UNCHANGED <<alloc_ref_count, data, freed, weaks, n, aborted, num_drops,
                 num_frees>>

ArcDrop(t) ==
  /\ Start(t) /\ arcs[t] > 0
  /\ arcs' = [arcs EXCEPT ![t] = @ - 1]
  /\ data_ref_count' = Dec(data_ref_count)
  /\ Goto(t, IF data_ref_count = 1 THEN "drop_data" ELSE "drop_weak")
  /\ UNCHANGED <<alloc_ref_count, data, freed, weaks, n, aborted, num_drops,
                 num_frees>>

(* Mutant: the last Arc sets the payload to None and skips its own weak. *)
ArcDropDataKeepWeak(t) ==
  /\ At(t, "drop_data")
  /\ data' = "dropped"
  /\ num_drops' = num_drops + 1
  /\ Goto(t, Idle)
  /\ UNCHANGED <<data_ref_count, alloc_ref_count, freed, arcs, weaks, n,
                 aborted, num_frees>>

ArcDropData(t) ==
  /\ At(t, "drop_data")
  /\ data' = "dropped"
  /\ num_drops' = num_drops + 1
  /\ Goto(t, "drop_weak")
  /\ UNCHANGED <<data_ref_count, alloc_ref_count, freed, arcs, weaks, n,
                 aborted, num_frees>>

(* The fetch_sub of Drop for Weak; from 1 the thread frees the block. *)
(* Mutant: frees when the count after the decrement is 1. *)
ReleaseAllocNewValue(t) ==
  /\ alloc_ref_count' = Dec(alloc_ref_count)
  /\ Goto(t, IF alloc_ref_count = 2 THEN "free" ELSE Idle)

ReleaseAlloc(t) ==
  /\ alloc_ref_count' = Dec(alloc_ref_count)
  /\ Goto(t, IF alloc_ref_count = 1 THEN "free" ELSE Idle)

ArcDropWeak(t) ==
  /\ At(t, "drop_weak")
  /\ ReleaseAlloc(t)
  /\ UNCHANGED <<data_ref_count, data, freed, arcs, weaks, n, aborted,
                 num_drops, num_frees>>

WeakDrop(t) ==
  /\ Start(t) /\ weaks[t] > 0
  /\ weaks' = [weaks EXCEPT ![t] = @ - 1]
  /\ ReleaseAlloc(t)
  /\ UNCHANGED <<data_ref_count, data, freed, arcs, n, aborted, num_drops,
                 num_frees>>

Free(t) ==
  /\ At(t, "free")
  /\ freed' = TRUE
  /\ num_frees' = num_frees + 1
  /\ Goto(t, Idle)
  /\ UNCHANGED <<data_ref_count, alloc_ref_count, data, arcs, weaks, n,
                 aborted, num_drops>>

(* Weak::upgrade: load data_ref_count; None once it is 0; assert          *)
(* n < usize::MAX; compare_exchange_weak n -> n + 1 (a failure reloads n); *)
(* then `Arc { weak: self.clone() }` increments alloc_ref_count.           *)
UpgradeLoad(t) ==
  /\ Start(t) /\ weaks[t] > 0 /\ CanCreate
  /\ n' = [n EXCEPT ![t] = data_ref_count]
  /\ Goto(t, "up_loop")
  /\ UNCHANGED <<data_ref_count, alloc_ref_count, data, freed, arcs, weaks,
                 aborted, num_drops, num_frees>>

(* n == 0 returns None; a failed assert panics: either way no Arc. *)
UpgradeFail(t) ==
  /\ At(t, "up_loop") /\ (n[t] = 0 \/ n[t] >= UsizeMax)
  /\ Goto(t, Idle)
  /\ UNCHANGED <<data_ref_count, alloc_ref_count, data, freed, arcs, weaks,
                 n, aborted, num_drops, num_frees>>

(* Mutant: the compare_exchange also succeeds from 0. *)
UpgradeCasFromZero(t) ==
  /\ At(t, "up_loop") /\ n[t] < UsizeMax
  /\ IF data_ref_count = n[t]
       THEN /\ data_ref_count' = n[t] + 1
            /\ arcs' = [arcs EXCEPT ![t] = @ + 1]
            /\ Goto(t, "up_clone")
            /\ UNCHANGED n
       ELSE /\ n' = [n EXCEPT ![t] = data_ref_count]
            /\ UNCHANGED <<data_ref_count, arcs, pc>>
  /\ UNCHANGED <<alloc_ref_count, data, freed, weaks, aborted, num_drops,
                 num_frees>>

UpgradeCas(t) ==
  /\ At(t, "up_loop") /\ n[t] # 0 /\ n[t] < UsizeMax
  /\ IF data_ref_count = n[t]
       THEN /\ data_ref_count' = n[t] + 1
            /\ arcs' = [arcs EXCEPT ![t] = @ + 1]
            /\ Goto(t, "up_clone")
            /\ UNCHANGED n
       ELSE /\ n' = [n EXCEPT ![t] = data_ref_count]
            /\ UNCHANGED <<data_ref_count, arcs, pc>>
  /\ UNCHANGED <<alloc_ref_count, data, freed, weaks, aborted, num_drops,
                 num_frees>>

UpgradeClone(t) ==
  /\ At(t, "up_clone")
  /\ AllocIncrement(t, Idle)
  /\ UNCHANGED <<data_ref_count, data, freed, arcs, weaks, n, num_drops,
                 num_frees>>

(* Arc::get_mut: one Relaxed load of alloc_ref_count; if it is 1, &mut T   *)
(* is handed out and held (pc "gm_mut") until GetMutRelease; else None.    *)
(* Mutant: get_mut tests data_ref_count == 1, as in 06-01, ignoring Weak. *)
GetMutDataCount(t) ==
  /\ Start(t) /\ arcs[t] > 0
  /\ IF data_ref_count = 1 THEN Goto(t, "gm_mut") ELSE UNCHANGED pc
  /\ UNCHANGED <<data_ref_count, alloc_ref_count, data, freed, arcs, weaks,
                 n, aborted, num_drops, num_frees>>

GetMut(t) ==
  /\ Start(t) /\ arcs[t] > 0
  /\ IF alloc_ref_count = 1 THEN Goto(t, "gm_mut") ELSE UNCHANGED pc
  /\ UNCHANGED <<data_ref_count, alloc_ref_count, data, freed, arcs, weaks,
                 n, aborted, num_drops, num_frees>>

GetMutRelease(t) ==
  /\ At(t, "gm_mut")
  /\ Goto(t, Idle)
  /\ UNCHANGED <<data_ref_count, alloc_ref_count, data, freed, arcs, weaks,
                 n, aborted, num_drops, num_frees>>

(* std::thread::spawn(move || ...) of the test moves a handle. *)
SendArc(t, u) ==
  /\ Start(t) /\ arcs[t] > 0
  /\ arcs' = [arcs EXCEPT ![t] = @ - 1, ![u] = @ + 1]
  /\ UNCHANGED <<data_ref_count, alloc_ref_count, data, freed, weaks, pc, n,
                 aborted, num_drops, num_frees>>

SendWeak(t, u) ==
  /\ Start(t) /\ weaks[t] > 0
  /\ weaks' = [weaks EXCEPT ![t] = @ - 1, ![u] = @ + 1]
  /\ UNCHANGED <<data_ref_count, alloc_ref_count, data, freed, arcs, pc, n,
                 aborted, num_drops, num_frees>>

Thread(t) ==
  \/ ArcCloneWeak(t) \/ ArcCloneData(t) \/ WeakClone(t)
  \/ ArcDrop(t) \/ ArcDropData(t) \/ ArcDropWeak(t) \/ WeakDrop(t) \/ Free(t)
  \/ UpgradeLoad(t) \/ UpgradeFail(t) \/ UpgradeCas(t) \/ UpgradeClone(t)
  \/ GetMut(t) \/ GetMutRelease(t)
  \/ \E u \in Threads \ {t} : SendArc(t, u) \/ SendWeak(t, u)

Next ==
  \/ \E t \in Threads : ArcCloneWeak(t)
  \/ \E t \in Threads : ArcCloneData(t)
  \/ \E t \in Threads : WeakClone(t)
  \/ \E t \in Threads : ArcDrop(t)
  \/ \E t \in Threads : ArcDropData(t)
  \/ \E t \in Threads : ArcDropWeak(t)
  \/ \E t \in Threads : WeakDrop(t)
  \/ \E t \in Threads : Free(t)
  \/ \E t \in Threads : UpgradeLoad(t)
  \/ \E t \in Threads : UpgradeFail(t)
  \/ \E t \in Threads : UpgradeCas(t)
  \/ \E t \in Threads : UpgradeClone(t)
  \/ \E t \in Threads : GetMut(t)
  \/ \E t \in Threads : GetMutRelease(t)
  \/ \E t, u \in Threads : t # u /\ SendArc(t, u)
  \/ \E t, u \in Threads : t # u /\ SendWeak(t, u)

(* No step blocks; the OS scheduler runs every runnable thread (WF). *)
Spec == Init /\ [][Next]_vars /\ \A t \in Threads : WF_vars(Thread(t))

-----------------------------------------------------------------------------
TypeOK ==
  /\ data_ref_count \in 0..UsizeMax
  /\ alloc_ref_count \in 0..UsizeMax
  /\ data \in {"live", "dropped"}
  /\ freed \in BOOLEAN
  /\ arcs \in [Threads -> Nat]
  /\ weaks \in [Threads -> Nat]
  /\ pc \in [Threads -> Steps]
  /\ n \in [Threads -> 0..UsizeMax]
  /\ aborted \in BOOLEAN
  /\ num_drops \in Nat
  /\ num_frees \in Nat

InStep(s) == Cardinality({t \in Threads : pc[t] \in s})

(* Until abort(), data_ref_count equals the live Arc<T>s, and              *)
(* alloc_ref_count the live handles corrected by the operations caught     *)
(* between their two counter updates: a clone that has counted its weak   *)
(* but not yet its Arc, a drop that has uncounted its Arc but not yet its  *)
(* weak, and an upgrade that has counted its Arc but not yet its weak.     *)
CountsMatch ==
  ~aborted =>
    /\ data_ref_count = LiveArcs
    /\ alloc_ref_count + InStep({"up_clone"}) =
         LiveArcs + LiveWeaks + InStep({"cl_data", "drop_data", "drop_weak"})

(* The payload and the block are each released at most once, in order:  *)
(* the payload at most once and never while an Arc<T> exists (no upgrade  *)
(* resurrects it), and once the last Arc<T> is gone it is dropped or its   *)
(* dropper is about to; the block at most once, after the payload, when   *)
(* no handle is left and no thread is inside an operation on it (no use   *)
(* after free).                                                            *)
ReleasedOnce ==
  /\ num_drops <= 1
  /\ data = "dropped" => LiveArcs = 0
  /\ (LiveArcs = 0 /\ ~aborted) =>
       (data = "dropped" \/ \E t \in Threads : pc[t] = "drop_data")
  /\ num_frees <= 1
  /\ freed =>
       /\ data = "dropped"
       /\ LiveArcs + LiveWeaks = 0
       /\ \A t \in Threads : pc[t] = Idle

(* Refinement: the handles of 06-02 behave as ArcSpec's atomic operations. *)
(* Each other thread may be inside one clone, upgrade or drop whose        *)
(* alloc_ref_count update is not yet matched by a handle.                  *)
Abstract == INSTANCE ArcSpec
              WITH mutable <- {t \in Threads : pc[t] = "gm_mut"},
                   OverflowLimit <- UsizeMax \div 2,
                   InFlight <- Cardinality(Threads) - 1

(* Every behaviour of the 06-02 Arc/Weak is one of ArcSpec, including the  *)
(* eventual drop of the payload and release of the block.                  *)
ImplementsArcSpec == Abstract!Spec

=============================================================================
