---------------------------- MODULE OptimizedArc ----------------------------
(***************************************************************************)
(* The reference-counted pointer with weak references and get_mut of       *)
(* src/examples/06-03_optimization.rs.                                     *)
(*                                                                         *)
(* One ArcData block is shared by all handles.  Every atomic instruction   *)
(* of the code (load, fetch_add, fetch_sub, compare_exchange, store) is    *)
(* one step of the thread that executes it; the local variables a thread   *)
(* carries between two such steps are pc[t] and n[t].  A thread owns       *)
(* arcs[t] Arc<T> and weaks[t] Weak<T> handles.  Counters are usize of a   *)
(* model width: they wrap modulo UsizeMax + 1 as fetch_add/fetch_sub do.   *)
(* Memory orderings are not modelled: steps are sequentially consistent.   *)
(***************************************************************************)
EXTENDS Naturals, Functions

CONSTANTS
  Threads,     \* the threads that own and use handles
  UsizeMax,    \* usize::MAX of the model's usize; also get_mut's sentinel
  MaxHandles   \* bound: an operation that creates a handle starts only
               \* while fewer than MaxHandles handles are live

ASSUME UsizeMax \in Nat /\ UsizeMax >= 3
ASSUME MaxHandles \in Nat \ {0}

VARIABLES
  data_ref_count,   \* ArcData.data_ref_count: number of Arc<T>
  alloc_ref_count,  \* ArcData.alloc_ref_count: Weak<T> + 1 implicit weak
  data,             \* the ManuallyDrop<T> payload: "live" or "dropped"
  freed,            \* the ArcData box has been deallocated
  arcs,             \* arcs[t]: Arc<T> handles owned by thread t
  weaks,            \* weaks[t]: Weak<T> handles owned by thread t
  pc,               \* pc[t]: the step thread t executes next
  n,                \* n[t]: local `n` of downgrade/upgrade, or the count
                    \*       get_mut loaded into `is_unique`
  aborted,          \* std::process::abort() has been called
  num_drops,        \* NUM_DROPS of the test: payload destructor runs
  num_frees         \* deallocations of the ArcData box

vars == <<data_ref_count, alloc_ref_count, data, freed, arcs, weaks, pc, n,
          aborted, num_drops, num_frees>>

(* Wrapping usize arithmetic of fetch_add(1) and fetch_sub(1). *)
Inc(x) == (x + 1) % (UsizeMax + 1)
Dec(x) == (x + UsizeMax) % (UsizeMax + 1)

Idle == "idle"

Steps == {Idle, "drop_data", "drop_weak", "free", "dg_loop", "up_loop",
          "gm_load", "gm_store", "gm_mut"}

LiveArcs == SumFunction(arcs)
LiveWeaks == SumFunction(weaks)

(* Thread t is about to execute step s; after abort() no thread runs. *)
At(t, s) == ~aborted /\ pc[t] = s
(* A thread may only start an operation when it is between operations. *)
Start(t) == At(t, Idle)
Goto(t, s) == pc' = [pc EXCEPT ![t] = s]
CanCreate == LiveArcs + LiveWeaks < MaxHandles

(***************************************************************************)
(* Arc::new: the block starts with one Arc and the implicit weak.          *)
(***************************************************************************)
Init ==
  /\ data_ref_count = 1
  /\ alloc_ref_count = 1
  /\ data = "live"
  /\ freed = FALSE
  /\ \E t0 \in Threads : arcs = [t \in Threads |-> IF t = t0 THEN 1 ELSE 0]
  /\ weaks = [t \in Threads |-> 0]
  /\ pc = [t \in Threads |-> Idle]
  /\ n = [t \in Threads |-> 0]
  /\ aborted = FALSE
  /\ num_drops = 0
  /\ num_frees = 0

(***************************************************************************)
(* Clone for Arc: fetch_add on data_ref_count, abort above usize::MAX / 2. *)
(***************************************************************************)
(* Mutant: clone without the abort-on-overflow check. *)
ArcCloneNoAbort(t) ==
  /\ Start(t) /\ arcs[t] > 0 /\ CanCreate
  /\ data_ref_count' = Inc(data_ref_count)
  /\ arcs' = [arcs EXCEPT ![t] = @ + 1]
  /\ UNCHANGED <<alloc_ref_count, data, freed, weaks, pc, n, aborted,
                 num_drops, num_frees>>

ArcClone(t) ==
  /\ Start(t) /\ arcs[t] > 0 /\ CanCreate
  /\ data_ref_count' = Inc(data_ref_count)
  /\ IF data_ref_count > UsizeMax \div 2
       THEN aborted' = TRUE /\ UNCHANGED arcs
       ELSE arcs' = [arcs EXCEPT ![t] = @ + 1] /\ UNCHANGED aborted
  /\ UNCHANGED <<alloc_ref_count, data, freed, weaks, pc, n, num_drops,
                 num_frees>>

(* Clone for Weak: fetch_add on alloc_ref_count, same abort policy. *)
WeakClone(t) ==
  /\ Start(t) /\ weaks[t] > 0 /\ CanCreate
  /\ alloc_ref_count' = Inc(alloc_ref_count)
  /\ IF alloc_ref_count > UsizeMax \div 2
       THEN aborted' = TRUE /\ UNCHANGED weaks
       ELSE weaks' = [weaks EXCEPT ![t] = @ + 1] /\ UNCHANGED aborted
  /\ UNCHANGED <<data_ref_count, data, freed, arcs, pc, n, num_drops,
                 num_frees>>

(***************************************************************************)
(* Drop for Arc.  The fetch_sub(Release) on data_ref_count consumes the    *)
(* handle; the thread that took it from 1 to 0 then fences, drops the      *)
(* payload, and drops the implicit Weak (the same code as Drop for Weak).  *)
(***************************************************************************)
(* Mutant: drop of a handle the thread does not own (a double drop). *)
ArcDropUnowned(t) ==
  /\ Start(t)
  /\ arcs' = [arcs EXCEPT ![t] = @ - 1]
  /\ data_ref_count' = Dec(data_ref_count)
  /\ Goto(t, IF data_ref_count = 1 THEN "drop_data" ELSE Idle)
  /\ UNCHANGED <<alloc_ref_count, data, freed, weaks, n, aborted, num_drops,
                 num_frees>>

ArcDrop(t) ==
  /\ Start(t) /\ arcs[t] > 0
  /\ arcs' = [arcs EXCEPT ![t] = @ - 1]
  /\ data_ref_count' = Dec(data_ref_count)
  /\ Goto(t, IF data_ref_count = 1 THEN "drop_data" ELSE Idle)
  /\ UNCHANGED <<alloc_ref_count, data, freed, weaks, n, aborted, num_drops,
                 num_frees>>

(* Mutant: the implicit Weak is never dropped after the payload. *)
ArcDropDataKeepWeak(t) ==
  /\ At(t, "drop_data")
  /\ data' = "dropped"
  /\ num_drops' = num_drops + 1
  /\ Goto(t, Idle)
  /\ UNCHANGED <<data_ref_count, alloc_ref_count, freed, arcs, weaks, n,
                 aborted, num_frees>>

ArcDropData(t) ==
  /\ At(t, "drop_data")
  /\ data' = "dropped"
  /\ num_drops' = num_drops + 1
  /\ Goto(t, "drop_weak")
  /\ UNCHANGED <<data_ref_count, alloc_ref_count, freed, arcs, weaks, n,
                 aborted, num_frees>>

(* The fetch_sub(Release) of Drop for Weak; the thread that took the count *)
(* from 1 to 0 goes on to free the block.                                  *)
(* Mutant: frees when the count after the decrement is 1. *)
ReleaseAllocNewValue(t) ==
  /\ alloc_ref_count' = Dec(alloc_ref_count)
  /\ Goto(t, IF alloc_ref_count = 2 THEN "free" ELSE Idle)

ReleaseAlloc(t) ==
  /\ alloc_ref_count' = Dec(alloc_ref_count)
  /\ Goto(t, IF alloc_ref_count = 1 THEN "free" ELSE Idle)

ArcDropWeak(t) ==
  /\ At(t, "drop_weak")
  /\ ReleaseAlloc(t)
  /\ UNCHANGED <<data_ref_count, data, freed, arcs, weaks, n, aborted,
                 num_drops, num_frees>>

WeakDrop(t) ==
  /\ Start(t) /\ weaks[t] > 0
  /\ weaks' = [weaks EXCEPT ![t] = @ - 1]
  /\ ReleaseAlloc(t)
  /\ UNCHANGED <<data_ref_count, data, freed, arcs, n, aborted, num_drops,
                 num_frees>>

(* fence(Acquire) and drop(Box::from_raw(ptr)). *)
Free(t) ==
  /\ At(t, "free")
  /\ freed' = TRUE
  /\ num_frees' = num_frees + 1
  /\ Goto(t, Idle)
  /\ UNCHANGED <<data_ref_count, alloc_ref_count, data, arcs, weaks, n,
                 aborted, num_drops>>

(***************************************************************************)
(* Arc::downgrade: load alloc_ref_count; spin while it holds the sentinel  *)
(* usize::MAX; assert n < usize::MAX - 1; compare_exchange_weak n -> n + 1 *)
(* (a failure, spurious or not, reloads n and retries).                    *)
(***************************************************************************)
DowngradeLoad(t) ==
  /\ Start(t) /\ arcs[t] > 0 /\ CanCreate
  /\ n' = [n EXCEPT ![t] = alloc_ref_count]
  /\ Goto(t, "dg_loop")
  /\ UNCHANGED <<data_ref_count, alloc_ref_count, data, freed, arcs, weaks,
                 aborted, num_drops, num_frees>>

DowngradeSpin(t) ==
  /\ At(t, "dg_loop") /\ n[t] = UsizeMax
  /\ n' = [n EXCEPT ![t] = alloc_ref_count]
  /\ UNCHANGED <<data_ref_count, alloc_ref_count, data, freed, arcs, weaks,
                 pc, aborted, num_drops, num_frees>>

(* The failed assert panics: the call returns no Weak. *)
DowngradePanic(t) ==
  /\ At(t, "dg_loop") /\ n[t] # UsizeMax /\ n[t] >= UsizeMax - 1
  /\ Goto(t, Idle)
  /\ UNCHANGED <<data_ref_count, alloc_ref_count, data, freed, arcs, weaks,
                 n, aborted, num_drops, num_frees>>

DowngradeCas(t) ==
  /\ At(t, "dg_loop") /\ n[t] < UsizeMax - 1
  /\ IF alloc_ref_count = n[t]
       THEN /\ alloc_ref_count' = n[t] + 1
            /\ weaks' = [weaks EXCEPT ![t] = @ + 1]
            /\ Goto(t, Idle)
            /\ UNCHANGED n
       ELSE /\ n' = [n EXCEPT ![t] = alloc_ref_count]
            /\ UNCHANGED <<alloc_ref_count, weaks, pc>>
  /\ UNCHANGED <<data_ref_count, data, freed, arcs, aborted, num_drops,
                 num_frees>>

(***************************************************************************)
(* Weak::upgrade: load data_ref_count; None once it is 0; assert           *)
(* n < usize::MAX; compare_exchange_weak n -> n + 1, retrying on failure.  *)
(***************************************************************************)
UpgradeLoad(t) ==
  /\ Start(t) /\ weaks[t] > 0 /\ CanCreate
  /\ n' = [n EXCEPT ![t] = data_ref_count]
  /\ Goto(t, "up_loop")
  /\ UNCHANGED <<data_ref_count, alloc_ref_count, data, freed, arcs, weaks,
                 aborted, num_drops, num_frees>>

(* n == 0 returns None; a failed assert panics: either way no Arc. *)
UpgradeFail(t) ==
  /\ At(t, "up_loop") /\ (n[t] = 0 \/ n[t] >= UsizeMax)
  /\ Goto(t, Idle)
  /\ UNCHANGED <<data_ref_count, alloc_ref_count, data, freed, arcs, weaks,
                 n, aborted, num_drops, num_frees>>

(* Mutant: upgrade increments without the n == 0 check. *)
UpgradeCasFromZero(t) ==
  /\ At(t, "up_loop") /\ n[t] < UsizeMax
  /\ IF data_ref_count = n[t]
       THEN /\ data_ref_count' = n[t] + 1
            /\ arcs' = [arcs EXCEPT ![t] = @ + 1]
            /\ Goto(t, Idle)
            /\ UNCHANGED n
       ELSE /\ n' = [n EXCEPT ![t] = data_ref_count]
            /\ UNCHANGED <<data_ref_count, arcs, pc>>
  /\ UNCHANGED <<alloc_ref_count, data, freed, weaks, aborted, num_drops,
                 num_frees>>

UpgradeCas(t) ==
  /\ At(t, "up_loop") /\ n[t] # 0 /\ n[t] < UsizeMax
  /\ IF data_ref_count = n[t]
       THEN /\ data_ref_count' = n[t] + 1
            /\ arcs' = [arcs EXCEPT ![t] = @ + 1]
            /\ Goto(t, Idle)
            /\ UNCHANGED n
       ELSE /\ n' = [n EXCEPT ![t] = data_ref_count]
            /\ UNCHANGED <<data_ref_count, arcs, pc>>
  /\ UNCHANGED <<alloc_ref_count, data, freed, weaks, aborted, num_drops,
                 num_frees>>

(***************************************************************************)
(* Arc::get_mut: compare_exchange alloc_ref_count 1 -> usize::MAX (None    *)
(* if it fails); load data_ref_count; store 1 back; None unless the loaded *)
(* count was 1; else fence(Acquire) and hand out &mut T, which the caller  *)
(* holds (pc "gm_mut") until GetMutRelease ends the borrow.                *)
(***************************************************************************)
(* Mutant: checks alloc_ref_count == 1 without locking it to usize::MAX. *)
GetMutLockNoSentinel(t) ==
  /\ Start(t) /\ arcs[t] > 0
  /\ IF alloc_ref_count = 1
       THEN Goto(t, "gm_load")
       ELSE UNCHANGED pc
  /\ UNCHANGED <<data_ref_count, alloc_ref_count, data, freed, arcs, weaks,
                 n, aborted, num_drops, num_frees>>

GetMutLock(t) ==
  /\ Start(t) /\ arcs[t] > 0
  /\ IF alloc_ref_count = 1
       THEN alloc_ref_count' = UsizeMax /\ Goto(t, "gm_load")
       ELSE UNCHANGED <<alloc_ref_count, pc>>
  /\ UNCHANGED <<data_ref_count, data, freed, arcs, weaks, n, aborted,
                 num_drops, num_frees>>

GetMutLoad(t) ==
  /\ At(t, "gm_load")
  /\ n' = [n EXCEPT ![t] = data_ref_count]
  /\ Goto(t, "gm_store")
  /\ UNCHANGED <<data_ref_count, alloc_ref_count, data, freed, arcs, weaks,
                 aborted, num_drops, num_frees>>

GetMutUnlock(t) ==
  /\ At(t, "gm_store")
  /\ alloc_ref_count' = 1
  /\ Goto(t, IF n[t] = 1 THEN "gm_mut" ELSE Idle)
  /\ UNCHANGED <<data_ref_count, data, freed, arcs, weaks, n, aborted,
                 num_drops, num_frees>>

GetMutRelease(t) ==
  /\ At(t, "gm_mut")
  /\ Goto(t, Idle)
  /\ UNCHANGED <<data_ref_count, alloc_ref_count, data, freed, arcs, weaks,
                 n, aborted, num_drops, num_frees>>

(***************************************************************************)
(* std::thread::spawn(move || ...) of the test: a thread between           *)
(* operations hands one of its handles to another thread.                  *)
(***************************************************************************)
SendArc(t, u) ==
  /\ Start(t) /\ arcs[t] > 0
  /\ arcs' = [arcs EXCEPT ![t] = @ - 1, ![u] = @ + 1]
  /\ UNCHANGED <<data_ref_count, alloc_ref_count, data, freed, weaks, pc, n,
                 aborted, num_drops, num_frees>>

SendWeak(t, u) ==
  /\ Start(t) /\ weaks[t] > 0
  /\ weaks' = [weaks EXCEPT ![t] = @ - 1, ![u] = @ + 1]
  /\ UNCHANGED <<data_ref_count, alloc_ref_count, data, freed, arcs, pc, n,
                 aborted, num_drops, num_frees>>

(* Every step a thread t can take. *)
Thread(t) ==
  \/ ArcClone(t) \/ WeakClone(t)
  \/ ArcDrop(t) \/ ArcDropData(t) \/ ArcDropWeak(t) \/ WeakDrop(t) \/ Free(t)
  \/ DowngradeLoad(t) \/ DowngradeSpin(t) \/ DowngradePanic(t)
  \/ DowngradeCas(t)
  \/ UpgradeLoad(t) \/ UpgradeFail(t) \/ UpgradeCas(t)
  \/ GetMutLock(t) \/ GetMutLoad(t) \/ GetMutUnlock(t) \/ GetMutRelease(t)
  \/ \E u \in Threads \ {t} : SendArc(t, u) \/ SendWeak(t, u)

Next ==
  \/ \E t \in Threads : ArcClone(t)
  \/ \E t \in Threads : WeakClone(t)
  \/ \E t \in Threads : ArcDrop(t)
  \/ \E t \in Threads : ArcDropData(t)
  \/ \E t \in Threads : ArcDropWeak(t)
  \/ \E t \in Threads : WeakDrop(t)
  \/ \E t \in Threads : Free(t)
  \/ \E t \in Threads : DowngradeLoad(t)
  \/ \E t \in Threads : DowngradeSpin(t)
  \/ \E t \in Threads : DowngradePanic(t)
  \/ \E t \in Threads : DowngradeCas(t)
  \/ \E t \in Threads : UpgradeLoad(t)
  \/ \E t \in Threads : UpgradeFail(t)
  \/ \E t \in Threads : UpgradeCas(t)
  \/ \E t \in Threads : GetMutLock(t)
  \/ \E t \in Threads : GetMutLoad(t)
  \/ \E t \in Threads : GetMutUnlock(t)
  \/ \E t \in Threads : GetMutRelease(t)
  \/ \E t, u \in Threads : t # u /\ SendArc(t, u)
  \/ \E t, u \in Threads : t # u /\ SendWeak(t, u)

(* Each thread keeps running while it has a step to take; no thread is     *)
(* ever descheduled for good (WF per thread, the OS scheduler).            *)
Spec == Init /\ [][Next]_vars /\ \A t \in Threads : WF_vars(Thread(t))

-----------------------------------------------------------------------------
TypeOK ==
  /\ data_ref_count \in 0..UsizeMax
  /\ alloc_ref_count \in 0..UsizeMax
  /\ data \in {"live", "dropped"}
  /\ freed \in BOOLEAN
  /\ arcs \in [Threads -> Nat]
  /\ weaks \in [Threads -> Nat]
  /\ pc \in [Threads -> Steps]
  /\ n \in [Threads -> 0..UsizeMax]
  /\ aborted \in BOOLEAN
  /\ num_drops \in Nat
  /\ num_frees \in Nat

(* Threads between the fetch_sub that took data_ref_count to 0 and the     *)
(* fetch_sub of the implicit weak, and threads holding get_mut's sentinel. *)
ImplicitWeakPending == \E t \in Threads : pc[t] \in {"drop_data", "drop_weak"}
SentinelHeld == \E t \in Threads : pc[t] \in {"gm_load", "gm_store"}

(* Until abort(), the two atomic counters equal what they count: every     *)
(* interleaving of clone, drop, downgrade, upgrade and get_mut keeps       *)
(* data_ref_count equal to the live Arc<T>s, and alloc_ref_count equal to  *)
(* the live Weak<T>s plus one while any Arc<T> or the implicit weak        *)
(* survives, except while get_mut holds usize::MAX, which is then never a  *)
(* legitimate count.                                                       *)
CountsMatch ==
  ~aborted =>
    /\ data_ref_count = LiveArcs
    /\ alloc_ref_count =
         IF SentinelHeld THEN UsizeMax
         ELSE LiveWeaks + (IF LiveArcs > 0 \/ ImplicitWeakPending THEN 1 ELSE 0)

(* The payload and the block are each released at most once, in order:  *)
(* the payload at most once and never while an Arc<T> exists (no upgrade  *)
(* resurrects it), and once the last Arc<T> is gone it is dropped or its   *)
(* dropper is about to; the block at most once, after the payload, when   *)
(* no handle is left and no thread is inside an operation on it (no use   *)
(* after free).                                                            *)
ReleasedOnce ==
  /\ num_drops <= 1
  /\ data = "dropped" => LiveArcs = 0
  /\ (LiveArcs = 0 /\ ~aborted) =>
       (data = "dropped" \/ \E t \in Threads : pc[t] = "drop_data")
  /\ num_frees <= 1
  /\ freed =>
       /\ data = "dropped"
       /\ LiveArcs + LiveWeaks = 0
       /\ \A t \in Threads : pc[t] = Idle

(***************************************************************************)
(* Refinement: the handles, payload and block of this implementation,      *)
(* with the &mut borrow of get_mut as ArcSpec's `mutable`, behave as the   *)
(* atomic operations of ArcSpec, including its fairness (no leak).         *)
(***************************************************************************)
Abstract == INSTANCE ArcSpec
              WITH mutable <- {t \in Threads : pc[t] = "gm_mut"},
                   OverflowLimit <- UsizeMax \div 2,
                   InFlight <- 1  \* the implicit weak of alloc_ref_count

(* Every behaviour of the 06-03 Arc/Weak is a behaviour of ArcSpec: an     *)
(* upgrade only succeeds while a strong handle exists, get_mut only grants *)
(* the sole handle, the payload is dropped after the last Arc and the      *)
(* block freed after the last handle, and both eventually happen.          *)
ImplementsArcSpec == Abstract!Spec

(* Spec section 4.2: downgrade increments alloc_count with "the same       *)
(* overflow-abort policy as clone", so no Weak<T> is created from a count  *)
(* above usize::MAX / 2 and, short of abort(), alloc_ref_count stays at    *)
(* most usize::MAX / 2 + 1 (get_mut's sentinel aside).                     *)
AllocWithinAbortBound ==
  (~aborted /\ ~SentinelHeld) => alloc_ref_count <= UsizeMax \div 2 + 1

(* Spec section 5 calls the spin of Arc::downgrade on get_mut's sentinel a *)
(* bounded busy-wait: a downgrade that has started always returns.         *)
DowngradeReturns == \A t \in Threads : (At(t, "dg_loop")) ~> (pc[t] = Idle)

=============================================================================
