----------------------------- MODULE ArcOrdering -----------------------------
(***************************************************************************)
(* The memory orderings of src/examples/06-03_optimization.rs, on the      *)
(* WeakMemory view machine.  OptimizedArc checks the counting protocol of  *)
(* the same code with sequentially consistent steps; this module keeps     *)
(* each atomic instruction's Ordering and asks the question the orderings  *)
(* answer: does every access to the payload (a read through Deref, the     *)
(* write through get_mut's &mut T, the drop of T) and the deallocation of  *)
(* the block happen after every conflicting access of the other threads?  *)
(*                                                                         *)
(* Locations: the two counters, the payload "data", and one marker per     *)
(* thread, named by the thread, that it writes at each read of the         *)
(* payload.  A read races when a write to "data" is not in the reader's    *)
(* view; a write (or the free) races when a write to "data" or a read      *)
(* marker of another thread is not in the writer's view.                   *)
(*                                                                         *)
(* The handles are created by main before it spawns the threads, so the    *)
(* initial messages are in every view.  Failed compare_exchange_weak       *)
(* retries and downgrade's spin on the sentinel are left out: a CAS step   *)
(* is taken when it succeeds.  The counts stay far below the clone/abort   *)
(* bounds, which OptimizedArc checks.                                      *)
(***************************************************************************)
EXTENDS Naturals, Sequences, FiniteSets, Functions

CONSTANTS
  Threads,     \* the threads owning handles
  Ops,         \* bound: operations (clone, downgrade, upgrade, get_mut)
               \* each thread starts; drops are not bounded
  Reads,       \* bound: reads of the payload by each thread
  MaxHandles   \* bound: handles live at once

ASSUME Ops \in Nat /\ Reads \in Nat /\ MaxHandles \in Nat /\ MaxHandles >= Cardinality(Threads)

UsizeMax == 1000   \* usize::MAX, get_mut's sentinel: no count reaches it

Locs == {"drc", "alloc", "data"} \cup Threads
Procs == Threads

VARIABLES
  mem, view, kept,  \* the memory: see WeakMemory
  arcs,    \* arcs[t]: Arc<T> handles thread t owns
  weaks,   \* weaks[t]: Weak<T> handles thread t owns
  pc,      \* pc[t]: the step thread t executes next
  unique,  \* unique[t]: get_mut's is_unique
  ops,     \* ops[t]: operations thread t has started
  freed,   \* the ArcData box has been deallocated
  races    \* the threads that made a racing access

INSTANCE WeakMemory

memvars == <<mem, view, kept>>
vars == <<memvars, arcs, weaks, pc, unique, ops, freed, races>>

Idle == "idle"

(* Arc::new, then clones and downgrades by main before the spawns, each   *)
(* handle moved into one thread: every thread owns one handle, one of them *)
(* an Arc.                                                                 *)
Init ==
  /\ arcs \in [Threads -> 0 .. 1]
  /\ weaks = [t \in Threads |-> 1 - arcs[t]]
  /\ SumFunction(arcs) >= 1
  /\ MemInit([l \in Locs |->
        CASE l = "drc" -> SumFunction(arcs)
          [] l = "alloc" -> SumFunction(weaks) + 1
          [] OTHER -> 0])
  /\ pc = [t \in Threads |-> Idle]
  /\ unique = [t \in Threads |-> FALSE]
  /\ ops = [t \in Threads |-> 0]
  /\ freed = FALSE
  /\ races = {}

Goto(t, s) == pc' = [pc EXCEPT ![t] = s]

(* Thread t starts an operation: it is between operations, has budget,   *)
(* and, if the operation creates a handle, one more may live.             *)
Start(t) ==
  /\ pc[t] = Idle /\ ops[t] < Ops
  /\ ops' = [ops EXCEPT ![t] = @ + 1]
CanCreate == SumFunction(arcs) + SumFunction(weaks) < MaxHandles

(* Every write to l happens before what t does next. *)
Sees(t, l) == view[t][l] = Len(mem[l])

ReadRaces(t) == ~Sees(t, "data")
WriteRaces(t) == ReadRaces(t) \/ \E q \in Threads \ {t} : ~Sees(t, q)

Flag(t, racy) == races' = IF racy THEN races \cup {t} ELSE races

(* Deref: &*self.data().data.get(), a plain read of the payload; t's     *)
(* marker holds one message per read.                                      *)
Deref(t) ==
  /\ pc[t] = Idle /\ arcs[t] > 0 /\ Len(mem[t]) <= Reads
  /\ Flag(t, ReadRaces(t))
  /\ Store(t, t, "read", "Relaxed")
  /\ UNCHANGED <<arcs, weaks, pc, unique, ops, freed>>

(* Arc::clone: data_ref_count.fetch_add(1, Relaxed). *)
ArcClone(t) ==
  /\ arcs[t] > 0 /\ CanCreate /\ Start(t)
  /\ RMW(t, "drc", LAMBDA v : v + 1, "Relaxed")
  /\ arcs' = [arcs EXCEPT ![t] = @ + 1]
  /\ UNCHANGED <<weaks, pc, unique, freed, races>>

(* Arc::downgrade: the compare_exchange_weak(n, n + 1, Acquire, Relaxed)   *)
(* that succeeds, once alloc_ref_count is no longer the sentinel.          *)
Downgrade(t) ==
  /\ arcs[t] > 0 /\ CanCreate /\ Latest("alloc") # UsizeMax /\ Start(t)
  /\ RMW(t, "alloc", LAMBDA v : v + 1, "Acquire")
  /\ weaks' = [weaks EXCEPT ![t] = @ + 1]
  /\ UNCHANGED <<arcs, pc, unique, freed, races>>

(* Weak::upgrade: the Relaxed compare_exchange_weak(n, n + 1) that         *)
(* succeeds, or the load of 0 that returns None.                           *)
Upgrade(t) ==
  /\ weaks[t] > 0 /\ CanCreate /\ Start(t)
  /\ \/ /\ Latest("drc") > 0
        /\ RMW(t, "drc", LAMBDA v : v + 1, "Relaxed")
        /\ arcs' = [arcs EXCEPT ![t] = @ + 1]
     \/ /\ Latest("drc") = 0
        /\ LoadAt(t, "drc", Len(mem["drc"]), "Relaxed")
        /\ UNCHANGED arcs
  /\ UNCHANGED <<weaks, pc, unique, freed, races>>

(* Drop for Arc: data_ref_count.fetch_sub(1, Release); the thread that    *)
(* took it from 1 goes on to drop T.                                       *)
ArcDrop(t) ==
  /\ pc[t] = Idle /\ arcs[t] > 0
  /\ RMW(t, "drc", LAMBDA v : v - 1, "Release")
  /\ arcs' = [arcs EXCEPT ![t] = @ - 1]
  /\ Goto(t, IF Latest("drc") = 1 THEN "drop_fence" ELSE Idle)
  /\ UNCHANGED <<weaks, unique, ops, freed, races>>

(* fence(Acquire) at step from, then on to step to. *)
Fence(t, from, to) ==
  /\ pc[t] = from
  /\ FenceAcquire(t)
  /\ Goto(t, to)
  /\ UNCHANGED <<arcs, weaks, unique, ops, freed, races>>

(* Drop for Arc: fence(Acquire) before dropping T. *)
ArcDropFence(t) == Fence(t, "drop_fence", "drop_data")

(* Drop for Weak: fence(Acquire) before freeing the box. *)
WeakDropFence(t) == Fence(t, "free_fence", "free")

(* get_mut: fence(Acquire) before returning the &mut T. *)
GetMutFence(t) == Fence(t, "gm_fence", "gm_mut")

(* ManuallyDrop::drop(&mut *self.data().data.get()), then the implicit    *)
(* Weak is dropped.                                                        *)
ArcDropData(t) ==
  /\ pc[t] = "drop_data"
  /\ Flag(t, WriteRaces(t))
  /\ Store(t, "data", "dropped", "Relaxed")
  /\ Goto(t, "drop_weak")
  /\ UNCHANGED <<arcs, weaks, unique, ops, freed>>

(* Drop for Weak, of a Weak<T> of t or of the implicit one:               *)
(* alloc_ref_count.fetch_sub(1, Release); from 1 the box is freed.         *)
WeakDrop(t) ==
  /\ \/ pc[t] = Idle /\ weaks[t] > 0 /\ weaks' = [weaks EXCEPT ![t] = @ - 1]
     \/ pc[t] = "drop_weak" /\ UNCHANGED weaks
  /\ RMW(t, "alloc", LAMBDA v : v - 1, "Release")
  /\ Goto(t, IF Latest("alloc") = 1 THEN "free_fence" ELSE Idle)
  /\ UNCHANGED <<arcs, unique, ops, freed, races>>

(* drop(Box::from_raw(self.ptr.as_ptr())): the deallocation writes the   *)
(* whole block.                                                            *)
Free(t) ==
  /\ pc[t] = "free"
  /\ Flag(t, WriteRaces(t))
  /\ Store(t, "data", "freed", "Relaxed")
  /\ freed' = TRUE
  /\ Goto(t, Idle)
  /\ UNCHANGED <<arcs, weaks, unique, ops>>

(* Mutant: get_mut's compare_exchange succeeds with Relaxed. *)
GetMutLockRelaxed(t) ==
  /\ arcs[t] > 0 /\ Start(t)
  /\ \/ /\ Latest("alloc") = 1
        /\ RMW(t, "alloc", LAMBDA v : UsizeMax, "Relaxed")
        /\ Goto(t, "gm_load")
     \/ /\ Latest("alloc") # 1
        /\ LoadAt(t, "alloc", Len(mem["alloc"]), "Relaxed")
        /\ UNCHANGED pc
  /\ UNCHANGED <<arcs, weaks, unique, freed, races>>

(* Arc::get_mut: compare_exchange(1, usize::MAX, Acquire, Relaxed); a     *)
(* failure is a Relaxed load of the current value and returns None.        *)
GetMutLock(t) ==
  /\ arcs[t] > 0 /\ Start(t)
  /\ \/ /\ Latest("alloc") = 1
        /\ RMW(t, "alloc", LAMBDA v : UsizeMax, "Acquire")
        /\ Goto(t, "gm_load")
     \/ /\ Latest("alloc") # 1
        /\ LoadAt(t, "alloc", Len(mem["alloc"]), "Relaxed")
        /\ UNCHANGED pc
  /\ UNCHANGED <<arcs, weaks, unique, freed, races>>

(* let is_unique = data_ref_count.load(Relaxed) == 1; *)
GetMutLoad(t) ==
  /\ pc[t] = "gm_load"
  /\ \E ts \in Readable(t, "drc") :
       /\ LoadAt(t, "drc", ts, "Relaxed")
       /\ unique' = [unique EXCEPT ![t] = mem["drc"][ts].val = 1]
  /\ Goto(t, "gm_store")
  /\ UNCHANGED <<arcs, weaks, ops, freed, races>>

(* alloc_ref_count.store(1, Release); if !is_unique return None; then     *)
(* fence(Acquire).                                                         *)
GetMutStore(t) ==
  /\ pc[t] = "gm_store"
  /\ Store(t, "alloc", 1, "Release")
  /\ Goto(t, IF unique[t] THEN "gm_fence" ELSE Idle)
  /\ UNCHANGED <<arcs, weaks, unique, ops, freed, races>>

(* Some(&mut *arc.data().data.get()): the caller writes the payload. *)
GetMutWrite(t) ==
  /\ pc[t] = "gm_mut"
  /\ Flag(t, WriteRaces(t))
  /\ Store(t, "data", "written", "Relaxed")
  /\ Goto(t, Idle)
  /\ UNCHANGED <<arcs, weaks, unique, ops, freed>>

Thread(t) ==
  \/ Deref(t) \/ ArcClone(t) \/ Downgrade(t) \/ Upgrade(t)
  \/ ArcDrop(t) \/ ArcDropFence(t) \/ ArcDropData(t) \/ WeakDrop(t) \/ Free(t)
  \/ WeakDropFence(t)
  \/ GetMutLock(t) \/ GetMutLoad(t) \/ GetMutStore(t) \/ GetMutFence(t) \/ GetMutWrite(t)

Next == \E t \in Threads : Thread(t)

(* Each thread runs until it has dropped its handles at the end of its     *)
(* closure.                                                                *)
Spec == Init /\ [][Next]_vars /\ \A t \in Threads : WF_vars(Thread(t))

-----------------------------------------------------------------------------
TypeOK ==
  /\ MemTypeOK
  /\ arcs \in [Threads -> 0 .. MaxHandles] /\ weaks \in [Threads -> 0 .. MaxHandles]
  /\ pc \in [Threads -> {Idle, "drop_fence", "drop_data", "drop_weak", "free_fence",
                         "free", "gm_load", "gm_store", "gm_fence", "gm_mut"}]
  /\ unique \in [Threads -> BOOLEAN]
  /\ ops \in [Threads -> 0 .. Ops]
  /\ freed \in BOOLEAN
  /\ races \subseteq Threads

(* The orderings of the counters order every access to the payload and   *)
(* the free after every conflicting access of another thread: the Release *)
(* fetch_subs with the fence(Acquire) of Drop and of get_mut, and get_mut's *)
(* Acquire compare_exchange, which makes its Relaxed load of               *)
(* data_ref_count see an upgrade whose Weak was dropped before.            *)
NoDataRace == races = {}

(* Every handle is dropped and the last drop frees the box. *)
BlockFreed == <>freed
====
