----------------------------- MODULE FenceReady -----------------------------
(***************************************************************************)
(* src/examples/03-08_fence.rs: main spawns N threads; thread i computes   *)
(* some_calculation(i) = i * i, writes it to the static mut DATA[i] and    *)
(* stores READY[i] = true with Release.  main sleeps, loads every READY[i] *)
(* with Relaxed and, if any was true, issues one fence(Acquire) and reads  *)
(* DATA[i] for each i it saw ready.  main does not join the threads.       *)
(* The sleeps only make readiness likely; they order nothing, so main's    *)
(* loads may run at any point of the threads.  The spawns happen before    *)
(* anything is written, so each thread starts with the empty view.         *)
(***************************************************************************)
EXTENDS Naturals, Sequences

CONSTANT N  \* the threads spawned (10 in the code)

ASSUME N \in Nat \ {0}

Idx == 0 .. N - 1
Main == N

DATA(i) == <<"DATA", i>>
READY(i) == <<"READY", i>>

Locs == {DATA(i) : i \in Idx} \cup {READY(i) : i \in Idx}
Procs == Idx \cup {Main}

VARIABLES
  mem, view, kept,  \* the memory: see WeakMemory
  pc,       \* pc[p]: the step thread p (or main) executes next
  k,        \* main's loop index
  ready,    \* ready[i]: what main's Relaxed load of READY[i] returned
  printed   \* printed[i]: the DATA[i] main printed, {} before it reads it

INSTANCE WeakMemory

memvars == <<mem, view, kept>>
vars == <<memvars, pc, k, ready, printed>>

some_calculation(i) == i * i

Init ==
  /\ MemInit([l \in Locs |-> IF l[1] = "DATA" THEN 0 ELSE FALSE])
  /\ pc = [p \in Procs |-> IF p = Main THEN "load" ELSE "write"]
  /\ k = 0
  /\ ready = [i \in Idx |-> FALSE]
  /\ printed = [i \in Idx |-> {}]

Goto(p, s) == pc' = [pc EXCEPT ![p] = s]

(* unsafe { DATA[i] = data; } *)
WriteData(i) ==
  /\ pc[i] = "write"
  /\ Store(i, DATA(i), some_calculation(i), "Relaxed")
  /\ Goto(i, "ready")
  /\ UNCHANGED <<k, ready, printed>>

(* READY[i].store(true, Release). *)
SetReady(i) ==
  /\ pc[i] = "ready"
  /\ Store(i, READY(i), TRUE, "Release")
  /\ Goto(i, "exited")
  /\ UNCHANGED <<k, ready, printed>>

(* std::array::from_fn(|i| READY[i].load(Relaxed)), one load per step;    *)
(* then ready.contains(&true) decides whether the fence and reads follow.  *)
LoadReady ==
  /\ pc[Main] = "load"
  /\ \E ts \in Readable(Main, READY(k)) :
       LET r == mem[READY(k)][ts].val
           ready2 == [ready EXCEPT ![k] = r]
       IN  /\ LoadAt(Main, READY(k), ts, "Relaxed")
           /\ ready' = ready2
           /\ IF k + 1 < N
                THEN k' = k + 1 /\ UNCHANGED pc
                ELSE /\ k' = 0
                     /\ Goto(Main, IF \E i \in Idx : ready2[i] THEN "fence" ELSE "done")
  /\ UNCHANGED printed

(* Mutant: the fence is left out. *)
NoFence ==
  /\ pc[Main] = "fence"
  /\ Goto(Main, "read")
  /\ UNCHANGED <<memvars, k, ready, printed>>

(* fence(Acquire). *)
Fence ==
  /\ pc[Main] = "fence"
  /\ FenceAcquire(Main)
  /\ Goto(Main, "read")
  /\ UNCHANGED <<k, ready, printed>>

(* for i in 0..10 { if ready[i] { println!(.., DATA[i]) } } *)
ReadData ==
  /\ pc[Main] = "read"
  /\ IF ready[k]
       THEN \E ts \in Readable(Main, DATA(k)) :
              /\ LoadAt(Main, DATA(k), ts, "Relaxed")
              /\ printed' = [printed EXCEPT ![k] = {mem[DATA(k)][ts].val}]
       ELSE UNCHANGED <<memvars, printed>>
  /\ IF k + 1 < N THEN k' = k + 1 /\ UNCHANGED pc
                  ELSE k' = k /\ Goto(Main, "done")
  /\ UNCHANGED ready

Worker(i) == WriteData(i) \/ SetReady(i)

Next ==
  \/ \E i \in Idx : Worker(i)
  \/ LoadReady \/ Fence \/ ReadData

Spec == Init /\ [][Next]_vars /\ WF_vars(LoadReady \/ Fence \/ ReadData)

-----------------------------------------------------------------------------
TypeOK ==
  /\ MemTypeOK
  /\ pc \in [Procs -> {"write", "ready", "exited", "load", "fence", "read", "done"}]
  /\ k \in Idx
  /\ ready \in [Idx -> BOOLEAN]
  /\ printed \in [Idx -> SUBSET Nat]

(* The Release store of READY[i], main's Relaxed load of it and the one    *)
(* fence(Acquire) after all the loads make thread i's write of DATA[i]      *)
(* happen before main's read: every DATA[i] main prints is i * i, never    *)
(* the initial 0 or a racing value.                                         *)
FenceDataVisible ==
  \A i \in Idx : printed[i] \subseteq {some_calculation(i)}
=============================================================================
