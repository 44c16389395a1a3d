------------------------------ MODULE SpawnJoin ------------------------------
(***************************************************************************)
(* src/examples/03-03-01_starting-thread-and-joining.rs: main stores X = 1 *)
(* (Relaxed), spawns f, stores X = 2, joins f and stores X = 3; f loads X  *)
(* (Relaxed) and asserts it is 1 or 2.  Only spawn and join order the two  *)
(* threads.                                                                *)
(***************************************************************************)
EXTENDS Naturals, Sequences

Locs == {"X"}
Procs == {"main", "f"}

VARIABLES
  mem, view, kept,  \* the memory: see WeakMemory
  pc,     \* pc[p]: the step of main or f executed next
  x       \* the value f loaded

INSTANCE WeakMemory

memvars == <<mem, view, kept>>
vars == <<memvars, pc, x>>

Init ==
  /\ MemInit([l \in Locs |-> 0])
  /\ pc = [p \in Procs |-> IF p = "main" THEN "store1" ELSE "unspawned"]
  /\ x = 0

Goto(p, s) == pc' = [pc EXCEPT ![p] = s]

(* X.store(1), X.store(2) after the spawn, X.store(3) after the join. *)
StoreX ==
  /\ pc["main"] \in {"store1", "store2", "store3"}
  /\ Store("main", "X", CASE pc["main"] = "store1" -> 1
                          [] pc["main"] = "store2" -> 2
                          [] pc["main"] = "store3" -> 3, "Relaxed")
  /\ Goto("main", CASE pc["main"] = "store1" -> "spawn"
                    [] pc["main"] = "store2" -> "join"
                    [] pc["main"] = "store3" -> "done")
  /\ UNCHANGED x

(* Mutant: f starts without what main did before the spawn. *)
SpawnNoView ==
  /\ pc["main"] = "spawn"
  /\ pc' = [pc EXCEPT !["main"] = "store2", !["f"] = "load"]
  /\ UNCHANGED <<memvars, x>>

(* let t = thread::spawn(f); *)
Spawn ==
  /\ pc["main"] = "spawn"
  /\ SpawnView("main", "f")
  /\ pc' = [pc EXCEPT !["main"] = "store2", !["f"] = "load"]
  /\ UNCHANGED x

(* t.join().unwrap(): returns once f has returned, or re-raises its panic. *)
JoinF ==
  /\ pc["main"] = "join" /\ pc["f"] \in {"done", "panicked"}
  /\ JoinView("main", "f")
  /\ Goto("main", IF pc["f"] = "done" THEN "store3" ELSE "panicked")
  /\ UNCHANGED x

(* let x = X.load(Relaxed); assert!(x == 1 || x == 2); *)
F ==
  /\ pc["f"] = "load"
  /\ \E ts \in Readable("f", "X") :
       /\ LoadAt("f", "X", ts, "Relaxed")
       /\ x' = mem["X"][ts].val
       /\ Goto("f", IF x' \in {1, 2} THEN "done" ELSE "panicked")

Main == StoreX \/ Spawn \/ JoinF

Next == Main \/ F

Spec == Init /\ [][Next]_vars /\ WF_vars(Main) /\ WF_vars(F)

-----------------------------------------------------------------------------
TypeOK ==
  /\ MemTypeOK
  /\ pc \in [Procs -> {"store1", "spawn", "store2", "join", "store3", "done",
                       "unspawned", "load", "panicked"}]
  /\ x \in 0 .. 3

(* The spawn orders X = 1 before f's load and the join orders it before    *)
(* X = 3, so f's assert never fails: it reads 1 or 2, whichever of main's  *)
(* stores races it, and never the initial 0 or the 3 stored after join.    *)
SpawnAssertHolds == pc["f"] # "panicked"
=============================================================================
