------------------------------ MODULE FutexWake ------------------------------
(***************************************************************************)
(* The main of src/examples/08-03-01_futex.rs.  A scoped thread sleeps,    *)
(* stores 1 into a and calls wake_one(&a); main loops                      *)
(*   while a.load(Relaxed) == 0 { wait(&a, 0) }                            *)
(* and prints "Done!", and the scope then joins the thread.                *)
(* wait is FUTEX_WAIT: the kernel compares a with the expected value and   *)
(* puts the caller to sleep in one step, or returns at once; a sleeper may *)
(* also return without a wake (EINTR, spurious).  wake_one is FUTEX_WAKE   *)
(* with 1: it wakes one sleeper, if any.  There is one location and the    *)
(* kernel orders FUTEX_WAIT's compare against FUTEX_WAKE, so the steps are *)
(* modelled sequentially consistent.  The three-second sleep and the       *)
(* prints change no state and are left out.                                *)
(***************************************************************************)
EXTENDS Naturals

Procs == {"main", "worker"}

VARIABLES
  a,      \* the AtomicU32 a
  queue,  \* the threads asleep in FUTEX_WAIT on a
  pc      \* pc[p]: the step p executes next

vars == <<a, queue, pc>>

Init ==
  /\ a = 0
  /\ queue = {}
  /\ pc = [p \in Procs |-> IF p = "main" THEN "load" ELSE "store"]

Goto(p, s) == pc' = [pc EXCEPT ![p] = s]

(* The spawned thread: a.store(1, Relaxed) after its sleep. *)
Store ==
  /\ pc["worker"] = "store"
  /\ a' = 1
  /\ Goto("worker", "wake")
  /\ UNCHANGED queue

(* The spawned thread: wake_one(&a). *)
WakeOne ==
  /\ pc["worker"] = "wake"
  /\ IF queue = {}
       THEN Goto("worker", "done") /\ UNCHANGED queue
       ELSE \E w \in queue :
              /\ queue' = queue \ {w}
              /\ pc' = [pc EXCEPT !["worker"] = "done", ![w] = "load"]
  /\ UNCHANGED a

(* main: the loop test a.load(Relaxed) == 0. *)
Load ==
  /\ pc["main"] = "load"
  /\ Goto("main", IF a = 0 THEN "wait" ELSE "join")
  /\ UNCHANGED <<a, queue>>

(* Mutant: wait(&a, 0) sleeps without comparing a with 0. *)
WaitUnchecked ==
  /\ pc["main"] = "wait"
  /\ queue' = queue \cup {"main"}
  /\ Goto("main", "sleep")
  /\ UNCHANGED a

(* main: wait(&a, 0), asleep if a is still 0, else back to the test. *)
Wait ==
  /\ pc["main"] = "wait"
  /\ IF a = 0
       THEN queue' = queue \cup {"main"} /\ Goto("main", "sleep")
       ELSE UNCHANGED queue /\ Goto("main", "load")
  /\ UNCHANGED a

(* FUTEX_WAIT returns without a wake. *)
SpuriousWake ==
  /\ "main" \in queue
  /\ queue' = queue \ {"main"}
  /\ Goto("main", "load")
  /\ UNCHANGED a

(* The end of thread::scope: main joins the spawned thread. *)
JoinScope ==
  /\ pc["main"] = "join"
  /\ pc["worker"] = "done"
  /\ Goto("main", "done")
  /\ UNCHANGED <<a, queue>>

Worker == Store \/ WakeOne
Main == Load \/ Wait \/ JoinScope

Next == Worker \/ Main \/ SpuriousWake

(* Both threads run when runnable; a sleeper is not runnable, and nothing  *)
(* makes spurious wake-ups happen.                                         *)
Spec == Init /\ [][Next]_vars /\ WF_vars(Worker) /\ WF_vars(Main)

-----------------------------------------------------------------------------
TypeOK ==
  /\ a \in {0, 1}
  /\ queue \subseteq {"main"}
  /\ pc \in [Procs -> {"store", "wake", "load", "wait", "sleep", "join", "done"}]

(* main leaves its wait loop and the scope ends, whichever order the store *)
(* and wake_one take against main's load and FUTEX_WAIT: a wake that finds *)
(* no sleeper is not lost, because FUTEX_WAIT then sees a = 1.             *)
Finishes == <>(pc["main"] = "done")
====
