-------------------------- MODULE BackgroundWorker --------------------------
(***************************************************************************)
(* main and one background thread that talk through a Relaxed atomic, in   *)
(* the three programs of src/examples/02-01; a variable fixes which file a *)
(* behaviour runs.                                                         *)
(*   02-01-01     the background thread calls some_work() while           *)
(*                !STOP.load(); main reads commands from stdin until       *)
(*                "stop" (or the end of input), stores STOP = true and     *)
(*                joins it;                                                *)
(*   02-01-02     a scoped thread processes Items items, storing i + 1 to  *)
(*                num_done after each; main loads num_done, breaks at      *)
(*                Items, else prints and sleeps; the scope joins;          *)
(*   02-01-02-01  as 02-01-02, but the worker unparks main after each      *)
(*                store and main waits with park_timeout(1s).              *)
(* A loop iteration that changes nothing the model holds (some_work, a    *)
(* "help" or unknown command, a sleep) is a stutter.  Relaxed loads see    *)
(* the latest store here: each atomic has one writer and the model's steps *)
(* are interleaved.                                                        *)
(***************************************************************************)
EXTENDS Naturals

CONSTANTS
  Variants,  \* the files checked, a subset of AllVariants
  Items      \* the items the worker processes (100 in the code)

AllVariants == {"02-01-01", "02-01-02", "02-01-02-01"}
ASSUME Variants \subseteq AllVariants /\ Items \in Nat \ {0}

Threads == {"main", "worker"}

VARIABLES
  variant,   \* which file's program this behaviour runs (fixed in Init)
  stop,      \* STOP (02-01-01)
  num_done,  \* num_done (02-01-02*)
  i,         \* the worker's loop counter: the item it processes next
  n,         \* main's local n: the progress it last loaded
  token,     \* main's park token (02-01-02-01)
  pc         \* pc[t]: the step thread t executes next

vars == <<variant, stop, num_done, i, n, token, pc>>

Steps == {"read", "store", "check", "process", "unpark", "load", "park",
          "parked", "join", "done"}

Goto(t, s) == pc' = [pc EXCEPT ![t] = s]

Init ==
  /\ variant \in Variants
  /\ stop = FALSE
  /\ num_done = 0
  /\ i = 0
  /\ n = 0
  /\ token = FALSE
  /\ pc = [t \in Threads |->
            IF variant = "02-01-01"
              THEN IF t = "main" THEN "read" ELSE "check"
              ELSE IF t = "main" THEN "load" ELSE "process"]

(* 02-01-01: the background thread loads STOP and, once it is set, returns *)
(* from its loop (while it is clear, some_work() is a stutter).            *)
CheckStop ==
  /\ pc["worker"] = "check" /\ stop
  /\ Goto("worker", "done")
  /\ UNCHANGED <<variant, stop, num_done, i, n, token>>

(* 02-01-01: the command "stop", or the end of stdin, ends main's loop. *)
ReadStop ==
  /\ pc["main"] = "read"
  /\ Goto("main", "store")
  /\ UNCHANGED <<variant, stop, num_done, i, n, token>>

(* STOP.store(true). *)
StoreStop ==
  /\ pc["main"] = "store"
  /\ stop' = TRUE
  /\ Goto("main", "join")
  /\ UNCHANGED <<variant, num_done, i, n, token>>

(* Mutant: the loop runs over 0..=100, one item past the end. *)
AfterStoreInclusive == IF variant = "02-01-02-01" THEN "unpark"
                       ELSE IF i = Items THEN "done" ELSE "process"

(* After process_item(i): where the worker goes next. *)
AfterStore == IF variant = "02-01-02-01" THEN "unpark"
              ELSE IF i + 1 = Items THEN "done" ELSE "process"

(* Mutant: the worker stores i, one less than the items it has done. *)
ProcessOffByOne ==
  /\ pc["worker"] = "process"
  /\ num_done' = i /\ i' = i + 1
  /\ Goto("worker", AfterStore)
  /\ UNCHANGED <<variant, stop, n, token>>

(* for i in 0..100 { process_item(i); num_done.store(i + 1) }. *)
Process ==
  /\ pc["worker"] = "process"
  /\ num_done' = i + 1 /\ i' = i + 1
  /\ Goto("worker", AfterStore)
  /\ UNCHANGED <<variant, stop, n, token>>

(* main_thread.unpark(): wake main if it is parked, else leave the token. *)
Unpark ==
  /\ pc["worker"] = "unpark"
  /\ LET next == IF i = Items THEN "done" ELSE "process"
     IN IF pc["main"] = "parked"
          THEN pc' = [pc EXCEPT !["worker"] = next, !["main"] = "load"]
               /\ UNCHANGED token
          ELSE Goto("worker", next) /\ token' = TRUE
  /\ UNCHANGED <<variant, stop, num_done, i, n>>

(* let n = num_done.load(); if n == 100 break; else print and sleep or     *)
(* park_timeout.                                                           *)
Load ==
  /\ pc["main"] = "load"
  /\ n' = num_done
  /\ Goto("main", CASE num_done = Items -> "join"
                    [] variant = "02-01-02-01" -> "park"
                    [] OTHER -> "load")
  /\ UNCHANGED <<variant, stop, num_done, i, token>>

(* park_timeout: return at once, consuming the token, or block. *)
Park ==
  /\ pc["main"] = "park"
  /\ token' = FALSE
  /\ Goto("main", IF token THEN "load" ELSE "parked")
  /\ UNCHANGED <<variant, stop, num_done, i, n>>

(* park_timeout returns after its timeout (or spuriously). *)
Timeout ==
  /\ pc["main"] = "parked"
  /\ Goto("main", "load")
  /\ UNCHANGED <<variant, stop, num_done, i, n, token>>

(* background_thread.join() / the end of thread::scope. *)
Join ==
  /\ pc["main"] = "join" /\ pc["worker"] = "done"
  /\ Goto("main", "done")
  /\ UNCHANGED <<variant, stop, num_done, i, n, token>>

Worker == CheckStop \/ Process \/ Unpark
Main == StoreStop \/ Load \/ Park \/ Timeout \/ Join

Next == Worker \/ Main \/ ReadStop

(* Both threads are scheduled (WF); park_timeout's timeout fires (WF).     *)
(* Whether and when the user types "stop" is not constrained.              *)
Spec == Init /\ [][Next]_vars /\ WF_vars(Worker) /\ WF_vars(Main)

-----------------------------------------------------------------------------
TypeOK ==
  /\ variant \in Variants
  /\ stop \in BOOLEAN
  /\ num_done \in 0..Items
  /\ i \in 0..Items
  /\ n \in 0..Items
  /\ token \in BOOLEAN
  /\ pc \in [Threads -> Steps]

AllDone == \A t \in Threads : pc[t] = "done"

(* The programs end: in 02-01-02 and 02-01-02-01 main sees num_done reach  *)
(* the item count, leaves its loop and the scope joins the worker, whether *)
(* or not an unpark came before the park; in 02-01-01 both threads end     *)
(* once main has stored STOP.                                              *)
Terminates ==
  /\ variant # "02-01-01" => <>AllDone
  /\ stop ~> AllDone

=============================================================================
