---------------------------- MODULE SeqCstFlags ----------------------------
(***************************************************************************)
(* src/examples/03-07_sequentially-consistent.rs: thread a stores A = true *)
(* and, if it then loads B == false, pushes '!' to the static mut String   *)
(* S; thread b does the same with the flags swapped; main joins a, then b. *)
(* All four operations are SeqCst, so the model's interleaving of single   *)
(* steps is exact.  S.push is not atomic: a read of the length and a write *)
(* of the new byte, so that two pushes at once are visible as a race.      *)
(***************************************************************************)
EXTENDS Naturals

Threads == {"a", "b"}

(* The flag a thread stores, and the one it loads. *)
Own(t) == IF t = "a" THEN "A" ELSE "B"
Other(t) == IF t = "a" THEN "B" ELSE "A"

VARIABLES
  flag,  \* flag["A"], flag["B"]: the statics A and B
  len,   \* S.len(): the '!'s pushed to S
  seen,  \* seen[t]: the length t's push read
  pc     \* pc[t]: the step thread t (or main) executes next

vars == <<flag, len, seen, pc>>

Steps == {"store", "load", "push_read", "push_write", "join", "done"}

Goto(t, s) == pc' = [pc EXCEPT ![t] = s]

Init ==
  /\ flag = [f \in {"A", "B"} |-> FALSE]
  /\ len = 0
  /\ seen = [t \in Threads |-> 0]
  /\ pc = [t \in Threads \cup {"main"} |-> IF t = "main" THEN "join" ELSE "store"]

(* Mutant: the store stays in the store buffer past the load of the other *)
(* flag, as it may when the orderings are weaker than SeqCst.              *)
StoreBuffered(t) ==
  /\ pc[t] = "store"
  /\ Goto(t, "load")
  /\ UNCHANGED <<flag, len, seen>>

(* A.store(true, SeqCst). *)
Store(t) ==
  /\ pc[t] = "store"
  /\ flag' = [flag EXCEPT ![Own(t)] = TRUE]
  /\ Goto(t, "load")
  /\ UNCHANGED <<len, seen>>

(* if !B.load(SeqCst) { S.push('!') }. *)
LoadOther(t) ==
  /\ pc[t] = "load"
  /\ Goto(t, IF flag[Other(t)] THEN "done" ELSE "push_read")
  /\ UNCHANGED <<flag, len, seen>>

(* S.push('!'): read the length, then write the byte after it. *)
PushRead(t) ==
  /\ pc[t] = "push_read"
  /\ seen' = [seen EXCEPT ![t] = len]
  /\ Goto(t, "push_write")
  /\ UNCHANGED <<flag, len>>

PushWrite(t) ==
  /\ pc[t] = "push_write"
  /\ len' = seen[t] + 1
  /\ Goto(t, "done")
  /\ UNCHANGED <<flag, seen>>

(* a.join(); b.join(). *)
Join ==
  /\ pc["main"] = "join" /\ \A t \in Threads : pc[t] = "done"
  /\ Goto("main", "done")
  /\ UNCHANGED <<flag, len, seen>>

Thread(t) == Store(t) \/ LoadOther(t) \/ PushRead(t) \/ PushWrite(t)

Next == (\E t \in Threads : Thread(t)) \/ Join

(* Every runnable thread is scheduled (WF); no step blocks but the join. *)
Spec == Init /\ [][Next]_vars /\ \A t \in Threads : WF_vars(Thread(t))
        /\ WF_vars(Join)

-----------------------------------------------------------------------------
TypeOK ==
  /\ flag \in [{"A", "B"} -> BOOLEAN]
  /\ len \in 0..2
  /\ seen \in [Threads -> 0..2]
  /\ pc \in [Threads \cup {"main"} -> Steps]

(* The total order of SeqCst operations lets at most one thread see the    *)
(* other's flag still false: the two pushes to S never overlap (no data    *)
(* race on the static mut) and S ends with at most one '!'.                *)
AtMostOnePush ==
  /\ ~(\A t \in Threads : pc[t] \in {"push_read", "push_write"})
  /\ len <= 1

=============================================================================
