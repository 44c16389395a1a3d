----------------------------- MODULE RelaxedLoads -----------------------------
(***************************************************************************)
(* src/examples/03-04_relaxed-ordering.rs ("03-04"): thread a does         *)
(* X.fetch_add(5) then X.fetch_add(10); thread b loads X four times and    *)
(* prints the four values.  03-04_relaxed-ordering2.rs ("03-04-2") splits  *)
(* a into a1 (fetch_add 5) and a2 (fetch_add 10).  Every access is         *)
(* Relaxed; main only spawns and joins, and reads nothing.  The sleeps     *)
(* order nothing and are left out.                                         *)
(***************************************************************************)
EXTENDS Naturals, Sequences, SequencesExt

Variants == {"03-04", "03-04-2"}

Adders == {"a1", "a2"}   \* in 03-04 one thread a runs both adds, a1's first
Loads == 4

Locs == {"X"}
Procs == Adders \cup {"b"}

VARIABLES
  mem, view, kept,  \* the memory: see WeakMemory
  variant,  \* which file, fixed in Init
  pc,       \* pc[p]: "add" or "done" for the adders, "load" or "done" for b
  out       \* the values b loaded, in order

INSTANCE WeakMemory

memvars == <<mem, view, kept>>
vars == <<memvars, variant, pc, out>>

Amount(a) == IF a = "a1" THEN 5 ELSE 10

Init ==
  /\ MemInit([l \in Locs |-> 0])
  /\ variant \in Variants
  /\ pc = [p \in Procs |-> IF p = "b" THEN "load" ELSE "add"]
  /\ out = <<>>

(* Mutant: 03-04's thread a may run its two fetch_adds in either order. *)
AddUnordered(a) ==
  /\ pc[a] = "add"
  /\ RMW(IF variant = "03-04" THEN "a1" ELSE a, "X", LAMBDA v : v + Amount(a), "Relaxed")
  /\ pc' = [pc EXCEPT ![a] = "done"]
  /\ UNCHANGED <<variant, out>>

(* X.fetch_add(5 or 10, Relaxed); in 03-04 the add of 10 follows the add   *)
(* of 5 in the same thread.                                                *)
Add(a) ==
  /\ pc[a] = "add"
  /\ variant = "03-04" /\ a = "a2" => pc["a1"] = "done"
  /\ RMW(IF variant = "03-04" THEN "a1" ELSE a, "X", LAMBDA v : v + Amount(a), "Relaxed")
  /\ pc' = [pc EXCEPT ![a] = "done"]
  /\ UNCHANGED <<variant, out>>

(* let a = X.load(Relaxed); .. let d = X.load(Relaxed); println!(..) *)
LoadX ==
  /\ pc["b"] = "load"
  /\ \E ts \in Readable("b", "X") :
       /\ LoadAt("b", "X", ts, "Relaxed")
       /\ out' = Append(out, mem["X"][ts].val)
  /\ pc' = [pc EXCEPT !["b"] = IF Len(out) + 1 = Loads THEN "done" ELSE "load"]
  /\ UNCHANGED variant

Next == (\E a \in Adders : Add(a)) \/ LoadX

Spec == Init /\ [][Next]_vars /\ WF_vars(Next)

-----------------------------------------------------------------------------
TypeOK ==
  /\ MemTypeOK
  /\ variant \in Variants
  /\ pc \in [Procs -> {"add", "load", "done"}]
  /\ out \in Seq({0, 5, 10, 15})
  /\ Len(out) <= Loads

(* The orders in which X can take its values, as the program's adds     *)
(* produce them: 03-04's thread a adds 5 before 10; 03-04-2's a1 and a2    *)
(* race, so either add may come first.                                     *)
ValueOrders ==
  IF variant = "03-04" THEN {<<0, 5, 15>>}
                       ELSE {<<0, 5, 15>>, <<0, 10, 15>>}

(* Index of value v in the order o. *)
Pos(o, v) == CHOOSE j \in 1 .. Len(o) : o[j] = v

(* b prints "a, b, c, d" as a run of one of those orders, each value       *)
(* repeated or skipped: 03-04 prints only from 0, 5, 15 in that order      *)
(* ("0 5 5 15", never "0 10 .." nor "0 15 5 .."), and 03-04-2 never prints *)
(* both 5 and 10.  It needs a's two adds in program order, each add one    *)
(* atomic read-modify-write, and b's loads never going back in X's order.  *)
PrintsPossibleOutput ==
  \E o \in ValueOrders :
    /\ \A j \in 1 .. Len(out) : out[j] \in ToSet(o)
    /\ \A j \in 1 .. Len(out) - 1 : Pos(o, out[j]) <= Pos(o, out[j + 1])
====
