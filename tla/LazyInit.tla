----------------------------- MODULE LazyInit -----------------------------
(***************************************************************************)
(* Racy lazy initialisation of a static with compare_exchange, called by   *)
(* several threads at once; a variable fixes which file a behaviour runs.  *)
(*   02-03-02  get_key: load KEY; if 0, generate_random_key() (which       *)
(*             returns 42) and compare_exchange(0, new_key): Ok returns    *)
(*             new_key, Err(k) returns k;                                  *)
(*   03-05-02  get_data (main spawns 100 scoped threads): load PTR; if     *)
(*             null, Box::into_raw a fresh Data and compare_exchange(null, *)
(*             p); on Err(e) drop the own box and use e; return &*p.       *)
(* The value 0 is 0 or the null pointer; a box is a positive number.       *)
(***************************************************************************)
EXTENDS Naturals, FiniteSets

CONSTANTS
  Variants,  \* the files checked, a subset of AllVariants
  Threads    \* the threads calling get_key / get_data

AllVariants == {"02-03-02", "03-05-02"}
ASSUME Variants \subseteq AllVariants

Null == 0
Key == 42   \* generate_random_key()
Boxes == 1..Cardinality(Threads)

VARIABLES
  variant,    \* which file's program this behaviour runs (fixed in Init)
  static,     \* KEY (02-03-02) or PTR (03-05-02)
  p,          \* p[t]: the local key / new_key / p of thread t
  pc,         \* pc[t]: the step thread t executes next
  allocated,  \* the boxes Box::into_raw has leaked so far
  freed,      \* the boxes dropped again
  ret         \* ret[t]: what get_key / get_data returned to t, or Null

vars == <<variant, static, p, pc, allocated, freed, ret>>

Steps == {"load", "init", "cas", "deref", "done"}

Goto(t, s) == pc' = [pc EXCEPT ![t] = s]

Init ==
  /\ variant \in Variants
  /\ static = Null
  /\ p = [t \in Threads |-> Null]
  /\ pc = [t \in Threads |-> "load"]
  /\ allocated = {}
  /\ freed = {}
  /\ ret = [t \in Threads |-> Null]

(* let key = KEY.load() / let mut p = PTR.load(Acquire); a value already  *)
(* there is returned (get_data dereferences it first).                     *)
Load(t) ==
  /\ pc[t] = "load"
  /\ p' = [p EXCEPT ![t] = static]
  /\ Goto(t, CASE static = Null -> "init"
               [] variant = "03-05-02" -> "deref"
               [] OTHER -> "done")
  /\ ret' = IF static # Null /\ variant = "02-03-02"
              THEN [ret EXCEPT ![t] = static] ELSE ret
  /\ UNCHANGED <<variant, static, allocated, freed>>

(* generate_random_key(), or Box::into_raw(Box::new(generate_data())):    *)
(* a fresh box, never allocated before.                                    *)
Generate(t) ==
  /\ pc[t] = "init"
  /\ IF variant = "02-03-02"
       THEN p' = [p EXCEPT ![t] = Key] /\ UNCHANGED allocated
       ELSE LET b == Cardinality(allocated) + 1
            IN p' = [p EXCEPT ![t] = b] /\ allocated' = allocated \cup {b}
  /\ Goto(t, "cas")
  /\ UNCHANGED <<variant, static, freed, ret>>

(* Mutant: the compare_exchange is a plain store of the new value. *)
CasAsStore(t) ==
  /\ pc[t] = "cas"
  /\ static' = p[t]
  /\ Goto(t, IF variant = "02-03-02" THEN "done" ELSE "deref")
  /\ ret' = IF variant = "02-03-02" THEN [ret EXCEPT ![t] = p[t]] ELSE ret
  /\ UNCHANGED <<variant, p, allocated, freed>>

(* Mutant: the loser drops the box it found instead of its own. *)
CasDropWinner(t) ==
  /\ pc[t] = "cas"
  /\ IF static = Null
       THEN static' = p[t] /\ UNCHANGED <<p, freed>>
       ELSE /\ freed' = IF variant = "03-05-02" THEN freed \cup {static}
                                               ELSE freed
            /\ p' = [p EXCEPT ![t] = static]
            /\ UNCHANGED static
  /\ Goto(t, IF variant = "02-03-02" THEN "done" ELSE "deref")
  /\ ret' = IF variant = "02-03-02"
              THEN [ret EXCEPT ![t] = IF static = Null THEN p[t] ELSE static]
              ELSE ret
  /\ UNCHANGED <<variant, allocated>>

(* compare_exchange(0 / null, new): Ok keeps the own value; Err(e) takes   *)
(* e, and get_data first drops its own box (drop(Box::from_raw(p))).       *)
Cas(t) ==
  /\ pc[t] = "cas"
  /\ IF static = Null
       THEN static' = p[t] /\ UNCHANGED <<p, freed>>
       ELSE /\ freed' = IF variant = "03-05-02" THEN freed \cup {p[t]} ELSE freed
            /\ p' = [p EXCEPT ![t] = static]
            /\ UNCHANGED static
  /\ Goto(t, IF variant = "02-03-02" THEN "done" ELSE "deref")
  /\ ret' = IF variant = "02-03-02"
              THEN [ret EXCEPT ![t] = IF static = Null THEN p[t] ELSE static]
              ELSE ret
  /\ UNCHANGED <<variant, allocated>>

(* unsafe { &*p }: get_data returns a reference into the box p. *)
Deref(t) ==
  /\ pc[t] = "deref"
  /\ ret' = [ret EXCEPT ![t] = p[t]]
  /\ Goto(t, "done")
  /\ UNCHANGED <<variant, static, p, allocated, freed>>

Thread(t) == Load(t) \/ Generate(t) \/ Cas(t) \/ Deref(t)

Next == \E t \in Threads : Thread(t)

(* No step blocks; every runnable thread is scheduled (WF). *)
Spec == Init /\ [][Next]_vars /\ \A t \in Threads : WF_vars(Thread(t))

-----------------------------------------------------------------------------
TypeOK ==
  /\ variant \in Variants
  /\ static \in {Null, Key} \cup Boxes
  /\ p \in [Threads -> {Null, Key} \cup Boxes]
  /\ pc \in [Threads -> Steps]
  /\ allocated \subseteq Boxes /\ freed \subseteq allocated
  /\ ret \in [Threads -> {Null, Key} \cup Boxes]

(* However the threads race, every call returns the one value that was     *)
(* published in the static first: no two threads get different keys or    *)
(* different Data, and what they get is what the static holds.             *)
AllAgree ==
  \A t \in Threads : ret[t] # Null => ret[t] = static

(* Every box get_data allocated is accounted for: the published one is     *)
(* never dropped, a loser's box is dropped once it has lost, and no thread *)
(* is left with a reference into a dropped box.  When every call has       *)
(* returned, the published box is the only one left (no leak).             *)
BoxesAccounted ==
  /\ static \notin freed
  /\ \A t \in Threads : pc[t] \in {"deref", "done"} => p[t] \notin freed
  /\ (\A t \in Threads : pc[t] = "done") =>
       allocated \ freed = allocated \cap {static}

=============================================================================
