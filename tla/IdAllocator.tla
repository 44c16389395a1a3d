---------------------------- MODULE IdAllocator ----------------------------
(***************************************************************************)
(* The ID allocators of src/examples/02-02-03 and 02-03-01, called by      *)
(* several threads at once (NEXT_ID is a static, so any thread may call    *)
(* them); a variable fixes which allocator a behaviour runs.               *)
(*   wrap       allocate_new_id_with_wrap_around: NEXT_ID.fetch_add(1);   *)
(*   decrement  allocate_new_id_with_decrement: fetch_add(1), and if the   *)
(*              id is not below the limit, fetch_sub(1) and panic;         *)
(*   cas        02-03-01 allocate_new_id: load, then a loop of assert!(id  *)
(*              < limit) and compare_exchange_weak(id, id + 1), retrying   *)
(*              with the value it found.                                   *)
(* A panic ends the calling thread.  NEXT_ID is a u32, here Width bits     *)
(* wide: fetch_add and fetch_sub wrap.  A spurious failure of              *)
(* compare_exchange_weak reloads the same value and is a stutter.          *)
(* allocate_new_id_with_problem is dead code (its calls in main are        *)
(* commented out) and is not modelled.                                     *)
(***************************************************************************)
EXTENDS Naturals, FiniteSets

CONSTANTS
  Variants,  \* the allocators checked, a subset of AllVariants
  Callers,   \* the threads calling the allocator
  Calls,     \* bound: calls each thread makes
  Limit,     \* the limit of the decrement and cas versions (10, 1000)
  Width      \* the width of NEXT_ID in bits (32)

AllVariants == {"wrap", "decrement", "cas"}
ASSUME Variants \subseteq AllVariants
ASSUME Calls \in Nat \ {0} /\ Limit \in Nat \ {0} /\ Width \in Nat \ {0}

Modulus == 2 ^ Width
Word == 0..Modulus - 1

VARIABLES
  variant,  \* which allocator this behaviour runs (fixed in Init)
  next_id,  \* the static NEXT_ID
  id,       \* id[c]: the local `id` of c's current call
  pc,       \* pc[c]: the step caller c executes next
  calls,    \* calls[c]: calls c has still to make
  issued    \* issued[v]: how many calls have returned the id v

vars == <<variant, next_id, id, pc, calls, issued>>

Steps == {"call", "check", "sub", "assert", "cas", "panicked", "done"}

Goto(c, s) == pc' = [pc EXCEPT ![c] = s]

(* The call returns id[c]; the caller makes its next call or is done. *)
Return(c, v) ==
  /\ issued' = [issued EXCEPT ![v] = @ + 1]
  /\ calls' = [calls EXCEPT ![c] = @ - 1]
  /\ Goto(c, IF calls[c] > 1 THEN "call" ELSE "done")

Init ==
  /\ variant \in Variants
  /\ next_id = 0
  /\ id = [c \in Callers |-> 0]
  /\ pc = [c \in Callers |-> "call"]
  /\ calls = [c \in Callers |-> Calls]
  /\ issued = [v \in Word |-> 0]

(* allocate_new_id_with_wrap_around: NEXT_ID.fetch_add(1), returned. *)
FetchAddWrap(c) ==
  /\ pc[c] = "call" /\ variant = "wrap"
  /\ next_id' = (next_id + 1) % Modulus
  /\ Return(c, next_id)
  /\ UNCHANGED <<variant, id>>

(* allocate_new_id_with_decrement: let id = NEXT_ID.fetch_add(1). *)
FetchAdd(c) ==
  /\ pc[c] = "call" /\ variant = "decrement"
  /\ next_id' = (next_id + 1) % Modulus
  /\ id' = [id EXCEPT ![c] = next_id]
  /\ Goto(c, "check")
  /\ UNCHANGED <<variant, calls, issued>>

(* if 10 <= id { ... } else return id. *)
Check(c) ==
  /\ pc[c] = "check"
  /\ IF Limit <= id[c] THEN Goto(c, "sub") /\ UNCHANGED <<calls, issued>>
                        ELSE Return(c, id[c])
  /\ UNCHANGED <<variant, next_id, id>>

(* NEXT_ID.fetch_sub(1); panic!("too many IDs!"). *)
FetchSub(c) ==
  /\ pc[c] = "sub"
  /\ next_id' = (next_id + Modulus - 1) % Modulus
  /\ Goto(c, "panicked")
  /\ UNCHANGED <<variant, id, calls, issued>>

(* 02-03-01: let mut id = NEXT_ID.load(). *)
Load(c) ==
  /\ pc[c] = "call" /\ variant = "cas"
  /\ id' = [id EXCEPT ![c] = next_id]
  /\ Goto(c, "assert")
  /\ UNCHANGED <<variant, next_id, calls, issued>>

(* assert!(id < 1000, "too many IDs!"). *)
Assert(c) ==
  /\ pc[c] = "assert"
  /\ Goto(c, IF id[c] < Limit THEN "cas" ELSE "panicked")
  /\ UNCHANGED <<variant, next_id, id, calls, issued>>

(* Mutant: the compare_exchange is a plain store of id + 1. *)
CasNoCompare(c) ==
  /\ pc[c] = "cas"
  /\ next_id' = (id[c] + 1) % Modulus
  /\ Return(c, id[c])
  /\ UNCHANGED <<variant, id>>

(* compare_exchange_weak(id, id + 1): Ok returns id, Err(v) sets id = v   *)
(* and loops back to the assert.                                           *)
Cas(c) ==
  /\ pc[c] = "cas"
  /\ IF next_id = id[c]
       THEN /\ next_id' = (id[c] + 1) % Modulus
            /\ Return(c, id[c])
            /\ UNCHANGED id
       ELSE /\ id' = [id EXCEPT ![c] = next_id]
            /\ Goto(c, "assert")
            /\ UNCHANGED <<next_id, calls, issued>>
  /\ UNCHANGED variant

Caller(c) ==
  \/ FetchAddWrap(c) \/ FetchAdd(c) \/ Check(c) \/ FetchSub(c)
  \/ Load(c) \/ Assert(c) \/ Cas(c)

Next == \E c \in Callers : Caller(c)

(* No step blocks; every runnable caller is scheduled (WF). *)
Spec == Init /\ [][Next]_vars /\ \A c \in Callers : WF_vars(Caller(c))

-----------------------------------------------------------------------------
TypeOK ==
  /\ variant \in Variants
  /\ next_id \in Word
  /\ id \in [Callers -> Word]
  /\ pc \in [Callers -> Steps]
  /\ calls \in [Callers -> 0..Calls]
  /\ issued \in [Word -> 0..Cardinality(Callers) * Calls]

(* The decrement and cas versions never return the same id twice nor an   *)
(* id at or above the limit, however the callers' steps interleave: in the *)
(* decrement version NEXT_ID may pass the limit by one per thread between  *)
(* its fetch_add and fetch_sub, and must never wrap round to ids already   *)
(* given out.  (The wrap version repeats ids after 2^Width calls by        *)
(* design.)                                                                *)
UniqueIds ==
  variant # "wrap" =>
    \A v \in Word : issued[v] > 0 => issued[v] = 1 /\ v < Limit

=============================================================================
