------------------------------- MODULE ArcSpec -------------------------------
(***************************************************************************)
(* What a shared-ownership pointer with weak references promises, with     *)
(* every operation one atomic step on the handles themselves: no counters, *)
(* no sentinel, no intermediate steps.  The implementations of             *)
(* src/examples/06-0*.rs are shown to refine it through a mapping of their *)
(* handles, payload, block and &mut borrow onto these variables.           *)
(***************************************************************************)
EXTENDS Naturals, Functions

CONSTANTS
  Threads,       \* the threads that own handles
  OverflowLimit, \* abort() is allowed only once a count exceeds this
  InFlight       \* how far an implementation's counters may run ahead of
                 \* the handles: increments of operations not yet finished

VARIABLES
  arcs,      \* arcs[t]: strong handles owned by thread t
  weaks,     \* weaks[t]: weak handles owned by thread t
  data,      \* the payload: "live" or "dropped"
  freed,     \* the shared allocation has been released
  mutable,   \* threads holding the &mut T handed out by get_mut
  aborted    \* the process aborted on a counter overflow

vars == <<arcs, weaks, data, freed, mutable, aborted>>

Strong == SumFunction(arcs)
Weak == SumFunction(weaks)

(* A thread that is not borrowing its handle mutably and the process runs. *)
Free(t) == ~aborted /\ t \notin mutable

AddArc(t, k) == arcs' = [arcs EXCEPT ![t] = @ + k]
AddWeak(t, k) == weaks' = [weaks EXCEPT ![t] = @ + k]

Init ==
  /\ \E t0 \in Threads : arcs = [t \in Threads |-> IF t = t0 THEN 1 ELSE 0]
  /\ weaks = [t \in Threads |-> 0]
  /\ data = "live"
  /\ freed = FALSE
  /\ mutable = {}
  /\ aborted = FALSE

Clone(t) ==
  /\ Free(t) /\ arcs[t] > 0 /\ AddArc(t, 1)
  /\ UNCHANGED <<weaks, data, freed, mutable, aborted>>

Drop(t) ==
  /\ Free(t) /\ arcs[t] > 0 /\ AddArc(t, -1)
  /\ UNCHANGED <<weaks, data, freed, mutable, aborted>>

Downgrade(t) ==
  /\ Free(t) /\ arcs[t] > 0 /\ AddWeak(t, 1)
  /\ UNCHANGED <<arcs, data, freed, mutable, aborted>>

WeakClone(t) ==
  /\ Free(t) /\ weaks[t] > 0 /\ AddWeak(t, 1)
  /\ UNCHANGED <<arcs, data, freed, mutable, aborted>>

WeakDrop(t) ==
  /\ Free(t) /\ weaks[t] > 0 /\ AddWeak(t, -1)
  /\ UNCHANGED <<arcs, data, freed, mutable, aborted>>

(* An upgrade succeeds only while some strong handle exists. *)
Upgrade(t) ==
  /\ Free(t) /\ weaks[t] > 0 /\ Strong > 0 /\ AddArc(t, 1)
  /\ UNCHANGED <<weaks, data, freed, mutable, aborted>>

(* get_mut grants &mut T only to the owner of the one and only handle. *)
GetMut(t) ==
  /\ Free(t) /\ arcs[t] = 1 /\ Strong = 1 /\ Weak = 0
  /\ mutable' = mutable \cup {t}
  /\ UNCHANGED <<arcs, weaks, data, freed, aborted>>

ReleaseMut(t) ==
  /\ ~aborted /\ t \in mutable
  /\ mutable' = mutable \ {t}
  /\ UNCHANGED <<arcs, weaks, data, freed, aborted>>

Send(t, u) ==
  /\ Free(t)
  /\ \/ arcs[t] > 0 /\ arcs' = [arcs EXCEPT ![t] = @ - 1, ![u] = @ + 1]
                    /\ UNCHANGED weaks
     \/ weaks[t] > 0 /\ weaks' = [weaks EXCEPT ![t] = @ - 1, ![u] = @ + 1]
                     /\ UNCHANGED arcs
  /\ UNCHANGED <<data, freed, mutable, aborted>>

(* The payload is destroyed once no strong handle is left. *)
DropData ==
  /\ ~aborted /\ Strong = 0 /\ data = "live"
  /\ data' = "dropped"
  /\ UNCHANGED <<arcs, weaks, freed, mutable, aborted>>

(* The allocation is released once no handle of either kind is left. *)
Release ==
  /\ ~aborted /\ Strong + Weak = 0 /\ data = "dropped" /\ ~freed
  /\ freed' = TRUE
  /\ UNCHANGED <<arcs, weaks, data, mutable, aborted>>

(* abort() only when the handles, with the operations still in flight,    *)
(* approach the overflow limit of a counter.                              *)
Abort ==
  /\ ~aborted /\ Strong + Weak + InFlight > OverflowLimit
  /\ aborted' = TRUE
  /\ UNCHANGED <<arcs, weaks, data, freed, mutable>>

Next ==
  \/ \E t \in Threads :
       \/ Clone(t) \/ Drop(t) \/ Downgrade(t) \/ WeakClone(t) \/ WeakDrop(t)
       \/ Upgrade(t) \/ GetMut(t) \/ ReleaseMut(t)
  \/ \E t, u \in Threads : t # u /\ Send(t, u)
  \/ DropData \/ Release \/ Abort

(* The payload is eventually dropped once no strong handle is left, and    *)
(* the allocation eventually released once no handle is left: no leak.     *)
Spec == Init /\ [][Next]_vars /\ WF_vars(DropData) /\ WF_vars(Release)

=============================================================================
