----------------------------- MODULE WeakMemory -----------------------------
(***************************************************************************)
(* The part of the Rust (C++20) memory model the ordering examples of      *)
(* src/examples rely on, as a view machine: every location keeps the       *)
(* sequence of values written to it (its modification order), and every   *)
(* thread a view, the oldest position of each location it may still read. *)
(*   - A load may return any message at or after the thread's view of the  *)
(*     location, and raises the view to it (coherence).                    *)
(*   - A Release store or RMW attaches the writer's whole view to its      *)
(*     message; an Acquire load or RMW that reads it joins that view into  *)
(*     its own (synchronises-with).  A Relaxed read keeps it aside, and    *)
(*     fence(Acquire) joins what the earlier Relaxed reads kept aside.    *)
(*   - An RMW reads the last message and writes right after it, carrying   *)
(*     on the view of the message it read (release sequences).            *)
(*   - spawn hands the parent's view to the child; join hands the child's  *)
(*     view back.                                                          *)
(* A write takes the next position of its location's modification order.  *)
(* That is exact for locations written only by RMWs or by a single thread; *)
(* elsewhere it leaves out orders where a plain store lands before a write *)
(* that already happened.  Load buffering is not modelled.  Non-atomic     *)
(* accesses are loads and stores with Relaxed order: a non-atomic read     *)
(* that can still return an older message is a data race.                  *)
(***************************************************************************)
EXTENDS Naturals, Sequences, Functions

CONSTANTS
  Locs,   \* the memory locations (atomics and plain statics)
  Procs   \* the threads, main included

VARIABLES
  mem,    \* mem[l]: the messages written to l, oldest first
  view,   \* view[p][l]: the first message of l that p may still read
  kept    \* kept[p]: the view fence(Acquire) would give p

Bottom == [l \in Locs |-> 1]

Join(v, w) == Pointwise(v, w, LAMBDA a, b : IF a >= b THEN a ELSE b)

(* The view that knows only position ts of l. *)
At(l, ts) == [Bottom EXCEPT ![l] = ts]

Acquires(ord) == ord \in {"Acquire", "AcqRel", "SeqCst"}
Releases(ord) == ord \in {"Release", "AcqRel", "SeqCst"}

MemInit(init) ==
  /\ mem = [l \in Locs |-> <<[val |-> init[l], view |-> Bottom]>>]
  /\ view = [p \in Procs |-> Bottom]
  /\ kept = [p \in Procs |-> Bottom]

LastMsg(l) == mem[l][Len(mem[l])]
Latest(l) == LastMsg(l).val

(* The positions of l that p may read. *)
Readable(p, l) == view[p][l] .. Len(mem[l])

(* p reads position ts of l. *)
LoadAt(p, l, ts, ord) ==
  LET seen == Join(view[p], At(l, ts))
      mv == mem[l][ts].view
  IN  /\ ts \in Readable(p, l)
      /\ view' = [view EXCEPT ![p] = IF Acquires(ord) THEN Join(seen, mv) ELSE seen]
      /\ kept' = [kept EXCEPT ![p] = Join(Join(@, seen), mv)]
      /\ UNCHANGED mem

(* p appends val to l. *)
Store(p, l, val, ord) ==
  LET ts == Len(mem[l]) + 1
      nv == Join(view[p], At(l, ts))
  IN  /\ mem' = [mem EXCEPT ![l] =
                   Append(@, [val |-> val,
                              view |-> IF Releases(ord) THEN nv ELSE At(l, ts)])]
      /\ view' = [view EXCEPT ![p] = nv]
      /\ kept' = [kept EXCEPT ![p] = Join(@, nv)]

(* p replaces the last value v of l by F(v). *)
RMW(p, l, F(_), ord) ==
  LET m == LastMsg(l)
      ts == Len(mem[l]) + 1
      seen == Join(view[p], At(l, ts))
      nv == IF Acquires(ord) THEN Join(seen, m.view) ELSE seen
      rv == IF Releases(ord) THEN nv ELSE At(l, ts)
  IN  /\ mem' = [mem EXCEPT ![l] =
                   Append(@, [val |-> F(m.val), view |-> Join(rv, m.view)])]
      /\ view' = [view EXCEPT ![p] = nv]
      /\ kept' = [kept EXCEPT ![p] = Join(Join(@, seen), m.view)]

FenceAcquire(p) ==
  /\ view' = [view EXCEPT ![p] = Join(@, kept[p])]
  /\ UNCHANGED <<mem, kept>>

(* thread::spawn: what p did before happens before all of c. *)
SpawnView(p, c) ==
  /\ view' = [view EXCEPT ![c] = view[p]]
  /\ kept' = [kept EXCEPT ![c] = view[p]]
  /\ UNCHANGED mem

(* join: all of c happens before what p does after. *)
JoinView(p, c) ==
  /\ view' = [view EXCEPT ![p] = Join(@, view[c])]
  /\ kept' = [kept EXCEPT ![p] = Join(@, view[c])]
  /\ UNCHANGED mem

(* The end of thread::scope: all of the threads S happen before what p   *)
(* does after.                                                             *)
JoinAllViews(p, S) ==
  LET Top(N) == CHOOSE n \in N : \A m \in N : m <= n
      jv == [l \in Locs |-> Top({view[q][l] : q \in S \cup {p}})]
  IN  /\ view' = [view EXCEPT ![p] = jv]
      /\ kept' = [kept EXCEPT ![p] = Join(@, jv)]
      /\ UNCHANGED mem

MemTypeOK ==
  /\ \A l \in Locs : mem[l] # <<>>
  /\ view \in [Procs -> [Locs -> Nat \ {0}]]
  /\ kept \in [Procs -> [Locs -> Nat \ {0}]]
=============================================================================
