----------------------------- MODULE Statistics -----------------------------
(***************************************************************************)
(* src/examples/02-02-02_statistics.rs: worker threads each process Items  *)
(* items and add every item's time to three statistics (items done, total *)
(* time, peak time) that main polls until all items are done, printing    *)
(* each snapshot.  Two variants:                                           *)
(*   "inaccurate"  three atomics: the worker does fetch_add, fetch_add,    *)
(*                 fetch_max; main loads total, max, then num_done;        *)
(*   "accurate"    one Mutex<Statistics>: the worker updates the three     *)
(*                 fields, and main reads them, each under one lock.       *)
(* The atomics are modelled sequentially consistent (their Relaxed order   *)
(* only makes the inaccurate snapshots staler); the Mutex sections are one *)
(* step each.  process_item's duration is a choice from Times; the sleeps  *)
(* and the formatting of print_statistics are left out.                    *)
(***************************************************************************)
EXTENDS Naturals, Sequences, SequencesExt

CONSTANTS
  Workers,  \* the spawned threads (4 in the code)
  Items,    \* items per thread (25 in the code)
  Times     \* the durations process_item may take

Variants == {"inaccurate", "accurate"}

Total == Cardinality(Workers) * Items   \* the 100 main waits for

VARIABLES
  variant,     \* which function runs, fixed in Init
  num_done,    \* the three statistics
  total_time,
  max_time,
  pc,          \* pc[p]: the step worker p (or main) executes next
  left,        \* left[w]: items worker w has still to process
  time_taken,  \* time_taken[w]: the duration of w's current item
  snap,        \* the values main has loaded so far in this poll
  shown,       \* the snapshot main printed in its last step, if it did
  log          \* the durations of the items counted in num_done, in order

vars == <<variant, num_done, total_time, max_time, pc, left, time_taken,
          snap, shown, log>>

Stats == [n : 0 .. Total, total : Nat, max : Nat]

NoSnap == [n |-> 0, total |-> 0, max |-> 0]

Init ==
  /\ variant \in Variants
  /\ num_done = 0 /\ total_time = 0 /\ max_time = 0
  /\ pc = [p \in Workers \cup {"main"} |->
             IF p = "main" THEN "poll" ELSE "process"]
  /\ left = [w \in Workers |-> Items]
  /\ time_taken = [w \in Workers |-> 0]
  /\ snap = NoSnap
  /\ shown = {}
  /\ log = <<>>

Goto(p, s) == pc' = [pc EXCEPT ![p] = s]

Larger(a, b) == IF a >= b THEN a ELSE b

(* The for loop moves to the next item, or the thread returns. *)
NextItem(w) ==
  /\ left' = [left EXCEPT ![w] = @ - 1]
  /\ Goto(w, IF left[w] = 1 THEN "done" ELSE "process")

(* process_item(..) and start.elapsed(). *)
Process(w) ==
  /\ pc[w] = "process"
  /\ \E d \in Times : time_taken' = [time_taken EXCEPT ![w] = d]
  /\ Goto(w, IF variant = "accurate" THEN "lock" ELSE "num")
  /\ UNCHANGED <<variant, num_done, total_time, max_time, left, snap, shown, log>>

(* num_done.fetch_add(1, Relaxed) *)
AddNum(w) ==
  /\ pc[w] = "num"
  /\ num_done' = num_done + 1
  /\ log' = Append(log, time_taken[w])
  /\ Goto(w, "total")
  /\ UNCHANGED <<variant, total_time, max_time, left, time_taken, snap, shown>>

(* total_time.fetch_add(time_taken, Relaxed) *)
AddTotal(w) ==
  /\ pc[w] = "total"
  /\ total_time' = total_time + time_taken[w]
  /\ Goto(w, "max")
  /\ UNCHANGED <<variant, num_done, max_time, left, time_taken, snap, shown, log>>

(* max_time.fetch_max(time_taken, Relaxed), end of the loop body. *)
AddMax(w) ==
  /\ pc[w] = "max"
  /\ max_time' = Larger(max_time, time_taken[w])
  /\ NextItem(w)
  /\ UNCHANGED <<variant, num_done, total_time, time_taken, snap, shown, log>>

(* Mutant: the peak is overwritten by the latest time. *)
UpdateLockedOverwrite(w) ==
  /\ pc[w] = "lock"
  /\ num_done' = num_done + 1
  /\ total_time' = total_time + time_taken[w]
  /\ max_time' = time_taken[w]
  /\ log' = Append(log, time_taken[w])
  /\ NextItem(w)
  /\ UNCHANGED <<variant, time_taken, snap, shown>>

(* let mut guard = statistics.lock().unwrap(); guard.num_done += 1;       *)
(* guard.total_time += time_taken; guard.max_time = guard.max_time.max(..) *)
UpdateLocked(w) ==
  /\ pc[w] = "lock"
  /\ num_done' = num_done + 1
  /\ total_time' = total_time + time_taken[w]
  /\ max_time' = Larger(max_time, time_taken[w])
  /\ log' = Append(log, time_taken[w])
  /\ NextItem(w)
  /\ UNCHANGED <<variant, time_taken, snap, shown>>

(* if n == 100 { break; } print_statistics(n, total_time, max_time);     *)
(* the loop's locals then go out of scope.                                 *)
BreakOrPrint(s) ==
  /\ Goto("main", IF s.n = Total THEN "done" ELSE "poll")
  /\ shown' = IF s.n = Total THEN {} ELSE {s}
  /\ snap' = NoSnap

(* inaccurate: total_time.load, max_time.load, num_done.load, one a step. *)
LoadTotal ==
  /\ variant = "inaccurate" /\ pc["main"] = "poll"
  /\ snap' = [snap EXCEPT !.total = total_time]
  /\ shown' = {}
  /\ Goto("main", "ld_max")
  /\ UNCHANGED <<variant, num_done, total_time, max_time, left, time_taken, log>>

LoadMax ==
  /\ pc["main"] = "ld_max"
  /\ snap' = [snap EXCEPT !.max = max_time]
  /\ Goto("main", "ld_n")
  /\ UNCHANGED <<variant, num_done, total_time, max_time, left, time_taken, shown, log>>

LoadNum ==
  /\ pc["main"] = "ld_n"
  /\ BreakOrPrint([snap EXCEPT !.n = num_done])
  /\ UNCHANGED <<variant, num_done, total_time, max_time, left, time_taken, log>>

(* accurate: the three fields read under one lock, then drop(guard). *)
ReadLocked ==
  /\ variant = "accurate" /\ pc["main"] = "poll"
  /\ BreakOrPrint([n |-> num_done, total |-> total_time, max |-> max_time])
  /\ UNCHANGED <<variant, num_done, total_time, max_time, left, time_taken, log>>

Worker(w) ==
  Process(w) \/ AddNum(w) \/ AddTotal(w) \/ AddMax(w) \/ UpdateLocked(w)

Main == LoadTotal \/ LoadMax \/ LoadNum \/ ReadLocked

Next == (\E w \in Workers : Worker(w)) \/ Main

Spec == Init /\ [][Next]_vars /\ \A w \in Workers : WF_vars(Worker(w)) /\ WF_vars(Main)

-----------------------------------------------------------------------------
TypeOK ==
  /\ variant \in Variants
  /\ num_done \in 0 .. Total /\ total_time \in Nat /\ max_time \in Nat
  /\ pc \in [Workers \cup {"main"} -> {"process", "num", "total", "max", "lock",
                                       "done", "poll", "ld_max", "ld_n"}]
  /\ left \in [Workers -> 0 .. Items]
  /\ time_taken \in [Workers -> {0} \cup Times]
  /\ snap \in Stats /\ shown \subseteq Stats
  /\ log \in Seq(Times) /\ Len(log) <= Total

(* The statistics of the first n items counted. *)
StatsOf(n) ==
  [n |-> n,
   total |-> FoldSeq(+, 0, SubSeq(log, 1, n)),
   max |-> FoldSeq(Larger, 0, SubSeq(log, 1, n))]

(* With the Mutex, every snapshot main prints is the statistics of the     *)
(* items counted so far: its total and peak are those of exactly the       *)
(* first n items, however the workers' updates and main's polls interleave *)
(* (the atomics of the inaccurate variant promise no such thing).           *)
SnapshotConsistent ==
  variant = "accurate" => \A s \in shown : s = StatsOf(s.n)

(* main's loop ends: every item is counted and main sees n == 100. *)
Terminates == <>(pc["main"] = "done")
=============================================================================
