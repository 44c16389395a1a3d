--------------------------- MODULE MCAtomicPrograms ---------------------------
(***************************************************************************)
(* The small atomic programs of src/examples checked in one run:           *)
(*   ids   IdAllocator (02-02-03, 02-03-01): three callers making three    *)
(*         calls each; NEXT_ID 3 bits wide and a limit of 5, the largest   *)
(*         limit for which three callers cannot wrap NEXT_ID (7 = MAX);    *)
(*   lazy  LazyInit (02-03-02, 03-05-02): three threads racing to          *)
(*         initialise the static;                                          *)
(*   sc    SeqCstFlags (03-07);                                            *)
(*   bg    BackgroundWorker (all three 02-01 files), 3 items;              *)
(*   queue QueueChannel (05-01, 01-08-01, 01-08-02), five messages;        *)
(*   fence FenceReady (03-08), three threads;                              *)
(*   spin  FencedSpinCounter (07-04-03), two threads, two rounds each;     *)
(*   spawn SpawnJoin (03-03-01);                                           *)
(*   relax RelaxedLoads (03-04, 03-04 2);                                  *)
(*   stats Statistics (02-02-02), three workers, one item each, an item   *)
(*         taking 1 or 2;                                                  *)
(*   arc   ArcOrdering (06-03), two threads of one operation and one    *)
(*         read each, three handles at most;                               *)
(*   chan  OneshotOrdering (05-02 .. 05-06), one sender, one receiver;     *)
(*   futex FutexWake (08-03-01), main waiting on a, one thread waking it.  *)
(* prog picks, in the initial state, which program a behaviour runs; the   *)
(* others stay in one initial state, so the state spaces add up.           *)
(***************************************************************************)
EXTENDS TLC

Progs == {"ids", "lazy", "sc", "bg", "queue", "fence", "spin", "spawn", "relax", "stats", "arc", "chan", "futex"}

IdCallers == {"c1", "c2", "c3"}
LzThreads == {"t1", "t2", "t3"}
ScThreads == {"a", "b"}
FsThreads == {"t1", "t2"}
StWorkers == {"w1", "w2", "w3"}
AoThreads == {"t1", "t2"}

VARIABLES
  prog,  \* the program this behaviour runs, fixed in Init
  id_variant, id_next_id, id_id, id_pc, id_calls, id_issued,
  lz_variant, lz_static, lz_p, lz_pc, lz_allocated, lz_freed, lz_ret,
  sc_flag, sc_len, sc_seen, sc_pc,
  bw_variant, bw_stop, bw_num_done, bw_i, bw_n, bw_token, bw_pc,
  qc_variant, qc_queue, qc_i, qc_received, qc_waiters, qc_token, qc_pc,
  fr_mem, fr_view, fr_kept, fr_pc, fr_k, fr_ready, fr_printed,
  fs_mem, fs_view, fs_kept, fs_variant, fs_pc, fs_left, fs_old, fs_result,
  sj_mem, sj_view, sj_kept, sj_pc, sj_x,
  rl_mem, rl_view, rl_kept, rl_variant, rl_pc, rl_out,
  st_variant, st_num_done, st_total_time, st_max_time, st_pc, st_left,
  st_time_taken, st_snap, st_shown, st_log,
  ao_mem, ao_view, ao_kept, ao_arcs, ao_weaks, ao_pc, ao_unique, ao_ops,
  ao_freed, ao_races,
  oo_mem, oo_view, oo_kept, oo_variant, oo_pc, oo_got, oo_races,
  fw_a, fw_queue, fw_pc

Id == INSTANCE IdAllocator
  WITH Variants <- {"wrap", "decrement", "cas"}, Callers <- IdCallers,
       Calls <- 3, Limit <- 5, Width <- 3,
       variant <- id_variant,
       next_id <- id_next_id,
       id <- id_id,
       pc <- id_pc,
       calls <- id_calls,
       issued <- id_issued

Lz == INSTANCE LazyInit
  WITH Variants <- {"02-03-02", "03-05-02"}, Threads <- LzThreads,
       variant <- lz_variant,
       static <- lz_static,
       p <- lz_p,
       pc <- lz_pc,
       allocated <- lz_allocated,
       freed <- lz_freed,
       ret <- lz_ret

Sc == INSTANCE SeqCstFlags
  WITH flag <- sc_flag,
       len <- sc_len,
       seen <- sc_seen,
       pc <- sc_pc

Bw == INSTANCE BackgroundWorker
  WITH Variants <- {"02-01-01", "02-01-02", "02-01-02-01"}, Items <- 3,
       variant <- bw_variant,
       stop <- bw_stop,
       num_done <- bw_num_done,
       i <- bw_i,
       n <- bw_n,
       token <- bw_token,
       pc <- bw_pc

Qc == INSTANCE QueueChannel
  WITH Variants <- {"05-01", "01-08-02", "01-08-01"}, Messages <- 5,
       variant <- qc_variant,
       queue <- qc_queue,
       i <- qc_i,
       received <- qc_received,
       waiters <- qc_waiters,
       token <- qc_token,
       pc <- qc_pc

Fr == INSTANCE FenceReady
  WITH N <- 3, mem <- fr_mem, view <- fr_view, kept <- fr_kept, pc <- fr_pc,
       k <- fr_k, ready <- fr_ready, printed <- fr_printed

Fs == INSTANCE FencedSpinCounter
  WITH Threads <- FsThreads, Iters <- 2,
       mem <- fs_mem, view <- fs_view, kept <- fs_kept, variant <- fs_variant,
       pc <- fs_pc, left <- fs_left, old <- fs_old, result <- fs_result

Sj == INSTANCE SpawnJoin
  WITH mem <- sj_mem, view <- sj_view, kept <- sj_kept, pc <- sj_pc, x <- sj_x

Rl == INSTANCE RelaxedLoads
  WITH mem <- rl_mem, view <- rl_view, kept <- rl_kept, variant <- rl_variant,
       pc <- rl_pc, out <- rl_out

St == INSTANCE Statistics
  WITH Workers <- StWorkers, Items <- 1, Times <- {1, 2},
       variant <- st_variant, num_done <- st_num_done,
       total_time <- st_total_time, max_time <- st_max_time, pc <- st_pc,
       left <- st_left, time_taken <- st_time_taken, snap <- st_snap,
       shown <- st_shown, log <- st_log

Ao == INSTANCE ArcOrdering
  WITH Threads <- AoThreads, Ops <- 1, Reads <- 1, MaxHandles <- 3,
       mem <- ao_mem, view <- ao_view, kept <- ao_kept, arcs <- ao_arcs,
       weaks <- ao_weaks, pc <- ao_pc, unique <- ao_unique, ops <- ao_ops,
       freed <- ao_freed, races <- ao_races

Oo == INSTANCE OneshotOrdering
  WITH mem <- oo_mem, view <- oo_view, kept <- oo_kept, variant <- oo_variant,
       pc <- oo_pc, got <- oo_got, races <- oo_races

Fw == INSTANCE FutexWake WITH a <- fw_a, queue <- fw_queue, pc <- fw_pc

idvars == <<id_variant, id_next_id, id_id, id_pc, id_calls, id_issued>>
lzvars == <<lz_variant, lz_static, lz_p, lz_pc, lz_allocated, lz_freed, lz_ret>>
scvars == <<sc_flag, sc_len, sc_seen, sc_pc>>
bwvars == <<bw_variant, bw_stop, bw_num_done, bw_i, bw_n, bw_token, bw_pc>>
qcvars == <<qc_variant, qc_queue, qc_i, qc_received, qc_waiters, qc_token, qc_pc>>
frvars == <<fr_mem, fr_view, fr_kept, fr_pc, fr_k, fr_ready, fr_printed>>
fsvars == <<fs_mem, fs_view, fs_kept, fs_variant, fs_pc, fs_left, fs_old, fs_result>>
sjvars == <<sj_mem, sj_view, sj_kept, sj_pc, sj_x>>
rlvars == <<rl_mem, rl_view, rl_kept, rl_variant, rl_pc, rl_out>>
stvars == <<st_variant, st_num_done, st_total_time, st_max_time, st_pc, st_left,
            st_time_taken, st_snap, st_shown, st_log>>
aovars == <<ao_mem, ao_view, ao_kept, ao_arcs, ao_weaks, ao_pc, ao_unique,
            ao_ops, ao_freed, ao_races>>
oovars == <<oo_mem, oo_view, oo_kept, oo_variant, oo_pc, oo_got, oo_races>>
fwvars == <<fw_a, fw_queue, fw_pc>>
vars == <<prog, idvars, lzvars, scvars, bwvars, qcvars,
          frvars, fsvars, sjvars, rlvars, stvars, aovars, oovars, fwvars>>

(* A program that is not chosen sits in one initial state. *)
Init ==
  /\ prog \in Progs
  /\ Id!Init /\ Lz!Init /\ Sc!Init /\ Bw!Init /\ Qc!Init
  /\ Fr!Init /\ Fs!Init /\ Sj!Init /\ Rl!Init /\ St!Init /\ Ao!Init /\ Oo!Init
  /\ Fw!Init
  /\ prog # "chan" => oo_variant = "05-02"
  /\ prog # "arc" => ao_arcs = [t \in AoThreads |-> 1]
  /\ prog # "ids" => id_variant = "wrap"
  /\ prog # "lazy" => lz_variant = "02-03-02"
  /\ prog # "bg" => bw_variant = "02-01-02"
  /\ prog # "queue" => qc_variant = "05-01"
  /\ prog # "spin" => fs_variant = "acqrel"
  /\ prog # "relax" => rl_variant = "03-04"
  /\ prog # "stats" => st_variant = "accurate"

(* A step of one program leaves every other program alone. *)
IdStep(c) == prog = "ids" /\ Id!Caller(c)
  /\ UNCHANGED <<prog, lzvars, scvars, bwvars, qcvars, frvars, fsvars, sjvars, rlvars, stvars, aovars, oovars, fwvars>>
LzStep(t) == prog = "lazy" /\ Lz!Thread(t)
  /\ UNCHANGED <<prog, idvars, scvars, bwvars, qcvars, frvars, fsvars, sjvars, rlvars, stvars, aovars, oovars, fwvars>>
ScStep(A) == prog = "sc" /\ A
  /\ UNCHANGED <<prog, idvars, lzvars, bwvars, qcvars, frvars, fsvars, sjvars, rlvars, stvars, aovars, oovars, fwvars>>
BwStep(A) == prog = "bg" /\ A
  /\ UNCHANGED <<prog, idvars, lzvars, scvars, qcvars, frvars, fsvars, sjvars, rlvars, stvars, aovars, oovars, fwvars>>
QcStep(A) == prog = "queue" /\ A
  /\ UNCHANGED <<prog, idvars, lzvars, scvars, bwvars, frvars, fsvars, sjvars, rlvars, stvars, aovars, oovars, fwvars>>
FrStep(A) == prog = "fence" /\ A
  /\ UNCHANGED <<prog, idvars, lzvars, scvars, bwvars, qcvars, fsvars, sjvars, rlvars, stvars, aovars, oovars, fwvars>>
FsStep(A) == prog = "spin" /\ A
  /\ UNCHANGED <<prog, idvars, lzvars, scvars, bwvars, qcvars, frvars, sjvars, rlvars, stvars, aovars, oovars, fwvars>>
SjStep(A) == prog = "spawn" /\ A
  /\ UNCHANGED <<prog, idvars, lzvars, scvars, bwvars, qcvars, frvars, fsvars, rlvars, stvars, aovars, oovars, fwvars>>
RlStep(A) == prog = "relax" /\ A
  /\ UNCHANGED <<prog, idvars, lzvars, scvars, bwvars, qcvars, frvars, fsvars, sjvars, stvars, aovars, oovars, fwvars>>
AoStep(A) == prog = "arc" /\ A
  /\ UNCHANGED <<prog, idvars, lzvars, scvars, bwvars, qcvars, frvars, fsvars, sjvars, rlvars, stvars, oovars, fwvars>>
OoStep(A) == prog = "chan" /\ A
  /\ UNCHANGED <<prog, idvars, lzvars, scvars, bwvars, qcvars, frvars, fsvars, sjvars, rlvars, stvars, aovars, fwvars>>
FwStep(A) == prog = "futex" /\ A
  /\ UNCHANGED <<prog, idvars, lzvars, scvars, bwvars, qcvars, frvars, fsvars, sjvars, rlvars, stvars, aovars, oovars>>
StStep(A) == prog = "stats" /\ A
  /\ UNCHANGED <<prog, idvars, lzvars, scvars, bwvars, qcvars, frvars, fsvars, sjvars, rlvars, aovars, oovars, fwvars>>

Next ==
  \/ \E c \in IdCallers : IdStep(c)
  \/ \E t \in LzThreads : LzStep(t)
  \/ ScStep(Sc!Next)
  \/ BwStep(Bw!Next)
  \/ QcStep(Qc!Next)
  \/ FrStep(Fr!Next)
  \/ FsStep(Fs!Next)
  \/ SjStep(Sj!Next)
  \/ RlStep(Rl!Next)
  \/ StStep(St!Next)
  \/ \E t \in AoThreads : AoStep(Ao!Thread(t))
  \/ OoStep(Oo!Next)
  \/ FwStep(Fw!Next)

(* The fairness of each program's own specification, for the program      *)
(* chosen: WF per thread; park_timeout's timeout fires; the user is free; *)
(* spurious wake-ups of wait and park get none.                            *)
Spec ==
  /\ Init /\ [][Next]_vars
  /\ \A c \in IdCallers : WF_vars(IdStep(c))
  /\ \A t \in LzThreads : WF_vars(LzStep(t))
  /\ \A t \in ScThreads : WF_vars(ScStep(Sc!Thread(t)))
  /\ WF_vars(ScStep(Sc!Join))
  /\ WF_vars(BwStep(Bw!Worker)) /\ WF_vars(BwStep(Bw!Main))
  /\ WF_vars(QcStep(Qc!Producer)) /\ WF_vars(QcStep(Qc!Consumer))
  /\ WF_vars(QcStep(Qc!Join))
  /\ WF_vars(FrStep(Fr!LoadReady \/ Fr!Fence \/ Fr!ReadData))
  /\ \A t \in FsThreads : WF_vars(FsStep(Fs!Thread(t)))
  /\ WF_vars(FsStep(Fs!JoinScope)) /\ WF_vars(FsStep(Fs!IntoInner))
  /\ WF_vars(SjStep(Sj!Main)) /\ WF_vars(SjStep(Sj!F))
  /\ WF_vars(RlStep(Rl!Next))
  /\ \A w \in StWorkers : WF_vars(StStep(St!Worker(w)))
  /\ WF_vars(StStep(St!Main))
  /\ \A t \in AoThreads : WF_vars(AoStep(Ao!Thread(t)))
  /\ WF_vars(OoStep(Oo!Sender)) /\ WF_vars(OoStep(Oo!ReceiverStep))
  /\ WF_vars(OoStep(Oo!Main))
  /\ WF_vars(FwStep(Fw!Worker)) /\ WF_vars(FwStep(Fw!Main))

-----------------------------------------------------------------------------
(* Every program's type invariant. *)
TypeOK ==
  /\ Id!TypeOK /\ Lz!TypeOK /\ Sc!TypeOK /\ Bw!TypeOK /\ Qc!TypeOK
  /\ Fr!TypeOK /\ Fs!TypeOK /\ Sj!TypeOK /\ Rl!TypeOK /\ St!TypeOK
  /\ Ao!TypeOK /\ Oo!TypeOK /\ Fw!TypeOK

(* IdAllocator: the decrement and cas allocators never hand out an id     *)
(* twice or one at or above the limit, with NEXT_ID at its maximum.        *)
UniqueIds == Id!UniqueIds

(* LazyInit: every get_key / get_data returns the first value published.   *)
AllAgree == Lz!AllAgree

(* LazyInit: no box of get_data is dropped while published or referenced, *)
(* and none is leaked once every call has returned.                        *)
BoxesAccounted == Lz!BoxesAccounted

(* SeqCstFlags: the SeqCst store/load pairs let at most one thread push to *)
(* S, so the pushes never race.                                            *)
AtMostOnePush == Sc!AtMostOnePush

(* The programs end: BackgroundWorker's progress programs, and the        *)
(* stop-flag program once STOP is stored; Statistics' polling loop sees    *)
(* every item done; the spin-locked counter's threads all leave the spin   *)
(* and main prints; the Arc threads drop every handle and the block is    *)
(* freed; 08-03-01's main leaves its futex wait loop, so wake_one is not   *)
(* lost.                                                                   *)
Terminates ==
  /\ prog = "bg" => Bw!Terminates
  /\ prog = "stats" => St!Terminates
  /\ prog = "spin" => Fs!Terminates
  /\ prog = "arc" => Ao!BlockFreed
  /\ prog = "futex" => Fw!Finishes

(* QueueChannel: every message pushed is received once, in order, and     *)
(* 05-01's threads and joins return.                                       *)
AllReceived == prog = "queue" => Qc!AllReceived

(* FenceReady: every DATA[i] main prints after its fence is i * i. *)
FenceDataVisible == Fr!FenceDataVisible

(* FencedSpinCounter: with Acquire/Release no increment is lost. *)
CounterExact == Fs!CounterExact

(* SpawnJoin: f's assert!(x == 1 || x == 2) never fails. *)
SpawnAssertHolds == Sj!SpawnAssertHolds

(* RelaxedLoads: b prints a run of an order in which the adds can take X. *)
PrintsPossibleOutput == Rl!PrintsPossibleOutput

(* Statistics: with the Mutex, every printed snapshot is exact. *)
SnapshotConsistent == St!SnapshotConsistent

(* ArcOrdering: every access to the payload and the free of 06-03's block  *)
(* happen after the conflicting accesses of the other threads.             *)
ArcNoDataRace == Ao!NoDataRace

(* OneshotOrdering: the publishing Release store and the receiver's        *)
(* Acquire order every access to the channel's slot.                       *)
SlotAccessOrdered == Oo!SlotAccessOrdered
=============================================================================
