--------------------------- MODULE OneshotOrdering ---------------------------
(***************************************************************************)
(* The memory orderings of the one-shot channels of src/examples/05-02 to  *)
(* 05-06 and their mains, on the WeakMemory view machine.  OneshotChannel  *)
(* checks the protocols with sequentially consistent steps; this module    *)
(* keeps each atomic's Ordering and asks whether the receiver's read of    *)
(* the MaybeUninit slot, and the drop of the channel, happen after the     *)
(* sender's write of it:                                                   *)
(*   05-02    ready.store(true, Release); is_ready loads with Acquire and  *)
(*            receive only reads the slot;                                 *)
(*   05-03rt  in_use.swap(true, Relaxed); is_ready Relaxed; receive        *)
(*            ready.swap(false, Acquire);                                  *)
(*   05-03st  compare_exchange(EMPTY, WRITING, Relaxed), store(READY,      *)
(*            Release); is_ready Relaxed; receive compare_exchange(READY,  *)
(*            READING, Acquire, Relaxed);                                  *)
(*   05-04, 05-05  as 05-03rt without in_use;                              *)
(*   05-06    receive loops on ready.swap(false, Acquire).                 *)
(* One sending thread and one receiving thread, as in the mains.  park and *)
(* unpark are left out: they may add ordering, so without them every race  *)
(* the code could have is still found.  05-06's swaps that read false (and *)
(* write false back) are left out: the receiver swaps once true is the     *)
(* last value.  The drop of the channel comes after the scope's joins (or  *)
(* 05-02's and 05-04's Arc drops, which order it after both threads).      *)
(***************************************************************************)
EXTENDS Naturals, Sequences

Variants == {"05-02", "05-03rt", "05-03st", "05-04", "05-05", "05-06"}

(* The state byte of 05-03st. *)
EMPTY == 0
WRITING == 1
READY == 2
READING == 3

Locs == {"flag", "in_use", "message", "receiver"}
Procs == {"sender", "receiver", "main"}

VARIABLES
  mem, view, kept,  \* the memory: see WeakMemory; "flag" is ready or state,
                    \* "receiver" the marker written at the slot's read
  variant,  \* which file, fixed in Init
  pc,       \* pc[p]: the step of p executed next
  got,      \* what receive returned, {} before
  races     \* the threads that made a racing access to the slot

INSTANCE WeakMemory

memvars == <<mem, view, kept>>
vars == <<memvars, variant, pc, got, races>>

Uninit == "uninit"
Msg == "hello world!"

(* The flag's value once the message is there. *)
Full == IF variant = "05-03st" THEN READY ELSE TRUE

Init ==
  /\ variant \in Variants
  /\ MemInit([l \in Locs |->
        CASE l = "flag" -> IF variant = "05-03st" THEN EMPTY ELSE FALSE
          [] l = "in_use" -> FALSE
          [] OTHER -> Uninit])
  /\ pc = [p \in Procs |->
             CASE p = "sender" -> IF variant \in {"05-03rt", "05-03st"}
                                    THEN "claim" ELSE "write"
               [] p = "receiver" -> IF variant = "05-06" THEN "receive" ELSE "is_ready"
               [] OTHER -> "join"]
  /\ got = {}
  /\ races = {}

Goto(p, s) == pc' = [pc EXCEPT ![p] = s]

Sees(p, l) == view[p][l] = Len(mem[l])

Flag(p, racy) == races' = IF racy THEN races \cup {p} ELSE races

(* 05-03rt send: if in_use.swap(true, Relaxed) { panic!() }. *)
InUseSwap ==
  /\ pc["sender"] = "claim" /\ variant = "05-03rt"
  /\ RMW("sender", "in_use", LAMBDA v : TRUE, "Relaxed")
  /\ Goto("sender", IF Latest("in_use") THEN "panicked" ELSE "write")
  /\ UNCHANGED <<variant, got, races>>

(* 05-03st send: compare_exchange(EMPTY, WRITING, Relaxed, Relaxed), a    *)
(* failure (a Relaxed load) panicking.                                     *)
SendCas ==
  /\ pc["sender"] = "claim" /\ variant = "05-03st"
  /\ IF Latest("flag") = EMPTY
       THEN /\ RMW("sender", "flag", LAMBDA v : WRITING, "Relaxed")
            /\ Goto("sender", "write")
       ELSE /\ LoadAt("sender", "flag", Len(mem["flag"]), "Relaxed")
            /\ Goto("sender", "panicked")
  /\ UNCHANGED <<variant, got, races>>

(* send: write(message) through self.message.get(). *)
Write ==
  /\ pc["sender"] = "write"
  /\ Flag("sender", ~Sees("sender", "message") \/ ~Sees("sender", "receiver"))
  /\ Store("sender", "message", Msg, "Relaxed")
  /\ Goto("sender", "publish")
  /\ UNCHANGED <<variant, got>>

(* send: ready.store(true, Release), or state.store(READY, Release). *)
Publish ==
  /\ pc["sender"] = "publish"
  /\ Store("sender", "flag", Full, "Release")
  /\ Goto("sender", "done")
  /\ UNCHANGED <<variant, got, races>>

IsReadyOrder == IF variant = "05-02" THEN "Acquire" ELSE "Relaxed"

(* Mutant: 05-02's is_ready loads with Relaxed. *)
IsReadyRelaxed ==
  /\ pc["receiver"] = "is_ready"
  /\ \E ts \in Readable("receiver", "flag") :
       /\ LoadAt("receiver", "flag", ts, "Relaxed")
       /\ IF mem["flag"][ts].val = Full
            THEN Goto("receiver", IF variant = "05-02" THEN "read" ELSE "receive")
            ELSE UNCHANGED pc
  /\ UNCHANGED <<variant, got, races>>

(* The receiving loop while !is_ready() {}: ready.load(Acquire) in 05-02, *)
(* a Relaxed load (of ready, or of state == READY) elsewhere.              *)
IsReady ==
  /\ pc["receiver"] = "is_ready"
  /\ \E ts \in Readable("receiver", "flag") :
       /\ LoadAt("receiver", "flag", ts, IsReadyOrder)
       /\ IF mem["flag"][ts].val = Full
            THEN Goto("receiver", IF variant = "05-02" THEN "read" ELSE "receive")
            ELSE UNCHANGED pc
  /\ UNCHANGED <<variant, got, races>>

(* receive of 05-03rt, 05-04, 05-05: if !ready.swap(false, Acquire)      *)
(* { panic!() }.                                                           *)
ReceiveSwap ==
  /\ pc["receiver"] = "receive" /\ variant \in {"05-03rt", "05-04", "05-05"}
  /\ RMW("receiver", "flag", LAMBDA v : FALSE, "Acquire")
  /\ Goto("receiver", IF Latest("flag") THEN "read" ELSE "panicked")
  /\ UNCHANGED <<variant, got, races>>

(* 05-03st receive: compare_exchange(READY, READING, Acquire, Relaxed), a *)
(* failure (a Relaxed load) panicking.                                     *)
ReceiveCas ==
  /\ pc["receiver"] = "receive" /\ variant = "05-03st"
  /\ IF Latest("flag") = READY
       THEN /\ RMW("receiver", "flag", LAMBDA v : READING, "Acquire")
            /\ Goto("receiver", "read")
       ELSE /\ LoadAt("receiver", "flag", Len(mem["flag"]), "Relaxed")
            /\ Goto("receiver", "panicked")
  /\ UNCHANGED <<variant, got, races>>

(* 05-06 receive: while !ready.swap(false, Acquire) { park() }, the swap  *)
(* that reads true.                                                        *)
ReceiveSwapLoop ==
  /\ pc["receiver"] = "receive" /\ variant = "05-06"
  /\ Latest("flag") = TRUE
  /\ RMW("receiver", "flag", LAMBDA v : FALSE, "Acquire")
  /\ Goto("receiver", "read")
  /\ UNCHANGED <<variant, got, races>>

(* receive: assume_init_read() through self.message.get(); then main's  *)
(* assert_eq!(.., "hello world!") (05-02 prints it).  A racing read may     *)
(* return the slot as it was before the write.                             *)
Read ==
  /\ pc["receiver"] = "read"
  /\ Flag("receiver", ~Sees("receiver", "message"))
  /\ got' = {mem["message"][view["receiver"]["message"]].val}
  /\ Store("receiver", "receiver", "read", "Relaxed")
  /\ Goto("receiver", IF got' = {Msg} THEN "done" ELSE "panicked")
  /\ UNCHANGED variant

(* The end of thread::scope, or of main after both joins: both threads    *)
(* happen before the channel's drop.                                       *)
JoinBoth ==
  /\ pc["main"] = "join"
  /\ \A p \in {"sender", "receiver"} : pc[p] \in {"done", "panicked"}
  /\ JoinAllViews("main", {"sender", "receiver"})
  /\ Goto("main", "drop")
  /\ UNCHANGED <<variant, got, races>>

(* Drop for Channel: if *self.ready.get_mut() (05-02: ready.load(Acquire); *)
(* 05-03st: state == READY), assume_init_drop the slot.                    *)
DropChannel ==
  /\ pc["main"] = "drop"
  /\ IF mem["flag"][view["main"]["flag"]].val = Full
       THEN /\ Flag("main", ~Sees("main", "message") \/ ~Sees("main", "receiver"))
            /\ Store("main", "message", "dropped", "Relaxed")
       ELSE UNCHANGED <<memvars, races>>
  /\ Goto("main", "done")
  /\ UNCHANGED <<variant, got>>

Sender == InUseSwap \/ SendCas \/ Write \/ Publish
ReceiverStep == IsReady \/ ReceiveSwap \/ ReceiveCas \/ ReceiveSwapLoop \/ Read
Main == JoinBoth \/ DropChannel

Next == Sender \/ ReceiverStep \/ Main

Spec == Init /\ [][Next]_vars /\ WF_vars(Sender) /\ WF_vars(ReceiverStep) /\ WF_vars(Main)

-----------------------------------------------------------------------------
TypeOK ==
  /\ MemTypeOK
  /\ variant \in Variants
  /\ pc \in [Procs -> {"claim", "write", "publish", "is_ready", "receive", "read",
                       "join", "drop", "done", "panicked"}]
  /\ got \subseteq {Msg, Uninit}
  /\ races \subseteq Procs

(* The Release store that publishes the message and the Acquire operation *)
(* of the receiver that reads it (is_ready in 05-02, receive elsewhere)    *)
(* order the sender's write of the slot before the receiver's read and     *)
(* both before the drop: no access to the slot races, so main's assert_eq  *)
(* sees "hello world!".                                                    *)
SlotAccessOrdered == races = {}
====
