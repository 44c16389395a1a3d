--------------------------- MODULE OneshotChannel ---------------------------
(***************************************************************************)
(* The one-shot channels of src/examples/05-02 to 05-06 and the programs   *)
(* of their mains.  A Channel<T> is a MaybeUninit<T> slot and a flag:      *)
(*   05-02    ready; receive only reads the slot (unsafe contract);        *)
(*   05-03rt  in_use and ready; send panics on a second call, receive      *)
(*            swaps ready to false and panics if it was false;             *)
(*   05-03st  one AtomicU8 state EMPTY/WRITING/READY/READING driven by     *)
(*            compare_exchange;                                            *)
(*   05-04, 05-05  ready, with Sender/Receiver types that allow one send   *)
(*            and one receive (05-05 borrows the channel via split);       *)
(*   05-06    receive loops on ready.swap(false) and parks; send unparks.  *)
(* Drop for Channel drops the slot's message if the flag says it is there. *)
(*                                                                         *)
(* Thread Receiver is main (in 05-02 the spawned receiving thread), Sender *)
(* the spawned sending thread.  In 05-03 send and receive take &self on a  *)
(* Sync channel, so safe code may also call them from ExtraSenders and     *)
(* ExtraReceivers: the runtime checks are there for them.  A message is    *)
(* the sender that sent it; consumed[m] counts the moves out of the slot   *)
(* (assume_init_read) and the drops (assume_init_drop) of message m, and   *)
(* consumed[NoMessage] those of an uninitialized slot.                     *)
(***************************************************************************)
EXTENDS Naturals

CONSTANTS
  Variants,        \* the files checked, a subset of AllVariants
  Receiver,        \* main, which loops on is_ready and receives
  Sender,          \* the spawned thread that sends and unparks main
  ExtraSenders,    \* other threads calling send (05-03 only)
  ExtraReceivers,  \* other threads calling receive (05-03 only)
  NoMessage        \* the contents of an uninitialized slot

AllVariants == {"05-02", "05-03rt", "05-03st", "05-04", "05-05", "05-06"}
ASSUME Variants \subseteq AllVariants

Senders == {Sender} \cup ExtraSenders
Receivers == {Receiver} \cup ExtraReceivers
Threads == Senders \cup Receivers
Messages == Senders
ASSUME NoMessage \notin Messages

(* The state byte of 05-03st. *)
EMPTY == 0
WRITING == 1
READY == 2
READING == 3

VARIABLES
  variant,   \* which file's channel this behaviour runs (fixed in Init)
  slot,      \* Channel.message: the message last written, or NoMessage
  ready,     \* Channel.ready
  in_use,    \* Channel.in_use (05-03rt)
  st,        \* Channel.state (05-03st)
  token,     \* the park token of the Receiver thread
  pc,        \* pc[t]: the step thread t executes next
  sent,      \* the messages written into the slot
  consumed,  \* consumed[m]: reads and drops of message m
  received   \* the receivers whose receive() returned a message

vars == <<variant, slot, ready, in_use, st, token, pc, sent, consumed, received>>

RuntimeChecked == variant \in {"05-03rt", "05-03st"}

(* The flag Drop for Channel and is_ready test. *)
Ready == IF variant = "05-03st" THEN st = READY ELSE ready

Goto(t, s) == pc' = [pc EXCEPT ![t] = s]

(* Where a thread goes when its receive() panics: main still runs the     *)
(* channel's Drop after the scope joins.                                   *)
AfterReceive(t) == IF t = Receiver THEN "end" ELSE "done"

Consume(m) == consumed' = [consumed EXCEPT ![m] = @ + 1]

(* Channel::default (and split's reset to it), then the spawns of main. *)
Init ==
  /\ variant \in Variants
  /\ slot = NoMessage
  /\ ready = FALSE /\ in_use = FALSE /\ st = EMPTY
  /\ token = FALSE
  /\ pc = [t \in Threads |->
             CASE t = Receiver -> "check"
               [] t \in Senders /\ RuntimeChecked -> "send"
               [] t = Sender -> "write"
               [] t \in ExtraReceivers /\ RuntimeChecked -> "recv"
               [] OTHER -> "done"]
  /\ sent = {}
  /\ consumed = [m \in Messages \cup {NoMessage} |-> 0]
  /\ received = {}

(* Mutant: 05-03rt send ignores the value in_use.swap returned. *)
InUseSwapNoCheck(t) ==
  /\ pc[t] = "send" /\ variant = "05-03rt"
  /\ in_use' = TRUE
  /\ Goto(t, "write")
  /\ UNCHANGED <<variant, slot, ready, st, token, sent, consumed, received>>

(* 05-03rt send: if in_use.swap(true) { panic!() }. *)
InUseSwap(t) ==
  /\ pc[t] = "send" /\ variant = "05-03rt"
  /\ in_use' = TRUE
  /\ Goto(t, IF in_use THEN "done" ELSE "write")
  /\ UNCHANGED <<variant, slot, ready, st, token, sent, consumed, received>>

(* 05-03st send: compare_exchange(EMPTY, WRITING), panic!() on failure. *)
SendCas(t) ==
  /\ pc[t] = "send" /\ variant = "05-03st"
  /\ IF st = EMPTY THEN st' = WRITING /\ Goto(t, "write")
                   ELSE UNCHANGED st /\ Goto(t, "done")
  /\ UNCHANGED <<variant, slot, ready, in_use, token, sent, consumed, received>>

(* send: the write of the message through message.get(). *)
Write(t) ==
  /\ pc[t] = "write"
  /\ slot' = t
  /\ sent' = sent \cup {t}
  /\ Goto(t, "publish")
  /\ UNCHANGED <<variant, ready, in_use, st, token, consumed, received>>

(* send: ready.store(true) or state.store(READY); the thread then unparks *)
(* main (in 05-06 inside send), except in 05-02 where nobody parks.       *)
Publish(t) ==
  /\ pc[t] = "publish"
  /\ IF variant = "05-03st" THEN st' = READY /\ UNCHANGED ready
                            ELSE ready' = TRUE /\ UNCHANGED st
  /\ Goto(t, IF variant = "05-02" THEN "done" ELSE "unpark")
  /\ UNCHANGED <<variant, slot, in_use, token, sent, consumed, received>>

(* Thread::unpark: wakes the parked Receiver, or leaves it a token. *)
Unpark(t) ==
  /\ pc[t] = "unpark"
  /\ IF pc[Receiver] = "parked"
       THEN pc' = [pc EXCEPT ![t] = "done", ![Receiver] = "check"]
            /\ UNCHANGED token
       ELSE token' = TRUE /\ Goto(t, "done")
  /\ UNCHANGED <<variant, slot, ready, in_use, st, sent, consumed, received>>

(* main's loop: while !is_ready() { park() } (05-02 spins instead). *)
IsReady ==
  /\ pc[Receiver] = "check" /\ variant # "05-06"
  /\ Goto(Receiver, CASE Ready /\ variant = "05-02" -> "read"
                      [] Ready -> "recv"
                      [] variant = "05-02" -> "check"
                      [] OTHER -> "park")
  /\ UNCHANGED <<variant, slot, ready, in_use, st, token, sent, consumed, received>>

(* 05-06 receive: while !ready.swap(false) { park() }. *)
ReceiveSwapLoop ==
  /\ pc[Receiver] = "check" /\ variant = "05-06"
  /\ ready' = FALSE
  /\ Goto(Receiver, IF ready THEN "read" ELSE "park")
  /\ UNCHANGED <<variant, slot, in_use, st, token, sent, consumed, received>>

(* Mutant: park sleeps even when an unpark already left the token. *)
ParkIgnoreToken ==
  /\ pc[Receiver] = "park"
  /\ Goto(Receiver, "parked")
  /\ UNCHANGED <<variant, slot, ready, in_use, st, token, sent, consumed, received>>

(* thread::park: consumes the token and returns, or sleeps. *)
Park ==
  /\ pc[Receiver] = "park"
  /\ token' = FALSE
  /\ Goto(Receiver, IF token THEN "check" ELSE "parked")
  /\ UNCHANGED <<variant, slot, ready, in_use, st, sent, consumed, received>>

(* park may also return without an unpark. *)
SpuriousWake ==
  /\ pc[Receiver] = "parked"
  /\ Goto(Receiver, "check")
  /\ UNCHANGED <<variant, slot, ready, in_use, st, token, sent, consumed, received>>

(* Mutant: receive tests ready with a load and leaves it set. *)
ReceiveLoad(t) ==
  /\ pc[t] = "recv" /\ variant \in {"05-03rt", "05-04", "05-05"}
  /\ Goto(t, IF ready THEN "read" ELSE AfterReceive(t))
  /\ UNCHANGED <<variant, slot, ready, in_use, st, token, sent, consumed, received>>

(* receive of 05-03rt, 05-04, 05-05: if !ready.swap(false) { panic!() }. *)
ReceiveSwap(t) ==
  /\ pc[t] = "recv" /\ variant \in {"05-03rt", "05-04", "05-05"}
  /\ ready' = FALSE
  /\ Goto(t, IF ready THEN "read" ELSE AfterReceive(t))
  /\ UNCHANGED <<variant, slot, in_use, st, token, sent, consumed, received>>

(* Mutant: 05-03st receive as fetch_add(1), testing the old value. *)
ReceiveFetchAdd(t) ==
  /\ pc[t] = "recv" /\ variant = "05-03st"
  /\ st' = st + 1
  /\ Goto(t, IF st = READY THEN "read" ELSE AfterReceive(t))
  /\ UNCHANGED <<variant, slot, ready, in_use, token, sent, consumed, received>>

(* 05-03st receive: compare_exchange(READY, READING), panic!() on failure. *)
ReceiveCas(t) ==
  /\ pc[t] = "recv" /\ variant = "05-03st"
  /\ IF st = READY THEN st' = READING /\ Goto(t, "read")
                   ELSE UNCHANGED st /\ Goto(t, AfterReceive(t))
  /\ UNCHANGED <<variant, slot, ready, in_use, token, sent, consumed, received>>

(* receive: assume_init_read moves the message out of the slot. *)
Read(t) ==
  /\ pc[t] = "read"
  /\ Consume(slot)
  /\ received' = received \cup {t}
  /\ Goto(t, AfterReceive(t))
  /\ UNCHANGED <<variant, slot, ready, in_use, st, token, sent>>

(* After the scope (05-02: both joins), the last owner drops the Channel: *)
(* if the flag says ready, assume_init_drop the slot.                      *)
DropChannel ==
  /\ pc[Receiver] = "end"
  /\ \A t \in Threads \ {Receiver} : pc[t] = "done"
  /\ IF Ready THEN Consume(slot) ELSE UNCHANGED consumed
  /\ Goto(Receiver, "done")
  /\ UNCHANGED <<variant, slot, ready, in_use, st, token, sent, received>>

(* The steps thread t takes itself; a parked thread takes none. *)
Thread(t) ==
  \/ InUseSwap(t) \/ SendCas(t) \/ Write(t) \/ Publish(t) \/ Unpark(t)
  \/ ReceiveSwap(t) \/ ReceiveCas(t) \/ Read(t)
  \/ t = Receiver /\ (IsReady \/ ReceiveSwapLoop \/ Park \/ DropChannel)

Next ==
  \/ \E t \in Senders : InUseSwap(t)
  \/ \E t \in Senders : SendCas(t)
  \/ \E t \in Senders : Write(t)
  \/ \E t \in Senders : Publish(t)
  \/ \E t \in Senders : Unpark(t)
  \/ IsReady
  \/ ReceiveSwapLoop
  \/ Park
  \/ SpuriousWake
  \/ \E t \in Receivers : ReceiveSwap(t)
  \/ \E t \in Receivers : ReceiveCas(t)
  \/ \E t \in Receivers : Read(t)
  \/ DropChannel

(* Every runnable thread is scheduled (WF); spurious wake-ups are not     *)
(* made to happen.                                                         *)
Spec == Init /\ [][Next]_vars /\ \A t \in Threads : WF_vars(Thread(t))

-----------------------------------------------------------------------------
TypeOK ==
  /\ variant \in Variants
  /\ slot \in Messages \cup {NoMessage}
  /\ ready \in BOOLEAN /\ in_use \in BOOLEAN /\ token \in BOOLEAN
  /\ st \in {EMPTY, WRITING, READY, READING}
  /\ pc \in [Threads -> {"send", "write", "publish", "unpark", "check",
                         "park", "parked", "recv", "read", "end", "done"}]
  /\ sent \subseteq Messages
  /\ consumed \in [Messages \cup {NoMessage} -> Nat]
  /\ received \subseteq Receivers

(* No data race on the UnsafeCell: a write of the slot never overlaps     *)
(* another write or a read, whoever calls send and receive.                *)
NoDataRace ==
  \A t, u \in Threads :
    t # u /\ pc[t] \in {"write", "read"} => pc[u] \notin {"write", "read"}

(* No undefined behaviour through MaybeUninit: receive and Drop never     *)
(* read an uninitialized slot, and no message is moved out or dropped      *)
(* twice (receive's read followed by Drop's assume_init_drop included).    *)
SlotConsumedAtMostOnce ==
  /\ consumed[NoMessage] = 0
  /\ \A m \in Messages : consumed[m] <= 1

(* The channel's contract: the message in it is the one last written and *)
(* not yet moved out or dropped; main's return is the drop of the channel. *)
Contract == INSTANCE OneshotSpec
  WITH box <- IF slot # NoMessage /\ consumed[slot] = 0 THEN slot ELSE NoMessage,
       got <- received,
       closed <- pc[Receiver] = "done"

(* Every behaviour of the channel is one of OneshotSpec: a second send is *)
(* rejected before it writes the slot (no message is overwritten and       *)
(* leaked), receive() returns only a message still in the channel, Drop    *)
(* for Channel takes out any message left in it, and a message written is  *)
(* eventually received or dropped, whichever of the senders and receivers  *)
(* 05-03's &self API lets race.                                            *)
ImplementsOneshotSpec == Contract!Spec

(* main's wait for the message ends: the unpark of the sender is never     *)
(* lost, even when it comes before main parks.  Only another receiver      *)
(* taking the message first (05-03) leaves main waiting on is_ready.       *)
ReceiverReturns ==
  <>(pc[Receiver] = "done" \/ received \cap ExtraReceivers # {})

=============================================================================
