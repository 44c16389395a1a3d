---------------------------- MODULE QueueChannel ----------------------------
(***************************************************************************)
(* A Mutex<VecDeque> shared by one producer and one consumer, in the three *)
(* programs of src/examples that use it; a variable fixes which file a     *)
(* behaviour runs.                                                         *)
(*   05-01     Channel::send (push_back, notify_one) from a sender thread  *)
(*             and Channel::receive (pop_front, Condvar::wait in a loop)   *)
(*             from a receiver thread, five messages; main joins both;     *)
(*   01-08-02  the same loop written out in main: the producer pushes and  *)
(*             notify_one's for ever, the consumer pops or waits for ever; *)
(*   01-08-01  the consumer pops or thread::park()s, the producer pushes   *)
(*             and unparks the consumer.                                   *)
(*                                                                         *)
(* Every critical section is one statement (push_back, or pop_front and    *)
(* the test of its result) and no other thread can see inside it, so each  *)
(* is one step and the Mutex itself is left implicit.  Condvar::wait       *)
(* releases the lock and joins the waiters in one step, and returns to the *)
(* loop (which re-locks and pops) when notified or spuriously.  park       *)
(* returns at once when an unpark left the token.  The producers that      *)
(* never stop are cut off after Messages pushes; the sleeps are delays     *)
(* only.                                                                   *)
(***************************************************************************)
EXTENDS Naturals, Sequences

CONSTANTS
  Variants,  \* the files checked, a subset of AllVariants
  Messages   \* how many messages the producer pushes (5 in 05-01)

AllVariants == {"05-01", "01-08-02", "01-08-01"}
ASSUME Variants \subseteq AllVariants /\ Messages \in Nat \ {0}

Threads == {"producer", "consumer", "main"}

VARIABLES
  variant,   \* which file's program this behaviour runs (fixed in Init)
  queue,     \* the VecDeque behind the Mutex
  i,         \* the producer's loop counter: the next message it pushes
  received,  \* the messages the consumer has popped, in order
  waiters,   \* the threads blocked in Condvar::wait
  token,     \* the consumer's park token (01-08-01)
  pc         \* pc[t]: the step thread t executes next

vars == <<variant, queue, i, received, waiters, token, pc>>

Steps == {"push", "notify", "recv", "wait", "pop", "park", "parked", "join",
          "done"}

Goto(t, s) == pc' = [pc EXCEPT ![t] = s]

Parking == variant = "01-08-01"

(* The consumer's loop head: receive/pop with the Condvar, pop with park. *)
ConsumerLoop == IF Parking THEN "pop" ELSE "recv"

Init ==
  /\ variant \in Variants
  /\ queue = <<>>
  /\ i = 0
  /\ received = <<>>
  /\ waiters = {}
  /\ token = FALSE
  /\ pc = [t \in Threads |->
            CASE t = "producer" -> "push"
              [] t = "consumer" -> ConsumerLoop
              [] OTHER -> IF variant = "05-01" THEN "join" ELSE "done"]

(* send / the producer loop: lock the queue and push_back(i). *)
Push ==
  /\ pc["producer"] = "push" /\ i < Messages
  /\ queue' = Append(queue, i)
  /\ Goto("producer", "notify")
  /\ UNCHANGED <<variant, i, received, waiters, token>>

(* The producer's loop ends (05-01), or is cut off at the bound. *)
ProducerDone ==
  /\ pc["producer"] = "push" /\ i = Messages
  /\ Goto("producer", "done")
  /\ UNCHANGED <<variant, queue, i, received, waiters, token>>

(* Mutant: the producer never calls notify_one. *)
NotifyNone ==
  /\ pc["producer"] = "notify" /\ ~Parking
  /\ i' = i + 1
  /\ Goto("producer", "push")
  /\ UNCHANGED <<variant, queue, received, waiters, token>>

(* notify_one: one thread blocked in wait, if any, returns from it. *)
Notify ==
  /\ pc["producer"] = "notify" /\ ~Parking
  /\ i' = i + 1
  /\ IF waiters = {}
       THEN Goto("producer", "push") /\ UNCHANGED waiters
       ELSE \E w \in waiters :
              /\ waiters' = waiters \ {w}
              /\ pc' = [pc EXCEPT !["producer"] = "push", ![w] = ConsumerLoop]
  /\ UNCHANGED <<variant, queue, received, token>>

(* Mutant: unpark wakes a parked consumer but leaves no token otherwise. *)
UnparkNoToken ==
  /\ pc["producer"] = "notify" /\ Parking
  /\ i' = i + 1
  /\ IF pc["consumer"] = "parked"
       THEN pc' = [pc EXCEPT !["producer"] = "push", !["consumer"] = "pop"]
       ELSE Goto("producer", "push")
  /\ UNCHANGED <<variant, queue, received, waiters, token>>

(* t.thread().unpark(): wake the parked consumer, or leave it the token. *)
Unpark ==
  /\ pc["producer"] = "notify" /\ Parking
  /\ i' = i + 1
  /\ IF pc["consumer"] = "parked"
       THEN /\ pc' = [pc EXCEPT !["producer"] = "push", !["consumer"] = "pop"]
            /\ UNCHANGED token
       ELSE Goto("producer", "push") /\ token' = TRUE
  /\ UNCHANGED <<variant, queue, received, waiters>>

(* The Condvar loop of receive: lock, pop_front, and return the message,   *)
(* or wait (unlocking); 05-01's receiver stops after Messages messages.    *)
Receive ==
  /\ pc["consumer"] = "recv"
  /\ IF queue # <<>>
       THEN /\ queue' = Tail(queue)
            /\ received' = Append(received, Head(queue))
            /\ Goto("consumer", IF variant = "05-01" /\ Len(received) + 1 = Messages
                                  THEN "done" ELSE "recv")
            /\ UNCHANGED waiters
       ELSE /\ waiters' = waiters \cup {"consumer"}
            /\ Goto("consumer", "wait")
            /\ UNCHANGED <<queue, received>>
  /\ UNCHANGED <<variant, i, token>>

(* A thread blocked in Condvar::wait returns without a notify. *)
SpuriousWait ==
  /\ "consumer" \in waiters
  /\ waiters' = waiters \ {"consumer"}
  /\ Goto("consumer", "recv")
  /\ UNCHANGED <<variant, queue, i, received, token>>

(* 01-08-01: queue.lock().unwrap().pop_front(), then dbg! or park. *)
Pop ==
  /\ pc["consumer"] = "pop"
  /\ IF queue # <<>>
       THEN /\ queue' = Tail(queue)
            /\ received' = Append(received, Head(queue))
            /\ UNCHANGED pc
       ELSE Goto("consumer", "park") /\ UNCHANGED <<queue, received>>
  /\ UNCHANGED <<variant, i, waiters, token>>

(* thread::park(): consume the token and return, or block. *)
Park ==
  /\ pc["consumer"] = "park"
  /\ token' = FALSE
  /\ Goto("consumer", IF token THEN "pop" ELSE "parked")
  /\ UNCHANGED <<variant, queue, i, received, waiters>>

(* park returns without an unpark. *)
SpuriousPark ==
  /\ pc["consumer"] = "parked"
  /\ Goto("consumer", "pop")
  /\ UNCHANGED <<variant, queue, i, received, waiters, token>>

(* 05-01 main: receiver.join(), then sender.join(). *)
Join ==
  /\ pc["main"] = "join"
  /\ pc["consumer"] = "done" /\ pc["producer"] = "done"
  /\ Goto("main", "done")
  /\ UNCHANGED <<variant, queue, i, received, waiters, token>>

Producer == Push \/ ProducerDone \/ Notify \/ Unpark
Consumer == Receive \/ Pop \/ Park

Next == Producer \/ Consumer \/ SpuriousWait \/ SpuriousPark \/ Join

(* Every runnable thread is scheduled (WF); a blocked thread takes no step *)
(* of its own, and nothing makes spurious wake-ups happen.                 *)
Spec == Init /\ [][Next]_vars
        /\ WF_vars(Producer) /\ WF_vars(Consumer) /\ WF_vars(Join)

-----------------------------------------------------------------------------
(* The messages in the order the producer pushes them. *)
Sent == [k \in 1..Messages |-> k - 1]

TypeOK ==
  /\ variant \in Variants
  /\ queue \in Seq(0..Messages - 1)
  /\ i \in 0..Messages
  /\ received \in Seq(0..Messages - 1)
  /\ waiters \subseteq {"consumer"}
  /\ token \in BOOLEAN
  /\ pc \in [Threads -> Steps]

(* Every message pushed is eventually received, exactly once and in the    *)
(* order pushed; in 05-01 the receiver's five receives and both joins of   *)
(* main then return.                                                        *)
AllReceived ==
  <>(/\ received = Sent
     /\ variant = "05-01" => \A t \in Threads : pc[t] = "done")

=============================================================================
