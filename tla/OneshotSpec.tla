----------------------------- MODULE OneshotSpec -----------------------------
(***************************************************************************)
(* What a one-shot channel promises its callers, each call one atomic     *)
(* step: the channel accepts at most one message; a message leaves it      *)
(* once, to one receive() or with the channel's drop; and a message in it  *)
(* does leave.  A send or receive that panics changes nothing.  The        *)
(* channels of src/examples/05-03 to 05-06 are shown to refine it.         *)
(***************************************************************************)
CONSTANTS
  Messages,   \* the messages callers may send
  Receivers,  \* the threads that may call receive()
  NoMessage   \* the contents of an empty channel

ASSUME NoMessage \notin Messages

VARIABLES
  box,     \* the message in the channel, or NoMessage
  sent,    \* the messages the channel has accepted
  got,     \* the receivers whose receive() returned a message
  closed   \* the channel has been dropped

vars == <<box, sent, got, closed>>

Init == box = NoMessage /\ sent = {} /\ got = {} /\ closed = FALSE

(* send(m) succeeds: the first message, and only it, is accepted. *)
Send(m) ==
  /\ ~closed /\ sent = {}
  /\ box' = m
  /\ sent' = {m}
  /\ UNCHANGED <<got, closed>>

(* receive() by r returns the message, which leaves the channel. *)
Receive(r) ==
  /\ ~closed /\ box # NoMessage
  /\ box' = NoMessage
  /\ got' = got \cup {r}
  /\ UNCHANGED <<sent, closed>>

(* The channel is dropped, and the message still in it with it. *)
Close ==
  /\ ~closed
  /\ box' = NoMessage
  /\ closed' = TRUE
  /\ UNCHANGED <<sent, got>>

(* A message in the channel is taken out, by a receiver or by the drop. *)
Deliver == box # NoMessage /\ ((\E r \in Receivers : Receive(r)) \/ Close)

Next == (\E m \in Messages : Send(m)) \/ (\E r \in Receivers : Receive(r)) \/ Close

Spec == Init /\ [][Next]_vars /\ WF_vars(Deliver)

=============================================================================
