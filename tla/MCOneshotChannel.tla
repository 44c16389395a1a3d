------------------------- MODULE MCOneshotChannel -------------------------
(* Model values and variant sets for checking OneshotChannel with TLC. *)
EXTENDS OneshotChannel

CONSTANTS main, s1, s2, r1

(* The channels whose API keeps the protocol safe for any caller. *)
MCSafeVariants == {"05-03rt", "05-03st", "05-04", "05-05", "05-06"}

(* The unsafe channel of 05-02, with its own main. *)
MCUnsafeVariants == {"05-02"}
=============================================================================
