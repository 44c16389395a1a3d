----------------------------- MODULE MCBasicArc -----------------------------
(* Model values and thread sets for checking BasicArc with TLC. *)
EXTENDS BasicArc, TLC

CONSTANTS t1, t2, t3

MCThreads == {t1, t2, t3}
=============================================================================
