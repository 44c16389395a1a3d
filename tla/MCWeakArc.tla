----------------------------- MODULE MCWeakArc -----------------------------
(* Model values and thread sets for checking WeakArc with TLC. *)
EXTENDS WeakArc, TLC

CONSTANTS t1, t2, t3

MCThreads == {t1, t2, t3}

MCThreads2 == {t1, t2}
=============================================================================
