--------------------------- MODULE MCOptimizedArc ---------------------------
(* Model-checking instance of OptimizedArc: threads are model values. *)
EXTENDS OptimizedArc, TLC

CONSTANTS t1, t2, t3

MCThreads == {t1, t2, t3}

(* Two threads, for the downgrade runs. *)
MCThreads2 == {t1, t2}

=============================================================================
