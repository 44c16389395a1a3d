---------------------------- MODULE MCFutexMutex ----------------------------
(* Model values for checking FutexMutex with TLC. *)
EXTENDS FutexMutex, TLC

CONSTANTS t1, t2, t3

MCThreads == {t1, t2, t3}

(* The three Mutex implementations: each behaviour runs one of them. *)
MCVariants == {"09-01", "09-01-01", "09-01-02"}
=============================================================================
