----------------------------- MODULE MCSpinLock -----------------------------
(* Workloads of the spin-lock program for TLC. *)
EXTENDS SpinLock

(* The main of 04-03: s1 pushes 1; s2 pushes 2 and 3 under one guard. *)
CodeWorkers == {"s1", "s2"}
CodePushes == [w \in CodeWorkers |-> IF w = "s1" THEN <<1>> ELSE <<2, 3>>]

(* The same program with a third scoped thread pushing 4 and 5. *)
MCWorkers == {"s1", "s2", "s3"}
MCPushes == [w \in MCWorkers |->
               CASE w = "s1" -> <<1>> [] w = "s2" -> <<2, 3>> [] OTHER -> <<4, 5>>]
(* All four files. *)
MCVariants == {"04-01", "04-02", "04-03", "03-05-01"}
=============================================================================
