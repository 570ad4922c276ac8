------------------------------ MODULE MCStore ------------------------------
(* Two tasks, an effect of the first one and the retry of that effect, and *)
(* two executions, of either task.                                         *)
EXTENDS Store, TLC

CONSTANTS t1, t2, e1, r1, x1, x2, c1

MCHome == [e \in Effect |-> t1]
MCDecision == [e \in Effect |-> IF e = e1 THEN "allow" ELSE "require_approval"]
MCRetryOf == [e \in Effect |-> IF e = r1 THEN e1 ELSE None]

(* Execution ids are fresh and interchangeable. *)
Execs == Permutations(Exec)
=============================================================================
