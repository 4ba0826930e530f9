------------------------------ MODULE MCTasks ------------------------------
(* Instances of PsidTasks for TLC. *)
EXTENDS PsidTasks

\* 1 is the root, 2 its child, 3 and 4 are children of 2.
Fork == [t \in Task |-> IF t = 4 THEN 2 ELSE t - 1]

\* 2 and 4 on node 1, 3 on node 2.
Mixed == [t \in Task |-> IF t = 4 THEN 1 ELSE t - 1]

\* All but the root on node 1.
Together == [t \in Task |-> IF t = 1 THEN 0 ELSE 1]
=============================================================================
