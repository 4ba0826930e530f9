------------------------------ MODULE MCStatus ------------------------------
(* Instances of PsidStatus for TLC. *)
EXTENDS PsidStatus

\* A node starts that has to look for the master.
SecondOnce == [n \in Node |-> IF n = 1 THEN 1 ELSE 0]

\* No node starts.
Never == [n \in Node |-> 0]
=============================================================================
