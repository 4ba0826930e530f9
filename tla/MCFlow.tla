------------------------------- MODULE MCFlow -------------------------------
(* Instances of FlowControl for TLC: nodes are 1 and 2, a task is its node *)
(* times 10 plus a number.                                                 *)
EXTENDS FlowControl

Place == [t \in Task |-> t \div 10]
\* Tasks numbered from 1 on have the fds from 0 on.
By1 == [t \in Task |-> (t % 10) - 1]
Each(tasks, k, nodes, j) ==
  [s \in Sender |-> IF s \in tasks THEN k ELSE IF s \in nodes THEN j ELSE 0]

\* All send to task 21, which answers 11.
To21 == [s \in Sender |-> IF s = 21 THEN {11} ELSE {21}]
\* All send to task 12.
To12 == [s \in Sender |-> {12}]
\* All send to the tasks of node 2.
ToNode2 == [s \in Sender |-> {t \in Task \ {s} : Place[t] = 2}]

Wide == [n \in Node |-> 9]
OneSlot == [n \in Node |-> 1]

Three11One21 == [s \in Sender |-> CASE s = 11 -> 3 [] s = 21 -> 1 [] OTHER -> 0]
Four11One22 == [s \in Sender |-> CASE s = 11 -> 4 [] s = 22 -> 1 [] OTHER -> 0]
Two11Daemon == Each({11}, 2, {2}, 1)
Two11Daemon2 == Each({11}, 2, {2}, 2)
=============================================================================
