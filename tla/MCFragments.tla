---------------------------- MODULE MCFragments ----------------------------
(* Instances of Fragments for TLC. *)
EXTENDS Fragments, TLC

\* The psids of two nodes are 1 and 2, a client of node 1 is 11.
HomeOf == [t \in {1, 2, 11} |-> IF t = 11 THEN 1 ELSE t]

ToTwo(k) == [frags |-> k, dests |-> <<2>>]
ToBoth(k) == [frags |-> k, dests |-> <<1, 2>>]

Script0 == (1 :> <<ToBoth(4), ToTwo(2)>>)
           @@ (11 :> <<ToTwo(2), ToTwo(1), ToTwo(2)>>)
=============================================================================
