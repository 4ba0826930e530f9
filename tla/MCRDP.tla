------------------------------- MODULE MCRDP -------------------------------
(* Instances of RDP for TLC. *)
EXTENDS RDP

\* Nodes are the integers from 1 on; node 1 sends one or two messages.
OneZero == [n \in Node |-> IF n = 1 THEN 1 ELSE 0]
TwoZero == [n \in Node |-> IF n = 1 THEN 2 ELSE 0]

Quiet == [fail |-> 0, closes |-> FALSE, react |-> "none"]

\* Nothing unusual inside of a handler.
EnvironQuiet == {Quiet}

\* Callbacks are answered by further messages, or one of the first two sends of
\* a handler meets an unreachable peer.
EnvironInside == {Quiet, [Quiet EXCEPT !.react = "NEW"],
                  [Quiet EXCEPT !.react = "CONT"]} \cup
  {[Quiet EXCEPT !.fail = k, !.closes = TRUE] : k \in 1..2}

\* The kernel refuses one packet (no ICMP error, e.g. ENETUNREACH).
EnvironRefuse == {Quiet, [Quiet EXCEPT !.fail = 1]}

\* The psid answers RDP_LOST_CONNECTION by a message to the lost peer.
EnvironLost == {Quiet, [Quiet EXCEPT !.react = "LOST"]}

\* dynIP forgets the address of a lost peer.
EnvironForget == {Quiet, [Quiet EXCEPT !.react = "FORGET"]}
=============================================================================
