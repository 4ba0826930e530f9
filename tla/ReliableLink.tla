---------------------------- MODULE ReliableLink ----------------------------
(***************************************************************************)
(* What RDP promises its user (include/rdp.h), without packets, numbers,   *)
(* windows or timers.  A message accepted for a peer is owed until it is   *)
(* given back; the peer gets messages in the order of acceptance, none     *)
(* twice, and none before an earlier one that is still owed.  A message    *)
(* that was given back may yet have been delivered, or still be.           *)
(***************************************************************************)
EXTENDS Integers, Sequences

CONSTANT Node

VARIABLES
  accepted,  \* accepted[n][m]: number of messages n has accepted for m
  owed,      \* owed[n][m]: those not given back
  delivered  \* delivered[n][m]: those m has got, in this order

Peer(n) == Node \ {n}

Init ==
  /\ accepted = [n \in Node |-> [m \in Peer(n) |-> 0]]
  /\ owed = [n \in Node |-> [m \in Peer(n) |-> {}]]
  /\ delivered = [n \in Node |-> [m \in Peer(n) |-> << >>]]

\* n accepts messages for m.
Accepted(n, m) == (accepted[n][m] + 1) .. accepted'[n][m]

\* m gets message p, the next one owed or one given back.
Deliver(n, m, p) ==
  /\ \A i \in DOMAIN delivered[n][m] : delivered[n][m][i] < p
  /\ \A q \in owed[n][m] :
       q < p => \E i \in DOMAIN delivered[n][m] : delivered[n][m][i] = q
  /\ delivered'[n][m] = Append(delivered[n][m], p)

\* One handler of one end may accept messages and give back some or all.
Transfer(n, m) ==
  /\ accepted'[n][m] >= accepted[n][m]
  /\ owed'[n][m] \subseteq owed[n][m] \cup Accepted(n, m)
  /\ \/ delivered'[n][m] = delivered[n][m]
     \/ \E p \in 1 .. accepted[n][m] : Deliver(n, m, p)

Next == \A n \in Node : \A m \in Peer(n) : Transfer(n, m)

Spec == Init /\ [][Next]_<<accepted, owed, delivered>>
=============================================================================
