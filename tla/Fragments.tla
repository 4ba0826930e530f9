------------------------------- MODULE Fragments -------------------------------
(***************************************************************************)
(* Messages sent in fragments (lib/pscommon/psserial.c) between tasks on   *)
(* several nodes, over connections that may be lost.                       *)
(*                                                                         *)
(* A sender fills a message buffer and sends it to all destinations each   *)
(* time it is full; what it sends does not depend on what became of the    *)
(* fragments before.  A receiver knows fragments by their sender and their *)
(* number only, and has one buffer per sender.  It counts on connections   *)
(* that keep the order (module RDP), on the hook PSIDHOOK_NODE_DOWN, which *)
(* drops what has arrived from a node when the connection to it is lost,   *)
(* and on sendRDP() to send DAEMONCONNECT first, since only nodes that are *)
(* up can go down (module PsidStatus).                                     *)
(*                                                                         *)
(* The pieces of a message stand for the data that fill one fragment.      *)
(* Errors of malloc(), extra data and the packing of types are left out.   *)
(***************************************************************************)
EXTENDS Integers, Sequences

CONSTANTS
  Node,      \* the nodes
  Sender,    \* the tasks that send
  Client,    \* those that are processes of their own and may end
  Recv,      \* the tasks that receive
  Home,      \* Home[t]: the node of a task
  InPsid,    \* the receivers within a psid, where there are hooks
  Script,    \* Script[s]: what s sends, one after the other
  FragNums,  \* number of fragment numbers, 2^16 in the code
  MaxLost    \* bound: connections lost and psids restarted

\* frags: number of fragments; dests: the destinations set by setFragDest()
FragMsg == [frags : Nat \ {0}, dests : Seq(Recv)]

ASSUME TaskAssumption ==
  /\ Home \in [Sender \cup Recv -> Node]
  /\ InPsid \subseteq Recv /\ Client \subseteq Sender
ASSUME ScriptAssumption == Script \in [Sender -> Seq(FragMsg)]
ASSUME NumAssumption == FragNums \in Nat /\ FragNums >= 2
ASSUME FaultAssumption == MaxLost \in Nat

VARIABLES
  send,    \* send[s]: the message s is sending, the fragment that comes next
           \* (counted from 1) and its number, fragNum
  chan,    \* chan[s][r]: fragments on the way from s to r
  link,    \* link[n][m]: does m hold n up?
  buf,     \* buf[r][s]: what r has of a message of s, the recvBuf
  got,     \* got[r][s]: what was handed to the callback of r, in this order
  cuts,    \* number of connections lost and psids restarted
  spoiled, \* history: spoiled[s][r]: messages to r during which the connection
           \* was lost
  broken   \* history: broken[s]: messages whose sender ended in the middle

vars == <<send, chan, link, buf, got, cuts, spoiled, broken>>

-----------------------------------------------------------------------------
(***************************************************************************)
(* Sending                                                                 *)
(***************************************************************************)

\* The uint16_t fragNum runs over, "avoid second 0".
Mut_NextNum(num) == num + 1

NextNum(num) == IF num + 1 = FragNums THEN 1 ELSE num + 1

Sending(s) == send[s].msg <= Len(Script[s])

Current(s) == Script[s][send[s].msg]

\* sendFragment() sends to all destinations on other nodes, then to a local
\* one, the last that was set.
Remote(s, r) == Home[s] # Home[r]

Dests(s, m) ==
  LET dests == Script[s][m].dests
  IN  {dests[i] : i \in {i \in DOMAIN dests :
         \/ Remote(s, dests[i])
         \/ \A j \in DOMAIN dests : j > i => Remote(s, dests[j])}}

\* last stands for FRAGMENT_END; msg and part say what the fragment is about
\* and are not seen by the receiver.
Fragment(s) ==
  [num |-> send[s].num, last |-> send[s].part = Current(s).frags,
   msg |-> send[s].msg, part |-> send[s].part]

Fresh(m) == [msg |-> m, part |-> 1, num |-> 0]

AfterFragment(s) ==
  IF send[s].part = Current(s).frags THEN Fresh(send[s].msg + 1)
  ELSE [send[s] EXCEPT !.part = @ + 1, !.num = NextNum(@)]

\* addFragmentedData() with a full buffer, or sendFragMsg() for the last one.
SendFragment(s) ==
  /\ Sending(s)
  /\ chan' = [chan EXCEPT ![s] = [r \in Recv |->
                IF r \in Dests(s, send[s].msg) THEN Append(@[r], Fragment(s))
                ELSE @[r]]]
  /\ send' = [send EXCEPT ![s] = AfterFragment(s)]
  /\ UNCHANGED <<link, buf, got, cuts, spoiled, broken>>

-----------------------------------------------------------------------------
(***************************************************************************)
(* Receiving                                                               *)
(***************************************************************************)

\* No entry in activeRecvBufs.
NoBuf == [data |-> << >>, nextFrag |-> 0]

Piece(f) == <<f.msg, f.part>>

\* A message of a single fragment does not touch the buffer.
Single(f) == f.last /\ f.num = 0

\* Any first fragment is taken, whatever the buffer holds.
Expected(b, f) == f.num = b.nextFrag \/ f.num = 0

Mut_Collect(b, f) ==
  [data |-> Append(b.data, Piece(f)), nextFrag |-> NextNum(b.nextFrag)]

Collect(b, f) ==
  IF f.num = 0 THEN [data |-> <<Piece(f)>>, nextFrag |-> 1]
  ELSE [data |-> Append(b.data, Piece(f)), nextFrag |-> NextNum(b.nextFrag)]

\* recvFragMsg(): the buffer r is left with and what the callback gets.
Received(b, f) ==
  CASE Single(f) -> [buf |-> b, out |-> <<<<Piece(f)>>>>]
    [] ~Single(f) /\ ~Expected(b, f) -> [buf |-> b, out |-> << >>]
    [] ~Single(f) /\ Expected(b, f) ->
         IF f.last THEN [buf |-> NoBuf, out |-> <<Collect(b, f).data>>]
         ELSE [buf |-> Collect(b, f), out |-> << >>]

\* A message reaches a node only after DAEMONCONNECT.
Mut_Reached(s, r) == TRUE

Reached(s, r) == Remote(s, r) => link[Home[s]][Home[r]]

Receive(s, r) ==
  /\ chan[s][r] # << >> /\ Reached(s, r)
  /\ LET res == Received(buf[r][s], Head(chan[s][r]))
     IN  /\ buf' = [buf EXCEPT ![r][s] = res.buf]
         /\ got' = [got EXCEPT ![r][s] = @ \o res.out]
  /\ chan' = [chan EXCEPT ![s][r] = Tail(@)]
  /\ UNCHANGED <<send, link, cuts, spoiled, broken>>

-----------------------------------------------------------------------------
(***************************************************************************)
(* Connections and faults                                                  *)
(***************************************************************************)

\* DAEMONCONNECT, sent by sendRDP() ahead of the first fragment, arrives.
Connect(n, m) ==
  /\ ~link[n][m]
  /\ \E s \in Sender, r \in Recv :
       Home[s] = n /\ Home[r] = m /\ chan[s][r] # << >>
  /\ link' = [link EXCEPT ![n][m] = TRUE]
  /\ UNCHANGED <<send, chan, buf, got, cuts, spoiled, broken>>

\* nodeDownHandler(), called by declareNodeDead() for nodes that are up.
Mut_nodeDownHandler(r, s) == buf[r][s]

nodeDownHandler(r, s) ==
  IF r \in InPsid /\ link[Home[s]][Home[r]] THEN NoBuf ELSE buf[r][s]

Handed(r, s) == {got[r][s][i][1][1] : i \in DOMAIN got[r][s]}

\* Messages of which fragments were sent, to the end or not.
Begun(s) ==
  {m \in DOMAIN Script[s] :
     m < send[s].msg \/ (m = send[s].msg /\ send[s].part > 1)}

Unfinished(s, r) == {m \in Begun(s) : r \in Dests(s, m) /\ m \notin Handed(r, s)}

\* The connection of two nodes is lost: what is on its way is given back to
\* the senders, who do not care, and both psids call their hooks before they
\* accept anything of the next connection.
Lost(n, m) ==
  LET Across(s, r) == Remote(s, r) /\ {Home[s], Home[r]} = {n, m}
  IN  /\ n # m /\ cuts < MaxLost
      /\ cuts' = cuts + 1
      /\ chan' = [s \in Sender |-> [r \in Recv |->
                    IF Across(s, r) THEN << >> ELSE chan[s][r]]]
      /\ buf' = [r \in Recv |-> [s \in Sender |->
                   IF Across(s, r) THEN nodeDownHandler(r, s) ELSE buf[r][s]]]
      /\ spoiled' = [s \in Sender |-> [r \in Recv |->
                       IF Across(s, r) THEN spoiled[s][r] \cup Unfinished(s, r)
                       ELSE spoiled[s][r]]]
      /\ link' = [link EXCEPT ![n][m] = FALSE, ![m][n] = FALSE]
      /\ UNCHANGED <<send, got, broken>>

\* Message m of s breaks off, and so does the process.  A later one may have
\* the same task ID.
Ended(s) == Fresh(send[s].msg + 1)

Die(s) ==
  /\ s \in Client /\ Sending(s) /\ send[s].part > 1
  /\ send' = [send EXCEPT ![s] = Ended(s)]
  /\ broken' = [broken EXCEPT ![s] = @ \cup {send[s].msg}]
  /\ UNCHANGED <<chan, link, buf, got, cuts, spoiled>>

\* A psid is restarted.  Nothing of it and of its clients is left, all its
\* connections are lost.
Restart(n) ==
  LET Affected(s, r) == n \in {Home[s], Home[r]}
      Ends(s) == Home[s] = n /\ Sending(s) /\ send[s].part > 1
  IN  /\ cuts < MaxLost
      /\ cuts' = cuts + 1
      /\ send' = [s \in Sender |-> IF Ends(s) THEN Ended(s) ELSE send[s]]
      /\ broken' = [s \in Sender |->
                      IF Ends(s) THEN broken[s] \cup {send[s].msg} ELSE broken[s]]
      /\ chan' = [s \in Sender |-> [r \in Recv |->
                    IF Affected(s, r) THEN << >> ELSE chan[s][r]]]
      /\ buf' = [r \in Recv |-> [s \in Sender |->
                   IF Home[r] = n THEN NoBuf
                   ELSE IF Home[s] = n THEN nodeDownHandler(r, s)
                   ELSE buf[r][s]]]
      /\ spoiled' = [s \in Sender |-> [r \in Recv |->
                       IF Affected(s, r)
                       THEN spoiled[s][r] \cup Unfinished(s, r)
                       ELSE spoiled[s][r]]]
      /\ link' = [k \in Node |-> [m \in Node |->
                    IF n \in {k, m} THEN FALSE ELSE link[k][m]]]
      /\ UNCHANGED got

-----------------------------------------------------------------------------
Init ==
  /\ send = [s \in Sender |-> Fresh(1)]
  /\ chan = [s \in Sender |-> [r \in Recv |-> << >>]]
  /\ link = [n \in Node |-> [m \in Node |-> FALSE]]
  /\ buf = [r \in Recv |-> [s \in Sender |-> NoBuf]]
  /\ got = [r \in Recv |-> [s \in Sender |-> << >>]]
  /\ cuts = 0
  /\ spoiled = [s \in Sender |-> [r \in Recv |-> {}]]
  /\ broken = [s \in Sender |-> {}]

Next ==
  \/ \E s \in Sender : SendFragment(s) \/ Die(s)
  \/ \E s \in Sender, r \in Recv : Receive(s, r)
  \/ \E n \in Node, m \in Node : Connect(n, m) \/ Lost(n, m)
  \/ \E n \in Node : Restart(n)

Spec == Init /\ [][Next]_vars

-----------------------------------------------------------------------------
(***************************************************************************)
(* Properties                                                              *)
(***************************************************************************)

\* Every variable has its type.
Frag ==
  [num : 0 .. (FragNums - 1), last : BOOLEAN, msg : Nat \ {0}, part : Nat \ {0}]

PieceSeq == Seq((Nat \ {0}) \X (Nat \ {0}))

TypeOK ==
  /\ send \in [Sender -> [msg : Nat \ {0}, part : Nat \ {0},
                          num : 0 .. (FragNums - 1)]]
  /\ chan \in [Sender -> [Recv -> Seq(Frag)]]
  /\ link \in [Node -> [Node -> BOOLEAN]]
  /\ buf \in [Recv -> [Sender -> [data : PieceSeq, nextFrag : 0 .. (FragNums - 1)]]]
  /\ got \in [Recv -> [Sender -> Seq(PieceSeq)]]
  /\ cuts \in Nat
  /\ spoiled \in [Sender -> [Recv -> SUBSET Nat]]
  /\ broken \in [Sender -> SUBSET Nat]

Pieces(m, n) == [i \in 1 .. n |-> <<m, i>>]

\* What the callback gets is one message of the sender, from its first
\* fragment to its last: never one that lacks a piece, and none put together
\* of two, although fragments are known by sender and number only and
\* connections, senders and psids come and go between them (recvFragMsg()).
Whole ==
  \A r \in Recv, s \in Sender : \A i \in DOMAIN got[r][s] :
    \E m \in DOMAIN Script[s] : got[r][s][i] = Pieces(m, Script[s][m].frags)

IsDest(s, m, r) == \E i \in DOMAIN Script[s][m].dests : Script[s][m].dests[i] = r

UnderWay(s, r, m) == \E i \in DOMAIN chan[s][r] : chan[s][r][i].msg = m

\* A message that was sent to the end gets to all it was sent to, once and in
\* order, unless a connection was lost meanwhile: a receiver finds the way
\* back to whole messages after it has missed some fragments.
Delivered ==
  \A s \in Sender, r \in Recv :
    /\ \A i, j \in DOMAIN got[r][s] : i < j => got[r][s][i][1][1] < got[r][s][j][1][1]
    /\ \A m \in Begun(s) \ broken[s] :
         m < send[s].msg /\ IsDest(s, m, r)
         => m \in Handed(r, s) \cup spoiled[s][r] \/ UnderWay(s, r, m)

\* Buffers do not pile up: a receiver keeps one only for a message that is not
\* sent to the end yet, or whose sender has ended in the middle of it.
BuffersFreed ==
  \A s \in Sender, r \in Recv :
    buf[r][s] # NoBuf /\ chan[s][r] = << >>
    => \/ buf[r][s].data[1][1] = send[s].msg /\ send[s].part > 1
       \/ buf[r][s].data[1][1] \in broken[s]
=============================================================================
