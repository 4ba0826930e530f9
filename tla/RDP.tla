-------------------------------- MODULE RDP --------------------------------
(***************************************************************************)
(* The Reliable Datagram Protocol of ParaStation (lib/putil/rdp.c): every  *)
(* psid keeps one connection per peer, numbers the messages handed to      *)
(* Rsendto(), keeps them in pendList until they are acknowledged, and      *)
(* rebuilds the connection when the peer presents another connection ID.   *)
(*                                                                         *)
(* A handler of the code runs to its end before the psid's main loop calls *)
(* the next one, so each handler is one action.  A handler is written as a *)
(* function of a context h, which carries the connection it works on and   *)
(* what it has done so far: see Context below.                             *)
(*                                                                         *)
(* The network (UDP between two psids) is external: it may drop every      *)
(* packet and drops what exceeds its capacity, but keeps the order of the  *)
(* packets of one pair of nodes.                                           *)
(***************************************************************************)
EXTENDS Integers, Sequences, FiniteSets

CONSTANTS
  Node,                \* the psids
  MAX_WINDOW_SIZE,     \* send slots per connection
  RDPMaxAckPending,    \* messages received before an explicit ACK is sent
  RDPMaxRetransCount,  \* resends before the peer is declared dead
  ConnId,              \* the values random() yields for connection IDs
  FirstToSend,         \* the values random() yields for the first frameToSend
  FirstExpected,       \* the values random() yields for the first frameExpected
  MaxMsg,              \* bound: messages a node accepts per peer
  NetCap,              \* bound: packets in flight per pair of nodes
  Fault,               \* what else may happen: restarts, ICMP errors, changes
                       \* of addresses, packets overtaking each other, calls of
                       \* closeConnRDP() for a peer not connected
  MaxFault,            \* bound: such faults
  Environ              \* what may happen inside of a handler, see Context

Peer(n) == Node \ {n}

State == {"CLOSED", "SYN_SENT", "SYN_RECVD", "ACTIVE"}
PacketType == {"DATA", "SYN", "ACK", "SYNACK", "NACK"}

\* Reactions of the psid to a callback: none at all; a further Rsendto() from
\* within RDP_NEW_CONNECTION (send_DAEMONCONNECT), RDP_CAN_CONTINUE
\* (flushRDPMsgs) or RDP_LOST_CONNECTION; or the removal of the peer's address
\* from within RDP_LOST_CONNECTION (dynIP's hook on PSIDHOOK_NODE_DOWN).
Reaction == {"none", "NEW", "CONT", "LOST", "FORGET"}

ASSUME NodeAssumption == IsFiniteSet(Node)
ASSUME WindowAssumption == MAX_WINDOW_SIZE \in Nat \ {0}
ASSUME AckAssumption == RDPMaxAckPending \in Int
ASSUME RetransAssumption == RDPMaxRetransCount \in Nat
ASSUME ConnIdAssumption == ConnId \subseteq Nat /\ ConnId # {}
ASSUME FirstAssumption == FirstToSend \subseteq Int /\ FirstExpected \subseteq Int
ASSUME BoundAssumption ==
  MaxMsg \in [Node -> Nat] /\ NetCap \in Nat /\ MaxFault \in Nat
ASSUME FaultAssumption == Fault \subseteq
  {"restart", "icmp", "address", "reorder", "close"}
ASSUME EnvironAssumption ==
  Environ \subseteq [fail : Nat, closes : BOOLEAN, react : Reaction]

-----------------------------------------------------------------------------
VARIABLES
  conn,       \* conn[n][m]: conntable[m] of node n
  cleanupReq, \* cleanupReq[n]: some deleted message waits for the timer
  net,        \* net[n][m]: packets under way from n to m
  faults,     \* number of faults so far
  accepted,   \* accepted[n][m]: messages put into a pendList of n for m, ever
  owed,       \* owed[n][m]: those n still has to deliver or to give back
  refused,    \* refused[n][m]: those whose Rsendto() returned -1
  told,       \* told[n][m]: last of RDP_NEW_CONNECTION, RDP_LOST_CONNECTION
  delivered   \* delivered[n][m]: messages Rrecvfrom() of m returned, from n

vars == <<conn, cleanupReq, net, faults, accepted, owed, refused, told,
          delivered>>

NoConn == -1   \* ConnID_in before the first packet
KnownId == ConnId \cup {NoConn}

\* The type of msgbuf_t (with the parts of its header that matter), of a
\* packet and of Rconninfo_t.  tmout is TRUE as long as the resend timer runs,
\* closed as long as the timer set by closeConnRDP() runs, known if sin holds
\* an address.
MsgBuf == [seqno : Int, connid : ConnId, payload : Nat, deleted : BOOLEAN]
Packet == [type : PacketType, seqno : Int, ackno : Int, connid : ConnId,
           payload : Nat]
ConnInfo ==
  [known : BOOLEAN, state : State, window : Int, ackPending : Nat,
   msgPending : Nat, frameToSend : Int, ackExpected : Int,
   frameExpected : Int, ConnID_in : KnownId, ConnID_out : ConnId,
   pendList : Seq(MsgBuf), tmout : BOOLEAN, closed : BOOLEAN, retrans : Nat]

\* initConntable(): the entry of a peer in a freshly started psid.
InitConn(fts, fe, id) ==
  [known |-> TRUE, state |-> "CLOSED", window |-> MAX_WINDOW_SIZE,
   ackPending |-> 0, msgPending |-> 0, frameToSend |-> fts,
   ackExpected |-> fts, frameExpected |-> fe, ConnID_in |-> NoConn,
   ConnID_out |-> id, pendList |-> << >>, tmout |-> FALSE, closed |-> FALSE,
   retrans |-> 0]

-----------------------------------------------------------------------------
(***************************************************************************)
(* Context.  c is the connection the handler works on, out the packets it  *)
(* has sent, cleanup whether it has asked for a cleanup, acc, owed and     *)
(* told the history of the connection, max the bound on acc, used the      *)
(* connection IDs random() does not hit again, env what happens inside of  *)
(* this one handler:                                                       *)
(*   - env.fail: the number of the send that fails, 0 if none does;        *)
(*   - env.closes: whether that failure is one handleErr() resolves to     *)
(*     the peer, i.e. closes the connection, or any other error;           *)
(*   - env.react: the callback the psid reacts to, once per handler.  A    *)
(*     send out of such a reaction does not fail.                          *)
(***************************************************************************)
Ctx(n, m, env) ==
  [c |-> conn[n][m], out |-> << >>, cleanup |-> FALSE,
   acc |-> accepted[n][m], owed |-> owed[n][m], told |-> told[n][m],
   max |-> MaxMsg[n],
   used |-> {net[n][m][i].connid : i \in DOMAIN net[n][m]}
              \cup {conn[m][n].ConnID_in},
   env |-> env]

\* random() as used for ConnID_out: no ID that is still around is hit again.
random(h) ==
  LET unused == ConnId \ (h.used \cup {h.c.ConnID_out}
                                 \cup {h.out[i].connid : i \in DOMAIN h.out})
  IN  CHOOSE id \in ConnId : unused # {} => id \in unused

SYN(c) == [type |-> "SYN", seqno |-> c.frameToSend, ackno |-> 0,
           connid |-> c.ConnID_out, payload |-> 0]
\* Mutated ACK: acknowledges the expected frame instead of the last one.
Mut_ACK(c) == [type |-> "ACK", seqno |-> 0, ackno |-> c.frameExpected,
               connid |-> c.ConnID_out, payload |-> 0]

ACK(c) == [type |-> "ACK", seqno |-> 0, ackno |-> c.frameExpected - 1,
           connid |-> c.ConnID_out, payload |-> 0]
SYNACK(c) == [type |-> "SYNACK", seqno |-> c.frameToSend,
              ackno |-> c.frameExpected - 1, connid |-> c.ConnID_out,
              payload |-> 0]
NACK(c) == [type |-> "NACK", seqno |-> 0, ackno |-> c.frameExpected - 1,
            connid |-> c.ConnID_out, payload |-> 0]
DATA(c, mp) == [type |-> "DATA", seqno |-> mp.seqno,
                ackno |-> c.frameExpected - 1, connid |-> mp.connid,
                payload |-> mp.payload]

Live(c) == {i \in DOMAIN c.pendList : ~c.pendList[i].deleted}

\* sendto() takes the packet.
Put(h, p) == [h EXCEPT !.out = Append(@, p)]

\* Rsendto() beyond its checks and up to the actual send: the message enters
\* pendList with the next sequence number.
Enqueue(h) ==
  LET c == h.c
      first == c.pendList = << >> /\ c.state = "ACTIVE"
      mp == [seqno |-> c.frameToSend + c.msgPending, connid |-> c.ConnID_out,
             payload |-> h.acc + 1, deleted |-> FALSE]
  IN  [h EXCEPT
        !.acc = @ + 1,
        !.owed = @ \cup {h.acc + 1},
        !.c = [c EXCEPT
                !.pendList = Append(@, mp),
                !.window = @ - 1,
                !.ackPending = 0,
                !.tmout = IF first THEN TRUE ELSE @,
                !.retrans = IF first THEN 0 ELSE @,
                !.state = IF @ = "CLOSED" THEN "SYN_SENT" ELSE @,
                !.msgPending = IF c.state = "ACTIVE" THEN @ ELSE @ + 1,
                !.frameToSend = IF c.state = "ACTIVE" THEN @ + 1 ELSE @]]

\* The packet Rsendto() sends after Enqueue.
FirstPacket(c) ==
  CASE c.state = "SYN_SENT"  -> SYN(c)
    [] c.state = "SYN_RECVD" -> SYNACK(c)
    [] OTHER                 -> DATA(c, c.pendList[Len(c.pendList)])

\* The checks at the beginning of Rsendto(), and the bound on messages.
CanSend(h) ==
  /\ h.c.known
  /\ h.c.window # 0
  /\ ~(h.c.state = "CLOSED" /\ h.c.closed)
  /\ h.acc < h.max

\* RDPCallback(): the psid is told, and may react by another Rsendto() to the
\* same peer.
PutFirst(h) == Put(h, FirstPacket(h.c))

Callback(h, kind) ==
  IF h.env.react = kind /\ CanSend(h)
  THEN PutFirst(Enqueue([h EXCEPT !.env.react = "none"]))
  ELSE h

-----------------------------------------------------------------------------
\* Mutated clearMsgQ(): the loop starts behind the first buffer.
Mut_clearMsgQ_first(h) ==
  [h EXCEPT
    !.owed = @ \ {h.c.pendList[i].payload : i \in Live(h.c) \ {1}},
    !.cleanup = @ \/ Live(h.c) \ {1} # {},
    !.c.pendList = [i \in DOMAIN @ |-> [@[i] EXCEPT !.deleted = @ \/ i > 1]],
    !.c.ackExpected = h.c.frameToSend]

\* clearMsgQ(): every message not yet deleted is given back to the upper layer
\* (RDP_PKT_UNDELIVERABLE) and its buffer left for a later cleanup.
clearMsgQ(h) ==
  [h EXCEPT
    !.owed = @ \ {h.c.pendList[i].payload : i \in Live(h.c)},
    !.cleanup = @ \/ Live(h.c) # {},
    !.c.pendList = [i \in DOMAIN @ |-> [@[i] EXCEPT !.deleted = TRUE]],
    !.c.ackExpected = h.c.frameToSend]

\* Mutated closeConnection(): msgPending survives.
Mut_Reset_pending(h) ==
  [clearMsgQ(h) EXCEPT
    !.c = [@ EXCEPT !.state = "CLOSED", !.ackPending = 0, !.retrans = 0,
                    !.tmout = FALSE, !.ConnID_out = random(h)]]

\* Mutated closeConnection(): the outgoing connection ID is set to -1, too.
Mut_Reset_id(h) ==
  [clearMsgQ(h) EXCEPT
    !.c = [@ EXCEPT !.state = "CLOSED", !.ackPending = 0, !.msgPending = 0,
                    !.retrans = 0, !.tmout = FALSE, !.ConnID_out = NoConn]]

\* closeConnection() before its callback.
Reset(h) ==
  [clearMsgQ(h) EXCEPT
    !.c = [@ EXCEPT !.state = "CLOSED", !.ackPending = 0, !.msgPending = 0,
                    !.retrans = 0, !.tmout = FALSE, !.ConnID_out = random(h)]]

\* RDPCallback(RDP_LOST_CONNECTION): declareNodeDead().
LostCallback(h) ==
  LET q == [h EXCEPT !.told = "down"]
  IN  IF h.env.react = "FORGET"
      THEN [q EXCEPT !.c.known = FALSE, !.env.react = "none"]
      ELSE Callback(q, "LOST")

\* closeConnection(node, true, ...).
closeConnection(h) == LostCallback(Reset(h))

\* MYsendto(): does this send of the handler fail?
Fails(h) == h.env.fail = 1 \/ ~h.c.known

\* MYsendto(): after a failure that has closed the connection the packet is
\* sent again only if the callback has opened a new one.
SendAgain(h, p) == IF h.c.state = "CLOSED" THEN h ELSE Put(h, p)

\* MYsendto(): a failure handleErr() resolves to the peer closes the
\* connection, any other failure is returned.
MYsendto(h, p) ==
  CASE ~Fails(h) -> Put([h EXCEPT !.env.fail = IF @ = 0 THEN 0 ELSE @ - 1], p)
    [] Fails(h) /\ h.c.known /\ h.env.closes ->
         SendAgain(closeConnection([h EXCEPT !.env.fail = 0]), p)
    [] Fails(h) /\ ~(h.c.known /\ h.env.closes) -> [h EXCEPT !.env.fail = 0]

sendSYN(h) == MYsendto(h, SYN(h.c))
sendNACK(h) == MYsendto(h, NACK(h.c))
sendACK(h) == [MYsendto(h, ACK(h.c)) EXCEPT !.c.ackPending = 0]
sendSYNACK(h) == [MYsendto(h, SYNACK(h.c)) EXCEPT !.c.ackPending = 0]

-----------------------------------------------------------------------------
\* The number of deleted buffers at the front of a pendList.
DeletedPrefix(s) ==
  Cardinality({i \in 1..Len(s) : \A j \in 1..i : s[j].deleted})

\* The DATA packets resendMsgs() sends, in the order of pendList, without the
\* deleted buffers, which are all at the front (DeletedFirst).
LivePackets(c) ==
  LET k == DeletedPrefix(c.pendList)
  IN  [i \in 1..(Len(c.pendList) - k) |-> DATA(c, c.pendList[k + i])]

\* resendMsgs(), ACTIVE, behind a closeConnection(): if the callback has opened
\* a new connection, MYsendto() sends p nevertheless and the loop reaches the
\* message the callback has appended.
ResendRest(h, p) ==
  IF h.c.state = "CLOSED" THEN h
  ELSE [h EXCEPT !.out = (@ \o <<p>>) \o LivePackets(h.c)]

\* resendMsgs(), ACTIVE: the packets ps are sent in a loop that ends with the
\* first send that fails, the k-th.
SendAll(h, ps, k) ==
  LET sent == [h EXCEPT !.out = @ \o SubSeq(ps, 1, k - 1), !.env.fail = 0]
  IN  CASE k \notin 1..Len(ps) ->
             [h EXCEPT !.out = @ \o ps,
                       !.env.fail = IF k = 0 THEN 0 ELSE k - Len(ps)]
        [] k \in 1..Len(ps) /\ h.c.known /\ h.env.closes ->
             ResendRest(closeConnection(sent), ps[k])
        [] k \in 1..Len(ps) /\ ~(h.c.known /\ h.env.closes) -> sent

\* resendMsgs(), ACTIVE: all pending messages are sent again.
ResendActive(h) ==
  [SendAll(h, LivePackets(h.c), IF h.c.known THEN h.env.fail ELSE 1)
     EXCEPT !.c.ackPending = 0]

\* Mutated resendMsgs(): the limit is checked in state ACTIVE only.
Mut_resendMsgs(h) ==
  IF h.c.pendList = << >> \/ h.c.tmout THEN h
  ELSE LET q == [h EXCEPT !.c.tmout = TRUE]
           r == [q EXCEPT !.c.retrans = IF @ > RDPMaxRetransCount THEN @
                                        ELSE @ + 1]
       IN  CASE h.c.state = "CLOSED"    -> r
             [] h.c.state = "SYN_SENT"  -> sendSYN(r)
             [] h.c.state = "SYN_RECVD" -> sendSYNACK(r)
             [] h.c.state = "ACTIVE" /\ h.c.retrans > RDPMaxRetransCount ->
                  closeConnection(q)
             [] h.c.state = "ACTIVE" /\ h.c.retrans <= RDPMaxRetransCount ->
                  ResendActive(r)

\* resendMsgs(): nothing without a message or before the resend timer is over;
\* too many resends close the connection.
resendMsgs(h) ==
  IF h.c.pendList = << >> \/ h.c.tmout THEN h
  ELSE LET q == [h EXCEPT !.c.tmout = TRUE]
           r == [q EXCEPT !.c.retrans = @ + 1]
       IN  CASE h.c.retrans > RDPMaxRetransCount -> closeConnection(q)
             [] h.c.retrans <= RDPMaxRetransCount /\ h.c.state = "CLOSED" -> r
             [] h.c.retrans <= RDPMaxRetransCount /\ h.c.state = "SYN_SENT" ->
                  sendSYN(r)
             [] h.c.retrans <= RDPMaxRetransCount /\ h.c.state = "SYN_RECVD" ->
                  sendSYNACK(r)
             [] h.c.retrans <= RDPMaxRetransCount /\ h.c.state = "ACTIVE" ->
                  ResendActive(r)

-----------------------------------------------------------------------------
\* Mutated updateState(): msgPending is reset before it is added.
Mut_Established_order(h) ==
  LET a == [h EXCEPT !.c.state = "ACTIVE"]
      q == IF a.c.msgPending # 0
           THEN [resendMsgs(a) EXCEPT !.c.msgPending = 0]
           ELSE sendACK(a)
  IN  Callback([q EXCEPT !.told = "up"], "NEW")

\* updateState(): the messages that waited for the connection now count as
\* sent.
CountPending(h) ==
  [h EXCEPT !.c = [@ EXCEPT !.frameToSend = h.c.frameToSend + h.c.msgPending,
                            !.msgPending = 0]]

\* Mutated updateState(): RDP_NEW_CONNECTION in the ACK branch only.
Mut_Established_told(h) ==
  LET a == [h EXCEPT !.c.state = "ACTIVE"]
  IN  IF a.c.msgPending # 0 THEN CountPending(resendMsgs(a))
      ELSE Callback([sendACK(a) EXCEPT !.told = "up"], "NEW")

\* updateState(), SYN_SENT -> ACTIVE and SYN_RECVD -> ACTIVE: the messages
\* queued meanwhile are sent, or an ACK; then RDP_NEW_CONNECTION.
Established(h) ==
  LET a == [h EXCEPT !.c.state = "ACTIVE"]
      q == IF a.c.msgPending # 0 THEN CountPending(resendMsgs(a))
           ELSE sendACK(a)
  IN  Callback([q EXCEPT !.told = "up"], "NEW")

\* The peer's SYN or SYNACK tells where its numbering starts.
Adopt(h, state, p) ==
  [h EXCEPT !.c = [@ EXCEPT !.state = state, !.frameExpected = p.seqno,
                            !.ConnID_in = p.connid]]

UpdateClosed(h, p) ==
  IF p.type = "SYN" THEN sendSYNACK(Adopt(h, "SYN_RECVD", p))
  ELSE sendSYN([h EXCEPT !.c.state = "SYN_SENT"])

UpdateSynSent(h, p) ==
  CASE p.type = "SYN"    -> sendSYNACK(Adopt(h, "SYN_RECVD", p))
    [] p.type = "SYNACK" -> Established(Adopt(h, "ACTIVE", p))
    [] OTHER             -> sendSYN(h)

UpdateSynRecvd(h, p) ==
  CASE p.type = "SYN" -> sendSYNACK(Adopt(h, "SYN_RECVD", p))
    [] p.type \in {"SYNACK", "ACK", "DATA"} ->
         Established(IF p.type = "SYNACK" THEN Adopt(h, "SYN_RECVD", p) ELSE h)
    [] OTHER -> sendSYN([h EXCEPT !.c.state = "SYN_SENT"])

\* A SYN restarts the connection whatever its ID, a SYNACK of another
\* connection asks the peer for its own, any other foreign packet closes.
UpdateActive(h, p) ==
  CASE p.type = "SYN" ->
         sendSYNACK(Adopt(closeConnection(h), "SYN_RECVD", p))
    [] p.type = "SYNACK" /\ p.connid # h.c.ConnID_in ->
         sendSYN(Adopt(closeConnection(h), "SYN_SENT", p))
    [] p.type \notin {"SYN", "SYNACK"} /\ p.connid # h.c.ConnID_in ->
         closeConnection(h)
    [] OTHER -> h

updateState(h, p) ==
  CASE h.c.state = "CLOSED"    -> UpdateClosed(h, p)
    [] h.c.state = "SYN_SENT"  -> UpdateSynSent(h, p)
    [] h.c.state = "SYN_RECVD" -> UpdateSynRecvd(h, p)
    [] h.c.state = "ACTIVE"    -> UpdateActive(h, p)

-----------------------------------------------------------------------------
\* Mutated doACK(): one buffer too many counts as acknowledged.
Mut_FreedBy(s, ackno) ==
  Cardinality({i \in 1..Len(s) :
                 \A j \in 1..i : s[j].deleted \/ s[j].seqno <= ackno + 1})

\* The number of buffers at the front of a pendList that are deleted or
\* acknowledged by ackno.
FreedBy(s, ackno) ==
  Cardinality({i \in 1..Len(s) :
                 \A j \in 1..i : s[j].deleted \/ s[j].seqno <= ackno})

\* Mutated putMsg() loop: the window opens by one slot, whatever is freed.
Mut_Drop(h, k) ==
  [h EXCEPT !.c.pendList = SubSeq(@, k + 1, Len(@)),
            !.c.window = IF k > 0 THEN @ + 1 ELSE @]

\* putMsg() for the first k buffers: each gives a send slot back.
Drop(h, k) ==
  [h EXCEPT !.c.pendList = SubSeq(@, k + 1, Len(@)), !.c.window = @ + k]

\* doACK(), list_for_each_safe: release what is acknowledged (and what is
\* deleted before it), and signal that a full window has room again.
ReleaseAcked(h, ackno) ==
  LET k == FreedBy(h.c.pendList, ackno)
      acked == Cardinality({i \in Live(h.c) : i <= k})
      q == [Drop(h, k) EXCEPT
              !.c.ackExpected = @ + acked,
              !.c.retrans = IF acked > 0 THEN 0 ELSE @]
  IN  IF h.c.window = 0 /\ k > 0 THEN Callback(q, "CONT") ELSE q

\* doACK(): a packet of another connection changes the state, a duplicate is
\* acknowledged again, a gap reported.
doACK(h, p) ==
  CASE p.connid # h.c.ConnID_in -> updateState(h, p)
    [] p.connid = h.c.ConnID_in /\ p.type # "DATA" -> ReleaseAcked(h, p.ackno)
    [] p.connid = h.c.ConnID_in /\ p.type = "DATA" ->
         ReleaseAcked(CASE p.seqno < h.c.frameExpected -> sendACK(h)
                        [] p.seqno > h.c.frameExpected -> sendNACK(h)
                        [] p.seqno = h.c.frameExpected -> h,
                      p.ackno)

\* What every packet is used for first, in handleControlPacket(), in the
\* dispatcher's Rrecvfrom() or in handleRDP() itself.
UpdateOrACK(h, p) ==
  IF p.type \in {"SYN", "SYNACK"} \/ h.c.state # "ACTIVE"
  THEN updateState(h, p) ELSE doACK(h, p)

\* handleRDP(): does this DATA packet reach the dispatcher?
Dispatched(h, p) ==
  p.type = "DATA" /\ h.c.state = "ACTIVE" /\ p.seqno = h.c.frameExpected

\* Rrecvfrom() of a message handleRDP() let pass: it is accepted if its number
\* is still expected behind doACK(), in whatever state the connection is then.
Accepts(h, p) == h.c.frameExpected = p.seqno

\* Mutated Rrecvfrom(): frameExpected only advances together with an ACK.
Mut_Rrecvfrom(h, p) ==
  LET r == [h EXCEPT !.c.ackPending = @ + 1]
  IN  IF ~Accepts(h, p) THEN h
      ELSE IF r.c.ackPending > RDPMaxAckPending
           THEN sendACK([r EXCEPT !.c.frameExpected = @ + 1]) ELSE r

\* Rrecvfrom() behind doACK().
Rrecvfrom(h, p) ==
  LET r == [h EXCEPT !.c.frameExpected = @ + 1, !.c.ackPending = @ + 1]
  IN  IF ~Accepts(h, p) THEN h
      ELSE IF r.c.ackPending >= RDPMaxAckPending THEN sendACK(r) ELSE r

\* handleRDP() behind UpdateOrACK; ready is Dispatched before it.
HandleRest(h, p, ready) ==
  CASE ready -> Rrecvfrom(h, p)
    [] p.type = "NACK" /\ h.c.state = "ACTIVE" -> resendMsgs(h)
    [] OTHER -> h

-----------------------------------------------------------------------------
\* handleTimeoutRDP(), first loop, for one message of one peer.
ResendTimedOut(h) ==
  IF Live(h.c) # {} /\ ~h.c.tmout THEN resendMsgs(h) ELSE h

\* handleTimeoutRDP(), first loop, for one peer.  A message a callback has
\* appended meanwhile is reached by the same loop.
TimeoutResend(h) == ResendTimedOut(ResendTimedOut(h))

\* Mutated cleanup: only connections in use are considered.
Mut_Cleanup(h) ==
  IF h.c.state = "CLOSED" THEN h ELSE Drop(h, DeletedPrefix(h.c.pendList))

\* handleTimeoutRDP(), second loop, for one peer: the deleted buffers, all at
\* the front (DeletedFirst), are freed; the first one freed on a full
\* connection signals RDP_CAN_CONTINUE.
CleanupRest(h) == Drop(h, DeletedPrefix(h.c.pendList))

Cleanup(h) ==
  IF DeletedPrefix(h.c.pendList) = 0 THEN h
  ELSE CleanupRest(IF h.c.window = 0 THEN Callback(Drop(h, 1), "CONT")
                   ELSE Drop(h, 1))

-----------------------------------------------------------------------------
\* RDP_updateNode() for a context: a connection in use is closed.
Readdress(h, known) ==
  [(IF h.c.state = "CLOSED" THEN h ELSE Reset(h)) EXCEPT !.c.known = known]

\* Packets that exceed the capacity of the network are lost.
Carry(s) == SubSeq(s, 1, IF Len(s) > NetCap THEN NetCap ELSE Len(s))

\* What a handler of n concerning m leaves behind; channels is the network
\* without the packet the handler has consumed.
Finish(n, m, h, channels) ==
  /\ conn' = [conn EXCEPT ![n][m] = h.c]
  /\ cleanupReq' = [cleanupReq EXCEPT ![n] = @ \/ h.cleanup]
  /\ net' = [channels EXCEPT ![n][m] = Carry(@ \o h.out)]
  /\ accepted' = [accepted EXCEPT ![n][m] = h.acc]
  /\ owed' = [owed EXCEPT ![n][m] = h.owed]
  /\ told' = [told EXCEPT ![n][m] = h.told]

\* Rsendto(): what is sent for the message just put into pendList.
SendNew(h) ==
  IF h.c.state = "SYN_RECVD" THEN sendSYNACK(h)
  ELSE MYsendto(h, FirstPacket(h.c))

\* Rsendto() returns -1 if the DATA packet could not be sent; h is the context
\* before, r behind the send.
SendFailed(h, r) ==
  /\ h.c.state = "ACTIVE"
  /\ h.env.fail = 1
  /\ h.env.closes => r.c.state = "CLOSED"

\* Rsendto() of a message that passes the checks: it is kept, in state ACTIVE
\* it is sent at once, else the connection is requested (again).
Rsendto(n, m) ==
  \E env \in Environ :
    LET End(h, r) ==
          /\ Finish(n, m, r, net)
          /\ refused' = IF SendFailed(h, r)
                        THEN [refused EXCEPT ![n][m] = @ \cup {h.acc}]
                        ELSE refused
        Kept(h) == End(h, SendNew(h))
    IN  /\ CanSend(Ctx(n, m, env))
        /\ Kept(Enqueue(Ctx(n, m, env)))
        /\ UNCHANGED <<faults, delivered>>

\* handleRDP() of n for the oldest packet from m.  A packet within the closed
\* timer is thrown away.
Receive(n, m) ==
  /\ net[m][n] # << >>
  /\ conn[n][m].known
  /\ LET p == Head(net[m][n])
         rest == [net EXCEPT ![m][n] = Tail(@)]
         End(h, ready) ==
           /\ Finish(n, m, HandleRest(h, p, ready), rest)
           /\ delivered' = IF ready /\ Accepts(h, p)
                           THEN [delivered EXCEPT
                                   ![m][n] = Append(@, p.payload)]
                           ELSE delivered
         Handle(h) == End(UpdateOrACK(h, p), Dispatched(h, p))
     IN  IF conn[n][m].closed
         THEN /\ net' = rest
              /\ UNCHANGED <<conn, cleanupReq, accepted, owed, told, delivered>>
         ELSE \E env \in Environ : Handle(Ctx(n, m, env))
  /\ UNCHANGED <<faults, refused>>

\* handleRDP() for a packet from an address n does not know: a SYN lets the
\* psid look the sender up (RDP_UNKNOWN_SENDER) and, once RDP_updateNode() has
\* set the address, is handled; everything else is thrown away.
ReceiveUnknown(n, m) ==
  /\ net[m][n] # << >>
  /\ ~conn[n][m].known
  /\ LET p == Head(net[m][n])
         rest == [net EXCEPT ![m][n] = Tail(@)]
         Handle(h) ==
           Finish(n, m, IF h.c.closed THEN h ELSE updateState(h, p), rest)
     IN  \/ /\ net' = rest
            /\ UNCHANGED <<conn, cleanupReq, accepted, owed, told>>
         \/ /\ p.type = "SYN"
            /\ \E env \in Environ : Handle(Readdress(Ctx(n, m, env), TRUE))
  /\ UNCHANGED <<faults, refused, delivered>>

\* What handleTimeoutRDP() of n leaves behind, for all peers.
FinishAll(n, h) ==
  /\ conn' = [conn EXCEPT ![n] = [m \in Peer(n) |-> h[m].c]]
  /\ net' = [net EXCEPT ![n] = [m \in Peer(n) |-> Carry(@[m] \o h[m].out)]]
  /\ accepted' = [accepted EXCEPT ![n] = [m \in Peer(n) |-> h[m].acc]]
  /\ owed' = [owed EXCEPT ![n] = [m \in Peer(n) |-> h[m].owed]]
  /\ told' = [told EXCEPT ![n] = [m \in Peer(n) |-> h[m].told]]

\* handleTimeoutRDP(), called every RDPTimeout: resend what has timed out,
\* then free all deleted buffers if anything asked for it.
Timeout(n) ==
  \E env \in [Peer(n) -> Environ] :
    LET Sweep(h) ==
          IF cleanupReq[n] \/ \E m \in Peer(n) : h[m].cleanup
          THEN [m \in Peer(n) |-> Cleanup(h[m])] ELSE h
    IN  /\ FinishAll(n, Sweep([m \in Peer(n) |->
                                  TimeoutResend(Ctx(n, m, env[m]))]))
        /\ cleanupReq' = [cleanupReq EXCEPT ![n] = FALSE]
        /\ UNCHANGED <<faults, refused, delivered>>

\* The resend timer of a connection elapses.
ElapseResend(n, m) ==
  /\ conn[n][m].tmout
  /\ conn' = [conn EXCEPT ![n][m].tmout = FALSE]
  /\ UNCHANGED <<cleanupReq, net, faults, accepted, owed, refused, told,
                 delivered>>

\* The timer of a connection closed by closeConnRDP() elapses; the next
\* Rsendto() or handleRDP() clears it.
ElapseClosed(n, m) ==
  /\ conn[n][m].closed
  /\ conn' = [conn EXCEPT ![n][m].closed = FALSE]
  /\ UNCHANGED <<cleanupReq, net, faults, accepted, owed, refused, told,
                 delivered>>

\* One of the faults, up to the bound.
FaultHappens(kind) ==
  kind \in Fault /\ faults < MaxFault /\ faults' = faults + 1

\* MYrecvfrom() and handleErr(): the error queue reports the peer unreachable;
\* an address that is not (or no longer) known is passed over.
SocketError(n, m) ==
  /\ FaultHappens("icmp") /\ conn[n][m].known
  /\ \E env \in Environ : Finish(n, m, closeConnection(Ctx(n, m, env)), net)
  /\ UNCHANGED <<refused, delivered>>

\* closeConnRDP(): the upper layer has declared the peer dead; no callback.  It
\* closes whatever there is; a peer the psid does not hold for connected (after
\* send_DAEMONSHUTDOWN() has lost the connection by its own send) is closed as
\* often as the bound on faults lets it.
closeConnRDP(n, m) ==
  /\ \/ told[n][m] = "up" /\ UNCHANGED faults
     \/ told[n][m] = "down" /\ FaultHappens("close")
  /\ \E env \in Environ :
       Finish(n, m, [Reset(Ctx(n, m, env)) EXCEPT !.c.closed = TRUE,
                                                  !.told = "down"], net)
  /\ UNCHANGED <<refused, delivered>>

\* RDP_updateNode(): the address of a peer gets unknown or known, the
\* connection is closed without a callback.
RDP_updateNode(n, m) ==
  /\ FaultHappens("address")
  /\ \E env \in Environ :
       Finish(n, m,
              [Readdress(Ctx(n, m, env), ~conn[n][m].known)
                 EXCEPT !.told = "down"], net)
  /\ UNCHANGED <<refused, delivered>>

-----------------------------------------------------------------------------
\* External: the network loses the oldest packet of a channel.
Lose(n, m) ==
  /\ net[n][m] # << >>
  /\ net' = [net EXCEPT ![n][m] = Tail(@)]
  /\ UNCHANGED <<conn, cleanupReq, faults, accepted, owed, refused, told,
                 delivered>>

\* External: a packet is overtaken by the one behind it.
Reorder(n, m) ==
  /\ FaultHappens("reorder")
  /\ \E i \in 2 .. Len(net[n][m]) :
       net' = [net EXCEPT ![n][m] =
                 [@ EXCEPT ![i - 1] = net[n][m][i], ![i] = net[n][m][i - 1]]]
  /\ UNCHANGED <<conn, cleanupReq, accepted, owed, refused, told, delivered>>

\* External: a psid dies and starts again, RDP_init() sets up its table.  What
\* it still owed is lost with it.
Restart(n) ==
  /\ FaultHappens("restart")
  /\ \E fts \in FirstToSend, fe \in FirstExpected, env \in Environ :
       conn' = [conn EXCEPT ![n] =
                  [m \in Peer(n) |-> InitConn(fts, fe, random(Ctx(n, m, env)))]]
  /\ cleanupReq' = [cleanupReq EXCEPT ![n] = FALSE]
  /\ owed' = [owed EXCEPT ![n] = [m \in Peer(n) |-> {}]]
  /\ told' = [told EXCEPT ![n] = [m \in Peer(n) |-> "down"]]
  /\ UNCHANGED <<net, accepted, refused, delivered>>

Init ==
  /\ \E fts \in FirstToSend, fe \in FirstExpected, id \in ConnId :
       /\ conn = [n \in Node |-> [m \in Peer(n) |-> InitConn(fts, fe, id)]]
       /\ id = CHOOSE i \in ConnId : TRUE
  /\ cleanupReq = [n \in Node |-> FALSE]
  /\ net = [n \in Node |-> [m \in Peer(n) |-> << >>]]
  /\ faults = 0
  /\ accepted = [n \in Node |-> [m \in Peer(n) |-> 0]]
  /\ owed = [n \in Node |-> [m \in Peer(n) |-> {}]]
  /\ refused = [n \in Node |-> [m \in Peer(n) |-> {}]]
  /\ told = [n \in Node |-> [m \in Peer(n) |-> "down"]]
  /\ delivered = [n \in Node |-> [m \in Peer(n) |-> << >>]]

Next ==
  \/ \E n \in Node : Timeout(n) \/ Restart(n)
  \/ \E n \in Node : \E m \in Peer(n) :
       \/ Rsendto(n, m) \/ Receive(n, m) \/ ReceiveUnknown(n, m)
       \/ ElapseResend(n, m) \/ ElapseClosed(n, m)
       \/ SocketError(n, m) \/ closeConnRDP(n, m) \/ RDP_updateNode(n, m)
       \/ Lose(n, m) \/ Reorder(n, m)

Spec == Init /\ [][Next]_vars

\* The main loop of every psid goes on: it reads what has arrived, its timer
\* fires and time passes.
Fairness ==
  /\ \A n \in Node : WF_vars(Timeout(n))
  /\ \A n \in Node : \A m \in Peer(n) :
       /\ WF_vars(Receive(n, m) \/ ReceiveUnknown(n, m))
       /\ WF_vars(ElapseResend(n, m))
       /\ WF_vars(ElapseClosed(n, m))

FairSpec == Spec /\ Fairness

-----------------------------------------------------------------------------
(***************************************************************************)
(* Properties                                                              *)
(***************************************************************************)

\* Every variable has its type.
TypeOK ==
  /\ \A n \in Node : \A m \in Peer(n) :
       /\ conn[n][m] \in ConnInfo
       /\ told[n][m] \in {"up", "down"}
       /\ accepted[n][m] \in Nat
       /\ owed[n][m] \subseteq Nat
       /\ refused[n][m] \subseteq Nat
       /\ net[n][m] \in Seq(Packet)
       /\ delivered[n][m] \in Seq(Nat)
  /\ cleanupReq \in [Node -> BOOLEAN]
  /\ faults \in Nat

\* Send slots never leak and are never handed out twice: the free slots and
\* the buffers in pendList, deleted ones included, make up the window.  This
\* is also why getMsg() always finds one of the nrOfNodes * MAX_WINDOW_SIZE
\* buffers initMsgList() has allocated.
WindowAccounting ==
  \A n \in Node : \A m \in Peer(n) :
    LET c == conn[n][m]
    IN  /\ c.window \in 0..MAX_WINDOW_SIZE
        /\ c.window + Len(c.pendList) = MAX_WINDOW_SIZE

\* Deleted buffers are older than live ones, so freeing the front of pendList
\* frees all that clearMsgQ() has deleted.
DeletedFirst ==
  \A n \in Node : \A m \in Peer(n) :
    LET s == conn[n][m].pendList
    IN  \A i, j \in DOMAIN s : i < j /\ s[j].deleted => s[i].deleted

\* "strange things happen": the live messages of a connection carry the
\* numbers from ackExpected on without a gap, up to the next number Rsendto()
\* will use, and the connection ID in use.
SequenceNumbers ==
  \A n \in Node : \A m \in Peer(n) :
    LET c == conn[n][m]
        next == c.frameToSend + c.msgPending
    IN  /\ c.ackExpected + Cardinality(Live(c)) = next
        /\ \A i \in Live(c) :
             /\ c.pendList[i].seqno = next - 1 - (Len(c.pendList) - i)
             /\ c.pendList[i].connid = c.ConnID_out

\* A message Rsendto() has accepted and the sender neither lost by a restart
\* nor gave back by RDP_PKT_UNDELIVERABLE is still pending or was delivered:
\* no acknowledgment ever covers a message the peer has not returned from
\* Rrecvfrom().
NoSilentLoss ==
  \A n \in Node : \A m \in Peer(n) : \A p \in owed[n][m] :
    \/ \E i \in Live(conn[n][m]) : conn[n][m].pendList[i].payload = p
    \/ \E i \in DOMAIN delivered[n][m] : delivered[n][m][i] = p

\* Messages come out of Rrecvfrom() in the order of the Rsendto() calls and
\* never twice, across resends, lost packets, reconnects and restarts.
InOrderOnce ==
  \A n \in Node : \A m \in Peer(n) :
    \A i, j \in DOMAIN delivered[n][m] :
      i < j => delivered[n][m][i] < delivered[n][m][j]

\* The upper layer knows of every usable connection: ACTIVE is entered with
\* RDP_NEW_CONNECTION and never left without RDP_LOST_CONNECTION, a
\* closeConnRDP() or a change of address by the upper layer itself.
ActiveIsTold ==
  \A n \in Node : \A m \in Peer(n) :
    conn[n][m].state = "ACTIVE" => told[n][m] = "up"

\* rdp.h: "RDP_NEW_CONNECTION new connection detected" -- a peer last
\* reported as connected is one the connection to which is usable.
ToldIsActive ==
  \A n \in Node : \A m \in Peer(n) :
    told[n][m] = "up" => conn[n][m].state = "ACTIVE"

\* rdp.h: Rsendto() returns "-1 if an error occurred" -- a message it has
\* refused is not delivered nevertheless.
RefusedNotDelivered ==
  \A n \in Node : \A m \in Peer(n) :
    \A i \in DOMAIN delivered[n][m] : delivered[n][m][i] \notin refused[n][m]

\* While a connection is idle or down nothing waits to be sent, and messages
\* that wait for a connection are counted so that updateState() knows of them.
PendingCounted ==
  \A n \in Node : \A m \in Peer(n) :
    LET c == conn[n][m]
    IN  c.msgPending = IF c.state = "ACTIVE" THEN 0 ELSE Cardinality(Live(c))

\* The two ends of an established connection agree on the numbering: the
\* receiver expects none of the numbers already acknowledged to the sender and
\* none the sender has not used yet.
InStep ==
  \A n \in Node : \A m \in Peer(n) :
    LET s == conn[n][m]
        r == conn[m][n]
    IN  s.state = "ACTIVE" /\ r.state = "ACTIVE" /\ r.ConnID_in = s.ConnID_out
          => s.ackExpected <= r.frameExpected /\ r.frameExpected <= s.frameToSend

\* Seen from outside all of this is a reliable link: whatever packets the
\* network loses, connections are closed and rebuilt and handlers are
\* interrupted, each step of a psid accepts, gives back or delivers messages as
\* ReliableLink allows, in particular none ahead of an earlier one still owed.
Link == INSTANCE ReliableLink
          WITH Node <- Node, accepted <- accepted, owed <- owed,
               delivered <- delivered

ImplementsLink == Link!Spec

\* Each message accepted is eventually delivered or given back, whatever the
\* network loses: resends go on until they succeed or exceed the limit.
Resolved ==
  \A n \in Node : \A m \in Peer(n) : \A p \in 1..MaxMsg[n] :
    p \in owed[n][m] ~> \/ p \notin owed[n][m]
                        \/ \E i \in DOMAIN delivered[n][m] :
                             delivered[n][m][i] = p

\* A window never stays used up by deleted buffers: once full, it gets room.
WindowReopens ==
  \A n \in Node : \A m \in Peer(n) :
    conn[n][m].window = 0 ~> conn[n][m].window > 0
=============================================================================
