---------------------------- MODULE FlowControl ----------------------------
(***************************************************************************)
(* Flow control between clients (bin/daemon/psidclient.c, psidrdp.c,       *)
(* psidflowcontrol.c, sendMsg() of psidcomm.c, RDPCallBack() of psid.c).   *)
(*                                                                         *)
(* A client hands its messages to its local psid, which forwards them to   *)
(* the psid of the destination's node, which writes them to the socket of  *)
(* the destination.  A psid never blocks: what the RDP window or a socket  *)
(* does not take is stored, and the sender is told to stop (SENDSTOP) and, *)
(* once all is flushed, to continue (SENDCONT).  The psid of a stopped     *)
(* client just no longer reads its socket.                                 *)
(*                                                                         *)
(* Every handler of a psid is one action; it is a function of a context c, *)
(* the part of the state its psid owns (Ctx, Finish).  RDP is taken as     *)
(* what module RDP establishes: per pair of nodes a FIFO without loss or   *)
(* duplicates, with a bounded number of unacknowledged messages, that      *)
(* gives everything unacknowledged back when the connection is lost.       *)
(***************************************************************************)
EXTENDS Integers, Sequences, FiniteSets, SequencesExt

CONSTANTS
  Node,      \* the psids; a node also stands for the daemon's own task ID
  Task,      \* the clients
  Home,      \* the node of each client
  Dest,      \* to whom a client, and to whom a daemon sends
  Fd,        \* file descriptors of a psid, integers
  Started,   \* the fd of each client connected from the start
  Window,    \* send slots of RDP, per node
  SockCap,   \* bound: messages the socket of a client holds
  MaxMsg,    \* bound: messages a task or a daemon sends
  Exits,     \* the clients that may exit
  MaxLost    \* bound: connections lost

ASSUME PlaceAssumption ==
  /\ IsFiniteSet(Node) /\ IsFiniteSet(Task) /\ Task \cap Node = {}
  /\ -1 \notin Task \cup Node
  /\ Home \in [Task -> Node] /\ Dest \in [Task \cup Node -> SUBSET Task]
ASSUME FdAssumption == IsFiniteSet(Fd) /\ Fd \subseteq Nat
ASSUME StartAssumption ==
  /\ DOMAIN Started \subseteq Task
  /\ \A t \in DOMAIN Started : Started[t] \in Fd
  /\ \A t, u \in DOMAIN Started :
       Home[t] = Home[u] /\ Started[t] = Started[u] => t = u
ASSUME CapAssumption ==
  /\ Window \in [Node -> Nat \ {0}] /\ SockCap \in Nat \ {0}
  /\ MaxMsg \in [Task \cup Node -> Nat] /\ Exits \subseteq Task
  /\ MaxLost \in Nat

VARIABLES
  task,    \* task[t]: managed, fd, activeStops; enabled: its socket is read
  client,  \* client[n][f]: clients[f] of psid n
  sock,    \* sock[n][f]: what the client has not read yet; closed by it
  buf,     \* buf[n][m]: node_bufs[m].list of psid n
  link,    \* link[n][m]: pendList of RDP, and how many of it m has received
  up,      \* up[n][m]: PSIDnodes_isUp(m) at n
  lost,    \* number of connections lost
  sent,    \* sent[s]: messages s has handed to its psid
  seen,    \* seen[r][s]: the messages of s that r has read, or left unread in
           \* its socket when it exited
  told     \* told[s]: the messages of s a PSP_CC_ERROR was received for

vars == <<task, client, sock, buf, link, up, lost, sent, seen, told>>

NoFd == -1
NoTask == -1

\* PSC_getID() of a task ID; a daemon's TID has PID 0.
getID(x) == IF x \in Node THEN x ELSE Home[x]
hasPID(x) == x \in Task

Sender == Task \cup Node

\* MSG is PSP_CC_MSG, ERR its PSP_CC_ERROR; ack is the flag of a SENDSTOP that
\* asks for a SENDSTOPACK, num numbers the messages of a sender.
Msg(type, from, to, ack, num) ==
  [type |-> type, from |-> from, to |-> to, ack |-> ack, num |-> num]

Message == [type : {"MSG", "ERR", "STOP", "ACK", "CONT"},
            from : Sender \cup {NoTask}, to : Sender, ack : BOOLEAN, num : Nat]

\* A sender's PID and the type decide whether flow control applies.
applicable(msg) == ~hasPID(msg.from) \/ msg.type \in {"MSG", "ERR"}

NoClient == [tid |-> NoTask, flush |-> FALSE, pendingACKs |-> 0,
             msgs |-> << >>, stops |-> {}]

\* The context of a handler of n; result is what a send has come to.
Ctx(n) ==
  [n |-> n, task |-> task, client |-> client[n], sock |-> sock[n],
   buf |-> buf[n], link |-> link[n], up |-> up[n], result |-> "sent"]

Finish(c) ==
  /\ task' = c.task
  /\ client' = [client EXCEPT ![c.n] = c.client]
  /\ sock' = [sock EXCEPT ![c.n] = c.sock]
  /\ buf' = [buf EXCEPT ![c.n] = c.buf]
  /\ link' = [link EXCEPT ![c.n] = c.link]
  /\ up' = [up EXCEPT ![c.n] = c.up]

Least(a, b) == IF a < b THEN a ELSE b

\* A loop over s, op being its body.
ForEach(op(_, _), c, s) ==
  LET after[k \in 0..Len(s)] ==
        IF k = 0 THEN c ELSE op(after[k - 1], s[k])
  IN  after[Len(s)]

\* PStasklist_find() and the fd of the task.
Connected(c, t) == hasPID(t) /\ c.task[t].managed /\ c.task[t].fd # NoFd

-----------------------------------------------------------------------------
\* Mutated msg_SENDCONT(): one SENDCONT re-enables whatever is still stopped.
Mut_msg_SENDCONT(c, t) ==
  IF ~Connected(c, t) THEN c
  ELSE [c EXCEPT !.task[t].activeStops = @ - 1, !.task[t].enabled = TRUE]

msg_SENDCONT(c, t) ==
  IF ~Connected(c, t) THEN c
  ELSE [c EXCEPT !.task[t].activeStops = @ - 1,
                 !.task[t].enabled = @ \/ c.task[t].activeStops = 1]

\* The sender of a message stored for RDP may continue.
Continue(c, msg) == IF hasPID(msg.from) THEN msg_SENDCONT(c, msg.from) ELSE c

\* Rsendto(): the window has room.
hasRoom(c, m) == Len(c.link[m].pend) < Window[c.n]

\* flushRDPMsgs(): what fits into the window is sent, and the sender of each
\* message is told to continue.
flushRDPMsgs(c, m) ==
  LET k == Least(Window[c.n] - Len(c.link[m].pend), Len(c.buf[m]))
      q == [c EXCEPT !.buf[m] = SubSeq(@, k + 1, Len(@)),
                     !.link[m].pend = @ \o SubSeq(c.buf[m], 1, k)]
  IN  ForEach(Continue, q, SubSeq(c.buf[m], 1, k))

\* sendRDP() behind flushRDPMsgs(): a message that does not fit is stored.  That
\* it is refused is left out: every node has an address, Rsendto() fails for a
\* full window only, and what is sent back to a node while clearRDPMsgs() of it
\* is at work (CLOSE: errors and control messages, which are dropped without a
\* reaction) is thrown away at the end of Lost.
sendOrStore(c, m, msg) ==
  IF c.buf[m] = << >> /\ hasRoom(c, m)
  THEN [c EXCEPT !.link[m].pend = Append(@, msg), !.result = "sent"]
  ELSE [c EXCEPT !.buf[m] = Append(@, msg), !.result = "blocked"]

\* sendRDP(): stored messages first.
sendRDP(c, msg) ==
  LET m == getID(msg.to)
  IN  sendOrStore(IF c.buf[m] = << >> THEN c ELSE flushRDPMsgs(c, m), m, msg)

-----------------------------------------------------------------------------
\* sendMsg() of a SENDCONT.
sendCont(c, from, to) ==
  IF getID(to) = c.n THEN msg_SENDCONT(c, to)
  ELSE sendRDP(c, Msg("CONT", from, to, FALSE, 0))

\* The body of the loop in PSIDFlwCntrl_sendContMsgs().
contIfUp(c, tid, s) ==
  IF hasPID(s) /\ c.up[getID(s)] THEN sendCont(c, tid, s) ELSE c

\* PSIDFlwCntrl_sendContMsgs(): all stops of a client are lifted.
sendContMsgs(c, f, tid) ==
  ForEach(LAMBDA d, s : contIfUp(d, tid, s), [c EXCEPT !.client[f].stops = {}],
          SetToSeq(c.client[f].stops))

\* If nothing is left for a client and every SENDSTOP has been acknowledged, all
\* its stops are lifted.
liftStops(c, f) ==
  IF c.client[f].msgs = << >> /\ c.client[f].pendingACKs = 0
  THEN sendContMsgs(c, f, c.client[f].tid) ELSE c

\* flushClientMsgs(): what fits into the socket is written.  An error of the
\* socket makes it readable again and returns at once.
flushClientMsgs(c, f) ==
  LET cl == c.client[f]
      k == Least(SockCap - Len(c.sock[f].data), Len(cl.msgs))
  IN  IF cl.flush THEN c
      ELSE IF c.sock[f].closed /\ cl.msgs # << >>
           THEN [c EXCEPT !.client[f].flush = TRUE,
                          !.task[cl.tid].enabled = TRUE]
      ELSE liftStops([c EXCEPT !.client[f].msgs = SubSeq(@, k + 1, Len(@)),
                               !.sock[f].data = @ \o SubSeq(cl.msgs, 1, k)],
                     f)

\* Mutated PSIDclient_releaseACK(): leaves the SENDCONTs to flushClientMsgs().
Mut_releaseACK(c, f) == [c EXCEPT !.client[f].pendingACKs = @ - 1]

\* PSIDclient_releaseACK().
releaseACK(c, f) == liftStops([c EXCEPT !.client[f].pendingACKs = @ - 1], f)

msg_SENDSTOPACK(c, t) ==
  IF Connected(c, t) THEN releaseACK(c, c.task[t].fd) ELSE c

\* sendMsg() of a SENDSTOPACK.
sendAck(c, from, to) ==
  IF getID(to) = c.n THEN msg_SENDSTOPACK(c, to)
  ELSE sendRDP(c, Msg("ACK", from, to, FALSE, 0))

\* Mutated msg_SENDSTOP(): a client already stopped sends no ACK.
Mut_msg_SENDSTOP(c, msg) ==
  LET t == msg.to
      q == IF ~Connected(c, t) THEN c
           ELSE [c EXCEPT !.task[t].activeStops = @ + 1,
                          !.task[t].enabled = FALSE]
  IN  IF hasPID(t) /\ c.task[t].managed /\ msg.ack /\ c.task[t].activeStops = 0
      THEN sendAck(q, t, msg.from) ELSE q

\* msg_SENDSTOP(): the first one makes the psid stop reading the client.
msg_SENDSTOP(c, msg) ==
  LET t == msg.to
      q == IF ~Connected(c, t) THEN c
           ELSE [c EXCEPT !.task[t].activeStops = @ + 1,
                          !.task[t].enabled = @ /\ c.task[t].activeStops # 0]
  IN  IF hasPID(t) /\ c.task[t].managed /\ msg.ack
      THEN sendAck(q, t, msg.from) ELSE q

\* sendMsg() of a SENDSTOP.
sendStop(c, from, to, ack) ==
  LET msg == Msg("STOP", from, to, ack, 0)
  IN  IF getID(to) = c.n THEN msg_SENDSTOP(c, msg) ELSE sendRDP(c, msg)

-----------------------------------------------------------------------------
\* Mutated PSIDclient_send(): a message may overtake those stored.
Mut_PSIDclient_send(c, msg) ==
  LET f == c.task[msg.to].fd
      r == [c EXCEPT !.client[f].msgs = Append(@, msg)]
  IN  IF ~Connected(c, msg.to) \/ c.sock[f].closed
        THEN [c EXCEPT !.result = "dropped"]
      ELSE IF Len(c.sock[f].data) < SockCap
        THEN [c EXCEPT !.sock[f].data = Append(@, msg), !.result = "sent"]
      ELSE IF msg.from \in c.client[f].stops THEN [r EXCEPT !.result = "sent"]
      ELSE [r EXCEPT !.client[f].stops = @ \cup {msg.from},
                     !.client[f].pendingACKs = @ + 1, !.result = "blocked"]

\* PSIDclient_send() behind flushClientMsgs(): what the socket does not take is
\* stored, and the sender is to be stopped unless it is already.
writeOrStore(c, f, msg) ==
  LET direct == c.client[f].msgs = << >>
      r == [c EXCEPT !.client[f].msgs = Append(@, msg)]
  IN  CASE direct /\ c.sock[f].closed ->
             [c EXCEPT !.task[msg.to].enabled = TRUE, !.result = "dropped"]
        [] direct /\ ~c.sock[f].closed /\ Len(c.sock[f].data) < SockCap ->
             [c EXCEPT !.sock[f].data = Append(@, msg), !.result = "sent"]
        [] OTHER ->
             IF msg.from \in c.client[f].stops THEN [r EXCEPT !.result = "sent"]
             ELSE [r EXCEPT !.client[f].stops = @ \cup {msg.from},
                            !.client[f].pendingACKs = @ + 1,
                            !.result = "blocked"]

\* PSIDclient_send(): stored messages first.
PSIDclient_send(c, msg) ==
  LET f == c.task[msg.to].fd
  IN  IF ~Connected(c, msg.to) THEN [c EXCEPT !.result = "dropped"]
      ELSE writeOrStore(IF c.client[f].msgs = << >> THEN c
                        ELSE flushClientMsgs(c, f), f, msg)

\* sendMsg() behind the send: the sender of a stored message is told to stop;
\* only stores of clients are acknowledged.
stopIfStored(c, msg, here) ==
  IF c.result # "blocked" THEN c
  ELSE [sendStop(c, msg.to, msg.from, here) EXCEPT !.result = "blocked"]

\* sendMsg() of a client's message, except for the drop.
Forward(c, msg) ==
  LET here == getID(msg.to) = c.n
  IN  stopIfStored(IF here THEN PSIDclient_send(c, msg) ELSE sendRDP(c, msg),
                   msg, here)

\* PSID_dropMsg(): the sender of a PSP_CC_MSG gets a PSP_CC_ERROR.
dropMsg(c, msg) ==
  IF msg.type = "MSG" /\ hasPID(msg.from)
  THEN Forward(c, Msg("ERR", msg.to, msg.from, FALSE, msg.num))
  ELSE c

\* sendMsg() of a client's message.
dropIfRefused(c, msg) == IF c.result = "dropped" THEN dropMsg(c, msg) ELSE c

sendMsg(c, msg) == dropIfRefused(Forward(c, msg), msg)

\* PSID_handleMsg() for a message a daemon has received.
handleMsg(c, msg) ==
  CASE msg.type \in {"MSG", "ERR"} -> sendMsg(c, msg)
    [] msg.type = "STOP" -> msg_SENDSTOP(c, msg)
    [] msg.type = "ACK"  -> msg_SENDSTOPACK(c, msg.to)
    [] msg.type = "CONT" -> msg_SENDCONT(c, msg.to)

\* closeConnection() of a client: its stored messages are dropped, all that it
\* has stopped may continue.
closeConnection(c, f) ==
  LET cl == c.client[f]
      q == [c EXCEPT !.client[f] = [@ EXCEPT !.tid = NoTask, !.msgs = << >>],
                     !.task[cl.tid].fd = NoFd]
      r == sendContMsgs(ForEach(dropMsg, q, cl.msgs), f, NoTask)
  IN  [r EXCEPT !.sock[f] = [data |-> << >>, closed |-> FALSE]]

\* Mutated RDP_PKT_UNDELIVERABLE: the message is not dropped.
Mut_GiveBack(c, msg) == Continue(c, msg)

\* RDP_PKT_UNDELIVERABLE, and a stored message in clearRDPMsgs(): the sender
\* may continue, the message is dropped.
GiveBack(c, msg) == dropMsg(Continue(c, msg), msg)

-----------------------------------------------------------------------------
\* The entries of a client connected via fd f.
NewTask(f) == [managed |-> TRUE, fd |-> f, activeStops |-> 0, enabled |-> TRUE]

\* msg_CLIENTCONNECT() and PSIDclient_register(): the lowest fd not in use.
Connect(t) ==
  LET n == Home[t]
      free == {f \in Fd : client[n][f].tid = NoTask}
      f == CHOOSE x \in free : \A y \in free : x <= y
  IN  /\ ~task[t].managed /\ sent[t] = 0 /\ free # {}
      /\ task' = [task EXCEPT ![t] = NewTask(f)]
      /\ client' = [client EXCEPT
                      ![n][f] = [@ EXCEPT !.tid = t, !.pendingACKs = 0,
                                          !.msgs = << >>, !.stops = {}]]
      /\ UNCHANGED <<sock, buf, link, up, lost, sent, seen, told>>

\* handleClientMsg(): the psid reads a message of its client.
Submit(t) ==
  LET c == Ctx(Home[t])
  IN  /\ Connected(c, t) /\ task[t].enabled
      /\ ~sock[Home[t]][task[t].fd].closed
      /\ sent[t] < MaxMsg[t]
      /\ sent' = [sent EXCEPT ![t] = @ + 1]
      /\ \E r \in Dest[t] :
           Finish(sendMsg(c, Msg("MSG", t, r, FALSE, sent[t] + 1)))
      /\ UNCHANGED <<lost, seen, told>>

\* A daemon answers a client by a message of its own.
Answer(n) ==
  /\ sent[n] < MaxMsg[n]
  /\ sent' = [sent EXCEPT ![n] = @ + 1]
  /\ \E r \in Dest[n] :
       Finish(sendMsg(Ctx(n), Msg("MSG", n, r, FALSE, sent[n] + 1)))
  /\ UNCHANGED <<lost, seen, told>>

\* PSIDRDP_handleMsg(): n receives the next message from m.
Receive(n, m) ==
  LET l == link[m][n]
      End(c) ==
        /\ task' = c.task
        /\ client' = [client EXCEPT ![n] = c.client]
        /\ sock' = [sock EXCEPT ![n] = c.sock]
        /\ buf' = [buf EXCEPT ![n] = c.buf]
        /\ link' = [link EXCEPT ![n] = c.link, ![m][n].got = @ + 1]
  IN  /\ l.got < Len(l.pend)
      /\ End(handleMsg(Ctx(n), l.pend[l.got + 1]))
      /\ UNCHANGED <<up, lost, sent, seen, told>>

\* Mutated doACK(): what has been received is not forgotten.
Mut_Acked(n, m) ==
  LET c == Ctx(n)
      l == link[n][m]
      opened(k) == [c EXCEPT !.link[m].pend = SubSeq(@, k + 1, Len(@))]
  IN  /\ \E k \in 1..l.got :
           Finish(IF hasRoom(c, m) THEN opened(k)
                  ELSE flushRDPMsgs(opened(k), m))
      /\ UNCHANGED <<lost, sent, seen, told>>

\* Mutated doACK(): opens a full window without RDP_CAN_CONTINUE.
Mut_Acked_quiet(n, m) ==
  LET c == Ctx(n)
      l == link[n][m]
  IN  /\ \E k \in 1..l.got :
           Finish([c EXCEPT !.link[m] =
                     [pend |-> SubSeq(l.pend, k + 1, Len(l.pend)),
                      got |-> l.got - k]])
      /\ UNCHANGED <<lost, sent, seen, told>>

\* RDP's doACK() for k messages: the window opens; if it was full,
\* RDP_CAN_CONTINUE.
Acked(n, m) ==
  LET c == Ctx(n)
      l == link[n][m]
      opened(k) == [c EXCEPT !.link[m] =
                      [pend |-> SubSeq(l.pend, k + 1, Len(l.pend)),
                       got |-> l.got - k]]
  IN  /\ \E k \in 1..l.got :
           Finish(IF hasRoom(c, m) THEN opened(k)
                  ELSE flushRDPMsgs(opened(k), m))
      /\ UNCHANGED <<lost, sent, seen, told>>

\* flushClientMsgs() as the write handler of the socket.
Flush(n, f) ==
  /\ client[n][f].msgs # << >>
  /\ Len(sock[n][f].data) < SockCap \/ sock[n][f].closed
  /\ Finish(flushClientMsgs(Ctx(n), f))
  /\ UNCHANGED <<lost, sent, seen, told>>

\* handleClientMsg(): the client has closed its end; PSIDclient_delete(), and
\* PSIDtask_cleanup() unless a forwarder is still to report the exit.
ClientGone(t) ==
  LET n == Home[t]
      c == closeConnection(Ctx(n), task[t].fd)
  IN  /\ Connected(Ctx(n), t) /\ task[t].enabled
      /\ sock[n][task[t].fd].closed
      /\ \E forwarder \in BOOLEAN :
           Finish([c EXCEPT !.task[t].managed = forwarder])
      /\ UNCHANGED <<lost, sent, seen, told>>

\* msg_CHILDDEAD(): the forwarder reports the exit.
ChildDead(t) ==
  /\ task[t].managed /\ task[t].fd = NoFd
  /\ task' = [task EXCEPT ![t].managed = FALSE]
  /\ UNCHANGED <<client, sock, buf, link, up, lost, sent, seen, told>>

\* RDP loses the connection: RDP_PKT_UNDELIVERABLE for all that is pending,
\* what is sent meanwhile included, then RDP_LOST_CONNECTION, i.e.
\* declareNodeDead() and clearRDPMsgs(), in which nothing is sent to the node.
Lost(n, m) ==
  LET pend == link[n][m].pend
      more(c) == ForEach(GiveBack, c, SubSeq(c.link[m].pend, Len(pend) + 1,
                                             Len(c.link[m].pend)))
      dead(c) == ForEach(GiveBack,
                         [c EXCEPT !.buf[m] = << >>, !.up[m] = FALSE],
                         c.buf[m])
  IN  /\ lost < MaxLost
      /\ lost' = lost + 1
      /\ Finish([dead(more(ForEach(GiveBack, Ctx(n), pend)))
                   EXCEPT !.buf[m] = << >>,
                          !.link[m] = [pend |-> << >>, got |-> 0]])
      /\ UNCHANGED <<sent, seen, told>>

\* declareNodeAlive(): the other daemon has introduced itself again.
Alive(n, m) ==
  /\ ~up[n][m]
  /\ up' = [up EXCEPT ![n][m] = TRUE]
  /\ UNCHANGED <<task, client, sock, buf, link, lost, sent, seen, told>>

\* The messages r has seen once it has read msgs.
Noted(r, msgs) ==
  [s \in Sender |->
     seen[r][s] \cup {msgs[i].num : i \in {i \in DOMAIN msgs :
                         msgs[i].type = "MSG" /\ msgs[i].from = s}}]

\* External: the client reads from its socket.
Read(t) ==
  LET n == Home[t]
      f == task[t].fd
      msg == Head(sock[n][f].data)
  IN  /\ f # NoFd /\ sock[n][f].data # << >> /\ ~sock[n][f].closed
      /\ sock' = [sock EXCEPT ![n][f].data = Tail(@)]
      /\ seen' = [seen EXCEPT ![t] = Noted(t, <<msg>>)]
      /\ told' = IF msg.type = "ERR" THEN [told EXCEPT ![t] = @ \cup {msg.num}]
                 ELSE told
      /\ UNCHANGED <<task, client, buf, link, up, lost, sent>>

\* External: the client exits.
Exit(t) ==
  LET n == Home[t]
      f == task[t].fd
  IN  /\ t \in Exits /\ f # NoFd /\ ~sock[n][f].closed
      /\ sock' = [sock EXCEPT ![n][f] = [data |-> << >>, closed |-> TRUE]]
      /\ seen' = [seen EXCEPT ![t] = Noted(t, sock[n][f].data)]
      /\ UNCHANGED <<task, client, buf, link, up, lost, sent, told>>

Peers(n) == {m \in Node : m # n}

Init ==
  /\ task = [t \in Task |->
               IF t \in DOMAIN Started THEN NewTask(Started[t])
               ELSE [managed |-> FALSE, fd |-> NoFd, activeStops |-> 0,
                     enabled |-> FALSE]]
  /\ client = [n \in Node |-> [f \in Fd |->
                 [NoClient EXCEPT !.tid =
                    IF \E t \in DOMAIN Started : Home[t] = n /\ Started[t] = f
                    THEN CHOOSE t \in DOMAIN Started :
                           Home[t] = n /\ Started[t] = f
                    ELSE NoTask]]]
  /\ sock = [n \in Node |-> [f \in Fd |-> [data |-> << >>, closed |-> FALSE]]]
  /\ buf = [n \in Node |-> [m \in Peers(n) |-> << >>]]
  /\ link = [n \in Node |-> [m \in Peers(n) |-> [pend |-> << >>, got |-> 0]]]
  /\ up = [n \in Node |-> [m \in Node |-> TRUE]]
  /\ lost = 0
  /\ sent = [s \in Sender |-> 0]
  /\ seen = [r \in Task |-> [s \in Sender |-> {}]]
  /\ told = [s \in Task |-> {}]

Next ==
  \/ \E t \in Task : \/ Connect(t) \/ Submit(t) \/ ClientGone(t)
                     \/ ChildDead(t) \/ Read(t) \/ Exit(t)
  \/ \E n \in Node : Answer(n)
  \/ \E n \in Node : \E m \in Peers(n) :
       Receive(n, m) \/ Acked(n, m) \/ Lost(n, m) \/ Alive(n, m)
  \/ \E n \in Node, f \in Fd : Flush(n, f)

Spec == Init /\ [][Next]_vars

\* The psids' main loops go on, RDP under them, and clients read what they get.
\* All of this consumes messages, so fairness of the loop as a whole will do;
\* clients that connect and exit again and again do not hold it up.
MainLoop(n) ==
  \/ \E m \in Peers(n) : Receive(n, m) \/ Acked(n, m) \/ Alive(n, m)
  \/ \E f \in Fd : Flush(n, f)

\* Where a step of MainLoop(n), ClientGone(t) or Read(t) changes something:
\* ENABLED <<...>>_vars spelled out, which TLC evaluates far too slowly.
HasWork(n) ==
  \/ \E m \in Peers(n) :
       \/ link[m][n].got < Len(link[m][n].pend)
       \/ link[n][m].got > 0
       \/ ~up[n][m]
  \/ \E f \in Fd :
       /\ client[n][f].msgs # << >> /\ ~client[n][f].flush
       /\ Len(sock[n][f].data) < SockCap \/ sock[n][f].closed

Closed(t) ==
  task[t].fd # NoFd /\ task[t].enabled /\ sock[Home[t]][task[t].fd].closed

Readable(t) ==
  /\ task[t].fd # NoFd
  /\ sock[Home[t]][task[t].fd].data # << >>
  /\ ~sock[Home[t]][task[t].fd].closed

\* Weak fairness of MainLoop(n), of ClientGone(t), and of the clients' reading
\* as a whole.
Fairness ==
  /\ \A n \in Node : []<>(~HasWork(n)) \/ []<><<MainLoop(n)>>_vars
  /\ \A t \in Task : []<>(~Closed(t)) \/ []<><<ClientGone(t)>>_vars
  /\ \/ []<>(\A t \in Task : ~Readable(t))
     \/ []<><<\E t \in Task : Read(t)>>_vars

FairSpec == Spec /\ Fairness

-----------------------------------------------------------------------------
(***************************************************************************)
(* Properties                                                              *)
(***************************************************************************)

\* Messages n has for m that m has not received yet, in order.
Underway(n, m) ==
  LET l == link[n][m]
  IN  SubSeq(l.pend, l.got + 1, Len(l.pend)) \o buf[n][m]

\* Control messages under way from a remote psid to that of task t.
Control(type, ack, t) ==
  LET n == Home[t]
      hits(m) == {i \in DOMAIN Underway(m, n) :
                    LET msg == Underway(m, n)[i]
                    IN  msg.type = type /\ msg.to = t /\ msg.ack = ack}
  IN  FoldSet(LAMBDA m, k : k + Cardinality(hits(m)), 0, Peers(n))

\* Stops that hold for t or are on their way to it: by the clients that have
\* noted t, by t's messages in RDP buffers, and those about to be lifted.
Outstanding(t) ==
  LET n == Home[t]
      stored(m) == {i \in DOMAIN buf[n][m] :
                      buf[n][m][i].from = t /\ applicable(buf[n][m][i])}
  IN  Cardinality({p \in Node \X Fd : t \in client[p[1]][p[2]].stops})
        + FoldSet(LAMBDA m, k : k + Cardinality(stored(m)), 0, Peers(n))
        + Control("CONT", FALSE, t)
        - Control("STOP", TRUE, t)

\* Every variable has its type.
TypeOK ==
  /\ \A t \in Task :
       /\ task[t].managed \in BOOLEAN /\ task[t].enabled \in BOOLEAN
       /\ task[t].fd \in Fd \cup {NoFd} /\ task[t].activeStops \in Int
       /\ told[t] \subseteq Nat
  /\ \A n \in Node, f \in Fd :
       /\ client[n][f].tid \in Task \cup {NoTask}
       /\ client[n][f].flush \in BOOLEAN
       /\ client[n][f].pendingACKs \in Int
       /\ client[n][f].msgs \in Seq(Message)
       /\ client[n][f].stops \subseteq Sender
       /\ sock[n][f].data \in Seq(Message) /\ sock[n][f].closed \in BOOLEAN
  /\ \A n \in Node : \A m \in Peers(n) :
       /\ buf[n][m] \in Seq(Message) /\ link[n][m].pend \in Seq(Message)
       /\ link[n][m].got \in 0..Len(link[n][m].pend)
       /\ up[n][m] \in BOOLEAN
  /\ lost \in Nat
  /\ sent \in [Sender -> Nat] /\ seen \in [Task -> [Sender -> SUBSET Nat]]

\* activeStops counts exactly the stops that hold for a client, wherever the
\* reason is kept, and its socket is read just if there is none.
StopsBalanced ==
  \A t \in Task :
    task[t].fd # NoFd =>
      /\ task[t].activeStops = Outstanding(t)
      /\ ~sock[Home[t]][task[t].fd].closed =>
           (task[t].enabled <=> task[t].activeStops = 0)

\* A client waits for as many SENDSTOPACKs as there are SENDSTOPs or ACKs of
\* it under way: it misses none and expects none that will not come.
AcksCounted ==
  \A n \in Node, f \in Fd :
    LET t == client[n][f].tid
        stops(m) == {i \in DOMAIN Underway(n, m) :
                       Underway(n, m)[i].type = "STOP"
                         /\ Underway(n, m)[i].from = t
                         /\ Underway(n, m)[i].ack}
    IN  t # NoTask =>
          client[n][f].pendingACKs =
            FoldSet(LAMBDA m, k : k + Cardinality(stops(m)), 0, Peers(n))
              + Control("ACK", FALSE, t)

\* Messages wait in a buffer for RDP only while the window is full: this is
\* what makes RDP_CAN_CONTINUE, signalled when a full window opens, enough to
\* get all of them sent.
StoredOnlyIfFull ==
  \A n \in Node : \A m \in Peers(n) :
    buf[n][m] # << >> => Len(link[n][m].pend) = Window[n]

\* What has arrived at the node of r and waits for it.
Waiting(r) ==
  LET n == Home[r]
      f == task[r].fd
  IN  IF f = NoFd THEN << >> ELSE sock[n][f].data \o client[n][f].msgs

\* What is under way from the psid of s to r, in the order r will read it.
Path(s, r) ==
  Waiting(r) \o (IF getID(s) = Home[r] THEN << >>
                 ELSE Underway(getID(s), Home[r]))

\* Those of the messages p that s has sent to r.
Sent(p, s, r) ==
  {i \in DOMAIN p : p[i].type = "MSG" /\ p[i].from = s /\ p[i].to = r}

\* What one client sends another arrives in order and once, although it may be
\* stored at three places on the way.
InOrder ==
  \A s \in Sender, r \in Task :
    LET p == Path(s, r)
    IN  \A i \in Sent(p, s, r) :
          /\ \A k \in seen[r][s] : k < p[i].num
          /\ \A j \in Sent(p, s, r) : i < j => p[i].num < p[j].num

\* The numbers of the messages of s a PSP_CC_ERROR is under way for.
ErrUnderway(s) ==
  LET n == Home[s]
      nums(q) == {q[i].num : i \in {j \in DOMAIN q :
                                      q[j].type = "ERR" /\ q[j].to = s}}
  IN  UNION {nums(Underway(m, n)) : m \in Peers(n)} \cup nums(Waiting(s))

\* A message a psid has taken over is read by its destination, under way, or
\* its sender is told so by PSP_CC_ERROR: a message is never dropped silently
\* because its destination has gone or the connection to it is lost (unless the
\* destination left it unread, or the sender is gone itself).
Accounted ==
  \A s \in Task :
    task[s].fd # NoFd /\ ~sock[Home[s]][task[s].fd].closed =>
      \A k \in 1..sent[s] :
        \/ \E r \in Dest[s] : \/ k \in seen[r][s]
                             \/ \E i \in Sent(Path(s, r), s, r) :
                                  Path(s, r)[i].num = k
        \/ k \in told[s] \cup ErrUnderway(s)

\* psidclient.c: "Flush is under way" -- no flush is under way for a client
\* whose socket is fine once a handler has ended.
FlushOver ==
  \A n \in Node, f \in Fd :
    client[n][f].tid # NoTask /\ ~sock[n][f].closed => ~client[n][f].flush

\* A client that has not finished is not forgotten: a stop is lifted in the end
\* ("once the congestion dissolved"), or the client is closed.  Two things the
\* code does not rule out are excluded openly, and are met without it: a client
\* gets a descriptor FLUSH was left set for when a write failed (psidclient.c
\* 320; PSIDclient_register() does not reset it), and is never flushed; and a
\* SENDSTOPACK for a former process counts for the next one with its task ID
\* (psidclient.c 724), so that a later stop is not lifted.
Continued ==
  [](FlushOver /\ AcksCounted) =>
    \A t \in Task : task[t].fd # NoFd /\ ~task[t].enabled
                      ~> task[t].fd = NoFd \/ task[t].enabled

\* psidflowcontrol.h: "once the congestion dissolved the corresponding hash
\* might be used to send the corresponding SENDCONT messages" -- when nothing is
\* under way, stored or unread any more, no client is stopped.
QuietMeansGoing ==
  (/\ \A n \in Node : \A m \in Peers(n) : Underway(n, m) = << >>
   /\ \A n \in Node, f \in Fd :
        sock[n][f].data = << >> /\ client[n][f].msgs = << >>)
    => \A t \in Task : task[t].fd # NoFd => task[t].enabled
=============================================================================
