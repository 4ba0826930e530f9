----------------------------- MODULE PsidStatus -----------------------------
(***************************************************************************)
(* Node status and the master (bin/daemon/psidstatus.c, main() and         *)
(* RDPCallBack() of psid.c, sendRDP() of psidrdp.c, phase 7 of             *)
(* PSID_shutdown()).                                                       *)
(*                                                                         *)
(* Every psid keeps its own view of the nodes that are up.  The lowest of  *)
(* them is its master; it pings the master, which looks for nodes that no  *)
(* longer ping, tells the others of dead nodes, calls nodes that are down  *)
(* and compares the number of nodes a ping reports with its own.           *)
(*                                                                         *)
(* psid[n] is the whole state of a psid, a handler a function of it.  RDP  *)
(* is what module RDP establishes, without packets: per pair of nodes each *)
(* end has a state and a queue of the messages it has accepted; a queue is *)
(* delivered in order or given back.  Multicast is off, every node has an  *)
(* address, and there are at most 10 nodes down (a round calls no more).   *)
(***************************************************************************)
EXTENDS Integers, Sequences, FiniteSets, SequencesExt

CONSTANTS
  N,               \* number of nodes, with the IDs 0..N-1
  DeadLimit,       \* pings the master lets a node miss
  maxStatusBcasts, \* configured limit of DEAD_NODE broadcasts per round
  MAX_WRONG_CLIENTS, \* wrong numbers of nodes the master lets a node report
  ListLen,         \* nodes that fit into one ACTIVE_NODES message
  Calls,           \* every how many rounds the master calls nodes down (10)
  Initial,         \* the nodes up at first; they know and have reached another
  Starts,          \* bound: how often each node starts
  Stops,           \* the nodes that may be told to shut down
  Mortal,          \* the nodes that may die
  MaxCrash,        \* bound: psids that die
  MaxCut,          \* bound: connections RDP gives up though the peer is alive
  Flaky,           \* the nodes whose RDP may do so
  PingCap,         \* bound: messages under way when a status timer fires
  MissCap          \* bound: pings missed by a node that is well

Node == 0 .. (N - 1)
Peer(n) == Node \ {n}

ASSUME SizeAssumption ==
  N \in 1..11 /\ Starts \in [Node -> Nat] /\ Initial \subseteq Node
ASSUME LimitAssumption ==
  /\ DeadLimit \in Nat \ {0} /\ maxStatusBcasts \in Nat
  /\ MAX_WRONG_CLIENTS \in Nat /\ ListLen \in Nat \ {0}
  /\ Calls \in Nat \ {0} /\ Stops \subseteq Node /\ Mortal \subseteq Node
  /\ Flaky \subseteq Node
  /\ MaxCrash \in Nat /\ MaxCut \in Nat /\ PingCap \in Nat
  /\ MissCap \in Nat /\ MissCap > DeadLimit

VARIABLES
  psid,    \* psid[n]: the state of psid n
  starts,  \* starts[n]: how often n has started
  crashes, \* number of psids that have died
  cuts     \* number of connections given up

vars == <<psid, starts, crashes, cuts>>

\* Of a message, type and what it carries; of a connection, the state of this
\* end and the messages accepted for the peer.
CONNECT == [type |-> "CONNECT"]
ESTABLISHED == [type |-> "ESTABLISHED"]
SHUTDOWN == [type |-> "SHUTDOWN"]
MASTER_IS(m) == [type |-> "MASTER_IS", node |-> m]
DEAD_NODE(m) == [type |-> "DEAD_NODE", node |-> m]
LOAD(k) == [type |-> "LOAD", tot |-> k]
ACTIVE_NODES(list) == [type |-> "ACTIVE_NODES", list |-> list]

Idle == [state |-> "CLOSED", queue |-> << >>]

\* clientStat of a psid that is no master, and of a fresh one: pinged stands
\* for lastPing being younger than statusTimeout.
NoStat == << >>
FreshStat == [m \in Node |-> [pinged |-> TRUE, missCounter |-> 0,
                              wrongClients |-> 0]]

\* The static variables of a psid just started; run is its phase.
Booted(n) ==
  [id |-> n, run |-> "on", up |-> {n}, totNodes |-> 1, known |-> FALSE,
   master |-> 0, stat |-> NoStat, bcasts |-> 0, round |-> 0, untested |-> 0,
   link |-> [m \in Peer(n) |-> Idle]]

-----------------------------------------------------------------------------
(***************************************************************************)
(* Sending.  l is one end of a connection.                                 *)
(***************************************************************************)

\* Rsendto(): the message is accepted; a closed connection is opened.
Rsendto(l, msg) ==
  [state |-> IF l.state = "CLOSED" THEN "SYN_SENT" ELSE l.state,
   queue |-> Append(l.queue, msg)]

\* sendRDP(): "Ensure PSP_DD_DAEMONCONNECT message goes first".
sendRDP(l, msg) ==
  IF l.state # "ACTIVE" /\ l.queue = << >> /\ msg # CONNECT
  THEN Rsendto(Rsendto(l, CONNECT), msg)
  ELSE Rsendto(l, msg)

\* sendMsg() to another node; what a psid sends to itself changes nothing,
\* but for LOAD (see Ping).
sendMsg(p, m, msg) ==
  IF m = p.id THEN p ELSE [p EXCEPT !.link[m] = sendRDP(@, msg)]

\* Messages one after the other.
SendEach(l, msgs) ==
  LET after[k \in 0..Len(msgs)] ==
        IF k = 0 THEN l ELSE sendRDP(after[k - 1], msgs[k])
  IN  after[Len(msgs)]

\* One message to each node of a set.
SendAll(p, nodes, msg) ==
  [p EXCEPT !.link = [m \in DOMAIN @ |->
     IF m \in nodes THEN sendRDP(@[m], msg) ELSE @[m]]]

\* send_DEADNODE(): beyond the limit of a round the death is not announced.
send_DEADNODE(p, m) ==
  LET q == [p EXCEPT !.bcasts = @ + 1]
  IN  IF p.bcasts > maxStatusBcasts THEN q ELSE SendAll(q, p.up, DEAD_NODE(m))

\* send_ACTIVENODES(), one node: once a message is full the next one is begun.
PutNode(lists, n) ==
  IF lists = << >> \/ Len(Last(lists)) = ListLen THEN Append(lists, <<n>>)
  ELSE [lists EXCEPT ![Len(lists)] = Append(@, n)]

\* send_ACTIVENODES(): the nodes up in ascending order, ListLen per message.
ActiveLists(p) ==
  LET put[k \in 0..N] ==
        IF k = 0 THEN << >>
        ELSE IF k - 1 \in p.up THEN PutNode(put[k - 1], k - 1) ELSE put[k - 1]
  IN  [i \in DOMAIN put[N] |-> ACTIVE_NODES(put[N][i])]

send_ACTIVENODES(p, dest) ==
  [p EXCEPT !.link[dest] = SendEach(@, ActiveLists(p))]

-----------------------------------------------------------------------------
(***************************************************************************)
(* The view of a psid.                                                     *)
(***************************************************************************)

\* Mutated msg_LOAD(): a wrong number of nodes is counted, never answered.
Mut_Noted(p, m, tot) ==
  LET q == [p EXCEPT !.stat[m].pinged = TRUE, !.stat[m].missCounter = 0]
  IN  IF tot = p.totNodes \/ p.stat[m].wrongClients >= MAX_WRONG_CLIENTS
      THEN [q EXCEPT !.stat[m].wrongClients = 0]
      ELSE [q EXCEPT !.stat[m].wrongClients = @ + 1]

\* msg_LOAD(): only the master keeps the status of the sender, and not while
\* it shuts down.
Noted(p, m, tot) ==
  LET q == [p EXCEPT !.stat[m].pinged = TRUE, !.stat[m].missCounter = 0]
  IN  IF tot = p.totNodes THEN [q EXCEPT !.stat[m].wrongClients = 0]
      ELSE IF p.stat[m].wrongClients < MAX_WRONG_CLIENTS
      THEN [q EXCEPT !.stat[m].wrongClients = @ + 1]
      ELSE send_ACTIVENODES([q EXCEPT !.stat[m].wrongClients = 0], m)

msg_LOAD(p, m, tot) ==
  CASE p.master # p.id -> sendMsg(p, m, MASTER_IS(p.master))
    [] p.master = p.id /\ p.stat = NoStat -> p
    [] p.master = p.id /\ p.stat # NoStat -> Noted(p, m, tot)

\* handleMasterTasks(), one node c: a ping that was missed is counted.
Counted(c, isUp) ==
  [c EXCEPT !.pinged = FALSE,
            !.missCounter = IF isUp /\ ~c.pinged THEN @ + 1 ELSE @]

\* handleMasterTasks(): a node that did not ping is counted, then called; the
\* nodes down are called every Calls rounds; broadcasts are allowed again.
Missed(p) ==
  [p EXCEPT !.stat = [m \in Node |-> Counted(p.stat[m], m \in p.up)]]

MasterRound(p) ==
  LET called == IF p.round = 0 THEN Node \ p.up ELSE {}
      silent == {m \in p.up \ {p.id} : p.stat[m].missCounter > DeadLimit}
  IN  [SendAll(p, silent \cup called, CONNECT)
         EXCEPT !.bcasts = 0, !.round = (@ + 1) % Calls]

handleMasterTasks(p) == IF p.run = "shutdown" THEN p ELSE MasterRound(Missed(p))

\* sendRDPPing(): the master's own LOAD comes back at once.
sendRDPPing(p) ==
  IF p.master = p.id THEN handleMasterTasks(msg_LOAD(p, p.id, p.totNodes))
  ELSE sendMsg(p, p.master, LOAD(p.totNodes))

\* Mutated declareMaster(): a master that is relieved keeps clientStat.
Mut_declareMaster(p, m) ==
  LET r == [p EXCEPT !.master = m, !.known = TRUE,
                     !.stat = IF m = p.id THEN FreshStat ELSE @]
  IN  CASE (p.known /\ p.master = m) \/ p.run = "shutdown" -> p
        [] ~(p.known /\ p.master = m) /\ p.run # "shutdown" /\ p.known -> r
        [] ~(p.known /\ p.master = m) /\ p.run # "shutdown" /\ ~p.known ->
             sendRDPPing(r)

\* declareMaster(): whoever stops being the master frees clientStat, whoever
\* becomes it gets a fresh one; the first master known starts the pings.
declareMaster(p, m) ==
  LET q == [p EXCEPT !.master = m,
                     !.stat = IF p.known /\ p.master = p.id THEN NoStat ELSE @]
      r == [q EXCEPT !.known = TRUE,
                     !.stat = IF m = p.id THEN FreshStat ELSE @]
  IN  CASE p.known /\ p.master = m -> p
        [] ~(p.known /\ p.master = m) /\ p.run = "shutdown" -> q
        [] ~(p.known /\ p.master = m) /\ p.run # "shutdown" /\ p.known -> r
        [] ~(p.known /\ p.master = m) /\ p.run # "shutdown" /\ ~p.known ->
             sendRDPPing(r)

\* Mutated declareNodeDead(): the next node succeeds, whether up or not.
Mut_NewMaster(p, m) == m + 1

\* declareNodeDead(): the lowest node above the dead master that is up.
NewMaster(p, m) == Min({p.id} \cup {k \in p.up : m <= k /\ k < p.id})

\* declareNodeDead().
Down(p, m) == [p EXCEPT !.up = @ \ {m}, !.totNodes = @ - 1]

Announce(p, m, sendDeadnode) ==
  IF sendDeadnode /\ p.master = p.id THEN send_DEADNODE(p, m) ELSE p

Buried(p, m) == IF m = p.master THEN declareMaster(p, NewMaster(p, m)) ELSE p

declareNodeDead(p, m, sendDeadnode) ==
  IF m \notin p.up THEN p
  ELSE Announce(Buried(Down(p, m), m), m, sendDeadnode)

\* Mutated declareNodeAlive(): a node that was up is counted again.
Mut_Up(p, m) == [p EXCEPT !.up = @ \cup {m}, !.totNodes = @ + 1]

\* declareNodeAlive(): a first node tells who is master, a lower one takes
\* over; the master tells a new node of the others.
Up(p, m) == [p EXCEPT !.up = @ \cup {m},
                      !.totNodes = IF m \in p.up THEN @ ELSE @ + 1]

\* Mutated declareNodeAlive(): only a lower node tells who is master.
Mut_TakeOver(p, m) ==
  CASE ~p.known /\ m < p.id -> declareMaster(p, m)
    [] p.known /\ m < p.master ->
         sendMsg(declareMaster(p, m), p.master, MASTER_IS(m))
    [] OTHER -> p

TakeOver(p, m) ==
  CASE ~p.known -> declareMaster(p, Min({m, p.id}))
    [] p.known /\ m < p.master ->
         sendMsg(declareMaster(p, m), p.master, MASTER_IS(m))
    [] p.known /\ m >= p.master -> p

Greet(p, m, wasUp) ==
  IF p.master = p.id /\ ~wasUp THEN send_ACTIVENODES(p, m) ELSE p

declareNodeAlive(p, m) == Greet(TakeOver(Up(p, m), m), m, m \in p.up)

-----------------------------------------------------------------------------
(***************************************************************************)
(* Messages                                                                *)
(***************************************************************************)

msg_MASTERIS(p, m, new) ==
  IF new = p.master THEN p
  ELSE IF new < p.master THEN sendMsg(p, new, CONNECT)
  ELSE sendMsg(p, m, MASTER_IS(p.master))

\* msg_ACTIVENODES(), one node of the list: what the list leaves out, below
\* the sender and between its nodes, is tested; untested is firstUntested.
Contradicted(p, from, to, msg) ==
  SendAll(p, {k \in p.up : from <= k /\ k < to}, msg)

CheckActive(p, sender, k) ==
  LET q == IF k = sender
           THEN [Contradicted(p, 0, k, CONNECT) EXCEPT !.untested = k + 1]
           ELSE p
      r == Contradicted(q, q.untested, k, MASTER_IS(q.master))
      s == IF k \in r.up THEN r ELSE sendMsg(r, k, CONNECT)
  IN  [s EXCEPT !.untested = k + 1]

Checked(p, sender, list) ==
  LET after[i \in 0..Len(list)] ==
        IF i = 0 THEN p ELSE CheckActive(after[i - 1], sender, list[i])
  IN  after[Len(list)]

msg_ACTIVENODES(p, sender, list) ==
  [p EXCEPT !.link = Checked(p, sender, list).link,
            !.untested = Checked(p, sender, list).untested]

\* closeConnRDP(): no callback.
closeConnRDP(p, m) == [p EXCEPT !.link[m] = Idle]

\* A message of another type changes nothing.
handleMsg(p, m, msg) ==
  CASE msg.type = "CONNECT" ->
         sendMsg(declareNodeAlive(p, m), m, ESTABLISHED)
    [] msg.type = "ESTABLISHED" -> declareNodeAlive(p, m)
    [] msg.type = "SHUTDOWN" -> closeConnRDP(declareNodeDead(p, m, FALSE), m)
    [] msg.type = "MASTER_IS" -> msg_MASTERIS(p, m, msg.node)
    [] msg.type = "ACTIVE_NODES" -> msg_ACTIVENODES(p, m, msg.list)
    [] msg.type = "DEAD_NODE" -> sendMsg(p, msg.node, CONNECT)
    [] msg.type = "LOAD" -> msg_LOAD(p, m, msg.tot)
    [] OTHER -> p

-----------------------------------------------------------------------------
(***************************************************************************)
(* Callbacks of RDP                                                        *)
(***************************************************************************)

\* drop_DAEMONCONNECT(): a psid that looks for the master calls the next node
\* below itself, once for each of the k calls given back, or is the master.
drop_DAEMONCONNECT(p, m, k) ==
  CASE k = 0 \/ p.known \/ p.run = "shutdown" \/ m >= p.id -> p
    [] k # 0 /\ ~p.known /\ p.run # "shutdown" /\ m + 1 < p.id ->
         [p EXCEPT !.link[m + 1] = SendEach(@, [i \in 1..k |-> CONNECT])]
    [] k # 0 /\ ~p.known /\ p.run # "shutdown" /\ m + 1 = p.id ->
         declareMaster(p, p.id)

\* RDP_PKT_UNDELIVERABLE for every message queued, then RDP_LOST_CONNECTION.
GiveBack(p, m) ==
  LET queue == p.link[m].queue
  IN  drop_DAEMONCONNECT(closeConnRDP(p, m), m,
        Cardinality({i \in DOMAIN queue : queue[i] = CONNECT}))

Lost(p, m) ==
  IF p.run = "shutdown" THEN p ELSE declareNodeDead(p, m, TRUE)

closeConnection(p, m) == Lost(GiveBack(p, m), m)

\* RDP_NEW_CONNECTION
NewConnection(p, m) ==
  IF p.run # "shutdown" /\ m \notin p.up THEN sendMsg(p, m, CONNECT) ELSE p

Running(n) == psid[n].run # "off"
End(n, m) == psid[n].link[m].state
SetState(p, m, state) == [p EXCEPT !.link[m].state = state]
Becomes(n, p) == psid' = [psid EXCEPT ![n] = p] /\ UNCHANGED <<starts, crashes, cuts>>

\* updateState(): the handshake asked for by n, one step for both ends (module
\* RDP has the packets).  A connection m still has belongs to a former life of n
\* or was given up by n: it is lost first.
Forgotten(p, m) ==
  IF p.link[m].state = "ACTIVE" THEN closeConnection(p, m) ELSE p

Handshake(n, m) ==
  /\ Running(n) /\ Running(m) /\ End(n, m) = "SYN_SENT"
  /\ psid' = [psid EXCEPT
       ![n] = NewConnection(SetState(@, m, "ACTIVE"), m),
       ![m] = NewConnection(SetState(Forgotten(@, n), n, "ACTIVE"), n)]
  /\ UNCHANGED <<starts, crashes, cuts>>

\* updateState(): a packet of a connection m does not have makes m ask for a new
\* one.
HandleForeign(n, m) ==
  /\ Running(n) /\ Running(m) /\ End(m, n) = "CLOSED"
  /\ End(n, m) = "ACTIVE" /\ psid[n].link[m].queue # << >>
  /\ Becomes(m, SetState(psid[m], n, "SYN_SENT"))

\* PSIDRDP_handleMsg(): n gets the oldest message of m.
Receive(n, m) ==
  /\ Running(n) /\ End(n, m) = "ACTIVE" /\ End(m, n) = "ACTIVE"
  /\ psid[m].link[n].queue # << >>
  /\ LET l == psid[m].link[n]
     IN  psid' = [psid EXCEPT ![n] = handleMsg(@, m, Head(l.queue)),
                              ![m].link[n].queue = Tail(l.queue)]
  /\ UNCHANGED <<starts, crashes, cuts>>

\* resendMsgs(): RDP has resent too often to a peer that is gone.
GiveUp(n, m) ==
  /\ Running(n) /\ ~Running(m)
  /\ psid[n].link[m].queue # << >> \/ End(n, m) = "SYN_SENT"
  /\ Becomes(n, closeConnection(psid[n], m))

\* resendMsgs(): the network fails long enough for RDP to give up a peer.
Cut(n, m) ==
  /\ n \in Flaky /\ Running(n) /\ Running(m) /\ End(n, m) = "ACTIVE" /\ cuts < MaxCut
  /\ psid[n].link[m].queue # << >>
  /\ cuts' = cuts + 1
  /\ psid' = [psid EXCEPT ![n] = closeConnection(@, m)]
  /\ UNCHANGED <<starts, crashes>>

-----------------------------------------------------------------------------
\* The number of messages of psids that run which are not handled yet.
UnderWay ==
  MapThenSumSet(LAMBDA n : MapThenSumSet(LAMBDA m : Len(psid[n].link[m].queue),
                                         Peer(n)),
                {n \in Node : Running(n)})

\* No node that is well has missed more pings of the master p than MissCap.
Patient(p) ==
  p.stat # NoStat =>
    \A m \in p.up : psid[m].run = "on" => p.stat[m].missCounter < MissCap

\* The status timer fires, by PingCap seldom compared with the time messages
\* take.  missCounter has no bound in the code: MissCap bounds how often the
\* timer of a master fires while that of a node that is well does not.
Ping(n) ==
  /\ Running(n) /\ psid[n].known
  /\ UnderWay <= PingCap /\ Patient(psid[n])
  /\ Becomes(n, sendRDPPing(psid[n]))

\* main(): the psid starts and calls node 0, or is it.
Start(n) ==
  /\ ~Running(n) /\ starts[n] < Starts[n]
  /\ psid' = [psid EXCEPT ![n] = IF n = 0 THEN declareMaster(Booted(0), 0)
                                 ELSE sendMsg(Booted(n), 0, CONNECT)]
  /\ starts' = [starts EXCEPT ![n] = @ + 1]
  /\ UNCHANGED <<crashes, cuts>>

\* PSID_shutdown(), phase 0 and phase 7: DAEMONSHUTDOWN goes to all nodes up
\* and the connections are closed at once; what is under way may arrive.
PSID_shutdown(n) ==
  /\ n \in Stops /\ psid[n].run = "on"
  /\ Becomes(n, [psid[n] EXCEPT !.run = "shutdown"])

send_DAEMONSHUTDOWN(p) ==
  [p EXCEPT !.run = "off",
            !.link = [m \in DOMAIN @ |->
               IF m \in p.up /\ @[m].state = "ACTIVE"
               THEN Rsendto(@[m], SHUTDOWN) ELSE @[m]]]

ShutdownEnds(n) ==
  /\ psid[n].run = "shutdown"
  /\ Becomes(n, send_DAEMONSHUTDOWN(psid[n]))

\* External: a psid dies; what is under way may still arrive.
Crash(n) ==
  /\ n \in Mortal /\ Running(n) /\ crashes < MaxCrash
  /\ crashes' = crashes + 1
  /\ psid' = [psid EXCEPT ![n].run = "off"]
  /\ UNCHANGED <<starts, cuts>>

\* External: what a psid that is gone has left in the network is lost.
Fade(n, m) ==
  /\ ~Running(n) /\ psid[n].link[m] # Idle
  /\ Becomes(n, closeConnRDP(psid[n], m))

\* A psid that has met those of Initial, all connections being established.
Settled(n) ==
  [Booted(n) EXCEPT
     !.up = Initial, !.totNodes = Cardinality(Initial), !.known = TRUE,
     !.master = Min(Initial),
     !.stat = IF n = Min(Initial) THEN FreshStat ELSE NoStat,
     !.link = [m \in Peer(n) |->
                 IF m \in Initial THEN [Idle EXCEPT !.state = "ACTIVE"]
                 ELSE Idle]]

Init ==
  /\ psid = [n \in Node |-> IF n \in Initial THEN Settled(n)
                            ELSE [Booted(n) EXCEPT !.run = "off"]]
  /\ starts = [n \in Node |-> 0]
  /\ crashes = 0 /\ cuts = 0

Next ==
  \/ \E n \in Node : \/ Ping(n) \/ Start(n) \/ PSID_shutdown(n)
                     \/ ShutdownEnds(n) \/ Crash(n)
  \/ \E n \in Node : \E m \in Peer(n) :
       \/ Handshake(n, m) \/ HandleForeign(n, m)
       \/ Receive(n, m) \/ GiveUp(n, m) \/ Cut(n, m) \/ Fade(n, m)

Spec == Init /\ [][Next]_vars

\* The main loop of a psid goes on: packets are read, the status timer fires,
\* RDP gives up an unreachable peer, the phases of a shutdown follow.  The
\* timer fires again and again; the bounds PingCap and MissCap must not hold it
\* up for good (a behaviour in which they do is looked at all the same).
Fairness ==
  /\ \A n \in Node : SF_vars(Ping(n)) /\ WF_vars(ShutdownEnds(n))
  /\ \A n \in Node : \A m \in Peer(n) :
       /\ WF_vars(Handshake(n, m)) /\ WF_vars(HandleForeign(n, m))
       /\ WF_vars(Receive(n, m))
       /\ WF_vars(GiveUp(n, m)) /\ WF_vars(Fade(n, m))

FairSpec == Spec /\ Fairness

-----------------------------------------------------------------------------
(***************************************************************************)
(* Properties                                                              *)
(***************************************************************************)

Message ==
  {CONNECT, ESTABLISHED, SHUTDOWN} \cup
  [type : {"MASTER_IS", "DEAD_NODE"}, node : Node] \cup
  [type : {"LOAD"}, tot : 0..N] \cup
  [type : {"ACTIVE_NODES"}, list : Seq(Node)]

Connection == [state : {"CLOSED", "SYN_SENT", "ACTIVE"}, queue : Seq(Message)]

ClientStatus == [pinged : BOOLEAN, missCounter : Nat,
                 wrongClients : 0..MAX_WRONG_CLIENTS]

State(n) ==
  [id : {n}, run : {"on", "shutdown", "off"}, up : SUBSET Node,
   totNodes : 0..N, known : BOOLEAN, master : Node,
   stat : {NoStat} \cup [Node -> ClientStatus],
   bcasts : Nat, round : 0..(Calls - 1), untested : 0..N,
   link : [Peer(n) -> Connection]]

\* Every variable has its type.
TypeOK ==
  /\ \A n \in Node : psid[n] \in State(n)
  /\ starts \in [Node -> Nat] /\ crashes \in Nat /\ cuts \in Nat

\* The number of nodes a ping reports and msg_LOAD() of the master compares is
\* that of the nodes up, however they come and go; otherwise the master would
\* answer every few pings with the list of all nodes for ever.
NodesCounted == \A n \in Node : psid[n].totNodes = Cardinality(psid[n].up)

\* A psid follows the lowest node it considers up: it is never led by a node
\* it knows to be dead and never overlooks a lower one, in whatever order
\* nodes come, die, shut down and are reported (declareNodeAlive(),
\* declareNodeDead(), drop_DAEMONCONNECT()).
MasterIsLowest ==
  \A n \in Node : psid[n].run = "on" /\ psid[n].known
    => psid[n].master = Min(psid[n].up)

\* handleMasterTasks() reads clientStat of a master without asking whether it
\* is there: it is, unless the psid is shutting down; and no other psid keeps
\* one, its partition handler would be active, too.
MasterHasSpace ==
  \A n \in Node : psid[n].run = "on" =>
    (psid[n].stat # NoStat <=> psid[n].known /\ psid[n].master = n)

\* A psid without a master has not heard of any other node, so it is still on
\* its way from node 0 up to itself.
UnknownIsAlone ==
  \A n \in Node : psid[n].run = "on" /\ ~psid[n].known =>
    psid[n].up = {n} /\ psid[n].totNodes = 1

Alive == {n \in Node : psid[n].run = "on"}

\* All psids that are up have the same view, the right one.
Agreed == \A n \in Alive : /\ psid[n].known
                           /\ psid[n].up = Alive
                           /\ psid[n].master = Min(Alive)

\* Once no node starts, dies or is cut off any more, all views become right
\* and stay so: every node finds the others, one master is left, and nobody
\* counts on a node that is gone.
Converges == <>[]Agreed
=============================================================================
