--------------------------- MODULE PsidStatusProof ---------------------------
(***************************************************************************)
(* Theorems about PsidStatus, checked by TLAPS.                            *)
(*                                                                         *)
(* What a psid knows of the nodes, its view, is changed by few operators;  *)
(* all the others send messages, count or note pings.  Every operator is   *)
(* shown to keep the view or to lead from a sound view to a sound view,    *)
(* and to keep the types of the state and of the messages under way.       *)
(***************************************************************************)
EXTENDS PsidStatus, FiniteSetTheorems, SequenceTheorems, WellFoundedInduction,
        TLAPS

\* A psid is a record of these fields.
Shape(p) ==
  DOMAIN p = {"id", "run", "up", "totNodes", "known", "master", "stat",
              "bcasts", "round", "untested", "link"}

\* clientStat, if there is one, has an entry for each node.
StatOK(p) ==
  p.stat = NoStat \/ (DOMAIN p.stat = Node /\ p.stat = [m \in Node |-> p.stat[m]])

Formed(p) ==
  /\ Shape(p) /\ StatOK(p)
  /\ p.run \in {"on", "shutdown", "off"} /\ p.known \in BOOLEAN

\* q has the same view as p.
Kin(p, q) ==
  /\ Formed(q)
  /\ q.id = p.id /\ q.run = p.run /\ q.up = p.up /\ q.totNodes = p.totNodes
  /\ q.known = p.known /\ q.master = p.master
  /\ q.stat = NoStat <=> p.stat = NoStat

\* Whoever is the master, and nobody else, keeps clientStat.
Led(p) == p.stat # NoStat <=> p.known /\ p.master = p.id

Lowest(p) == p.known => p.master = Min(p.up)

Alone(p) == ~ p.known => p.up = {p.id} /\ p.totNodes = 1

\* The view of a psid that runs is sound.
Sound(p, n) ==
  /\ Formed(p) /\ p.id = n /\ p.up \subseteq Node /\ n \in p.up
  /\ p.master \in Node
  /\ p.run = "on" => Led(p) /\ Lowest(p) /\ Alone(p)


-----------------------------------------------------------------------------
(***************************************************************************)
(* Loops                                                                   *)
(***************************************************************************)
LEMMA LeastNumber ==
  ASSUME NEW T, T \subseteq Nat, T # {}
  PROVE  \E x \in T : \A y \in T : x <= y
<1>1. \E x \in T : \A y \in T : ~ (<<y, x>> \in OpToRel(<, Nat))
  BY NatLessThanWellFounded, WFMin
<1>2. \A a, b \in Nat : <<a, b>> \in OpToRel(<, Nat) <=> a < b
  BY Zenon DEF OpToRel
<1>3. \E x \in T : \A y \in T : ~ (y < x)
  BY <1>1, <1>2, Zenon
<1>4. \A x, y \in Nat : ~ (y < x) => x <= y
  OBVIOUS
<1> QED BY <1>3, <1>4, Zenon

\* What each turn of a loop keeps, the loop keeps.
LEMMA LoopKeeps ==
  ASSUME NEW S, NEW a, NEW n \in Nat, a[0] \in S,
         \A k \in 1..n : a[k - 1] \in S => a[k] \in S
  PROVE  \A k \in 0..n : a[k] \in S
<1> DEFINE T == {k \in 0..n : a[k] \notin S}
<1>1. SUFFICES ASSUME T # {} PROVE FALSE
  OBVIOUS
<1>2. PICK x \in T : \A y \in T : x <= y
  <2>1. T \subseteq Nat
    OBVIOUS
  <2> HIDE DEF T
  <2> QED BY <1>1, <2>1, LeastNumber
<1>3. x \in 1..n /\ x - 1 \in 0..n /\ ~(x <= x - 1)
  BY <1>2
<1>4. x - 1 \notin T
  BY <1>2, <1>3
<1> QED BY <1>2, <1>3, <1>4

\* The values of the variables of a loop that calls F for each element of s.
Turns(a, n, c, s, F) ==
  a = [k \in 0..n |-> IF k = 0 THEN c ELSE F[<<a[k - 1], s[k]>>]]

LEMMA LoopEnds ==
  ASSUME NEW S, NEW M, NEW F \in [S \X M -> S], NEW c \in S, NEW s \in Seq(M)
  PROVE  \E a : Turns(a, Len(s), c, s, F) /\ \A k \in 0..Len(s) : a[k] \in S
<1> DEFINE Runs(n, a) == Turns(a, n, c, s, F) /\ \A k \in 0..n : a[k] \in S
           T == {n \in 0..Len(s) : ~ \E a : Runs(n, a)}
<1>0. Len(s) \in Nat /\ \A i \in 1..Len(s) : s[i] \in M
  BY LenProperties, ElementOfSeq
<1>1. SUFFICES ASSUME T # {} PROVE FALSE
  BY <1>0
<1>2. PICK n \in T : \A y \in T : n <= y
  <2>1. T \subseteq Nat
    BY <1>0
  <2> HIDE DEF T
  <2> QED BY <1>1, <2>1, LeastNumber
<1>3. CASE n = 0
  <2> DEFINE a == [k \in 0..0 |-> c]
  <2>1. \A k \in 0..0 : a[k] = c /\ k = 0
    OBVIOUS
  <2>2. a = [k \in 0..0 |-> IF k = 0 THEN c ELSE F[<<a[k - 1], s[k]>>]]
    OBVIOUS
  <2> HIDE DEF a
  <2>3. Runs(0, a)
    BY <2>1, <2>2 DEF Turns
  <2> QED BY <1>2, <1>3, <2>3
<1>4. CASE n # 0
  <2>1. n - 1 \in 0..Len(s) /\ n \in 1..Len(s) /\ ~(n <= n - 1) /\ n \in Nat
    BY <1>0, <1>2, <1>4
  <2>2. PICK a : Runs(n - 1, a)
    BY <1>2, <2>1
  <2> DEFINE b == [k \in 0..n |-> IF k = n THEN F[<<a[n - 1], s[n]>>] ELSE a[k]]
  <2>3. /\ b[n] = F[<<a[n - 1], s[n]>>]
        /\ \A k \in 0..(n - 1) : b[k] = a[k]
        /\ b = [k \in 0..n |-> b[k]]
    BY <2>1
  <2> HIDE DEF b
  <2>4. a[n - 1] \in S /\ s[n] \in M /\ \A k \in 0..(n - 1) : a[k] \in S
    BY <1>0, <2>1, <2>2
  <2>5. b[n] \in S
    BY <2>3, <2>4
  <2>6. ASSUME NEW k \in 0..n
        PROVE  /\ b[k] = IF k = 0 THEN c ELSE F[<<b[k - 1], s[k]>>]
               /\ b[k] \in S
    <3>1. CASE k = n
      <4>1. n - 1 \in 0..(n - 1) /\ n # 0
        BY <1>4, <2>1
      <4> QED BY <2>3, <2>5, <3>1, <4>1
    <3>2. CASE k # n
      <4>1. k \in 0..(n - 1) /\ (k # 0 => k - 1 \in 0..(n - 1))
        BY <2>1, <3>2
      <4>2. a[k] = IF k = 0 THEN c ELSE F[<<a[k - 1], s[k]>>]
        BY <2>2, <4>1 DEF Turns
      <4> QED BY <2>3, <2>4, <4>1, <4>2
    <3> QED BY <3>1, <3>2
  <2>7. Runs(n, b)
    BY <2>3, <2>6 DEF Turns
  <2> QED BY <1>2, <2>7
<1> QED BY <1>3, <1>4

-----------------------------------------------------------------------------
\* Sets of nodes have a lowest member.
LEMMA MinExists ==
  ASSUME NEW S, S \subseteq Node, S # {}
  PROVE  Min(S) \in S /\ \A y \in S : Min(S) <= y
<1>0. Node \subseteq Nat
  BY SizeAssumption DEF Node
<1>1. \E x \in S : \A y \in S : x <= y
  <2>1. S \subseteq Nat
    BY <1>0
  <2> QED BY <2>1, LeastNumber
<1> QED BY <1>1, Zenon DEF Min

LEMMA MinIs ==
  ASSUME NEW S, S \subseteq Node, NEW x \in S, \A y \in S : x <= y
  PROVE  Min(S) = x
<1>1. Min(S) \in S /\ \A y \in S : Min(S) <= y
  BY MinExists
<1>2. Min(S) <= x /\ x <= Min(S)
  BY <1>1
<1>3. Min(S) \in Int /\ x \in Int
  <2>1. Node \subseteq Int
    BY SizeAssumption DEF Node
  <2> QED BY <1>1, <2>1
<1> QED BY <1>2, <1>3

-----------------------------------------------------------------------------
(***************************************************************************)
(* Operators that leave the view alone                                     *)
(***************************************************************************)
LEMMA KinTransitive ==
  ASSUME NEW p, NEW q, NEW r, Kin(p, q), Kin(q, r)
  PROVE  Kin(p, r)
BY DEF Kin

LEMMA KinReflexive ==
  ASSUME NEW p, Formed(p)
  PROVE  Kin(p, p)
BY DEF Kin

LEMMA KinSound ==
  ASSUME NEW p, NEW q, NEW n, Sound(p, n), Kin(p, q)
  PROVE  Sound(q, n)
BY DEF Kin, Sound, Led, Lowest, Alone

\* Messages, counters and connections are not part of the view.
LEMMA AuxKin ==
  ASSUME NEW p, Formed(p), NEW l, NEW k
  PROVE  /\ Kin(p, [p EXCEPT !.link = l])
         /\ Kin(p, [p EXCEPT !.bcasts = k])
         /\ Kin(p, [p EXCEPT !.bcasts = 0, !.round = k])
         /\ Kin(p, [p EXCEPT !.untested = k])
         /\ Kin(p, [p EXCEPT !.link = l, !.untested = k])
BY DEF Kin, Formed, Shape, StatOK

LEMMA SendingKin ==
  ASSUME NEW p, Formed(p), NEW m, NEW msg, NEW nodes
  PROVE  /\ Kin(p, sendMsg(p, m, msg)) /\ Kin(p, SendAll(p, nodes, msg))
         /\ Kin(p, send_ACTIVENODES(p, m)) /\ Kin(p, closeConnRDP(p, m))
<1>1. Kin(p, sendMsg(p, m, msg))
  BY AuxKin, KinReflexive DEF sendMsg
<1>2. Kin(p, SendAll(p, nodes, msg))
  BY AuxKin DEF SendAll
<1>3. Kin(p, send_ACTIVENODES(p, m))
  BY AuxKin DEF send_ACTIVENODES
<1>4. Kin(p, closeConnRDP(p, m))
  BY AuxKin DEF closeConnRDP
<1> QED BY <1>1, <1>2, <1>3, <1>4

LEMMA SetStateKin ==
  ASSUME NEW p, Formed(p), NEW m, NEW state
  PROVE  Kin(p, SetState(p, m, state))
BY AuxKin DEF SetState

LEMMA DeadnodeKin ==
  ASSUME NEW p, Formed(p), NEW m
  PROVE  Kin(p, send_DEADNODE(p, m))
<1> DEFINE q == [p EXCEPT !.bcasts = @ + 1]
<1>1. Kin(p, q)
  BY AuxKin
<1>2. send_DEADNODE(p, m) = q \/ send_DEADNODE(p, m) = SendAll(q, p.up, DEAD_NODE(m))
  BY Zenon DEF send_DEADNODE
<1> HIDE DEF q
<1>3. Kin(q, SendAll(q, p.up, DEAD_NODE(m)))
  BY <1>1, SendingKin DEF Kin
<1> QED BY <1>1, <1>2, <1>3, KinTransitive

\* handleMasterTasks() is there for masters that are not shutting down.
LEMMA TasksKin ==
  ASSUME NEW p, Formed(p), p.run # "shutdown" => p.stat # NoStat
  PROVE  Kin(p, handleMasterTasks(p))
<1>1. CASE p.run = "shutdown"
  BY <1>1, KinReflexive DEF handleMasterTasks
<1>2. CASE p.run # "shutdown"
  <2> DEFINE q == Missed(p)
  <2>1. Kin(p, q)
    <3> DEFINE f == [m \in Node |-> Counted(p.stat[m], m \in p.up)]
    <3>1. q = [p EXCEPT !.stat = f]
      BY DEF Missed
    <3>2. DOMAIN f = Node /\ f = [m \in Node |-> f[m]] /\ f # NoStat
      <4>1. 0 \in Node
        BY SizeAssumption DEF Node
      <4>2. DOMAIN NoStat = {}
        BY DEF NoStat
      <4> QED BY <4>1, <4>2
    <3> HIDE DEF f, q
    <3> QED BY <1>2, <3>1, <3>2 DEF Kin, Formed, Shape, StatOK
  <2>2. \A nodes, msg : Kin(q, SendAll(q, nodes, msg))
    BY <2>1, SendingKin DEF Kin
  <2>3. \A r : Formed(r) => \A k : Kin(r, [r EXCEPT !.bcasts = 0, !.round = k])
    BY AuxKin
  <2>4. Kin(q, MasterRound(q))
    <3> HIDE DEF q
    <3>1. PICK nodes : MasterRound(q) =
            [SendAll(q, nodes, CONNECT) EXCEPT !.bcasts = 0, !.round = (@ + 1) % Calls]
      BY Zenon DEF MasterRound
    <3> DEFINE r == SendAll(q, nodes, CONNECT)
    <3>2. Kin(q, r)
      BY <2>2
    <3>3. MasterRound(q) = [r EXCEPT !.bcasts = 0, !.round = (r.round + 1) % Calls]
      BY <3>1
    <3>4. Kin(r, MasterRound(q))
      <4> HIDE DEF r
      <4>1. Formed(r)
        BY <3>2 DEF Kin
      <4>2. Kin(r, [r EXCEPT !.bcasts = 0, !.round = (r.round + 1) % Calls])
        BY <2>3, <4>1
      <4> QED BY <3>3, <4>2
    <3> HIDE DEF r
    <3> QED BY <3>2, <3>4, KinTransitive
  <2>5. handleMasterTasks(p) = MasterRound(q)
    BY <1>2 DEF handleMasterTasks
  <2> HIDE DEF q
  <2> QED BY <2>1, <2>4, <2>5, KinTransitive
<1> QED BY <1>1, <1>2

LEMMA LoadKin ==
  ASSUME NEW p, Formed(p), NEW m, NEW tot
  PROVE  Kin(p, msg_LOAD(p, m, tot))
<1>1. CASE p.master # p.id
  BY <1>1, SendingKin DEF msg_LOAD
<1>2. CASE p.master = p.id /\ p.stat = NoStat
  BY <1>2, KinReflexive DEF msg_LOAD
<1>3. CASE p.master = p.id /\ p.stat # NoStat
  <2> DEFINE q == [p EXCEPT !.stat[m].pinged = TRUE, !.stat[m].missCounter = 0]
  <2>1. \A s : DOMAIN s = Node /\ s = [k \in Node |-> s[k]]
               => Kin(p, [p EXCEPT !.stat = s])
    <3>1. 0 \in Node /\ DOMAIN NoStat = {}
      BY SizeAssumption DEF Node, NoStat
    <3> QED BY <1>3, <3>1 DEF Kin, Formed, Shape, StatOK
  <2>2. DOMAIN p.stat = Node
    BY <1>3 DEF Formed, StatOK
  <2>3. Kin(p, q)
    <3> DEFINE s == [p.stat EXCEPT ![m].pinged = TRUE, ![m].missCounter = 0]
    <3>1. DOMAIN s = Node /\ s = [k \in Node |-> s[k]]
      BY <2>2
    <3>2. q = [p EXCEPT !.stat = s]
      BY DEF Formed, Shape
    <3> HIDE DEF s, q
    <3> QED BY <2>1, <3>1, <3>2
  <2>4. ASSUME NEW w PROVE Kin(p, [q EXCEPT !.stat[m].wrongClients = w])
    <3> DEFINE s == [[p.stat EXCEPT ![m].pinged = TRUE, ![m].missCounter = 0]
                        EXCEPT ![m].wrongClients = w]
    <3>1. DOMAIN s = Node /\ s = [k \in Node |-> s[k]]
      BY <2>2
    <3>2. [q EXCEPT !.stat[m].wrongClients = w] = [p EXCEPT !.stat = s]
      BY DEF Formed, Shape
    <3> HIDE DEF s, q
    <3> QED BY <2>1, <3>1, <3>2
  <2> HIDE DEF q
  <2>5. \A r : Kin(p, r) => Kin(p, send_ACTIVENODES(r, m))
    BY SendingKin, KinTransitive DEF Kin
  <2>6. CASE tot = p.totNodes
    <3>1. Noted(p, m, tot) = [q EXCEPT !.stat[m].wrongClients = 0]
      BY <2>6 DEF Noted, q
    <3> QED BY <1>3, <2>4, <3>1 DEF msg_LOAD
  <2>7. CASE tot # p.totNodes /\ p.stat[m].wrongClients < MAX_WRONG_CLIENTS
    <3>1. Noted(p, m, tot) = [q EXCEPT !.stat[m].wrongClients = @ + 1]
      BY <2>7 DEF Noted, q
    <3> QED BY <1>3, <2>4, <3>1 DEF msg_LOAD
  <2>8. CASE tot # p.totNodes /\ ~ (p.stat[m].wrongClients < MAX_WRONG_CLIENTS)
    <3>1. Noted(p, m, tot) =
            send_ACTIVENODES([q EXCEPT !.stat[m].wrongClients = 0], m)
      BY <2>8 DEF Noted, q
    <3> QED BY <1>3, <2>4, <2>5, <3>1 DEF msg_LOAD
  <2> QED BY <2>6, <2>7, <2>8
<1> QED BY <1>1, <1>2, <1>3

LEMMA PingKin ==
  ASSUME NEW p, Formed(p),
         p.master = p.id /\ p.run # "shutdown" => p.stat # NoStat
  PROVE  Kin(p, sendRDPPing(p))
<1>1. CASE p.master = p.id
  <2>1. Kin(p, msg_LOAD(p, p.id, p.totNodes))
    BY LoadKin
  <2> DEFINE q == msg_LOAD(p, p.id, p.totNodes)
  <2> HIDE DEF q
  <2>2. Kin(q, handleMasterTasks(q))
    BY <1>1, <2>1, TasksKin DEF Kin, q
  <2> QED BY <1>1, <2>1, <2>2, KinTransitive DEF sendRDPPing, q
<1>2. CASE p.master # p.id
  BY <1>2, SendingKin DEF sendRDPPing
<1> QED BY <1>1, <1>2

\* Lists of nodes only lead to other messages.
LEMMA ActivenodesKin ==
  ASSUME NEW p, Formed(p), NEW m, NEW list
  PROVE  Kin(p, msg_ACTIVENODES(p, m, list))
<1> HIDE DEF Checked
<1> QED BY AuxKin DEF msg_ACTIVENODES

-----------------------------------------------------------------------------
(***************************************************************************)
(* Operators that change the view                                          *)
(***************************************************************************)
LEMMA FreshIsStat ==
  DOMAIN FreshStat = Node /\ FreshStat = [m \in Node |-> FreshStat[m]]
  /\ FreshStat # NoStat
<1>1. 0 \in Node /\ DOMAIN NoStat = {}
  BY SizeAssumption DEF Node, NoStat
<1>2. DOMAIN FreshStat = Node /\ FreshStat = [m \in Node |-> FreshStat[m]]
  BY DEF FreshStat
<1> QED BY <1>1, <1>2

\* Whoever was the master loses clientStat, whoever becomes it gets one.
LEMMA DeclareMaster ==
  ASSUME NEW p, Formed(p), NEW m, p.run = "on" => Led(p)
  PROVE  LET q == declareMaster(p, m)
         IN  /\ Formed(q) /\ q.master = m
             /\ q.id = p.id /\ q.run = p.run /\ q.up = p.up
             /\ q.totNodes = p.totNodes
             /\ p.run = "on" => Led(q) /\ q.known
<1> DEFINE q == [p EXCEPT !.master = m,
                   !.stat = IF p.known /\ p.master = p.id THEN NoStat ELSE @]
           r == [q EXCEPT !.known = TRUE,
                          !.stat = IF m = p.id THEN FreshStat ELSE @]
           Done(s) == /\ Formed(s) /\ s.master = m
                      /\ s.id = p.id /\ s.run = p.run /\ s.up = p.up
                      /\ s.totNodes = p.totNodes
                      /\ p.run = "on" => Led(s) /\ s.known
<1>1. /\ Formed(q) /\ q.master = m /\ q.id = p.id /\ q.run = p.run
      /\ q.up = p.up /\ q.totNodes = p.totNodes /\ q.known = p.known
      /\ q.stat = IF p.known /\ p.master = p.id THEN NoStat ELSE p.stat
  BY DEF Formed, Shape, StatOK
<1> DEFINE declared == declareMaster(p, m)
<1>2. /\ p.known /\ p.master = m => declared = p
      /\ ~(p.known /\ p.master = m) /\ p.run = "shutdown" => declared = q
      /\ ~(p.known /\ p.master = m) /\ p.run # "shutdown" /\ p.known
         => declared = r
      /\ ~(p.known /\ p.master = m) /\ p.run # "shutdown" /\ ~p.known
         => declared = sendRDPPing(r)
  BY DEF declareMaster
<1> HIDE DEF declared, q
<1>3. /\ Formed(r) /\ r.master = m /\ r.id = p.id /\ r.run = p.run
      /\ r.up = p.up /\ r.totNodes = p.totNodes /\ r.known = TRUE
      /\ r.stat = IF m = p.id THEN FreshStat ELSE q.stat
  BY <1>1, FreshIsStat DEF Formed, Shape, StatOK
<1> HIDE DEF r
<1>4. Done(r)
  BY <1>1, <1>3, FreshIsStat DEF Led
<1>5. Done(sendRDPPing(r))
  <2>1. r.master = r.id /\ r.run # "shutdown" => r.stat # NoStat
    BY <1>3, FreshIsStat
  <2>2. Kin(r, sendRDPPing(r))
    BY <1>3, <2>1, PingKin
  <2> DEFINE s == sendRDPPing(r)
  <2> HIDE DEF s
  <2> QED BY <1>4, <2>2 DEF Kin, Led, s
<1>6. p.known /\ p.master = m => Done(p)
  OBVIOUS
<1>7. p.run = "shutdown" => Done(q)
  BY <1>1
<1> HIDE DEF Done
<1>8. Done(declared)
  BY <1>2, <1>4, <1>5, <1>6, <1>7
<1> QED BY <1>8 DEF Done, declared

LEMMA BootedIs ==
  ASSUME NEW n \in Node
  PROVE  Formed(Booted(n)) /\ Booted(n).id = n /\ Booted(n).up = {n}
         /\ Booted(n).totNodes = 1 /\ Booted(n).known = FALSE
         /\ Booted(n).run = "on" /\ Booted(n).master = 0
         /\ Booted(n).stat = NoStat
BY DEF Booted, Formed, Shape, StatOK

\* A node that dies or shuts down; its successor is the lowest left.
LEMMA NodeDeadSound ==
  ASSUME NEW n \in Node, NEW p, Sound(p, n), NEW m \in Peer(n),
         NEW sendDeadnode
  PROVE  Sound(declareNodeDead(p, m, sendDeadnode), n)
<1>1. CASE m \notin p.up
  BY <1>1 DEF declareNodeDead
<1>2. CASE m \in p.up
  <2> DEFINE d == Down(p, m)
             b == Buried(d, m)
  <2>0. /\ m \in Node /\ m # n /\ Node \subseteq Int
        /\ p.up \subseteq Node /\ n \in p.up /\ p.id = n /\ p.master \in Node
    BY SizeAssumption DEF Peer, Node, Sound
  <2>1. /\ Formed(d) /\ d.id = n /\ d.run = p.run /\ d.up = p.up \ {m}
        /\ d.known = p.known /\ d.master = p.master
        /\ d.run = "on" => Led(d) /\ Lowest(p) /\ p.known
    BY <1>2, <2>0 DEF Down, Sound, Formed, Shape, StatOK, Led, Alone
  <2> HIDE DEF d
  <2>2. ASSUME m = p.master PROVE Sound(b, n)
    <3> DEFINE new == NewMaster(d, m)
               S == {n} \cup {k \in d.up : m <= k /\ k < n}
    <3>1. /\ Formed(b) /\ b.master = new /\ b.id = n /\ b.run = p.run
          /\ b.up = d.up
          /\ p.run = "on" => Led(b) /\ b.known
      BY <2>1, <2>2, DeclareMaster DEF Buried
    <3>2. new = Min(S)
      BY <2>1 DEF NewMaster
    <3>3. S \subseteq Node /\ S # {}
      BY <2>0, <2>1
    <3>4. new \in S /\ \A y \in S : new <= y
      BY <3>2, <3>3, MinExists
    <3> HIDE DEF new
    <3>5. ASSUME p.run = "on" PROVE new = Min(d.up)
      <4>1. \A y \in p.up : m <= y
        BY <1>2, <2>0, <2>1, <2>2, <3>5, MinExists DEF Lowest
      <4>2. new \in d.up
        BY <2>0, <2>1, <3>4
      <4>3. ASSUME NEW y \in d.up PROVE new <= y
        <5>1. y \in Int /\ n \in Int /\ new \in Int /\ m <= y
          BY <2>0, <2>1, <4>1, <4>2
        <5>2. CASE y < n
          BY <3>4, <5>1, <5>2
        <5>3. CASE ~ (y < n)
          BY <3>4, <5>1, <5>3
        <5> QED BY <5>2, <5>3
      <4>4. d.up \subseteq Node
        BY <2>0, <2>1
      <4> QED BY <4>2, <4>3, <4>4, MinIs
    <3> HIDE DEF b
    <3>6. Sound(b, n)
      BY <2>0, <2>1, <3>1, <3>3, <3>4, <3>5 DEF Sound, Lowest, Alone
    <3> QED BY <3>6 DEF b
  <2>3. ASSUME m # p.master PROVE Sound(b, n)
    <3>1. b = d
      BY <2>1, <2>3 DEF Buried
    <3>2. ASSUME p.run = "on" PROVE p.master = Min(d.up)
      <4>1. p.master \in p.up /\ \A y \in p.up : p.master <= y
        BY <2>0, <2>1, <3>2, MinExists DEF Lowest
      <4>2. d.up \subseteq Node /\ p.master \in d.up
        BY <2>0, <2>1, <2>3, <4>1
      <4> QED BY <2>1, <4>1, <4>2, MinIs
    <3>3. Sound(d, n)
      BY <2>0, <2>1, <3>2 DEF Sound, Lowest, Alone
    <3> QED BY <3>1, <3>3
  <2>4. Sound(b, n)
    BY <2>2, <2>3
  <2> HIDE DEF b
  <2>5. Sound(Announce(b, m, sendDeadnode), n)
    <3>1. Kin(b, send_DEADNODE(b, m))
      BY <2>4, DeadnodeKin DEF Sound
    <3> QED BY <2>4, <3>1, KinSound DEF Announce
  <2> QED BY <1>2, <2>5 DEF declareNodeDead, b, d
<1> QED BY <1>1, <1>2

\* A node that comes up; it takes over if it is the lowest.
LEMMA NodeAliveSound ==
  ASSUME NEW n \in Node, NEW p, Sound(p, n), NEW m \in Peer(n)
  PROVE  Sound(declareNodeAlive(p, m), n)
<1> DEFINE u == Up(p, m)
           t == TakeOver(u, m)
<1>0. /\ m \in Node /\ m # n /\ Node \subseteq Int
      /\ p.up \subseteq Node /\ n \in p.up /\ p.id = n /\ p.master \in Node
  BY SizeAssumption DEF Peer, Node, Sound
<1>1. /\ Formed(u) /\ u.id = n /\ u.run = p.run /\ u.up = p.up \cup {m}
      /\ u.known = p.known /\ u.master = p.master
      /\ u.run = "on" => Led(u) /\ Lowest(p) /\ Alone(p)
  BY <1>0 DEF Up, Sound, Formed, Shape, StatOK, Led
<1> HIDE DEF u
<1>2. u.up \subseteq Node /\ n \in u.up /\ m \in u.up /\ u.known \in BOOLEAN
  BY <1>0, <1>1 DEF Formed
<1>3. ASSUME ~ u.known PROVE Sound(t, n)
  <2> DEFINE new == Min({m, n})
  <2>1. new \in {m, n} /\ new <= m /\ new <= n
    BY <1>0, MinExists
  <2>2. t = declareMaster(u, new)
    BY <1>1, <1>3 DEF TakeOver
  <2>3. /\ Formed(t) /\ t.master = new /\ t.id = n /\ t.run = p.run
        /\ t.up = u.up /\ (p.run = "on" => Led(t) /\ t.known)
    BY <1>1, <2>2, DeclareMaster
  <2>4. p.run = "on" => u.up = {m, n}
    BY <1>0, <1>1, <1>3 DEF Alone
  <2> HIDE DEF t
  <2> QED BY <1>0, <1>2, <2>1, <2>3, <2>4 DEF Sound, Lowest, Alone
<1>4. ASSUME u.known, m < u.master PROVE Sound(t, n)
  <2> DEFINE v == declareMaster(u, m)
  <2>1. /\ Formed(v) /\ v.master = m /\ v.id = n /\ v.run = p.run
        /\ v.up = u.up /\ (p.run = "on" => Led(v) /\ v.known)
    BY <1>1, DeclareMaster
  <2>4. t = sendMsg(v, u.master, MASTER_IS(m))
    <3>1. ~ (m >= u.master)
      <4>1. m \in Int /\ u.master \in Int
        BY <1>0, <1>1
      <4> QED BY <1>4, <4>1
    <3> HIDE DEF u
    <3> QED BY <1>4, <3>1 DEF TakeOver
  <2> HIDE DEF v
  <2>2. ASSUME p.run = "on" PROVE m = Min(u.up)
    <3>1. \A y \in p.up : u.master <= y
      BY <1>0, <1>1, <1>4, <2>2, MinExists DEF Lowest
    <3>2. ASSUME NEW y \in u.up PROVE m <= y
      <4>1. y \in Int /\ m \in Int /\ u.master \in Int
        BY <1>0, <1>1, <1>2
      <4>2. CASE y \in p.up
        BY <1>4, <3>1, <4>1, <4>2
      <4>3. CASE y = m
        BY <4>1, <4>3
      <4> QED BY <1>1, <4>2, <4>3
    <3> QED BY <1>2, <3>2, MinIs
  <2>3. Sound(v, n)
    BY <1>0, <1>2, <2>1, <2>2 DEF Sound, Lowest, Alone
  <2> HIDE DEF t
  <2> QED BY <2>3, <2>4, SendingKin, KinSound DEF Sound
<1>5. ASSUME u.known, m >= u.master PROVE Sound(t, n)
  <2>1. t = u
    BY <1>0, <1>1, <1>5 DEF TakeOver
  <2>2. ASSUME p.run = "on" PROVE u.master = Min(u.up)
    <3>1. u.master \in p.up /\ \A y \in p.up : u.master <= y
      BY <1>0, <1>1, <1>5, <2>2, MinExists DEF Lowest
    <3>2. u.master \in u.up /\ \A y \in u.up : u.master <= y
      BY <1>0, <1>1, <1>5, <3>1
    <3> QED BY <1>2, <3>2, MinIs
  <2>3. Sound(u, n)
    BY <1>0, <1>1, <1>2, <1>5, <2>2 DEF Sound, Lowest, Alone
  <2> QED BY <2>1, <2>3
<1>6. Sound(t, n)
  <2>1. m < u.master \/ m >= u.master
    <3>1. m \in Int /\ u.master \in Int
      BY <1>0, <1>1
    <3> QED BY <3>1
  <2> QED BY <1>2, <1>3, <1>4, <1>5, <2>1
<1> HIDE DEF t
<1>7. Kin(t, send_ACTIVENODES(t, m))
  BY <1>6, SendingKin DEF Sound
<1>8. Sound(Greet(t, m, m \in p.up), n)
  BY <1>6, <1>7, KinSound DEF Greet
<1> QED BY <1>8 DEF declareNodeAlive, t, u

\* A psid without a master that finds nobody below itself becomes the master.
LEMMA DropSound ==
  ASSUME NEW n \in Node, NEW p, Sound(p, n), NEW m \in Peer(n), NEW k
  PROVE  Sound(drop_DAEMONCONNECT(p, m, k), n)
<1> DEFINE q == drop_DAEMONCONNECT(p, m, k)
<1>0. m \in Int /\ n \in Int /\ p.id = n /\ Formed(p)
  BY SizeAssumption DEF Peer, Node, Sound
<1>1. CASE k = 0 \/ p.known \/ p.run = "shutdown" \/ m >= p.id
  <2>1. q = p
    BY <1>1, <1>0 DEF drop_DAEMONCONNECT, Formed
  <2> QED BY <2>1
<1>2. CASE k # 0 /\ ~p.known /\ p.run # "shutdown" /\ m + 1 < p.id
  <2> DEFINE sent == SendEach(p.link[m + 1], [i \in 1..k |-> CONNECT])
             l == [p.link EXCEPT ![m + 1] = sent]
  <2>1. q = [p EXCEPT !.link = l]
    <3>1. q = [p EXCEPT !.link[m + 1] = sent]
      BY <1>2, <1>0 DEF drop_DAEMONCONNECT
    <3> HIDE DEF sent, q
    <3> QED BY <3>1
  <2> HIDE DEF l
  <2> HIDE DEF q
  <2>2. Kin(p, q)
    <3>1. Kin(p, [p EXCEPT !.link = l])
      BY <1>0, AuxKin
    <3> QED BY <2>1, <3>1
  <2>3. Sound(q, n)
    BY <2>2, KinSound
  <2> QED BY <2>3 DEF q
<1>3. CASE k # 0 /\ ~p.known /\ p.run # "shutdown" /\ m + 1 = p.id
  <2>1. q = declareMaster(p, n)
    BY <1>3, <1>0 DEF drop_DAEMONCONNECT
  <2>2. /\ Formed(q) /\ q.master = n /\ q.id = n /\ q.run = p.run
        /\ q.up = p.up /\ (p.run = "on" => Led(q) /\ q.known)
    BY <1>0, <2>1, DeclareMaster DEF Sound
  <2>3. p.run = "on" => p.up = {n}
    BY <1>3, <1>0 DEF Sound, Alone
  <2>4. Min({n}) = n
    BY <1>0, MinIs
  <2> HIDE DEF q
  <2>5. Sound(q, n)
    BY <2>2, <2>3, <2>4 DEF Sound, Lowest, Alone
  <2> QED BY <2>5 DEF q
<1> QED BY <1>0, <1>1, <1>2, <1>3

-----------------------------------------------------------------------------
(***************************************************************************)
(* Types of messages and connections                                       *)
(***************************************************************************)
LEMMA MessagesTyped ==
  /\ CONNECT \in Message /\ ESTABLISHED \in Message /\ SHUTDOWN \in Message
  /\ \A m \in Node : MASTER_IS(m) \in Message /\ DEAD_NODE(m) \in Message
  /\ \A k \in 0..N : LOAD(k) \in Message
  /\ \A list \in Seq(Node) : ACTIVE_NODES(list) \in Message
<1>1. CONNECT \in Message /\ ESTABLISHED \in Message /\ SHUTDOWN \in Message
  BY DEF Message
<1>2. \A m \in Node : MASTER_IS(m) \in Message /\ DEAD_NODE(m) \in Message
  BY DEF Message, MASTER_IS, DEAD_NODE
<1>3. \A k \in 0..N : LOAD(k) \in Message
  BY DEF Message, LOAD
<1>4. \A list \in Seq(Node) : ACTIVE_NODES(list) \in Message
  BY DEF Message, ACTIVE_NODES
<1> QED BY <1>1, <1>2, <1>3, <1>4

LEMMA RsendtoTyped ==
  ASSUME NEW l \in Connection, NEW msg \in Message
  PROVE  Rsendto(l, msg) \in Connection
<1>1. Append(l.queue, msg) \in Seq(Message)
  BY AppendProperties DEF Connection
<1> QED BY <1>1 DEF Rsendto, Connection

LEMMA SendRDPTyped ==
  ASSUME NEW l \in Connection, NEW msg \in Message
  PROVE  sendRDP(l, msg) \in Connection
<1>1. Rsendto(l, CONNECT) \in Connection
  BY RsendtoTyped, MessagesTyped
<1>2. Rsendto(Rsendto(l, CONNECT), msg) \in Connection
  BY <1>1, RsendtoTyped
<1>3. Rsendto(l, msg) \in Connection
  BY RsendtoTyped
<1> QED BY <1>2, <1>3 DEF sendRDP

LEMMA SendEachTyped ==
  ASSUME NEW l \in Connection, NEW msgs \in Seq(Message)
  PROVE  SendEach(l, msgs) \in Connection
<1> DEFINE F == [x \in Connection \X Message |-> sendRDP(x[1], x[2])]
           after == CHOOSE after : after = [k \in 0..Len(msgs) |->
                      IF k = 0 THEN l ELSE sendRDP(after[k - 1], msgs[k])]
<1>1. F \in [Connection \X Message -> Connection] /\ \A x \in Connection, y \in Message : F[<<x, y>>] = sendRDP(x, y)
  BY SendRDPTyped
<1>2. Len(msgs) \in Nat /\ \A k \in 1..Len(msgs) : msgs[k] \in Message
  BY LenProperties, ElementOfSeq
<1> HIDE DEF F
<1>3. PICK a : Turns(a, Len(msgs), l, msgs, F) /\ \A k \in 0..Len(msgs) : a[k] \in Connection
  BY <1>1, LoopEnds
<1>4. a = [k \in 0..Len(msgs) |-> IF k = 0 THEN l ELSE sendRDP(a[k - 1], msgs[k])]
  <2>1. \A k \in 0..Len(msgs) :
          k # 0 => F[<<a[k - 1], msgs[k]>>] = sendRDP(a[k - 1], msgs[k])
    <3>1. \A k \in 0..Len(msgs) : k # 0 => k - 1 \in 0..Len(msgs) /\ k \in 1..Len(msgs)
      BY <1>2
    <3> QED BY <1>1, <1>2, <1>3, <3>1
  <2> QED BY <1>3, <2>1 DEF Turns
<1>5. after = [k \in 0..Len(msgs) |->
                 IF k = 0 THEN l ELSE sendRDP(after[k - 1], msgs[k])]
  BY <1>4, Zenon
<1>6. SendEach(l, msgs) = after[Len(msgs)]
  BY Zenon DEF SendEach
<1> HIDE DEF after
<1>7. after[0] = l /\ \A k \in 1..Len(msgs) : after[k] = sendRDP(after[k - 1], msgs[k])
  BY <1>2, <1>5
<1>8. \A k \in 0..Len(msgs) : after[k] \in Connection
  <2>1. \A k \in 1..Len(msgs) : after[k - 1] \in Connection => after[k] \in Connection
    BY <1>2, <1>7, SendRDPTyped
  <2> QED BY <1>2, <1>7, <2>1, LoopKeeps
<1> QED BY <1>2, <1>6, <1>8

\* Lists of nodes, as they are put into messages.
LEMMA PutNodeTyped ==
  ASSUME NEW lists \in Seq(Seq(Node)), NEW n \in Node
  PROVE  PutNode(lists, n) \in Seq(Seq(Node))
<1>1. <<n>> \in Seq(Node)
  OBVIOUS
<1>2. Append(lists, <<n>>) \in Seq(Seq(Node))
  BY <1>1, AppendProperties
<1>3. ASSUME lists # <<>>
      PROVE  [lists EXCEPT ![Len(lists)] = Append(@, n)] \in Seq(Seq(Node))
  <2>1. Len(lists) \in 1..Len(lists)
    BY <1>3, EmptySeq, LenProperties
  <2>2. lists[Len(lists)] \in Seq(Node)
    BY <2>1, ElementOfSeq
  <2>3. Append(lists[Len(lists)], n) \in Seq(Node)
    BY <2>2, AppendProperties
  <2> DEFINE e == Append(lists[Len(lists)], n)
  <2> HIDE DEF e
  <2>4. [lists EXCEPT ![Len(lists)] = e] \in Seq(Seq(Node))
    BY <2>1, <2>3, ExceptSeq DEF e
  <2> QED BY <2>4 DEF e
<1> QED BY <1>2, <1>3 DEF PutNode

LEMMA ActiveListsTyped ==
  ASSUME NEW p
  PROVE  ActiveLists(p) \in Seq(Message)
<1> DEFINE S == Seq(Seq(Node))
           F == [x \in S \X Node |->
                   IF x[2] \in p.up THEN PutNode(x[1], x[2]) ELSE x[1]]
           s == [k \in 1..N |-> k - 1]
           put == CHOOSE put : put = [k \in 0..N |->
                    IF k = 0 THEN <<>>
                    ELSE IF k - 1 \in p.up THEN PutNode(put[k - 1], k - 1) ELSE put[k - 1]]
<1>1. /\ F \in [S \X Node -> S]
      /\ \A x \in S, y \in Node :
           F[<<x, y>>] = IF y \in p.up THEN PutNode(x, y) ELSE x
  BY PutNodeTyped
<1>2. /\ N \in Nat /\ \A k \in 1..N : k - 1 \in Node
      /\ \A i, j \in Nat : 1..i = 1..j => i = j
  <2>1. N \in Nat /\ \A k \in 1..N : k - 1 \in Node
    BY SizeAssumption DEF Node
  <2>2. ASSUME NEW i \in Nat, NEW j \in Nat, 1..i = 1..j PROVE i = j
    <3>1. (i # 0 => i \in 1..i) /\ (j # 0 => j \in 1..j)
      OBVIOUS
    <3>2. (i # 0 => i \in 1..j) /\ (j # 0 => j \in 1..i)
      BY <2>2, <3>1, Zenon
    <3> QED BY <3>2
  <2> QED BY <2>1, <2>2
<1>3. s \in Seq(Node) /\ Len(s) = N /\ \A k \in 1..N : s[k] = k - 1
  <2>1. s \in [1..N -> Node] /\ DOMAIN s = 1..N /\ \A k \in 1..N : s[k] = k - 1
    BY <1>2
  <2> HIDE DEF s
  <2>2. s \in Seq(Node)
    <3>1. s \in UNION {[1..k -> Node] : k \in Nat}
      BY <1>2, <2>1, Zenon
    <3> QED BY <3>1, SeqDef, Zenon
  <2>3. Len(s) \in Nat /\ DOMAIN s = 1..Len(s)
    BY <2>2, LenProperties
  <2>4. Len(s) = N
    BY <1>2, <2>1, <2>3
  <2> QED BY <2>1, <2>2, <2>4
<1>0. <<>> \in S
  BY EmptySeq
<1> HIDE DEF F, S, s
<1>4. PICK a : Turns(a, N, <<>>, s, F) /\ \A k \in 0..N : a[k] \in S
  <2> DEFINE none == <<>>
  <2>1. none \in S /\ F \in [S \X Node -> S] /\ s \in Seq(Node)
    BY <1>0, <1>1, <1>3
  <2> HIDE DEF none
  <2>2. \E a : Turns(a, Len(s), none, s, F) /\ \A k \in 0..Len(s) : a[k] \in S
    BY <2>1, LoopEnds
  <2> QED BY <1>3, <2>2 DEF none
<1>5. a = [k \in 0..N |->
             IF k = 0 THEN <<>>
             ELSE IF k - 1 \in p.up THEN PutNode(a[k - 1], k - 1) ELSE a[k - 1]]
  <2>1. \A k \in 0..N :
          k # 0 => F[<<a[k - 1], s[k]>>] =
            IF k - 1 \in p.up THEN PutNode(a[k - 1], k - 1) ELSE a[k - 1]
    <3>1. \A k \in 0..N : k # 0 => k - 1 \in 0..N /\ k \in 1..N
      BY <1>2
    <3> QED BY <1>1, <1>2, <1>3, <1>4, <3>1
  <2> QED BY <1>4, <2>1 DEF Turns
<1>6. put = [k \in 0..N |->
               IF k = 0 THEN <<>>
               ELSE IF k - 1 \in p.up THEN PutNode(put[k - 1], k - 1) ELSE put[k - 1]]
  BY <1>5, Zenon
<1>7. ActiveLists(p) = [i \in DOMAIN put[N] |-> ACTIVE_NODES(put[N][i])]
  BY Zenon DEF ActiveLists
<1> HIDE DEF put
<1>8. \A k \in 0..N : put[k] \in S
  <2>1. put[0] = <<>> /\ \A k \in 1..N :
          put[k] = IF k - 1 \in p.up THEN PutNode(put[k - 1], k - 1) ELSE put[k - 1]
    BY <1>2, <1>6
  <2>2. \A k \in 1..N : put[k - 1] \in S => put[k] \in S
    BY <1>2, <2>1, PutNodeTyped DEF S
  <2> QED BY <1>0, <1>2, <2>1, <2>2, LoopKeeps
<1>9. put[N] \in S
  BY <1>2, <1>8
<1> DEFINE lists == put[N]
<1> HIDE DEF lists
<1>10. Len(lists) \in Nat /\ DOMAIN lists = 1..Len(lists)
       /\ \A i \in 1..Len(lists) : lists[i] \in Seq(Node)
  BY <1>9, LenProperties, ElementOfSeq DEF S, lists
<1> DEFINE q == [i \in 1..Len(lists) |-> ACTIVE_NODES(lists[i])]
<1>11. q \in [1..Len(lists) -> Message]
  BY <1>10, MessagesTyped
<1>12. ActiveLists(p) = q
  BY <1>7, <1>10 DEF lists
<1> HIDE DEF q
<1>13. q \in Seq(Message)
  <2>1. q \in UNION {[1..k -> Message] : k \in Nat}
    BY <1>10, <1>11, Zenon
  <2> QED BY <2>1, SeqDef, Zenon
<1> QED BY <1>12, <1>13

-----------------------------------------------------------------------------
(***************************************************************************)
(* Types of a psid                                                         *)
(***************************************************************************)
LEMMA FieldsTyped ==
  ASSUME NEW n, NEW p \in State(n)
  PROVE  /\ p.id = n /\ p.run \in {"on", "shutdown", "off"} /\ p.up \subseteq Node
         /\ p.totNodes \in 0..N /\ p.known \in BOOLEAN /\ p.master \in Node
         /\ p.stat \in {NoStat} \cup [Node -> ClientStatus]
         /\ p.bcasts \in Nat /\ p.round \in 0..(Calls - 1) /\ p.untested \in 0..N
         /\ p.link \in [Peer(n) -> Connection]
BY DEF State

LEMMA UpdatesTyped ==
  ASSUME NEW n, NEW p \in State(n)
  PROVE  /\ \A l \in [Peer(n) -> Connection] : [p EXCEPT !.link = l] \in State(n)
         /\ \A k \in Nat : [p EXCEPT !.bcasts = k] \in State(n)
         /\ \A k \in 0..(Calls - 1) : [p EXCEPT !.bcasts = 0, !.round = k] \in State(n)
         /\ \A k \in 0..N : [p EXCEPT !.untested = k] \in State(n)
         /\ \A k \in {"on", "shutdown", "off"} : [p EXCEPT !.run = k] \in State(n)
         /\ \A f \in {NoStat} \cup [Node -> ClientStatus] :
              [p EXCEPT !.stat = f] \in State(n)
         /\ \A m \in Node : [p EXCEPT !.master = m] \in State(n)
         /\ [p EXCEPT !.known = TRUE] \in State(n)
         /\ \A up \in SUBSET Node, k \in 0..N :
              [p EXCEPT !.up = up, !.totNodes = k] \in State(n)
<1>1. \A l \in [Peer(n) -> Connection] : [p EXCEPT !.link = l] \in State(n)
  BY DEF State
<1>2. /\ \A k \in Nat : [p EXCEPT !.bcasts = k] \in State(n)
      /\ \A k \in 0..(Calls - 1) : [p EXCEPT !.bcasts = 0, !.round = k] \in State(n)
      /\ \A k \in 0..N : [p EXCEPT !.untested = k] \in State(n)
  BY DEF State
<1>3. \A k \in {"on", "shutdown", "off"} : [p EXCEPT !.run = k] \in State(n)
  BY DEF State
<1>4. \A f \in {NoStat} \cup [Node -> ClientStatus] : [p EXCEPT !.stat = f] \in State(n)
  BY DEF State
<1>5. /\ \A m \in Node : [p EXCEPT !.master = m] \in State(n)
      /\ [p EXCEPT !.known = TRUE] \in State(n)
  BY DEF State
<1>6. \A up \in SUBSET Node, k \in 0..N :
        [p EXCEPT !.up = up, !.totNodes = k] \in State(n)
  BY DEF State
<1> QED BY <1>1, <1>2, <1>3, <1>4, <1>5, <1>6

\* A connection of a psid gets another state or queue.
LEMMA LinkTyped ==
  ASSUME NEW n, NEW p \in State(n), NEW m, NEW c, m \in Peer(n) => c \in Connection
  PROVE  [p EXCEPT !.link[m] = c] \in State(n)
<1> DEFINE l == [p.link EXCEPT ![m] = c]
<1>1. p.link \in [Peer(n) -> Connection]
  BY FieldsTyped
<1>2. l \in [Peer(n) -> Connection]
  BY <1>1
<1>3. [p EXCEPT !.link[m] = c] = [p EXCEPT !.link = l]
  BY DEF State
<1> HIDE DEF l
<1> QED BY <1>2, <1>3, UpdatesTyped

LEMMA SendMsgTyped ==
  ASSUME NEW n \in Node, NEW p \in State(n), NEW m \in Node, NEW msg \in Message
  PROVE  sendMsg(p, m, msg) \in State(n)
<1>1. p.id = n /\ p.link \in [Peer(n) -> Connection]
  BY FieldsTyped
<1>2. CASE m = n
  BY <1>1, <1>2 DEF sendMsg
<1>3. CASE m # n
  <2>1. m \in Peer(n)
    BY <1>3 DEF Peer
  <2> DEFINE c == sendRDP(p.link[m], msg)
  <2>2. c \in Connection
    BY <1>1, <2>1, SendRDPTyped
  <2>3. sendMsg(p, m, msg) = [p EXCEPT !.link[m] = c]
    BY <1>1, <1>3 DEF sendMsg
  <2> HIDE DEF c
  <2>4. [p EXCEPT !.link[m] = c] \in State(n)
    BY <2>2, LinkTyped
  <2> QED BY <2>3, <2>4
<1> QED BY <1>2, <1>3

LEMMA SendAllTyped ==
  ASSUME NEW n, NEW p \in State(n), NEW nodes, NEW msg \in Message
  PROVE  SendAll(p, nodes, msg) \in State(n)
<1> DEFINE l == [m \in DOMAIN p.link |->
                   IF m \in nodes THEN sendRDP(p.link[m], msg) ELSE p.link[m]]
<1>1. p.link \in [Peer(n) -> Connection]
  BY FieldsTyped
<1>2. l \in [Peer(n) -> Connection]
  BY <1>1, SendRDPTyped
<1>3. SendAll(p, nodes, msg) = [p EXCEPT !.link = l]
  BY DEF SendAll
<1> HIDE DEF l
<1>4. [p EXCEPT !.link = l] \in State(n)
  BY <1>2, UpdatesTyped
<1> QED BY <1>3, <1>4

LEMMA DeadnodeTyped ==
  ASSUME NEW n, NEW p \in State(n), NEW m \in Node
  PROVE  send_DEADNODE(p, m) \in State(n)
<1> DEFINE q == [p EXCEPT !.bcasts = p.bcasts + 1]
<1>1. q \in State(n)
  <2>1. p.bcasts + 1 \in Nat
    BY FieldsTyped
  <2> QED BY <2>1, UpdatesTyped
<1>2. send_DEADNODE(p, m) = q \/ send_DEADNODE(p, m) = SendAll(q, p.up, DEAD_NODE(m))
  BY Zenon DEF send_DEADNODE
<1> HIDE DEF q
<1> QED BY <1>1, <1>2, SendAllTyped, MessagesTyped

LEMMA SendActivenodesTyped ==
  ASSUME NEW n, NEW p \in State(n), NEW m
  PROVE  send_ACTIVENODES(p, m) \in State(n)
<1> DEFINE c == SendEach(p.link[m], ActiveLists(p))
<1>1. m \in Peer(n) => c \in Connection
  BY FieldsTyped, ActiveListsTyped, SendEachTyped
<1>2. send_ACTIVENODES(p, m) = [p EXCEPT !.link[m] = c]
  BY DEF send_ACTIVENODES
<1> HIDE DEF c
<1>3. [p EXCEPT !.link[m] = c] \in State(n)
  BY <1>1, LinkTyped
<1> QED BY <1>2, <1>3

LEMMA CloseRDPTyped ==
  ASSUME NEW n, NEW p \in State(n), NEW m
  PROVE  closeConnRDP(p, m) \in State(n)
<1>1. Idle \in Connection
  BY EmptySeq DEF Idle, Connection
<1> QED BY <1>1, LinkTyped DEF closeConnRDP

LEMMA SetStateTyped ==
  ASSUME NEW n, NEW p \in State(n), NEW m \in Peer(n),
         NEW state \in {"CLOSED", "SYN_SENT", "ACTIVE"}
  PROVE  SetState(p, m, state) \in State(n)
<1> DEFINE c == [p.link[m] EXCEPT !.state = state]
<1>1. p.link \in [Peer(n) -> Connection]
  BY FieldsTyped
<1>2. c \in Connection
  BY <1>1 DEF Connection
<1>3. SetState(p, m, state) = [p EXCEPT !.link[m] = c]
  BY <1>1 DEF SetState, State
<1> HIDE DEF c
<1>4. [p EXCEPT !.link[m] = c] \in State(n)
  BY <1>2, LinkTyped
<1> QED BY <1>3, <1>4

-----------------------------------------------------------------------------
\* The master's notes about a node.
LEMMA CountedTyped ==
  ASSUME NEW c \in ClientStatus, NEW isUp \in BOOLEAN
  PROVE  Counted(c, isUp) \in ClientStatus
<1>1. c.missCounter \in Nat /\ c.missCounter + 1 \in Nat
  BY DEF ClientStatus
<1> QED BY <1>1 DEF Counted, ClientStatus

LEMMA NotedTyped ==
  ASSUME NEW n, NEW p \in State(n), NEW m \in Node, NEW tot, p.stat # NoStat
  PROVE  Noted(p, m, tot) \in State(n)
<1> DEFINE c(w) == [p.stat[m] EXCEPT !.pinged = TRUE, !.missCounter = 0,
                                     !.wrongClients = w]
           f(w) == [p.stat EXCEPT ![m] = c(w)]
           q == [p EXCEPT !.stat[m].pinged = TRUE, !.stat[m].missCounter = 0]
           W == 0..MAX_WRONG_CLIENTS
<1>1. p.stat \in [Node -> ClientStatus] /\ p.stat[m] \in ClientStatus
  BY FieldsTyped
<1>2. ASSUME NEW w \in W PROVE [q EXCEPT !.stat[m].wrongClients = w] \in State(n)
  <2>1. c(w) \in ClientStatus
    BY <1>1, <1>2 DEF ClientStatus
  <2>2. f(w) \in [Node -> ClientStatus]
    <3> HIDE DEF c
    <3> QED BY <1>1, <2>1
  <2>3. [q EXCEPT !.stat[m].wrongClients = w] = [p EXCEPT !.stat = f(w)]
    BY <1>1 DEF State, ClientStatus
  <2> HIDE DEF f, q
  <2> QED BY <2>2, <2>3, UpdatesTyped
<1>3. 0 \in W /\ (p.stat[m].wrongClients < MAX_WRONG_CLIENTS => p.stat[m].wrongClients + 1 \in W)
  BY <1>1, LimitAssumption DEF ClientStatus
<1>4. q.stat[m].wrongClients = p.stat[m].wrongClients
  BY <1>1 DEF State, ClientStatus
<1> DEFINE zero == [q EXCEPT !.stat[m].wrongClients = 0]
           more == [q EXCEPT !.stat[m].wrongClients = p.stat[m].wrongClients + 1]
<1>5. \/ Noted(p, m, tot) = zero
      \/ Noted(p, m, tot) = more /\ p.stat[m].wrongClients < MAX_WRONG_CLIENTS
      \/ Noted(p, m, tot) = send_ACTIVENODES(zero, m)
  BY <1>4 DEF Noted
<1>6. zero \in State(n)
  BY <1>2, <1>3
<1>7. p.stat[m].wrongClients < MAX_WRONG_CLIENTS => more \in State(n)
  BY <1>2, <1>3
<1> HIDE DEF zero, more
<1> QED BY <1>5, <1>6, <1>7, SendActivenodesTyped

LEMMA LoadTyped ==
  ASSUME NEW n \in Node, NEW p \in State(n), NEW m \in Node, NEW tot
  PROVE  msg_LOAD(p, m, tot) \in State(n)
<1>1. p.master \in Node
  BY FieldsTyped
<1>2. sendMsg(p, m, MASTER_IS(p.master)) \in State(n)
  BY <1>1, SendMsgTyped, MessagesTyped
<1>3. p.stat # NoStat => Noted(p, m, tot) \in State(n)
  BY NotedTyped
<1> QED BY <1>2, <1>3 DEF msg_LOAD

LEMMA RoundTyped ==
  ASSUME NEW n, NEW p \in State(n)
  PROVE  MasterRound(p) \in State(n)
<1>1. PICK nodes : MasterRound(p) =
        [SendAll(p, nodes, CONNECT) EXCEPT !.bcasts = 0, !.round = (@ + 1) % Calls]
  BY Zenon DEF MasterRound
<1> DEFINE q == SendAll(p, nodes, CONNECT)
<1>2. q \in State(n)
  BY SendAllTyped, MessagesTyped
<1>3. MasterRound(p) = [q EXCEPT !.bcasts = 0, !.round = (q.round + 1) % Calls]
  BY <1>1
<1> HIDE DEF q
<1>4. (q.round + 1) % Calls \in 0..(Calls - 1)
  <2>1. q.round \in Int /\ Calls \in Nat \ {0}
    BY <1>2, FieldsTyped, LimitAssumption
  <2> QED BY <2>1
<1> DEFINE k == (q.round + 1) % Calls
<1> HIDE DEF k
<1>5. [q EXCEPT !.bcasts = 0, !.round = k] \in State(n)
  BY <1>2, <1>4, UpdatesTyped DEF k
<1> QED BY <1>3, <1>5 DEF k

LEMMA TasksTyped ==
  ASSUME NEW n, NEW p \in State(n), p.run # "shutdown" => p.stat # NoStat
  PROVE  handleMasterTasks(p) \in State(n)
<1>1. CASE p.run = "shutdown"
  BY <1>1 DEF handleMasterTasks
<1>2. CASE p.run # "shutdown"
  <2> DEFINE f == [m \in Node |-> Counted(p.stat[m], m \in p.up)]
             q == Missed(p)
  <2>1. p.stat \in [Node -> ClientStatus]
    BY <1>2, FieldsTyped
  <2>2. f \in [Node -> ClientStatus]
    <3>1. ASSUME NEW m \in Node PROVE Counted(p.stat[m], m \in p.up) \in ClientStatus
      <4>1. p.stat[m] \in ClientStatus /\ (m \in p.up) \in BOOLEAN
        BY <2>1
      <4> QED BY <4>1, CountedTyped
    <3> QED BY <3>1
  <2>3. q = [p EXCEPT !.stat = f]
    BY DEF Missed
  <2> HIDE DEF f, q
  <2>4. q \in State(n)
    BY <2>2, <2>3, UpdatesTyped
  <2> QED BY <1>2, <2>4, RoundTyped DEF handleMasterTasks, q
<1> QED BY <1>1, <1>2

LEMMA PingTyped ==
  ASSUME NEW n \in Node, NEW p \in State(n),
         p.master = n /\ p.run # "shutdown" => p.stat # NoStat
  PROVE  sendRDPPing(p) \in State(n)
<1>1. p.id = n /\ p.master \in Node /\ p.totNodes \in 0..N
  BY FieldsTyped
<1>2. CASE p.master = n
  <2> DEFINE q == msg_LOAD(p, n, p.totNodes)
  <2>1. q \in State(n)
    BY LoadTyped
  <2>2. q.run # "shutdown" => q.stat # NoStat
    <3>1. Formed(p)
      BY DEF State, Formed, Shape, StatOK
    <3>2. Kin(p, q)
      BY <3>1, LoadKin
    <3> HIDE DEF q
    <3> QED BY <1>2, <3>2 DEF Kin
  <2>3. sendRDPPing(p) = handleMasterTasks(q)
    BY <1>1, <1>2 DEF sendRDPPing
  <2> HIDE DEF q
  <2> QED BY <2>1, <2>2, <2>3, TasksTyped
<1>3. CASE p.master # n
  <2>1. sendMsg(p, p.master, LOAD(p.totNodes)) \in State(n)
    BY <1>1, SendMsgTyped, MessagesTyped
  <2> QED BY <1>1, <1>3, <2>1 DEF sendRDPPing
<1> QED BY <1>2, <1>3

-----------------------------------------------------------------------------
(***************************************************************************)
(* The number of nodes                                                     *)
(***************************************************************************)
LEMMA NodesFinite ==
  ASSUME NEW S, S \subseteq Node
  PROVE  IsFiniteSet(S) /\ Cardinality(S) \in 0..N
<1>1. N \in Nat /\ Node = 0..(N - 1)
  BY SizeAssumption DEF Node
<1>2. IsFiniteSet(Node) /\ Cardinality(Node) = N
  <2>1. IsFiniteSet(0..(N - 1)) /\ Cardinality(0..(N - 1)) = IF 0 > N - 1 THEN 0 ELSE (N - 1) - 0 + 1
    <3>1. 0 \in Int /\ N - 1 \in Int
      BY <1>1
    <3> QED BY <3>1, FS_Interval
  <2>2. N >= 1
    BY SizeAssumption
  <2> QED BY <1>1, <2>1, <2>2
<1>3. IsFiniteSet(S) /\ Cardinality(S) <= Cardinality(Node)
  BY <1>2, FS_Subset
<1>4. Cardinality(S) \in Nat
  BY <1>3, FS_CardinalityType
<1> QED BY <1>1, <1>2, <1>3, <1>4

LEMMA OneMore ==
  ASSUME NEW S, S \subseteq Node, NEW m \in Node
  PROVE  Cardinality(S \cup {m}) = IF m \in S THEN Cardinality(S) ELSE Cardinality(S) + 1
<1>1. IsFiniteSet(S)
  BY NodesFinite
<1> QED BY <1>1, FS_AddElement

LEMMA OneLess ==
  ASSUME NEW S, S \subseteq Node, NEW m \in S
  PROVE  Cardinality(S \ {m}) = Cardinality(S) - 1
<1>1. IsFiniteSet(S)
  BY NodesFinite
<1>2. Cardinality(S \ {m}) = IF m \in S THEN Cardinality(S) - 1 ELSE Cardinality(S)
  BY <1>1, FS_RemoveElement
<1> QED BY <1>2

\* A psid that counts the nodes up right.
Total(p) == p.totNodes = Cardinality(p.up)

LEMMA KinTotal ==
  ASSUME NEW p, NEW q, Kin(p, q), Total(p)
  PROVE  Total(q)
BY DEF Kin, Total

\* The view is sound, everything has its type and the nodes are counted.
Right(p, n) == Sound(p, n) /\ p \in State(n) /\ Total(p)

LEMMA KinRight ==
  ASSUME NEW n, NEW p, Right(p, n), NEW q \in State(n), Kin(p, q)
  PROVE  Right(q, n)
BY KinSound, KinTotal DEF Right

-----------------------------------------------------------------------------
LEMMA FreshTyped == FreshStat \in [Node -> ClientStatus] /\ FreshStat # NoStat
<1>1. 0 \in Nat /\ 0 \in 0..MAX_WRONG_CLIENTS
  BY LimitAssumption
<1>2. FreshStat \in [Node -> ClientStatus]
  BY <1>1 DEF FreshStat, ClientStatus
<1> QED BY <1>2, FreshIsStat

LEMMA DeclareMasterTyped ==
  ASSUME NEW n \in Node, NEW p \in State(n), NEW m \in Node
  PROVE  declareMaster(p, m) \in State(n)
<1> DEFINE f == IF p.known /\ p.master = p.id THEN NoStat ELSE p.stat
           q == [p EXCEPT !.master = m, !.stat = f]
           g == IF m = p.id THEN FreshStat ELSE q.stat
           r == [q EXCEPT !.known = TRUE, !.stat = g]
           declared == declareMaster(p, m)
<1>1. /\ p.known /\ p.master = m => declared = p
      /\ ~(p.known /\ p.master = m) /\ p.run = "shutdown" => declared = q
      /\ ~(p.known /\ p.master = m) /\ p.run # "shutdown" /\ p.known
         => declared = r
      /\ ~(p.known /\ p.master = m) /\ p.run # "shutdown" /\ ~p.known
         => declared = sendRDPPing(r)
  BY DEF declareMaster
<1>2. p.id = n /\ p.stat \in {NoStat} \cup [Node -> ClientStatus]
  BY FieldsTyped
<1>3. q \in State(n)
  <2>1. f \in {NoStat} \cup [Node -> ClientStatus]
    BY <1>2
  <2> HIDE DEF f
  <2>2. [p EXCEPT !.master = m] \in State(n)
    BY UpdatesTyped
  <2>3. [[p EXCEPT !.master = m] EXCEPT !.stat = f] \in State(n)
    BY <2>1, <2>2, UpdatesTyped
  <2> QED BY <2>3
<1> HIDE DEF q, declared
<1>4. r \in State(n) /\ r.master = q.master /\ r.stat = g
  <2>1. g \in {NoStat} \cup [Node -> ClientStatus]
    BY <1>3, FieldsTyped, FreshTyped
  <2> HIDE DEF g
  <2>2. [q EXCEPT !.known = TRUE] \in State(n)
    BY <1>3, UpdatesTyped
  <2>3. [[q EXCEPT !.known = TRUE] EXCEPT !.stat = g] \in State(n)
    BY <2>1, <2>2, UpdatesTyped
  <2> QED BY <1>3, <2>3 DEF State
<1>5. q.master = m
  BY DEF State, q
<1>6. sendRDPPing(r) \in State(n)
  <2>1. r.master = n => r.stat # NoStat
    BY <1>2, <1>4, <1>5, FreshTyped
  <2> HIDE DEF r
  <2> QED BY <1>4, <2>1, PingTyped
<1> HIDE DEF r
<1>7. declared \in State(n)
  BY <1>1, <1>3, <1>4, <1>6
<1> QED BY <1>7 DEF declared

\* The master of a psid changes, the nodes up do not.
LEMMA DeclareMasterTotal ==
  ASSUME NEW p, Formed(p), Total(p), p.run = "on" => Led(p), NEW m
  PROVE  Total(declareMaster(p, m))
BY DeclareMaster DEF Total

LEMMA NodeDeadRight ==
  ASSUME NEW n \in Node, NEW p, Right(p, n), NEW m \in Peer(n),
         NEW sendDeadnode
  PROVE  Right(declareNodeDead(p, m, sendDeadnode), n)
<1>1. CASE m \notin p.up
  BY <1>1 DEF declareNodeDead
<1>2. CASE m \in p.up
  <2> DEFINE d == Down(p, m)
             b == Buried(d, m)
  <2>0. m \in Node /\ p \in State(n) /\ Sound(p, n) /\ p.up \subseteq Node /\ p.id = n
    BY DEF Peer, Right, Sound
  <2>1. d \in State(n) /\ Total(d)
    <3>1. Cardinality(p.up \ {m}) = p.totNodes - 1
      BY <1>2, <2>0, OneLess DEF Right, Total
    <3>2. p.up \ {m} \in SUBSET Node /\ p.totNodes - 1 \in 0..N
      BY <2>0, <3>1, NodesFinite
    <3> DEFINE up == p.up \ {m}
               k == p.totNodes - 1
    <3>3. d = [p EXCEPT !.up = up, !.totNodes = k]
      BY DEF Down
    <3> HIDE DEF up, k, d
    <3>4. [p EXCEPT !.up = up, !.totNodes = k] \in State(n)
      BY <2>0, <3>2, UpdatesTyped DEF up, k
    <3>5. d \in State(n)
      BY <3>3, <3>4
    <3>6. d.up = up /\ d.totNodes = k
      BY <2>0, <3>3 DEF State
    <3> QED BY <3>1, <3>5, <3>6 DEF Total, up, k
  <2>2. Formed(d) /\ (d.run = "on" => Led(d)) /\ d.id = n
    BY <2>0 DEF Down, Sound, Formed, Shape, StatOK, Led
  <2> HIDE DEF d
  <2>3. b \in State(n) /\ Total(b) /\ Formed(b)
    <3> DEFINE new == NewMaster(d, m)
    <3>1. new \in Node
      <4> DEFINE S == {d.id} \cup {k \in d.up : m <= k /\ k < d.id}
      <4>1. S \subseteq Node /\ S # {}
        BY <2>1, <2>2, FieldsTyped
      <4>2. new = Min(S)
        BY DEF NewMaster
      <4> HIDE DEF S
      <4> QED BY <4>1, <4>2, MinExists
    <3> HIDE DEF new
    <3>2. declareMaster(d, new) \in State(n)
      BY <2>1, <3>1, DeclareMasterTyped
    <3>3. Total(declareMaster(d, new))
      BY <2>1, <2>2, DeclareMasterTotal
    <3>4. Formed(declareMaster(d, new))
      BY <2>2, DeclareMaster
    <3> QED BY <2>1, <2>2, <3>2, <3>3, <3>4 DEF Buried, new
  <2> DEFINE a == Announce(b, m, sendDeadnode)
  <2> HIDE DEF b
  <2>4. a \in State(n)
    BY <2>0, <2>3, DeadnodeTyped DEF Announce
  <2>5. Total(a)
    <3>1. Kin(b, send_DEADNODE(b, m))
      BY <2>3, DeadnodeKin
    <3> QED BY <2>3, <3>1, KinTotal DEF Announce
  <2>6. declareNodeDead(p, m, sendDeadnode) = a
    BY <1>2 DEF declareNodeDead, b, d
  <2> HIDE DEF a
  <2>7. Sound(a, n)
    BY <2>0, <2>6, NodeDeadSound
  <2> QED BY <2>4, <2>5, <2>6, <2>7 DEF Right
<1> QED BY <1>1, <1>2

LEMMA NodeAliveRight ==
  ASSUME NEW n \in Node, NEW p, Right(p, n), NEW m \in Peer(n)
  PROVE  Right(declareNodeAlive(p, m), n)
<1> DEFINE u == Up(p, m)
           t == TakeOver(u, m)
           g == Greet(t, m, m \in p.up)
<1>0. m \in Node /\ p \in State(n) /\ Sound(p, n) /\ p.up \subseteq Node /\ p.id = n
  BY DEF Peer, Right, Sound
<1>1. u \in State(n) /\ Total(u)
  <2> DEFINE up == p.up \cup {m}
             k == IF m \in p.up THEN p.totNodes ELSE p.totNodes + 1
  <2>1. Cardinality(up) = k
    BY <1>0, OneMore DEF Right, Total
  <2>2. u = [p EXCEPT !.up = up, !.totNodes = k]
    BY DEF Up
  <2>3. up \in SUBSET Node
    BY <1>0
  <2> HIDE DEF up, k, u
  <2>4. k \in 0..N
    BY <2>1, <2>3, NodesFinite
  <2>5. [p EXCEPT !.up = up, !.totNodes = k] \in State(n)
    BY <1>0, <2>3, <2>4, UpdatesTyped
  <2>6. u.up = up /\ u.totNodes = k
    BY <1>0, <2>2 DEF State
  <2> QED BY <2>1, <2>2, <2>5, <2>6 DEF Total
<1>2. Formed(u) /\ (u.run = "on" => Led(u)) /\ u.id = n
  BY <1>0 DEF Up, Sound, Formed, Shape, StatOK, Led
<1> HIDE DEF u
<1>3. u.master \in Node /\ u.known \in BOOLEAN /\ Node \subseteq Int
  BY <1>1, FieldsTyped, SizeAssumption DEF Node
<1>4. ASSUME NEW k \in Node
      PROVE  /\ declareMaster(u, k) \in State(n) /\ Total(declareMaster(u, k))
             /\ Formed(declareMaster(u, k))
  <2>1. declareMaster(u, k) \in State(n)
    BY <1>1, DeclareMasterTyped
  <2>2. Total(declareMaster(u, k))
    BY <1>1, <1>2, DeclareMasterTotal
  <2>3. Formed(declareMaster(u, k))
    BY <1>2, DeclareMaster
  <2> QED BY <2>1, <2>2, <2>3
<1>5. ASSUME ~ u.known PROVE t \in State(n) /\ Total(t) /\ Formed(t)
  <2>1. Min({m, n}) \in Node
    BY <1>0, MinExists
  <2>2. t = declareMaster(u, Min({m, n}))
    BY <1>2, <1>5 DEF TakeOver
  <2> HIDE DEF t
  <2> QED BY <1>4, <2>1, <2>2
<1>6. ASSUME u.known, m < u.master PROVE t \in State(n) /\ Total(t) /\ Formed(t)
  <2> DEFINE v == declareMaster(u, m)
  <2>1. v \in State(n) /\ Total(v) /\ Formed(v)
    BY <1>0, <1>4
  <2>2. t = sendMsg(v, u.master, MASTER_IS(m))
    <3>1. ~ (m >= u.master)
      <4>1. m \in Int /\ u.master \in Int
        BY <1>0, <1>3
      <4> QED BY <1>6, <4>1
    <3> QED BY <1>6, <3>1 DEF TakeOver
  <2> HIDE DEF v, t
  <2>3. sendMsg(v, u.master, MASTER_IS(m)) \in State(n)
    BY <1>0, <1>3, <2>1, SendMsgTyped, MessagesTyped
  <2>4. Kin(v, sendMsg(v, u.master, MASTER_IS(m)))
    BY <2>1, SendingKin
  <2> QED BY <2>1, <2>2, <2>3, <2>4, KinTotal DEF Kin
<1>7. ASSUME u.known, m >= u.master PROVE t \in State(n) /\ Total(t) /\ Formed(t)
  <2>1. t = u
    <3>1. ~ (m < u.master)
      <4>1. m \in Int /\ u.master \in Int
        BY <1>0, <1>3
      <4> QED BY <1>7, <4>1
    <3> QED BY <1>7, <3>1 DEF TakeOver
  <2> QED BY <1>1, <1>2, <2>1
<1>8. t \in State(n) /\ Total(t) /\ Formed(t)
  <2>1. m < u.master \/ m >= u.master
    <3>1. m \in Int /\ u.master \in Int
      BY <1>0, <1>3
    <3> QED BY <3>1
  <2> HIDE DEF t
  <2> QED BY <1>3, <1>5, <1>6, <1>7, <2>1
<1> HIDE DEF t
<1>9. g \in State(n)
  BY <1>8, SendActivenodesTyped DEF Greet
<1>10. Total(g)
  <2>1. Kin(t, send_ACTIVENODES(t, m))
    BY <1>8, SendingKin
  <2> QED BY <1>8, <2>1, KinTotal DEF Greet
<1>11. declareNodeAlive(p, m) = g
  BY DEF declareNodeAlive, t, u
<1> HIDE DEF g
<1>12. Sound(g, n)
  BY <1>0, <1>11, NodeAliveSound
<1> QED BY <1>9, <1>10, <1>11, <1>12 DEF Right

-----------------------------------------------------------------------------
(***************************************************************************)
(* Messages and callbacks keep the types                                   *)
(***************************************************************************)
LEMMA SendMsgRight ==
  ASSUME NEW n \in Node, NEW p, Right(p, n), NEW m \in Node, NEW msg \in Message
  PROVE  Right(sendMsg(p, m, msg), n)
<1>1. sendMsg(p, m, msg) \in State(n)
  BY SendMsgTyped DEF Right
<1>2. Kin(p, sendMsg(p, m, msg))
  BY SendingKin DEF Right, Sound
<1> QED BY <1>1, <1>2, KinRight

LEMMA CloseRDPRight ==
  ASSUME NEW n \in Node, NEW p, Right(p, n), NEW m
  PROVE  Right(closeConnRDP(p, m), n)
<1>1. closeConnRDP(p, m) \in State(n)
  BY CloseRDPTyped DEF Right
<1>2. Kin(p, closeConnRDP(p, m))
  BY SendingKin DEF Right, Sound
<1> QED BY <1>1, <1>2, KinRight

LEMMA SetStateRight ==
  ASSUME NEW n \in Node, NEW p, Right(p, n), NEW m \in Peer(n),
         NEW state \in {"CLOSED", "SYN_SENT", "ACTIVE"}
  PROVE  Right(SetState(p, m, state), n)
<1>1. SetState(p, m, state) \in State(n)
  BY SetStateTyped DEF Right
<1>2. Kin(p, SetState(p, m, state))
  BY SetStateKin DEF Right, Sound
<1> QED BY <1>1, <1>2, KinRight

LEMMA LinkRight ==
  ASSUME NEW n \in Node, NEW p, Right(p, n), NEW l \in [Peer(n) -> Connection]
  PROVE  Right([p EXCEPT !.link = l], n)
<1>1. [p EXCEPT !.link = l] \in State(n)
  BY UpdatesTyped DEF Right
<1>2. Kin(p, [p EXCEPT !.link = l])
  BY AuxKin DEF Right, Sound
<1> QED BY <1>1, <1>2, KinRight

LEMMA CheckActiveTyped ==
  ASSUME NEW n \in Node, NEW p \in State(n), NEW sender, NEW k \in Node
  PROVE  CheckActive(p, sender, k) \in State(n)
<1> DEFINE q1 == [Contradicted(p, 0, k, CONNECT) EXCEPT !.untested = k + 1]
           q == IF k = sender THEN q1 ELSE p
           r == Contradicted(q, q.untested, k, MASTER_IS(q.master))
           s == IF k \in r.up THEN r ELSE sendMsg(r, k, CONNECT)
<1>1. k + 1 \in 0..N
  BY SizeAssumption DEF Node
<1>2. q \in State(n)
  <2>1. Contradicted(p, 0, k, CONNECT) \in State(n)
    BY SendAllTyped, MessagesTyped DEF Contradicted
  <2>2. q1 \in State(n)
    BY <1>1, <2>1, UpdatesTyped
  <2> QED BY <2>2
<1>3. CheckActive(p, sender, k) = [s EXCEPT !.untested = k + 1]
  BY DEF CheckActive
<1> HIDE DEF q
<1>4. r \in State(n)
  <2>1. MASTER_IS(q.master) \in Message
    BY <1>2, FieldsTyped, MessagesTyped
  <2> QED BY <1>2, <2>1, SendAllTyped DEF Contradicted
<1> HIDE DEF r
<1>5. s \in State(n)
  BY <1>4, SendMsgTyped, MessagesTyped
<1> HIDE DEF s
<1>6. [s EXCEPT !.untested = k + 1] \in State(n)
  BY <1>1, <1>5, UpdatesTyped
<1> QED BY <1>3, <1>6

LEMMA CheckedTyped ==
  ASSUME NEW n \in Node, NEW p \in State(n), NEW sender, NEW list \in Seq(Node)
  PROVE  Checked(p, sender, list) \in State(n)
<1> DEFINE S == State(n)
           F == [x \in S \X Node |-> CheckActive(x[1], sender, x[2])]
           after == CHOOSE after : after = [i \in 0..Len(list) |->
                      IF i = 0 THEN p ELSE CheckActive(after[i - 1], sender, list[i])]
<1>1. /\ F \in [S \X Node -> S]
      /\ \A x \in S, y \in Node : F[<<x, y>>] = CheckActive(x, sender, y)
  BY CheckActiveTyped
<1>2. Len(list) \in Nat /\ \A k \in 1..Len(list) : list[k] \in Node
  BY LenProperties, ElementOfSeq
<1>3. p \in S
  OBVIOUS
<1> HIDE DEF F, S
<1>4. PICK a : Turns(a, Len(list), p, list, F) /\ \A k \in 0..Len(list) : a[k] \in S
  BY <1>1, <1>3, LoopEnds
<1>5. a = [i \in 0..Len(list) |->
             IF i = 0 THEN p ELSE CheckActive(a[i - 1], sender, list[i])]
  <2>1. \A i \in 0..Len(list) :
          i # 0 => F[<<a[i - 1], list[i]>>] = CheckActive(a[i - 1], sender, list[i])
    <3>1. \A i \in 0..Len(list) : i # 0 => i - 1 \in 0..Len(list) /\ i \in 1..Len(list)
      BY <1>2
    <3> QED BY <1>1, <1>2, <1>4, <3>1
  <2> QED BY <1>4, <2>1 DEF Turns
<1>6. after = [i \in 0..Len(list) |->
                 IF i = 0 THEN p ELSE CheckActive(after[i - 1], sender, list[i])]
  BY <1>5, Zenon
<1>7. Checked(p, sender, list) = after[Len(list)]
  BY Zenon DEF Checked
<1> HIDE DEF after
<1>8. after[0] = p /\ \A i \in 1..Len(list) : after[i] = CheckActive(after[i - 1], sender, list[i])
  BY <1>2, <1>6
<1>9. \A i \in 0..Len(list) : after[i] \in S
  <2>1. \A i \in 1..Len(list) : after[i - 1] \in S => after[i] \in S
    BY <1>2, <1>8, CheckActiveTyped DEF S
  <2> QED BY <1>2, <1>3, <1>8, <2>1, LoopKeeps
<1>10. after[Len(list)] \in S
  BY <1>2, <1>9
<1> QED BY <1>7, <1>10 DEF S

LEMMA ActivenodesRight ==
  ASSUME NEW n \in Node, NEW p, Right(p, n), NEW m, NEW list \in Seq(Node)
  PROVE  Right(msg_ACTIVENODES(p, m, list), n)
<1> DEFINE l == Checked(p, m, list).link
           k == Checked(p, m, list).untested
<1>1. l \in [Peer(n) -> Connection] /\ k \in 0..N
  BY CheckedTyped, FieldsTyped DEF Right
<1>2. msg_ACTIVENODES(p, m, list) = [p EXCEPT !.link = l, !.untested = k]
  BY DEF msg_ACTIVENODES
<1> HIDE DEF l, k
<1>3. [p EXCEPT !.link = l] \in State(n)
  BY <1>1, UpdatesTyped DEF Right
<1>4. [[p EXCEPT !.link = l] EXCEPT !.untested = k] \in State(n)
  BY <1>1, <1>3, UpdatesTyped
<1>5. msg_ACTIVENODES(p, m, list) \in State(n)
  BY <1>2, <1>4
<1>6. Kin(p, msg_ACTIVENODES(p, m, list))
  BY ActivenodesKin DEF Right, Sound
<1> QED BY <1>5, <1>6, KinRight

LEMMA MasterisRight ==
  ASSUME NEW n \in Node, NEW p, Right(p, n), NEW m \in Node, NEW new \in Node
  PROVE  Right(msg_MASTERIS(p, m, new), n)
<1>1. p.master \in Node /\ MASTER_IS(p.master) \in Message
  BY FieldsTyped, MessagesTyped DEF Right
<1> QED BY <1>1, SendMsgRight, MessagesTyped DEF msg_MASTERIS

LEMMA LoadRight ==
  ASSUME NEW n \in Node, NEW p, Right(p, n), NEW m \in Node, NEW tot
  PROVE  Right(msg_LOAD(p, m, tot), n)
<1>1. msg_LOAD(p, m, tot) \in State(n)
  BY LoadTyped DEF Right
<1>2. Kin(p, msg_LOAD(p, m, tot))
  BY LoadKin DEF Right, Sound
<1> QED BY <1>1, <1>2, KinRight

\* What a message carries depends on its type.
LEMMA Carried ==
  ASSUME NEW msg \in Message
  PROVE  /\ msg.type \in {"MASTER_IS", "DEAD_NODE"} => msg.node \in Node
         /\ msg.type = "ACTIVE_NODES" => msg.list \in Seq(Node)
BY DEF Message, CONNECT, ESTABLISHED, SHUTDOWN

LEMMA HandleMsgRight ==
  ASSUME NEW n \in Node, NEW p, Right(p, n), NEW m \in Peer(n), NEW msg \in Message
  PROVE  Right(handleMsg(p, m, msg), n)
<1> DEFINE type == msg.type
<1>0. m \in Node
  BY DEF Peer
<1>1. /\ type \in {"MASTER_IS", "DEAD_NODE"} => msg.node \in Node
      /\ type = "ACTIVE_NODES" => msg.list \in Seq(Node)
  BY Carried
<1>2. Right(declareNodeAlive(p, m), n)
  BY NodeAliveRight
<1>3. Right(sendMsg(declareNodeAlive(p, m), m, ESTABLISHED), n)
  <2> DEFINE q == declareNodeAlive(p, m)
  <2> HIDE DEF q
  <2>1. Right(q, n)
    BY <1>2 DEF q
  <2>2. Right(sendMsg(q, m, ESTABLISHED), n)
    BY <1>0, <2>1, SendMsgRight, MessagesTyped
  <2> QED BY <2>2 DEF q
<1>4. Right(closeConnRDP(declareNodeDead(p, m, FALSE), m), n)
  BY NodeDeadRight, CloseRDPRight
<1>5. type = "MASTER_IS" => Right(msg_MASTERIS(p, m, msg.node), n)
  BY <1>0, <1>1, MasterisRight
<1>6. type = "ACTIVE_NODES" => Right(msg_ACTIVENODES(p, m, msg.list), n)
  BY <1>1, ActivenodesRight
<1>7. type = "DEAD_NODE" => Right(sendMsg(p, msg.node, CONNECT), n)
  BY <1>1, SendMsgRight, MessagesTyped
<1>8. Right(msg_LOAD(p, m, msg.tot), n)
  BY <1>0, LoadRight
<1> HIDE DEF type
<1> QED BY <1>2, <1>3, <1>4, <1>5, <1>6, <1>7, <1>8 DEF handleMsg, type

LEMMA DropRight ==
  ASSUME NEW n \in Node, NEW p, Right(p, n), NEW m \in Peer(n), NEW k \in Nat
  PROVE  Right(drop_DAEMONCONNECT(p, m, k), n)
<1> DEFINE q == drop_DAEMONCONNECT(p, m, k)
<1>0. m \in Int /\ n \in Int /\ p.id = n /\ Formed(p) /\ p \in State(n) /\ p.known \in BOOLEAN
  BY SizeAssumption DEF Peer, Node, Sound, Right, Formed
<1>1. CASE k = 0 \/ p.known \/ p.run = "shutdown" \/ m >= p.id
  <2>1. q = p
    BY <1>1, <1>0 DEF drop_DAEMONCONNECT
  <2> QED BY <2>1
<1>2. CASE k # 0 /\ ~p.known /\ p.run # "shutdown" /\ m + 1 < p.id
  <2> DEFINE calls == [i \in 1..k |-> CONNECT]
             sent == SendEach(p.link[m + 1], calls)
             l == [p.link EXCEPT ![m + 1] = sent]
  <2>1. q = [p EXCEPT !.link = l]
    <3>1. q = [p EXCEPT !.link[m + 1] = sent]
      BY <1>2, <1>0 DEF drop_DAEMONCONNECT
    <3> HIDE DEF sent, q
    <3> QED BY <3>1
  <2>2. calls \in Seq(Message)
    <3>1. calls \in [1..k -> Message]
      BY MessagesTyped
    <3> HIDE DEF calls
    <3>2. calls \in UNION {[1..i -> Message] : i \in Nat}
      BY <3>1, Zenon
    <3> QED BY <3>2, SeqDef, Zenon
  <2>3. p.link \in [Peer(n) -> Connection]
    BY <1>0, FieldsTyped
  <2> HIDE DEF calls
  <2>4. m + 1 \in Peer(n) => sent \in Connection
    BY <2>2, <2>3, SendEachTyped
  <2>5. l \in [Peer(n) -> Connection]
    <3> HIDE DEF sent
    <3> QED BY <2>3, <2>4
  <2> HIDE DEF l, q
  <2>6. Right([p EXCEPT !.link = l], n)
    BY <2>5, LinkRight
  <2>7. Right(q, n)
    BY <2>1, <2>6
  <2> QED BY <2>7 DEF q
<1>3. CASE k # 0 /\ ~p.known /\ p.run # "shutdown" /\ m + 1 = p.id
  <2>1. q = declareMaster(p, n)
    BY <1>3, <1>0 DEF drop_DAEMONCONNECT
  <2>2. declareMaster(p, n) \in State(n)
    BY <1>0, DeclareMasterTyped
  <2>3. Total(declareMaster(p, n))
    BY <1>0, DeclareMasterTotal DEF Right, Sound
  <2>4. Sound(drop_DAEMONCONNECT(p, m, k), n)
    BY DropSound DEF Right
  <2> QED BY <2>1, <2>2, <2>3, <2>4 DEF Right
<1> QED BY <1>0, <1>1, <1>2, <1>3

LEMMA CloseRight ==
  ASSUME NEW n \in Node, NEW p, Right(p, n), NEW m \in Peer(n)
  PROVE  /\ Right(closeConnection(p, m), n) /\ Right(Forgotten(p, m), n)
         /\ Right(NewConnection(p, m), n)
<1> DEFINE c == closeConnRDP(p, m)
           queue == p.link[m].queue
           k == Cardinality({i \in DOMAIN queue : queue[i] = CONNECT})
           g == GiveBack(p, m)
<1>1. Right(c, n)
  BY CloseRDPRight
<1>2. k \in Nat
  <2>1. queue \in Seq(Message)
    <3>1. p.link \in [Peer(n) -> Connection]
      BY FieldsTyped DEF Right
    <3> QED BY <3>1 DEF Connection
  <2> HIDE DEF queue
  <2>2. Len(queue) \in Nat /\ DOMAIN queue = 1..Len(queue)
    BY <2>1, LenProperties
  <2>3. IsFiniteSet(1..Len(queue))
    BY <2>2, FS_Interval
  <2> DEFINE T == {i \in DOMAIN queue : queue[i] = CONNECT}
  <2>4. T \in SUBSET (1..Len(queue))
    BY <2>2
  <2> HIDE DEF T
  <2>5. Cardinality(T) \in Nat
    BY <2>3, <2>4, FS_Subset, FS_CardinalityType
  <2> QED BY <2>5 DEF T
<1>3. g = drop_DAEMONCONNECT(c, m, k)
  BY DEF GiveBack
<1> HIDE DEF c, k, g
<1>4. Right(g, n)
  BY <1>1, <1>2, <1>3, DropRight
<1>5. Right(Lost(g, m), n)
  BY <1>4, NodeDeadRight DEF Lost
<1>6. Right(closeConnection(p, m), n)
  BY <1>5 DEF closeConnection, g
<1>7. Right(Forgotten(p, m), n)
  BY <1>6, Zenon DEF Forgotten
<1>8. Right(NewConnection(p, m), n)
  <2>1. m \in Node
    BY DEF Peer
  <2>2. Right(sendMsg(p, m, CONNECT), n)
    BY <2>1, SendMsgRight, MessagesTyped
  <2> QED BY <2>2, Zenon DEF NewConnection
<1> QED BY <1>6, <1>7, <1>8

-----------------------------------------------------------------------------
(***************************************************************************)
(* The invariant                                                           *)
(***************************************************************************)
Views ==
  /\ DOMAIN psid = Node /\ psid = [n \in Node |-> psid[n]]
  /\ \A n \in Node : Right(psid[n], n)

Bounds == starts \in [Node -> Nat] /\ crashes \in Nat /\ cuts \in Nat

IInv == Views /\ Bounds

LEMMA OneStep ==
  ASSUME Views, NEW n \in Node, NEW p, Right(p, n),
         psid' = [psid EXCEPT ![n] = p]
  PROVE  Views'
BY DEF Views

LEMMA TwoStep ==
  ASSUME Views, NEW n \in Node, NEW m \in Peer(n), NEW p, Right(p, n),
         NEW q, Right(q, m), psid' = [psid EXCEPT ![n] = p, ![m] = q]
  PROVE  Views'
<1>1. m \in Node /\ m # n
  BY DEF Peer
<1> QED BY <1>1 DEF Views

LEMMA BootedRight ==
  ASSUME NEW n \in Node
  PROVE  Right(Booted(n), n) /\ Led(Booted(n)) /\ Right([Booted(n) EXCEPT !.run = "off"], n)
<1> DEFINE b == Booted(n)
<1>1. /\ Formed(b) /\ b.id = n /\ b.up = {n} /\ b.known = FALSE /\ b.totNodes = 1
      /\ b.run = "on" /\ b.master = 0 /\ b.stat = NoStat
  BY BootedIs
<1>2. 0 \in Node /\ 0 \in 0..N /\ 1 \in 0..N /\ 0 \in 0..(Calls - 1)
  BY SizeAssumption, LimitAssumption DEF Node
<1>3. b \in State(n)
  <2> DEFINE l == [m \in Peer(n) |-> Idle]
  <2>1. Idle \in Connection
    BY EmptySeq DEF Idle, Connection
  <2>2. l \in [Peer(n) -> Connection]
    BY <2>1
  <2>3. b = [id |-> n, run |-> "on", up |-> {n}, totNodes |-> 1, known |-> FALSE,
             master |-> 0, stat |-> NoStat, bcasts |-> 0, round |-> 0, untested |-> 0,
             link |-> l]
    BY DEF Booted
  <2> HIDE DEF b, l
  <2> QED BY <1>2, <2>2, <2>3 DEF State
<1> HIDE DEF b
<1>4. Total(b)
  BY <1>1, FS_Singleton DEF Total
<1>5. Sound(b, n) /\ Led(b)
  BY <1>1, <1>2 DEF Sound, Led, Lowest, Alone
<1> DEFINE o == [b EXCEPT !.run = "off"]
<1>6. o \in State(n)
  BY <1>3, UpdatesTyped
<1>7. o.up = b.up /\ o.totNodes = b.totNodes
  BY <1>3 DEF State
<1>8. Sound(o, n)
  BY <1>1, <1>2 DEF Sound, Formed, Shape, StatOK
<1> HIDE DEF o
<1>9. Right(o, n)
  BY <1>4, <1>6, <1>7, <1>8 DEF Right, Total
<1> QED BY <1>3, <1>4, <1>5, <1>9 DEF Right, o, b

LEMMA SettledRight ==
  ASSUME NEW n \in Initial
  PROVE  Right(Settled(n), n)
<1> DEFINE b == Booted(n)
           s == Settled(n)
           size == Cardinality(Initial)
           lowest == Min(Initial)
           stat == IF n = lowest THEN FreshStat ELSE NoStat
           link == [m \in Peer(n) |->
                      IF m \in Initial THEN [Idle EXCEPT !.state = "ACTIVE"]
                      ELSE Idle]
<1>1. n \in Node /\ Initial \subseteq Node
  BY SizeAssumption
<1>2. Formed(b) /\ b.id = n /\ b.run = "on" /\ b \in State(n)
  BY <1>1, BootedIs, BootedRight DEF Right
<1>3. lowest \in Node
  BY <1>1, MinExists
<1>4. stat # NoStat <=> lowest = n
  BY FreshIsStat
<1>5. /\ stat \in {NoStat} \cup [Node -> ClientStatus]
      /\ stat = NoStat \/ (DOMAIN stat = Node /\ stat = [m \in Node |-> stat[m]])
  BY FreshTyped
<1>6. link \in [Peer(n) -> Connection]
  <2>1. Idle \in Connection /\ [Idle EXCEPT !.state = "ACTIVE"] \in Connection
    BY EmptySeq DEF Idle, Connection
  <2> QED BY <2>1
<1>7. size \in 0..N
  BY <1>1, NodesFinite
<1>8. s = [b EXCEPT !.up = Initial, !.totNodes = size, !.known = TRUE,
                    !.master = lowest, !.stat = stat, !.link = link]
  BY DEF Settled
<1> HIDE DEF b, lowest, stat, link, s, size
<1>9. /\ Formed(s) /\ s.id = n /\ s.up = Initial /\ s.known = TRUE
      /\ s.master = lowest /\ s.stat = stat /\ s.run = "on" /\ s.totNodes = size
  BY <1>2, <1>5, <1>8 DEF Formed, Shape, StatOK
<1>10. Led(s) /\ Lowest(s) /\ Alone(s)
  BY <1>4, <1>9 DEF Led, Lowest, Alone, lowest
<1>11. Sound(s, n)
  BY <1>1, <1>3, <1>9, <1>10 DEF Sound
<1>12. s \in State(n)
  BY <1>1, <1>2, <1>3, <1>5, <1>6, <1>7, <1>8 DEF State
<1>13. Total(s)
  BY <1>9 DEF Total, size
<1> QED BY <1>11, <1>12, <1>13 DEF Right, s

LEMMA InitInvariant == Init => IInv
<1> SUFFICES ASSUME Init PROVE IInv
  OBVIOUS
<1>1. psid = [n \in Node |-> IF n \in Initial THEN Settled(n)
                             ELSE [Booted(n) EXCEPT !.run = "off"]]
  BY DEF Init
<1>2. \A n \in Node : psid[n] = IF n \in Initial THEN Settled(n)
                                ELSE [Booted(n) EXCEPT !.run = "off"]
  BY <1>1, Zenon
<1>3. \A n \in Node : Right([Booted(n) EXCEPT !.run = "off"], n)
  BY BootedRight
<1>4. \A n \in Initial : Right(Settled(n), n)
  BY SettledRight
<1>5. \A n \in Node : Right(psid[n], n)
  BY <1>2, <1>3, <1>4, Zenon
<1>6. DOMAIN psid = Node /\ psid = [n \in Node |-> psid[n]]
  <2> DEFINE F(n) == IF n \in Initial THEN Settled(n)
                     ELSE [Booted(n) EXCEPT !.run = "off"]
  <2>1. psid = [n \in Node |-> F(n)]
    BY <1>1
  <2> HIDE DEF F
  <2> QED BY <2>1
<1>7. Bounds
  BY DEF Init, Bounds
<1> QED BY <1>5, <1>6, <1>7 DEF IInv, Views

\* Steps of one psid.
LEMMA SinglesRight ==
  ASSUME Views, NEW n \in Node,
         \/ Ping(n) \/ Start(n) \/ PSID_shutdown(n) \/ ShutdownEnds(n) \/ Crash(n)
  PROVE  Views'
<1> DEFINE p == psid[n]
<1>1. Right(p, n)
  BY DEF Views
<1>2. Sound(p, n) /\ p \in State(n) /\ Total(p) /\ Formed(p) /\ p.id = n
  BY <1>1 DEF Right, Sound
<1>3. CASE Ping(n)
  <2>1. p.known /\ p.run # "off" /\ psid' = [psid EXCEPT ![n] = sendRDPPing(p)]
    BY <1>3 DEF Ping, Becomes, Running
  <2> HIDE DEF p
  <2>2. p.master = n /\ p.run # "shutdown" => p.stat # NoStat
    <3>1. p.run # "shutdown" => p.run = "on"
      BY <1>2, <2>1 DEF Formed
    <3> QED BY <1>2, <2>1, <3>1 DEF Sound, Led
  <2>3. sendRDPPing(p) \in State(n)
    BY <1>2, <2>2, PingTyped
  <2>4. Kin(p, sendRDPPing(p))
    BY <1>2, <2>2, PingKin
  <2>5. Right(sendRDPPing(p), n)
    BY <1>1, <2>3, <2>4, KinRight
  <2> QED BY <2>1, <2>5, OneStep
<1>4. CASE Start(n)
  <2> DEFINE b == Booted(n)
  <2>1. Right(b, n) /\ Led(b) /\ b.up = {n} /\ b.id = n /\ b.run = "on"
    BY BootedRight, BootedIs
  <2>2. 0 \in Node
    BY SizeAssumption DEF Node
  <2>3. CASE n = 0
    <3> DEFINE q == declareMaster(b, 0)
    <3>1. psid' = [psid EXCEPT ![n] = q]
      BY <1>4, <2>3 DEF Start
    <3> HIDE DEF b
    <3>2. /\ Formed(q) /\ q.master = 0 /\ q.id = n /\ q.run = "on"
          /\ q.up = {n} /\ Led(q) /\ q.known
      BY <2>1, DeclareMaster DEF Right, Sound
    <3>3. q \in State(n)
      BY <2>1, <2>2, DeclareMasterTyped DEF Right
    <3>4. Total(q)
      BY <2>1, DeclareMasterTotal DEF Right, Sound
    <3>5. Min({n}) = n
      <4>1. n \in Int
        BY <2>3
      <4> QED BY <4>1, MinIs
    <3> HIDE DEF q
    <3>6. Sound(q, n)
      BY <2>2, <2>3, <3>2, <3>5 DEF Sound, Lowest, Alone
    <3>7. Right(q, n)
      BY <3>3, <3>4, <3>6 DEF Right
    <3> QED BY <3>1, <3>7, OneStep
  <2>4. CASE n # 0
    <3>1. psid' = [psid EXCEPT ![n] = sendMsg(b, 0, CONNECT)]
      BY <1>4, <2>4 DEF Start
    <3>2. Right(sendMsg(b, 0, CONNECT), n)
      <4> HIDE DEF b
      <4> QED BY <2>1, <2>2, SendMsgRight, MessagesTyped
    <3> QED BY <3>1, <3>2, OneStep
  <2> QED BY <2>3, <2>4
<1>5. ASSUME NEW run \in {"shutdown", "off"} PROVE Right([p EXCEPT !.run = run], n)
  <2> DEFINE q == [p EXCEPT !.run = run]
  <2> HIDE DEF p
  <2>1. q \in State(n)
    BY <1>2, UpdatesTyped
  <2>2. q.up = p.up /\ q.totNodes = p.totNodes
    BY <1>2 DEF State
  <2>3. Sound(q, n)
    BY <1>2 DEF Sound, Formed, Shape, StatOK
  <2> HIDE DEF q
  <2>4. Right(q, n)
    BY <1>2, <2>1, <2>2, <2>3 DEF Right, Total
  <2> QED BY <2>4 DEF q
<1>6. CASE PSID_shutdown(n)
  <2>1. psid' = [psid EXCEPT ![n] = [p EXCEPT !.run = "shutdown"]]
    BY <1>6 DEF PSID_shutdown, Becomes
  <2> QED BY <1>5, <2>1, OneStep
<1>7. CASE ShutdownEnds(n)
  <2> DEFINE q == [p EXCEPT !.run = "off"]
             l == [m \in DOMAIN p.link |->
                     IF m \in p.up /\ p.link[m].state = "ACTIVE"
                     THEN Rsendto(p.link[m], SHUTDOWN) ELSE p.link[m]]
  <2>1. send_DAEMONSHUTDOWN(p) = [q EXCEPT !.link = l]
    BY DEF send_DAEMONSHUTDOWN
  <2>2. psid' = [psid EXCEPT ![n] = [q EXCEPT !.link = l]]
    BY <1>7, <2>1 DEF ShutdownEnds, Becomes
  <2>3. Right(q, n)
    BY <1>5
  <2>4. l \in [Peer(n) -> Connection]
    <3>1. p.link \in [Peer(n) -> Connection]
      BY <1>2, FieldsTyped
    <3> QED BY <3>1, RsendtoTyped, MessagesTyped
  <2> HIDE DEF q, l
  <2>5. Right([q EXCEPT !.link = l], n)
    BY <2>3, <2>4, LinkRight
  <2> QED BY <2>2, <2>5, OneStep
<1>8. CASE Crash(n)
  <2>1. psid' = [psid EXCEPT ![n] = [p EXCEPT !.run = "off"]]
    BY <1>8 DEF Crash
  <2> QED BY <1>5, <2>1, OneStep
<1> QED BY <1>3, <1>4, <1>6, <1>7, <1>8

\* Steps of a psid and the connection to another one.
LEMMA PairsRight ==
  ASSUME Views, NEW n \in Node, NEW m \in Peer(n),
         \/ Handshake(n, m) \/ HandleForeign(n, m) \/ Receive(n, m)
         \/ GiveUp(n, m) \/ Cut(n, m) \/ Fade(n, m)
  PROVE  Views'
<1>0. m \in Node /\ n \in Peer(m)
  BY DEF Peer
<1>1. Right(psid[n], n) /\ Right(psid[m], m)
  BY <1>0 DEF Views
<1>2. ASSUME NEW a \in Node, NEW p, Right(p, a), NEW b \in Peer(a),
             NEW state \in {"CLOSED", "SYN_SENT", "ACTIVE"}
      PROVE  Right(SetState(p, b, state), a)
  BY <1>2, SetStateRight
<1>3. CASE Handshake(n, m)
  <2> DEFINE p == SetState(psid[n], m, "ACTIVE")
             f == Forgotten(psid[m], n)
             q == SetState(f, n, "ACTIVE")
  <2>1. psid' = [psid EXCEPT ![n] = NewConnection(p, m), ![m] = NewConnection(q, n)]
    BY <1>3 DEF Handshake, Peer
  <2>2. Right(p, n) /\ Right(f, m)
    BY <1>0, <1>1, <1>2, CloseRight
  <2> HIDE DEF p, f
  <2>3. Right(q, m)
    BY <1>0, <1>2, <2>2
  <2> HIDE DEF q
  <2>4. Right(NewConnection(p, m), n) /\ Right(NewConnection(q, n), m)
    BY <1>0, <2>2, <2>3, CloseRight
  <2> QED BY <2>1, <2>4, <1>0, TwoStep
<1>4. CASE HandleForeign(n, m)
  <2>1. psid' = [psid EXCEPT ![m] = SetState(psid[m], n, "SYN_SENT")]
    BY <1>4 DEF HandleForeign, Becomes
  <2>2. Right(SetState(psid[m], n, "SYN_SENT"), m)
    BY <1>0, <1>1, <1>2
  <2> QED BY <1>0, <2>1, <2>2, OneStep
<1>5. CASE Receive(n, m)
  <2> DEFINE old == psid[m].link
             l == [old EXCEPT ![n].queue = Tail(old[n].queue)]
             p == handleMsg(psid[n], m, Head(old[n].queue))
             q == [psid[m] EXCEPT !.link = l]
  <2>1. psid' = [psid EXCEPT ![n] = p, ![m].link[n].queue = Tail(old[n].queue)]
    BY <1>5, Zenon DEF Receive
  <2>0. old \in [Peer(m) -> Connection] /\ old[n].queue # <<>>
    BY <1>1, <1>5, FieldsTyped DEF Right, Receive
  <2>5. old[n].queue \in Seq(Message)
    BY <1>0, <2>0 DEF Connection
  <2>6. Head(old[n].queue) \in Message /\ Tail(old[n].queue) \in Seq(Message)
    BY <2>0, <2>5, HeadTailProperties
  <2>2. Right(p, n)
    BY <1>1, <2>6, HandleMsgRight
  <2>3. Right(q, m)
    <3>1. l \in [Peer(m) -> Connection]
      BY <1>0, <2>0, <2>6 DEF Connection
    <3> HIDE DEF l
    <3> QED BY <1>0, <1>1, <3>1, LinkRight
  <2> HIDE DEF p
  <2>4. psid' = [psid EXCEPT ![n] = p, ![m] = q]
    BY <1>0, <2>1 DEF Peer
  <2> HIDE DEF q
  <2> QED BY <2>2, <2>3, <2>4, TwoStep
<1>6. CASE GiveUp(n, m) \/ Cut(n, m)
  <2>1. psid' = [psid EXCEPT ![n] = closeConnection(psid[n], m)]
    BY <1>6 DEF GiveUp, Cut, Becomes
  <2>2. Right(closeConnection(psid[n], m), n)
    BY <1>1, CloseRight
  <2> QED BY <2>1, <2>2, OneStep
<1>7. CASE Fade(n, m)
  <2>1. psid' = [psid EXCEPT ![n] = closeConnRDP(psid[n], m)]
    BY <1>7 DEF Fade, Becomes
  <2>2. Right(closeConnRDP(psid[n], m), n)
    BY <1>1, CloseRDPRight
  <2> QED BY <2>1, <2>2, OneStep
<1> QED BY <1>3, <1>4, <1>5, <1>6, <1>7

\* What bounds the actions has its type.
LEMMA BoundsStep == Bounds /\ [Next]_vars => Bounds'
<1> SUFFICES ASSUME Bounds, [Next]_vars PROVE Bounds'
  OBVIOUS
<1>1. CASE UNCHANGED vars
  BY <1>1 DEF vars, Bounds
<1>2. ASSUME NEW n \in Node,
             \/ Ping(n) \/ PSID_shutdown(n) \/ ShutdownEnds(n) \/ Crash(n)
      PROVE  Bounds'
  BY <1>2 DEF Ping, PSID_shutdown, ShutdownEnds, Crash, Becomes, Bounds
<1>3. ASSUME NEW n \in Node, Start(n) PROVE Bounds'
  <2>1. starts' = [starts EXCEPT ![n] = starts[n] + 1] /\ UNCHANGED <<crashes, cuts>>
    BY <1>3 DEF Start
  <2> QED BY <2>1 DEF Bounds
<1>4. ASSUME NEW n \in Node, NEW m \in Peer(n),
             \/ Handshake(n, m) \/ HandleForeign(n, m) \/ Receive(n, m)
             \/ GiveUp(n, m) \/ Cut(n, m) \/ Fade(n, m)
      PROVE  Bounds'
  <2>1. Receive(n, m) \/ Handshake(n, m) => UNCHANGED <<starts, crashes, cuts>>
    BY Zenon DEF Receive, Handshake
  <2>2. HandleForeign(n, m) \/ GiveUp(n, m) \/ Fade(n, m)
        => UNCHANGED <<starts, crashes, cuts>>
    BY Zenon DEF HandleForeign, GiveUp, Fade, Becomes
  <2>3. Cut(n, m) => cuts' = cuts + 1 /\ UNCHANGED <<starts, crashes>>
    BY Zenon DEF Cut
  <2> QED BY <1>4, <2>1, <2>2, <2>3 DEF Bounds
<1> QED BY <1>1, <1>2, <1>3, <1>4, Zenon DEF Next

LEMMA ViewsStep == Views /\ [Next]_vars => Views'
<1> SUFFICES ASSUME Views, [Next]_vars PROVE Views'
  OBVIOUS
<1>1. CASE UNCHANGED vars
  BY <1>1 DEF vars, Views
<1>2. ASSUME NEW n \in Node,
             \/ Ping(n) \/ Start(n) \/ PSID_shutdown(n) \/ ShutdownEnds(n) \/ Crash(n)
      PROVE  Views'
  BY <1>2, SinglesRight
<1>3. ASSUME NEW n \in Node, NEW m \in Peer(n),
             \/ Handshake(n, m) \/ HandleForeign(n, m) \/ Receive(n, m)
             \/ GiveUp(n, m) \/ Cut(n, m) \/ Fade(n, m)
      PROVE  Views'
  BY <1>3, PairsRight
<1> QED BY <1>1, <1>2, <1>3, Zenon DEF Next

LEMMA NextInvariant == IInv /\ [Next]_vars => IInv'
BY ViewsStep, BoundsStep DEF IInv

LEMMA InvariantImplies ==
  IInv => TypeOK /\ NodesCounted /\ MasterIsLowest /\ MasterHasSpace /\ UnknownIsAlone
<1> SUFFICES ASSUME IInv PROVE TypeOK /\ NodesCounted /\ MasterIsLowest /\ MasterHasSpace /\ UnknownIsAlone
  OBVIOUS
<1>1. \A n \in Node : Sound(psid[n], n) /\ psid[n] \in State(n) /\ Total(psid[n])
  BY DEF IInv, Views, Right
<1>2. TypeOK /\ NodesCounted
  BY <1>1 DEF IInv, Bounds, TypeOK, NodesCounted, Total
<1>3. ASSUME NEW n \in Node, psid[n].run = "on"
      PROVE  /\ psid[n].known => psid[n].master = Min(psid[n].up)
             /\ psid[n].stat # NoStat
                <=> psid[n].known /\ psid[n].master = n
             /\ ~ psid[n].known
                => psid[n].up = {n} /\ psid[n].totNodes = 1
  BY <1>1, <1>3 DEF Sound, Led, Lowest, Alone
<1>4. MasterIsLowest /\ MasterHasSpace /\ UnknownIsAlone
  BY <1>3, Zenon DEF MasterIsLowest, MasterHasSpace, UnknownIsAlone
<1> QED BY <1>2, <1>4

-----------------------------------------------------------------------------
\* All the state of the psids keeps its type, whatever messages they exchange
\* and lose: totNodes, counted up and down by declareNodeAlive() and
\* declareNodeDead(), stays between 0 and the number of nodes, wrongClients
\* below the limit msg_LOAD() compares it with, and masters and lists are of
\* nodes.  (missCounter, which handleMasterTasks() counts up without a limit,
\* is just not negative.)
THEOREM TypeCorrect == Spec => []TypeOK
BY InitInvariant, NextInvariant, InvariantImplies, PTL DEF Spec

\* Every node is counted once when it comes up and once when it goes down
\* (declareNodeAlive(), declareNodeDead()), whoever reports it and how often.
THEOREM CountedOnce == Spec => []NodesCounted
BY InitInvariant, NextInvariant, InvariantImplies, PTL DEF Spec

\* Whatever the number of nodes and the order in which they start, die, shut
\* down, are cut off and report each other, a psid follows the lowest node it
\* considers up (declareNodeAlive(), declareNodeDead(), drop_DAEMONCONNECT()).
THEOREM LowestLeads == Spec => []MasterIsLowest
BY InitInvariant, NextInvariant, InvariantImplies, PTL DEF Spec

\* clientStat is there whenever handleMasterTasks() and msg_LOAD() of a master
\* read it, unless the psid shuts down, and nobody else keeps it.
THEOREM SpaceForMaster == Spec => []MasterHasSpace
BY InitInvariant, NextInvariant, InvariantImplies, PTL DEF Spec

\* The search for the master, from node 0 upwards, is over once any other node
\* is known: declareNodeAlive() declares a master with the first one.
THEOREM UnknownAlone == Spec => []UnknownIsAlone
BY InitInvariant, NextInvariant, InvariantImplies, PTL DEF Spec
=============================================================================
