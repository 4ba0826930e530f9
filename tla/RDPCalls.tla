------------------------------ MODULE RDPCalls ------------------------------
(***************************************************************************)
(* What the handlers of RDP can do, told once for all invariants.          *)
(*                                                                         *)
(* A handler is a composition of some twenty operators on a context, but   *)
(* whatever path it takes, it does so in nine kinds of small steps         *)
(* (Sends, Queues, ... below).  A set of contexts that none of these steps *)
(* leaves (ClosedUnder) is therefore left by no handler.  The theorems     *)
(* about RDP take for that set what their invariant says about the         *)
(* connection at hand, and have to look at the nine kinds of steps only.   *)
(***************************************************************************)
EXTENDS RDPProof

\* c and d agree in the queue and in all numbers and IDs but ConnID_out.
SameNumbers(c, d) ==
  /\ d.msgPending = c.msgPending /\ d.frameToSend = c.frameToSend
  /\ d.ackExpected = c.ackExpected /\ d.frameExpected = c.frameExpected
  /\ d.ConnID_in = c.ConnID_in /\ d.pendList = c.pendList

\* The plan for the inside of the handler is used up, never extended (but for
\* the failure of every send to an unknown address).
Passes(h, g) ==
  /\ g.env.closes = h.env.closes
  /\ g.env.fail <= h.env.fail \/ g.env.fail = 1
  /\ g.env.react \in {h.env.react, "none"}

\* Nothing but the connection changes from h to g.
OnlyConn(h, g) ==
  /\ Passes(h, g)
  /\ g.out = h.out /\ g.acc = h.acc /\ g.owed = h.owed /\ g.told = h.told

\* The packets s are sent, or none, and bookkeeping is done: timers, counters,
\* the address, and what the upper layer is told, unless it is "down" of an
\* active connection.
Sends(h, g, s) ==
  /\ Passes(h, g)
  /\ g.out = h.out \o s /\ g.acc = h.acc /\ g.owed = h.owed
  /\ SameNumbers(h.c, g.c) /\ g.c.ConnID_out = h.c.ConnID_out
  /\ g.c.state = h.c.state
  /\ g.told = h.told \/ g.told = "up" \/ h.c.state # "ACTIVE"

\* DATA packets of live messages.
Burst(c, s) ==
  \A i \in DOMAIN s : \E l \in Live(c) : s[i] = DATA(c, c.pendList[l])

\* The packets a connection sends in its state.
Lawful(h, s) ==
  \/ s = << >>
  \/ s = <<SYN(h.c)>> /\ h.c.state = "SYN_SENT"
  \/ s = <<SYNACK(h.c)>> /\ h.c.state = "SYN_RECVD"
  \/ (s = <<ACK(h.c)>> \/ s = <<NACK(h.c)>>) /\ h.c.state = "ACTIVE"
  \/ Burst(h.c, s) /\ h.c.state = "ACTIVE"

\* The buffer Rsendto() appends.
NewBuffer(h) ==
  [seqno |-> h.c.frameToSend + h.c.msgPending, connid |-> h.c.ConnID_out,
   payload |-> h.acc + 1, deleted |-> FALSE]

\* Rsendto() accepts a message.
Queues(h, g) ==
  /\ Passes(h, g)
  /\ g.out = h.out /\ g.told = h.told
  /\ g.acc = h.acc + 1 /\ g.owed = h.owed \cup {h.acc + 1}
  /\ g.c.pendList = Append(h.c.pendList, NewBuffer(h))
  /\ g.c.state = IF h.c.state = "CLOSED" THEN "SYN_SENT" ELSE h.c.state
  /\ g.c.msgPending = IF h.c.state = "ACTIVE" THEN h.c.msgPending
                      ELSE h.c.msgPending + 1
  /\ g.c.frameToSend = IF h.c.state = "ACTIVE" THEN h.c.frameToSend + 1
                       ELSE h.c.frameToSend
  /\ g.c.ackExpected = h.c.ackExpected
  /\ g.c.frameExpected = h.c.frameExpected
  /\ g.c.ConnID_in = h.c.ConnID_in /\ g.c.ConnID_out = h.c.ConnID_out

\* A queue all of whose buffers are deleted.
Deleted(s) == [i \in DOMAIN s |-> [s[i] EXCEPT !.deleted = TRUE]]

\* The connection is closed behind the packets s.
Closes(h, g, s) ==
  /\ Passes(h, g)
  /\ g.out = h.out \o s /\ g.acc = h.acc
  /\ g.owed = h.owed \ {h.c.pendList[i].payload : i \in Live(h.c)}
  /\ g.c.state = "CLOSED" /\ g.c.msgPending = 0
  /\ g.c.frameToSend = h.c.frameToSend /\ g.c.ackExpected = h.c.frameToSend
  /\ g.c.frameExpected = h.c.frameExpected /\ g.c.ConnID_in = h.c.ConnID_in
  /\ g.c.pendList = Deleted(h.c.pendList)

\* The packets that may have been sent before the failure that closes the
\* connection: part of what resendMsgs() was about to send.
CutShort(h, s) ==
  \/ s = << >>
  \/ /\ h.c.state \in {"ACTIVE", "SYN_RECVD"} /\ Burst(h.c, s)
     /\ h.env.closes /\ Len(s) < h.env.fail

\* The connection is requested.
Requests(h, g) ==
  /\ OnlyConn(h, g) /\ h.c.state \in {"CLOSED", "SYN_RECVD"}
  /\ g.c.state = "SYN_SENT"
  /\ SameNumbers(h.c, g.c) /\ g.c.ConnID_out = h.c.ConnID_out

\* Deleted buffers are freed.
Drops(h, g, k) ==
  /\ OnlyConn(h, g)
  /\ k \in 0..Len(h.c.pendList) /\ \A i \in 1..k : h.c.pendList[i].deleted
  /\ g.c.state = h.c.state
  /\ SameNumbers([h.c EXCEPT !.pendList = SubSeq(@, k + 1, Len(@))], g.c)
  /\ g.c.ConnID_out = h.c.ConnID_out

\* The connection gets usable; what waited for it counts as sent.
Establishes(h, g) ==
  /\ Passes(h, g)
  /\ g.out = h.out /\ g.acc = h.acc /\ g.owed = h.owed /\ g.told = "up"
  /\ h.c.state = "SYN_RECVD" /\ g.c.state = "ACTIVE"
  /\ SameNumbers([h.c EXCEPT !.frameToSend = @ + h.c.msgPending,
                             !.msgPending = 0], g.c)
  /\ g.c.ConnID_out = h.c.ConnID_out

\* Messages the packet p acknowledges are freed, in whatever state.
Discards(h, g, p) ==
  LET k == FreedBy(h.c.pendList, p.ackno)
  IN  /\ OnlyConn(h, g)
      /\ p.type \notin {"SYN", "SYNACK"}
      /\ g.c.state = h.c.state
      /\ SameNumbers([h.c EXCEPT
                       !.pendList = SubSeq(@, k + 1, Len(@)),
                       !.ackExpected = @ + Cardinality({i \in Live(h.c) : i <= k})],
                     g.c)
      /\ g.c.ConnID_out = h.c.ConnID_out

\* The same within a handler of its own.
Frees(h, g, p) == h.c.state \in {"ACTIVE", "CLOSED"} /\ Discards(h, g, p)

\* c and d agree in the state and in the queue with its numbers; what waits for
\* the connection may count as sent in one of them.
SameQueue(c, d) ==
  /\ d.state = c.state /\ d.pendList = c.pendList
  /\ d.ackExpected = c.ackExpected /\ d.ConnID_out = c.ConnID_out
  /\ d.frameToSend + d.msgPending = c.frameToSend + c.msgPending

\* A set that is about the state, the queue and the last report only, and cares
\* neither for what is sent in which state nor for what counts as sent.
Indifferent(S) ==
  \A h \in S, g \in Context :
    /\ SameQueue(h.c, g.c) /\ g.told \in {h.told, "up"} => g \in S
    /\ \A p \in Packet : Discards(h, g, p) => g \in S

\* No step that needs no packet leaves S.  If a message may be sent from within
\* RDP_LOST_CONNECTION, this is only enough for an indifferent set.
ClosedUnder(S) ==
  /\ S \subseteq Context
  /\ \A h \in S, g \in Context, s \in Packets :
       /\ Lawful(h, s) /\ Sends(h, g, s) => g \in S
       /\ CutShort(h, s) /\ Closes(h, g, s) => g \in S
  /\ \A h \in S, g \in Context :
       /\ Queues(h, g) => g \in S
       /\ Requests(h, g) => g \in S
       /\ Establishes(h, g) => g \in S
       /\ \A k : Drops(h, g, k) => g \in S
  /\ (\A h \in S : h.env.react # "LOST") \/ Indifferent(S)

\* The packet p tells where the numbering of the peer starts.
Adopts(h, g, p) ==
  /\ OnlyConn(h, g)
  /\ h.c.state # "ACTIVE" /\ g.c.state \in {"SYN_SENT", "SYN_RECVD"}
  /\ p.type \in {"SYN", "SYNACK"}
  /\ SameNumbers([h.c EXCEPT !.frameExpected = p.seqno,
                             !.ConnID_in = p.connid], g.c)
  /\ g.c.ConnID_out = h.c.ConnID_out

\* No step out of handling p leaves S.
ClosedFor(S, p) ==
  /\ ClosedUnder(S)
  /\ \A h \in S, g \in Context : Adopts(h, g, p) \/ Frees(h, g, p) => g \in S

\* A set that is not left by an ACK either, whatever the state.
Acknowledging(T) ==
  /\ ClosedUnder(T)
  /\ \A h \in T, g \in Context : Sends(h, g, <<ACK(h.c)>>) => g \in T

\* The message in p is taken.
Advances(h, g, p) ==
  /\ OnlyConn(h, g)
  /\ h.c.frameExpected = p.seqno
  /\ g.c.state = h.c.state
  /\ SameNumbers([h.c EXCEPT !.frameExpected = @ + 1], g.c)
  /\ g.c.ConnID_out = h.c.ConnID_out

-----------------------------------------------------------------------------
\* Nothing is appended by << >>.
LEMMA NothingSent ==
  ASSUME NEW s \in Packets
  PROVE  s \o << >> = s /\ << >> \in Packets
BY DEF Packets

\* One packet is appended.
LEMMA OneSent ==
  ASSUME NEW s \in Packets, NEW p \in Packet
  PROVE  Append(s, p) = s \o <<p>> /\ <<p>> \in Packets
BY DEF Packets

\* The fields of a context with another connection.
LEMMA WithConn ==
  ASSUME NEW h \in Context, NEW d, NEW g, g = [h EXCEPT !.c = d]
  PROVE  /\ g.c = d /\ g.out = h.out /\ g.acc = h.acc /\ g.owed = h.owed
         /\ g.told = h.told /\ g.env = h.env /\ g.used = h.used
         /\ g.max = h.max /\ Passes(h, g) /\ OnlyConn(h, g)
<1>1. /\ g.c = d /\ g.out = h.out /\ g.acc = h.acc /\ g.owed = h.owed
      /\ g.told = h.told /\ g.env = h.env /\ g.used = h.used
      /\ g.max = h.max
  BY DEF Context
<1>2. h.env.fail \in Nat
  BY ContextFields
<1>3. Passes(h, g)
  BY <1>1, <1>2 DEF Passes
<1> QED BY <1>1, <1>3 DEF OnlyConn

\* Bookkeeping, as a step of a set.
LEMMA BookkeepingIn ==
  ASSUME NEW S, ClosedUnder(S), NEW h \in S, NEW g \in Context,
         Sends(h, g, << >>)
  PROVE  g \in S
<1>1. << >> \in Packets /\ Lawful(h, << >>)
  BY DEF Packets, Lawful
<1> QED BY <1>1 DEF ClosedUnder

\* A change of the connection that leaves its state and numbers alone.
LEMMA SameConnSends ==
  ASSUME NEW h \in Context, NEW d, NEW g, g = [h EXCEPT !.c = d],
         SameNumbers(h.c, d), d.ConnID_out = h.c.ConnID_out,
         d.state = h.c.state
  PROVE  Sends(h, g, << >>)
<1>1. h.out \o << >> = h.out
  BY NothingSent DEF Context
<1>2. /\ g.c = d /\ g.out = h.out /\ g.acc = h.acc /\ g.owed = h.owed
      /\ g.told = h.told /\ Passes(h, g)
  BY WithConn
<1> QED BY <1>1, <1>2 DEF Sends

\* A change of what the upper layer is told, or of the plan.
LEMMA ToldSends ==
  ASSUME NEW h \in Context, NEW t, t = "up" \/ h.c.state # "ACTIVE"
  PROVE  Sends(h, [h EXCEPT !.told = t], << >>)
<1> DEFINE g == [h EXCEPT !.told = t]
<1>1. h.out \o << >> = h.out
  BY NothingSent DEF Context
<1>2. /\ g.c = h.c /\ g.out = h.out /\ g.acc = h.acc /\ g.owed = h.owed
      /\ g.told = t /\ g.env = h.env
  BY DEF Context
<1>3. h.env.fail \in Nat
  BY ContextFields
<1> HIDE DEF g
<1>4. Sends(h, g, << >>)
  BY <1>1, <1>2, <1>3 DEF Sends, Passes, SameNumbers
<1> QED BY <1>4 DEF g

\* A plan with another number of the send that fails.
LEMMA FailSends ==
  ASSUME NEW h \in Context, NEW k \in Nat, k <= h.env.fail
  PROVE  Sends(h, [h EXCEPT !.env.fail = k], << >>)
<1> DEFINE g == [h EXCEPT !.env.fail = k]
<1>1. h.out \o << >> = h.out
  BY NothingSent DEF Context
<1>2. /\ g.c = h.c /\ g.out = h.out /\ g.acc = h.acc /\ g.owed = h.owed
      /\ g.told = h.told /\ g.env = [h.env EXCEPT !.fail = k]
  BY DEF Context
<1>3. h.env \in Env
  BY ContextFields
<1> HIDE DEF g
<1>4. g.env.fail = k /\ g.env.closes = h.env.closes /\ g.env.react = h.env.react
  BY <1>2, <1>3 DEF Env
<1>5. Passes(h, g)
  BY <1>4 DEF Passes
<1>6. Sends(h, g, << >>)
  BY <1>1, <1>2, <1>5 DEF Sends, SameNumbers
<1> QED BY <1>6 DEF g

\* A plan without a reaction.
LEMMA CalmSends ==
  ASSUME NEW h \in Context
  PROVE  LET g == [h EXCEPT !.env.react = "none"]
         IN  Sends(h, g, << >>) /\ g.c = h.c /\ g.acc = h.acc /\ g.max = h.max
<1> DEFINE g == [h EXCEPT !.env.react = "none"]
<1>1. h.out \o << >> = h.out
  BY NothingSent DEF Context
<1>2. /\ g.c = h.c /\ g.out = h.out /\ g.acc = h.acc /\ g.owed = h.owed
      /\ g.told = h.told /\ g.env = [h.env EXCEPT !.react = "none"]
      /\ g.max = h.max
  BY DEF Context
<1>3. h.env \in Env /\ h.env.fail \in Nat
  BY ContextFields
<1> HIDE DEF g
<1>4. /\ g.env.fail = h.env.fail /\ g.env.closes = h.env.closes
      /\ g.env.react = "none"
  BY <1>2, <1>3 DEF Env
<1>5. Passes(h, g)
  BY <1>3, <1>4 DEF Passes
<1>6. Sends(h, g, << >>)
  BY <1>1, <1>2, <1>5 DEF Sends, SameNumbers
<1> QED BY <1>2, <1>6 DEF g

\* Rsendto() of a message, up to the send.
LEMMA EnqueueQueues ==
  ASSUME NEW h \in Context, CanSend(h)
  PROVE  /\ Enqueue(h) \in Context /\ Queues(h, Enqueue(h))
         /\ Enqueue(h).c.known = h.c.known /\ Enqueue(h).env = h.env
<1> DEFINE c == h.c
           first == c.pendList = << >> /\ c.state = "ACTIVE"
           t == IF first THEN TRUE ELSE c.tmout
           r == IF first THEN 0 ELSE c.retrans
           s == IF c.state = "CLOSED" THEN "SYN_SENT" ELSE c.state
           m == IF c.state = "ACTIVE" THEN c.msgPending ELSE c.msgPending + 1
           f == IF c.state = "ACTIVE" THEN c.frameToSend + 1 ELSE c.frameToSend
           q == Append(c.pendList, NewBuffer(h))
           d == [c EXCEPT !.pendList = q, !.window = @ - 1, !.ackPending = 0,
                          !.tmout = t, !.retrans = r, !.state = s,
                          !.msgPending = m, !.frameToSend = f]
           a == h.acc + 1
           o == h.owed \cup {h.acc + 1}
           g == [h EXCEPT !.acc = a, !.owed = o, !.c = d]
<1>1. Enqueue(h) = g
  BY DEF Enqueue, NewBuffer
<1>2. c \in Conn /\ h.c \in Conn
  BY ContextFields, ConnFields
<1>3. /\ d.pendList = q /\ d.state = s /\ d.msgPending = m /\ d.frameToSend = f
      /\ d.ackExpected = c.ackExpected /\ d.frameExpected = c.frameExpected
      /\ d.ConnID_in = c.ConnID_in /\ d.ConnID_out = c.ConnID_out
      /\ d.known = c.known
  <2> HIDE DEF c, t, r, s, m, f, q
  <2> QED BY <1>2 DEF Conn
<1>4. /\ g.acc = a /\ g.owed = o /\ g.c = d /\ g.out = h.out
      /\ g.told = h.told /\ g.env = h.env
  <2> HIDE DEF d, a, o
  <2> QED BY DEF Context
<1>5. h.env.fail \in Nat /\ h.c.window # 0
  BY ContextFields DEF CanSend
<1>6. Passes(h, g)
  BY <1>4, <1>5 DEF Passes
<1> HIDE DEF g, d
<1>7. Queues(h, g)
  BY <1>3, <1>4, <1>6 DEF Queues
<1>8. g.c.known = h.c.known
  BY <1>3, <1>4
<1> QED BY <1>1, <1>4, <1>5, <1>7, <1>8, EnqueueType

\* What Rsendto() sends is lawful.
LEMMA FirstPacketLawful ==
  ASSUME NEW h \in Context, NEW g \in Context, Queues(h, g)
  PROVE  FirstPacket(g.c) \in Packet /\ Lawful(g, <<FirstPacket(g.c)>>)
<1>1. h.c \in GoodConn /\ g.c \in GoodConn
  BY ContextFields
<1> DEFINE s == g.c.pendList
           n == Len(s)
<1>2. h.c.pendList \in Seq(MsgBuf) /\ s \in Seq(MsgBuf)
  BY <1>1, ConnFields
<1>3. s # << >> /\ n \in DOMAIN s /\ s[n] = NewBuffer(h)
  BY <1>2 DEF Queues
<1>4. FirstPacket(g.c) \in Packet
  BY <1>1, <1>3, FirstPacketType
<1>5. n \in Live(g.c)
  BY <1>3 DEF Live, NewBuffer
<1>6. g.c.state \in State /\ g.c.state # "CLOSED"
  BY <1>1, ConnFields DEF Queues
<1>7. CASE g.c.state = "ACTIVE"
  <2>1. FirstPacket(g.c) = DATA(g.c, s[n])
    BY <1>7 DEF FirstPacket
  <2>2. Burst(g.c, <<FirstPacket(g.c)>>)
    <3> DEFINE ps == <<FirstPacket(g.c)>>
    <3>1. DOMAIN ps = {1} /\ ps[1] = DATA(g.c, g.c.pendList[n])
      BY <2>1
    <3> HIDE DEF ps
    <3> QED BY <1>5, <3>1 DEF Burst, ps
  <2> QED BY <1>4, <1>7, <2>2 DEF Lawful
<1>8. CASE g.c.state = "SYN_SENT"
  BY <1>4, <1>8 DEF FirstPacket, Lawful
<1>9. CASE g.c.state = "SYN_RECVD"
  BY <1>4, <1>9 DEF FirstPacket, Lawful
<1> QED BY <1>6, <1>7, <1>8, <1>9 DEF State

\* sendto() of a packet.
LEMMA PutSends ==
  ASSUME NEW h \in Context, NEW p \in Packet
  PROVE  /\ Sends(h, Put(h, p), <<p>>) /\ Put(h, p) \in Context
         /\ <<p>> \in Packets /\ Put(h, p).c = h.c /\ Put(h, p).told = h.told
<1> DEFINE o == Append(h.out, p)
           g == [h EXCEPT !.out = o]
<1>1. Put(h, p) = g
  BY DEF Put
<1>2. o = h.out \o <<p>> /\ <<p>> \in Packets
  BY OneSent DEF Context
<1> HIDE DEF o
<1>3. /\ g.c = h.c /\ g.out = o /\ g.acc = h.acc /\ g.owed = h.owed
      /\ g.told = h.told /\ g.env = h.env
  BY DEF Context
<1>4. h.env.fail \in Nat
  BY ContextFields
<1> HIDE DEF g
<1>5. Sends(h, g, <<p>>)
  BY <1>2, <1>3, <1>4 DEF Sends, SameNumbers, Passes
<1> QED BY <1>1, <1>2, <1>3, <1>5, PutType

\* The psid is told, and may send.
LEMMA CallbackIn ==
  ASSUME NEW S, ClosedUnder(S), NEW h \in S, NEW kind
  PROVE  Callback(h, kind) \in S
<1> DEFINE q == [h EXCEPT !.env.react = "none"]
           e == Enqueue(q)
           p == FirstPacket(e.c)
<1>1. h \in Context
  BY DEF ClosedUnder
<1>2. CASE h.env.react = kind /\ CanSend(h)
  <2>1. q \in Context /\ Sends(h, q, << >>) /\ CanSend(q)
    BY <1>1, <1>2, NoReaction, CalmSends DEF CanSend
  <2>2. q \in S
    BY <2>1, BookkeepingIn
  <2> HIDE DEF q
  <2>3. e \in Context /\ Queues(q, e)
    BY <2>1, EnqueueQueues
  <2>4. e \in S
    BY <2>2, <2>3 DEF ClosedUnder
  <2> HIDE DEF e
  <2>5. p \in Packet /\ Lawful(e, <<p>>)
    BY <2>1, <2>3, FirstPacketLawful
  <2>6. Sends(e, Put(e, p), <<p>>) /\ Put(e, p) \in Context /\ <<p>> \in Packets
    BY <2>3, <2>5, PutSends
  <2>7. Put(e, p) \in S
    BY <2>4, <2>5, <2>6 DEF ClosedUnder
  <2>8. Callback(h, kind) = Put(e, p)
    BY <1>2 DEF Callback, PutFirst, e, q
  <2> QED BY <2>7, <2>8
<1>3. CASE ~(h.env.react = kind /\ CanSend(h))
  BY <1>3 DEF Callback
<1> QED BY <1>2, <1>3

-----------------------------------------------------------------------------
\* closeConnection() before its callback.
LEMMA ResetCloses ==
  ASSUME NEW h \in Context
  PROVE  Reset(h) \in Context /\ Closes(h, Reset(h), << >>)
<1> DEFINE c == h.c
           p == Deleted(c.pendList)
           o == h.owed \ {h.c.pendList[i].payload : i \in Live(h.c)}
           b == h.cleanup \/ Live(h.c) # {}
           f == h.c.frameToSend
           d == [c EXCEPT !.pendList = p, !.ackExpected = f]
           q == [h EXCEPT !.owed = o, !.cleanup = b, !.c = d]
           id == random(h)
           s == "CLOSED"
           no == FALSE
           e == [d EXCEPT !.state = s, !.ackPending = 0, !.msgPending = 0,
                          !.retrans = 0, !.tmout = no, !.ConnID_out = id]
           g == [q EXCEPT !.c = e]
<1>1. clearMsgQ(h) = q
  BY DEF clearMsgQ, Deleted
<1>2. q.c = d
  <2> HIDE DEF d, o, b
  <2> QED BY DEF Context
<1>3. Reset(h) = g
  <2> HIDE DEF d
  <2> QED BY <1>1, <1>2 DEF Reset, clearMsgQ
<1>4. c \in Conn
  BY ContextFields, ConnFields
<1>5. /\ e.state = s /\ e.msgPending = 0 /\ e.frameToSend = c.frameToSend
      /\ e.ackExpected = f /\ e.frameExpected = c.frameExpected
      /\ e.ConnID_in = c.ConnID_in /\ e.pendList = p
  <2> HIDE DEF c, p, f, id, s, no
  <2> QED BY <1>4 DEF Conn
<1>6. /\ g.c = e /\ g.out = h.out /\ g.acc = h.acc /\ g.owed = o
      /\ g.env = h.env
  <2> HIDE DEF d, e, o, b
  <2> QED BY DEF Context
<1>7. h.env.fail \in Nat /\ h.out \o << >> = h.out
  BY ContextFields, NothingSent DEF Context
<1> HIDE DEF g, e
<1>8. Closes(h, g, << >>)
  BY <1>5, <1>6, <1>7 DEF Closes, Passes
<1> QED BY <1>3, <1>8, ResetType

\* RDPCallback(RDP_LOST_CONNECTION) of a closed connection.
LEMMA LostCallbackIn ==
  ASSUME NEW S, ClosedUnder(S), NEW h \in S, h.c.state = "CLOSED"
  PROVE  /\ LostCallback(h) \in S
         /\ LostCallback(h).c.state = "CLOSED" \/ Indifferent(S)
<1> DEFINE q == [h EXCEPT !.told = "down"]
           no == FALSE
           d == [q.c EXCEPT !.known = no]
           r == [q EXCEPT !.c = d]
           g == [r EXCEPT !.env.react = "none"]
<1>1. h \in Context
  BY DEF ClosedUnder
<1>2. q \in S /\ q \in Context /\ q.c = h.c /\ q.env = h.env
  <2>1. q \in Context /\ q.c = h.c /\ q.env = h.env
    BY <1>1, NewTold DEF Report, Context
  <2>2. Sends(h, q, << >>)
    BY <1>1, ToldSends
  <2> QED BY <2>1, <2>2, BookkeepingIn
<1> HIDE DEF q
<1>3. CASE h.env.react = "FORGET"
  <2>1. r \in Context
    <3>1. [q EXCEPT !.c.known = FALSE] \in Context
      BY <1>2, SetKnown
    <3> QED BY <3>1
  <2>2. /\ SameNumbers(q.c, d) /\ d.ConnID_out = q.c.ConnID_out
        /\ d.state = q.c.state
    <3>1. q.c \in Conn
      BY <1>2, ContextFields, ConnFields
    <3> HIDE DEF no
    <3> QED BY <3>1 DEF Conn, SameNumbers
  <2> HIDE DEF d
  <2>3. Sends(q, r, << >>) /\ r.c = d
    BY <1>2, <2>2, SameConnSends, WithConn
  <2>4. r \in S
    BY <1>2, <2>1, <2>3, BookkeepingIn
  <2> HIDE DEF r
  <2>5. g \in Context /\ Sends(r, g, << >>) /\ g.c = r.c
    BY <2>1, NoReaction, CalmSends
  <2>6. g \in S
    BY <2>4, <2>5, BookkeepingIn
  <2>7. LostCallback(h) = g
    BY <1>3 DEF LostCallback, q, r, d
  <2> QED BY <1>2, <2>2, <2>3, <2>5, <2>6, <2>7
<1>4. CASE h.env.react # "FORGET"
  <2>1. LostCallback(h) = Callback(q, "LOST")
    BY <1>4 DEF LostCallback, q
  <2>2. Callback(q, "LOST") \in S
    BY <1>2, CallbackIn
  <2>3. CASE Indifferent(S)
    BY <2>1, <2>2, <2>3
  <2>4. CASE \A x \in S : x.env.react # "LOST"
    <3>1. Callback(q, "LOST") = q
      BY <1>2, <2>4 DEF Callback
    <3> QED BY <1>2, <2>1, <2>2, <3>1
  <2> QED BY <2>3, <2>4 DEF ClosedUnder
<1> QED BY <1>3, <1>4

\* closeConnection().
LEMMA CloseIn ==
  ASSUME NEW S, ClosedUnder(S), NEW h \in S
  PROVE  /\ closeConnection(h) \in S
         /\ closeConnection(h).c.state = "CLOSED" \/ Indifferent(S)
         /\ Reset(h) \in S
<1> DEFINE g == Reset(h)
<1>1. h \in Context
  BY DEF ClosedUnder
<1>2. g \in Context /\ Closes(h, g, << >>) /\ CutShort(h, << >>)
  BY <1>1, ResetCloses DEF CutShort
<1>3. << >> \in Packets
  BY DEF Packets
<1> HIDE DEF g
<1>4. g \in S
  BY <1>2, <1>3 DEF ClosedUnder
<1>5. g.c.state = "CLOSED"
  BY <1>2 DEF Closes
<1> QED BY <1>4, <1>5, LostCallbackIn DEF closeConnection, g

\* MYsendto() of a packet that may be sent.
LEMMA MYsendtoStays ==
  ASSUME NEW S, ClosedUnder(S), NEW h \in S, NEW p \in Packet,
         \A f \in S, g \in Context : f.c = h.c /\ Sends(f, g, <<p>>) => g \in S
  PROVE  /\ MYsendto(h, p) \in S
         /\ \/ MYsendto(h, p).c = h.c
            \/ MYsendto(h, p).c.state = "CLOSED"
            \/ Indifferent(S)
<1> DEFINE k == IF h.env.fail = 0 THEN 0 ELSE h.env.fail - 1
           g == [h EXCEPT !.env.fail = k]
           q == [h EXCEPT !.env.fail = 0]
           r == closeConnection(q)
<1>1. h \in Context
  BY DEF ClosedUnder
<1>2. k \in Nat /\ k <= h.env.fail /\ 0 <= h.env.fail
  BY <1>1, ContextFields
<1>3. /\ g \in Context /\ Sends(h, g, << >>) /\ g.c = h.c
      /\ q \in Context /\ Sends(h, q, << >>) /\ q.c = h.c
  <2> HIDE DEF k
  <2>1. g.c = h.c /\ q.c = h.c
    BY <1>1 DEF Context
  <2> QED BY <1>1, <1>2, <2>1, NewFail, FailSends
<1>4. g \in S /\ q \in S
  BY <1>3, BookkeepingIn
<1>5. MYsendto(h, p) \in {Put(g, p), q, SendAgain(r, p)}
  BY DEF MYsendto
<1> HIDE DEF g, q
<1>6. Put(g, p) \in S /\ Put(g, p).c = h.c
  <2>1. Sends(g, Put(g, p), <<p>>) /\ Put(g, p) \in Context
    BY <1>3, PutSends
  <2> QED BY <1>3, <1>4, <2>1, PutSends
<1>7. r \in S /\ (r.c.state = "CLOSED" \/ Indifferent(S)) /\ r \in Context
  BY <1>4, CloseIn DEF ClosedUnder
<1> HIDE DEF r
<1>8. SendAgain(r, p) \in S /\ (SendAgain(r, p).c.state = "CLOSED" \/ Indifferent(S))
  <2>1. CASE r.c.state = "CLOSED"
    BY <1>7, <2>1 DEF SendAgain
  <2>2. CASE r.c.state # "CLOSED"
    <3>1. SendAgain(r, p) = Put(r, p)
      BY <2>2 DEF SendAgain
    <3>2. Put(r, p) \in Context /\ Put(r, p).c = r.c /\ Put(r, p).told = r.told
      BY <1>7, PutSends
    <3> QED BY <1>7, <2>2, <3>1, <3>2 DEF Indifferent, SameQueue
  <2> QED BY <2>1, <2>2
<1> QED BY <1>3, <1>4, <1>5, <1>6, <1>8

\* MYsendto() of a lawful packet.
LEMMA MYsendtoIn ==
  ASSUME NEW S, ClosedUnder(S), NEW h \in S, NEW p \in Packet,
         Lawful(h, <<p>>)
  PROVE  /\ MYsendto(h, p) \in S
         /\ \/ MYsendto(h, p).c = h.c
            \/ MYsendto(h, p).c.state = "CLOSED"
            \/ Indifferent(S)
<1>1. ASSUME NEW f \in S, NEW g \in Context, f.c = h.c, Sends(f, g, <<p>>)
      PROVE  g \in S
  <2>1. Lawful(f, <<p>>) /\ <<p>> \in Packets
    BY <1>1 DEF Lawful, Packets
  <2> QED BY <1>1, <2>1 DEF ClosedUnder
<1> QED BY <1>1, MYsendtoStays

-----------------------------------------------------------------------------
\* A part of 1..n that has with each number all lower ones.
LEMMA LowerPart ==
  ASSUME NEW n \in Nat, NEW T \in SUBSET (1..n),
         \A i \in T : \A j \in 1..i : j \in T
  PROVE  T = 1..Cardinality(T) /\ Cardinality(T) \in 0..n
<1> DEFINE k == Cardinality(T)
<1>1. IsFiniteSet(T) /\ k \in 0..n
  <2>1. IsFiniteSet(1..n)
    BY FS_Interval
  <2> QED BY <2>1, FS_Subset, PartOfInterval
<1>2. ASSUME NEW i \in T PROVE i <= k
  <2>1. i \in 1..n /\ 1..i \subseteq T
    OBVIOUS
  <2>2. Cardinality(1..i) = i
    BY <2>1, FS_Interval
  <2>3. Cardinality(1..i) <= k
    BY <1>1, <2>1, FS_Subset
  <2> QED BY <2>2, <2>3
<1>3. T \subseteq 1..k
  BY <1>1, <1>2
<1>4. IsFiniteSet(1..k) /\ Cardinality(1..k) = k
  BY <1>1, FS_Interval
<1>5. T = 1..k
  BY <1>3, <1>4, FS_Subset
<1> QED BY <1>1, <1>5

\* The deleted buffers are those counted.
LEMMA DeletedPrefixFacts ==
  ASSUME NEW s \in Seq(MsgBuf), InFront(s)
  PROVE  /\ DeletedPrefix(s) \in 0..Len(s)
         /\ \A i \in 1..Len(s) : s[i].deleted <=> i <= DeletedPrefix(s)
<1> DEFINE T == {i \in 1..Len(s) : \A j \in 1..i : s[j].deleted}
           n == Len(s)
           k == Cardinality(T)
<1>1. n \in Nat /\ DOMAIN s = 1..n
  BY LenProperties
<1>2. \A i \in T : \A j \in 1..i : j \in T
  BY <1>1
<1>3. T = 1..k /\ k \in 0..n
  <2>1. T \in SUBSET (1..n)
    OBVIOUS
  <2> HIDE DEF T, n
  <2> QED BY <1>1, <1>2, <2>1, LowerPart
<1>4. ASSUME NEW i \in 1..n PROVE s[i].deleted <=> i \in T
  <2>1. ASSUME s[i].deleted, NEW j \in 1..i PROVE s[j].deleted
    <3>1. j = i \/ (j < i /\ j \in DOMAIN s /\ i \in DOMAIN s)
      BY <1>1
    <3> QED BY <2>1, <3>1 DEF InFront
  <2> QED BY <1>1, <2>1
<1>5. k = DeletedPrefix(s)
  BY DEF DeletedPrefix
<1> HIDE DEF T, k
<1> QED BY <1>1, <1>3, <1>4, <1>5

\* resendMsgs() sends live messages.
LEMMA LivePacketsBurst ==
  ASSUME NEW c \in GoodConn
  PROVE  /\ LivePackets(c) \in Packets
         /\ Burst(c, LivePackets(c))
         /\ \A k \in 1..Len(LivePackets(c)) :
              LET s == SubSeq(LivePackets(c), 1, k - 1)
              IN  s \in Packets /\ Burst(c, s) /\ Len(s) = k - 1
<1> DEFINE ps == LivePackets(c)
           k0 == DeletedPrefix(c.pendList)
           n == Len(c.pendList) - k0
<1>1. ps \in Seq(Packet)
  BY LivePacketsType
<1>2. c.pendList \in Seq(MsgBuf) /\ InFront(c.pendList)
  BY ConnFields
<1>3. /\ k0 \in 0..Len(c.pendList) /\ DOMAIN c.pendList = 1..Len(c.pendList)
      /\ Len(c.pendList) \in Nat
      /\ \A i \in 1..Len(c.pendList) : c.pendList[i].deleted <=> i <= k0
  BY <1>2, DeletedPrefixFacts, LenProperties
<1>4. ps = [i \in 1..n |-> DATA(c, c.pendList[k0 + i])]
  BY DEF LivePackets
<1> HIDE DEF ps, k0
<1>5. ASSUME NEW i \in DOMAIN ps
      PROVE  \E l \in Live(c) : ps[i] = DATA(c, c.pendList[l])
  <2>1. i \in 1..n /\ ps[i] = DATA(c, c.pendList[k0 + i])
    BY <1>4, <1>5
  <2>2. k0 + i \in Live(c)
    BY <1>3, <2>1 DEF Live
  <2> QED BY <2>1, <2>2
<1>6. Burst(c, ps)
  BY <1>5 DEF Burst
<1>7. ASSUME NEW k \in 1..Len(ps)
      PROVE  LET s == SubSeq(ps, 1, k - 1)
             IN  s \in Packets /\ Burst(c, s) /\ Len(s) = k - 1
  <2> DEFINE s == SubSeq(ps, 1, k - 1)
  <2>1. Len(ps) \in Nat /\ DOMAIN ps = 1..Len(ps)
    BY <1>1, LenProperties
  <2>2. \A i \in 1..(k - 1) : ps[i] \in Packet
    BY <1>1, <2>1, ElementOfSeq
  <2>3. s \in Seq(Packet) /\ Len(s) = k - 1 /\ \A i \in 1..(k - 1) : s[i] = ps[i]
    BY <1>1, <2>1, <2>2, SubSeqProperties
  <2> HIDE DEF s
  <2>4. DOMAIN s = 1..(k - 1)
    BY <2>1, <2>3, LenProperties
  <2>5. Burst(c, s)
    BY <1>5, <2>1, <2>3, <2>4 DEF Burst
  <2> QED BY <2>3, <2>5 DEF Packets, s
<1> QED BY <1>1, <1>6, <1>7 DEF Packets, ps

\* What may become of a context y behind RDP_LOST_CONNECTION: nothing, unless
\* the callback has opened a new connection.
Aftermath(y, g) ==
  \/ Sends(y, g, << >>)
  \/ y.c.state # "CLOSED" /\ SameQueue(y.c, g.c) /\ g.told = y.told

\* h goes on as g behind what it has sent, or with its connection closed.
Outcome(h, g) ==
  \/ \E s \in Packets : Lawful(h, s) /\ Sends(h, g, s)
  \/ \E s \in Packets, x \in Context :
       CutShort(h, s) /\ Closes(h, x, s) /\ Aftermath(LostCallback(x), g)

\* Nothing happens to a context.
LEMMA SameSends == ASSUME NEW h \in Context PROVE Sends(h, h, << >>)
<1>1. h.out \o << >> = h.out /\ h.env.fail \in Nat
  BY NothingSent, ContextFields DEF Context
<1> QED BY <1>1 DEF Sends, Passes, SameNumbers

\* Bookkeeping behind the aftermath.
LEMMA AftermathThen ==
  ASSUME NEW y \in Context, NEW g \in Context, NEW f \in Context,
         Aftermath(y, g), Sends(g, f, << >>), f.told = g.told
  PROVE  Aftermath(y, f)
<1>1. CASE Sends(y, g, << >>)
  <2>1. y.out \o << >> = y.out /\ g.out \o << >> = g.out
    BY NothingSent DEF Context
  <2>2. Passes(y, f)
    <3>1. y.env.fail \in Nat /\ g.env.fail \in Nat /\ f.env.fail \in Nat
      BY ContextFields
    <3>2. Passes(y, g) /\ Passes(g, f)
      BY <1>1 DEF Sends
    <3> QED BY <3>1, <3>2 DEF Passes
  <2> QED BY <1>1, <2>1, <2>2 DEF Aftermath, Sends, SameNumbers
<1>2. CASE y.c.state # "CLOSED" /\ SameQueue(y.c, g.c) /\ g.told = y.told
  BY <1>2 DEF Aftermath, Sends, SameNumbers, SameQueue
<1> QED BY <1>1, <1>2 DEF Aftermath

\* Bookkeeping before and behind an outcome.
LEMMA OutcomeThen ==
  ASSUME NEW h \in Context, NEW r \in Context, NEW g \in Context,
         NEW f \in Context, Sends(h, r, << >>), r.told = h.told,
         r.env = h.env, Outcome(r, g), Sends(g, f, << >>), f.told = g.told
  PROVE  Outcome(h, f)
<1>1. /\ h.out \o << >> = h.out /\ g.out \o << >> = g.out
      /\ h.env.fail \in Nat /\ g.env.fail \in Nat /\ f.env.fail \in Nat
  BY NothingSent, ContextFields DEF Context
<1>2. /\ r.out = h.out /\ r.acc = h.acc /\ r.owed = h.owed
      /\ r.c.state = h.c.state /\ r.c.pendList = h.c.pendList
      /\ r.c.frameToSend = h.c.frameToSend
      /\ r.c.frameExpected = h.c.frameExpected
      /\ r.c.ConnID_in = h.c.ConnID_in /\ r.c.ConnID_out = h.c.ConnID_out
      /\ r.c.ackExpected = h.c.ackExpected /\ r.c.msgPending = h.c.msgPending
  BY <1>1 DEF Sends, SameNumbers
<1>3. \A s : Burst(r.c, s) <=> Burst(h.c, s)
  BY <1>2 DEF Burst, Live, DATA
<1>4. CASE \E s \in Packets : Lawful(r, s) /\ Sends(r, g, s)
  <2>1. PICK s \in Packets : Lawful(r, s) /\ Sends(r, g, s)
    BY <1>4
  <2>4. Lawful(h, s)
    BY <1>2, <1>3, <2>1 DEF Lawful, SYN, SYNACK, ACK, NACK
  <2>2. Passes(h, f)
    <3>1. Passes(r, g) /\ Passes(g, f)
      BY <2>1 DEF Sends
    <3> QED BY <1>1, <3>1 DEF Passes
  <2>3. Sends(h, f, s)
    BY <1>1, <1>2, <2>1, <2>2 DEF Sends, SameNumbers
  <2> QED BY <2>3, <2>4 DEF Outcome
<1>5. CASE \E s \in Packets, x \in Context :
             CutShort(r, s) /\ Closes(r, x, s) /\ Aftermath(LostCallback(x), g)
  <2>1. PICK s \in Packets, x \in Context :
          CutShort(r, s) /\ Closes(r, x, s) /\ Aftermath(LostCallback(x), g)
    BY <1>5
  <2>2. CutShort(h, s)
    BY <1>2, <1>3, <2>1 DEF CutShort
  <2>3. Live(r.c) = Live(h.c)
    BY <1>2 DEF Live
  <2>4. Closes(h, x, s)
    BY <1>2, <2>1, <2>3 DEF Closes, Passes
  <2>5. Aftermath(LostCallback(x), f)
    BY <2>1, LostCallbackType, AftermathThen
  <2> QED BY <2>2, <2>4, <2>5 DEF Outcome
<1> QED BY <1>4, <1>5 DEF Outcome

\* closeConnection() is an outcome.
LEMMA CloseOutcome ==
  ASSUME NEW h \in Context
  PROVE  Outcome(h, closeConnection(h))
<1> DEFINE x == Reset(h)
<1>1. x \in Context /\ Closes(h, x, << >>) /\ CutShort(h, << >>)
  BY ResetCloses DEF CutShort
<1>2. << >> \in Packets
  BY DEF Packets
<1> HIDE DEF x
<1>3. LostCallback(x) \in Context
  BY <1>1, LostCallbackType
<1>4. Aftermath(LostCallback(x), LostCallback(x))
  BY <1>3, SameSends DEF Aftermath
<1> QED BY <1>1, <1>2, <1>4 DEF Outcome, closeConnection, x

\* A context that has sent s and has another number of the send that fails.
Sent(h, s, k) == [h EXCEPT !.out = @ \o s, !.env.fail = k]

\* This is a step.
LEMMA SentSends ==
  ASSUME NEW h \in Context, NEW s \in Packets, NEW k \in Nat,
         k <= h.env.fail \/ k = 1
  PROVE  LET g == Sent(h, s, k)
         IN  /\ g \in Context /\ Sends(h, g, s) /\ g.c = h.c
             /\ g.told = h.told /\ g.env.fail = k /\ g.out = h.out \o s
             /\ g.env.closes = h.env.closes
<1> DEFINE g == Sent(h, s, k)
           o == h.out \o s
           e == [h.env EXCEPT !.fail = k]
<1>1. h.env \in Env
  BY ContextFields
<1>2. o \in Packets /\ e \in Env
  <2>1. o \in Packets
    BY DEF Context, Packets
  <2>2. k \in Count
    BY DEF Count
  <2> QED BY <1>1, <2>1, <2>2 DEF Env
<1>3. /\ e.fail = k /\ e.closes = h.env.closes /\ e.react = h.env.react
  BY <1>1 DEF Env
<1> HIDE DEF o, e
<1>4. g = [h EXCEPT !.out = o, !.env = e]
  BY DEF Sent, o, e
<1> HIDE DEF g
<1>5. /\ g \in Context /\ g.c = h.c /\ g.out = o /\ g.acc = h.acc
      /\ g.owed = h.owed /\ g.told = h.told /\ g.env = e
  BY <1>2, <1>4 DEF Context
<1>6. Sends(h, g, s)
  BY <1>3, <1>5 DEF Sends, SameNumbers, Passes, o
<1> QED BY <1>3, <1>5, <1>6 DEF o, g

\* resendMsgs() in state ACTIVE, the loop.
LEMMA SendAllOutcome ==
  ASSUME NEW h \in Context, h.c.state = "ACTIVE"
  PROVE  Outcome(h, SendAll(h, LivePackets(h.c),
                            IF h.c.known THEN h.env.fail ELSE 1))
<1> DEFINE ps == LivePackets(h.c)
           k == IF h.c.known THEN h.env.fail ELSE 1
           g == SendAll(h, ps, k)
<1>1. /\ ps \in Packets /\ Burst(h.c, ps)
      /\ \A i \in 1..Len(ps) :
           /\ SubSeq(ps, 1, i - 1) \in Packets /\ Burst(h.c, SubSeq(ps, 1, i - 1))
           /\ Len(SubSeq(ps, 1, i - 1)) = i - 1
  BY ContextFields, LivePacketsBurst
<1>2. k \in Nat /\ h.env.fail \in Nat /\ Len(ps) \in Nat
  BY <1>1, ContextFields, LenProperties DEF Packets
<1> HIDE DEF ps
<1>3. CASE k \notin 1..Len(ps)
  <2> DEFINE left == IF k = 0 THEN 0 ELSE k - Len(ps)
  <2>1. left \in Nat /\ (left <= h.env.fail \/ left = 1)
    BY <1>2, <1>3
  <2>2. g = Sent(h, ps, left)
    BY <1>3 DEF SendAll, Sent
  <2> HIDE DEF left, g
  <2>3. Sends(h, g, ps)
    BY <1>1, <2>1, <2>2, SentSends
  <2> QED BY <1>1, <2>3 DEF Outcome, Lawful, g, k, ps
<1>4. CASE k \in 1..Len(ps)
  <2> DEFINE s == SubSeq(ps, 1, k - 1)
             sent == Sent(h, s, 0)
             x == Reset(sent)
             y == LostCallback(x)
  <2>1. s \in Packets /\ Burst(h.c, s) /\ Len(s) = k - 1
    BY <1>1, <1>4
  <2> HIDE DEF s
  <2>2. /\ sent \in Context /\ Sends(h, sent, s) /\ sent.c = h.c
        /\ sent.told = h.told /\ sent.env.fail = 0 /\ sent.out = h.out \o s
        /\ sent.env.closes = h.env.closes
    <3>1. 0 \in Nat /\ 0 <= h.env.fail
      BY <1>2
    <3> QED BY <2>1, <3>1, SentSends
  <2>3. g = IF h.c.known /\ h.env.closes
            THEN ResendRest(closeConnection(sent), ps[k]) ELSE sent
    BY <1>4 DEF SendAll, Sent, s
  <2> HIDE DEF sent, g
  <2>4. CASE ~(h.c.known /\ h.env.closes)
    BY <2>1, <2>2, <2>3, <2>4 DEF Outcome, Lawful, g, k, ps
  <2>5. CASE h.c.known /\ h.env.closes
    <3>1. x \in Context /\ Closes(sent, x, << >>)
      BY <2>2, ResetCloses
    <3> HIDE DEF x
    <3>2. sent.out \o << >> = sent.out
      BY <2>2, NothingSent DEF Context
    <3>3. Passes(h, x)
      <4>1. Passes(sent, x) /\ Passes(h, sent)
        BY <2>2, <3>1 DEF Closes, Sends
      <4>2. x.env.fail \in Nat
        BY <3>1, ContextFields
      <4> QED BY <1>2, <2>2, <4>1, <4>2 DEF Passes
    <3>4. Closes(h, x, s)
      BY <2>2, <3>1, <3>2, <3>3 DEF Closes, Sends
    <3>5. CutShort(h, s)
      <4>1. Len(s) < h.env.fail
        BY <1>2, <2>1, <2>5
      <4> QED BY <2>1, <2>5, <4>1 DEF CutShort
    <3>6. y \in Context
      BY <3>1, LostCallbackType
    <3>7. g = ResendRest(y, ps[k])
      BY <2>3, <2>5 DEF closeConnection, x
    <3> HIDE DEF y
    <3>8. Aftermath(y, g)
      <4>1. CASE y.c.state = "CLOSED"
        BY <3>6, <3>7, <4>1, SameSends DEF ResendRest, Aftermath
      <4>2. CASE y.c.state # "CLOSED"
        <5> DEFINE o == (y.out \o <<ps[k]>>) \o LivePackets(y.c)
        <5>1. g = [y EXCEPT !.out = o]
          BY <3>7, <4>2 DEF ResendRest
        <5> HIDE DEF o
        <5>2. g.c = y.c /\ g.told = y.told
          BY <3>6, <5>1 DEF Context
        <5> QED BY <4>2, <5>2 DEF Aftermath, SameQueue
      <4> QED BY <4>1, <4>2
    <3> QED BY <2>1, <3>1, <3>4, <3>5, <3>8 DEF Outcome, y, g, k, ps
  <2> QED BY <2>4, <2>5
<1> QED BY <1>3, <1>4 DEF g, k, ps

\* The counter of messages to be acknowledged is reset.
LEMMA AckPendingSends ==
  ASSUME NEW h \in Context
  PROVE  LET g == [h EXCEPT !.c.ackPending = 0]
         IN  /\ g \in Context /\ Sends(h, g, << >>) /\ g.told = h.told
             /\ g.c.state = h.c.state
<1> DEFINE d == [h.c EXCEPT !.ackPending = 0]
           g == [h EXCEPT !.c = d]
<1>1. g \in Context
  BY ClearAckPending
<1>2. /\ SameNumbers(h.c, d) /\ d.ConnID_out = h.c.ConnID_out
      /\ d.state = h.c.state
  <2>1. h.c \in Conn
    BY ContextFields, ConnFields
  <2> QED BY <2>1 DEF Conn, SameNumbers
<1> HIDE DEF d
<1>3. g.c = d /\ g.told = h.told
  BY WithConn
<1>4. Sends(h, g, << >>)
  BY <1>2, SameConnSends
<1> QED BY <1>1, <1>2, <1>3, <1>4 DEF d

\* The timer and the number of resends are set.
LEMMA TimerSends ==
  ASSUME NEW h \in Context
  PROVE  LET q == [h EXCEPT !.c.tmout = TRUE]
             r == [q EXCEPT !.c.retrans = @ + 1]
         IN  /\ q \in Context /\ Sends(h, q, << >>) /\ q.told = h.told
             /\ q.env = h.env /\ q.c.state = h.c.state
             /\ r \in Context /\ Sends(h, r, << >>) /\ r.told = h.told
             /\ r.env = h.env /\ r.c.state = h.c.state
             /\ r.c.pendList = h.c.pendList /\ r.c.known = h.c.known
<1> DEFINE c == h.c
           yes == TRUE
           k == c.retrans + 1
           d == [c EXCEPT !.tmout = yes]
           e == [d EXCEPT !.retrans = k]
           q == [h EXCEPT !.c = d]
           r == [q EXCEPT !.c = e]
<1>1. c \in Conn /\ c.retrans \in Nat
  BY ContextFields, ConnFields
<1>2. q.c = d /\ [q EXCEPT !.c.retrans = @ + 1] = r
  <2>1. q.c = d
    <3> HIDE DEF d
    <3> QED BY DEF Context
  <2>2. d.retrans = c.retrans
    <3> HIDE DEF c, yes
    <3> QED BY <1>1 DEF Conn
  <2> HIDE DEF q, d
  <2> QED BY <2>1, <2>2
<1>3. q \in Context /\ r \in Context
  <2>1. k \in Nat
    BY <1>1
  <2>2. q \in Context /\ [q EXCEPT !.c.retrans = k] \in Context
    <3> HIDE DEF k
    <3> QED BY <2>1, SetTimer
  <2>3. [q EXCEPT !.c.retrans = k] = r
    <3> HIDE DEF q, d, k
    <3> QED BY <1>2
  <2> QED BY <2>2, <2>3
<1>4. /\ SameNumbers(h.c, d) /\ d.ConnID_out = h.c.ConnID_out
      /\ d.state = h.c.state /\ d.known = h.c.known
      /\ SameNumbers(h.c, e) /\ e.ConnID_out = h.c.ConnID_out
      /\ e.state = h.c.state /\ e.known = h.c.known
  <2> HIDE DEF yes, k
  <2> QED BY <1>1 DEF Conn, SameNumbers
<1> HIDE DEF d, e
<1>5. Sends(h, q, << >>) /\ q.told = h.told /\ q.env = h.env
  BY <1>4, SameConnSends, WithConn
<1>6. r = [h EXCEPT !.c = e]
  BY DEF Context
<1>7. Sends(h, r, << >>) /\ r.told = h.told /\ r.env = h.env /\ r.c = e
  <2> HIDE DEF r
  <2> QED BY <1>4, <1>6, SameConnSends, WithConn
<1> HIDE DEF q, r
<1>8. e.pendList = h.c.pendList
  BY <1>4 DEF SameNumbers
<1> QED BY <1>2, <1>3, <1>4, <1>5, <1>7, <1>8 DEF q, d

\* resendMsgs() of a usable connection.
LEMMA resendMsgsOutcome ==
  ASSUME NEW h \in Context, h.c.state = "ACTIVE"
  PROVE  Outcome(h, resendMsgs(h))
<1> DEFINE q == [h EXCEPT !.c.tmout = TRUE]
           r == [q EXCEPT !.c.retrans = @ + 1]
           g == SendAll(r, LivePackets(r.c),
                        IF r.c.known THEN r.env.fail ELSE 1)
           f == [g EXCEPT !.c.ackPending = 0]
<1>1. /\ q \in Context /\ Sends(h, q, << >>) /\ q.told = h.told
      /\ q.env = h.env /\ q.c.state = h.c.state
      /\ r \in Context /\ Sends(h, r, << >>) /\ r.told = h.told
      /\ r.env = h.env /\ r.c.state = h.c.state
  BY TimerSends
<1>2. h.c.retrans > RDPMaxRetransCount \/ h.c.retrans <= RDPMaxRetransCount
  BY RetransAssumption, ContextFields, ConnFields
<1>3. resendMsgs(h) \in {h, closeConnection(q), f}
  BY <1>2 DEF resendMsgs, ResendActive
<1> HIDE DEF q, r
<1>4. Outcome(h, h)
  <2>1. << >> \in Packets /\ Burst(h.c, << >>) /\ Sends(h, h, << >>)
    BY SameSends DEF Packets, Burst
  <2> QED BY <2>1 DEF Outcome, Lawful
<1>5. Outcome(h, closeConnection(q))
  <2>1. Outcome(q, closeConnection(q)) /\ closeConnection(q) \in Context
    BY <1>1, CloseOutcome, CloseType
  <2>2. Sends(closeConnection(q), closeConnection(q), << >>)
    BY <2>1, SameSends
  <2> QED BY <1>1, <2>1, <2>2, OutcomeThen
<1>6. Outcome(h, f)
  <2>1. Outcome(r, g)
    BY <1>1, SendAllOutcome
  <2>2. g \in Context
    <3>1. LivePackets(r.c) \in Seq(Packet) /\ r.env.fail \in Nat
      BY <1>1, ContextFields, LivePacketsType
    <3>2. (IF r.c.known THEN r.env.fail ELSE 1) \in Nat
      BY <3>1
    <3> QED BY <1>1, <3>1, <3>2, SendAllType
  <2> HIDE DEF g
  <2>3. f \in Context /\ Sends(g, f, << >>) /\ f.told = g.told
    BY <2>2, AckPendingSends
  <2> QED BY <1>1, <2>1, <2>2, <2>3, OutcomeThen
<1> QED BY <1>3, <1>4, <1>5, <1>6

\* The aftermath of a closed connection.
LEMMA AftermathIn ==
  ASSUME NEW S, ClosedUnder(S), NEW x \in S, x.c.state = "CLOSED",
         NEW g \in Context, Aftermath(LostCallback(x), g)
  PROVE  g \in S /\ (g.c.state = "CLOSED" \/ Indifferent(S))
<1> DEFINE y == LostCallback(x)
<1>1. y \in S /\ (y.c.state = "CLOSED" \/ Indifferent(S))
  BY LostCallbackIn
<1> HIDE DEF y
<1>2. CASE Sends(y, g, << >>)
  BY <1>1, <1>2, BookkeepingIn DEF Sends
<1>3. CASE y.c.state # "CLOSED" /\ SameQueue(y.c, g.c) /\ g.told = y.told
  BY <1>1, <1>3 DEF Indifferent, SameQueue
<1> QED BY <1>2, <1>3 DEF Aftermath, y

\* A usable connection goes on, or is closed, within the set.
LEMMA OutcomeIn ==
  ASSUME NEW S, ClosedUnder(S), NEW h \in S, h.c.state = "ACTIVE",
         NEW g \in Context, Outcome(h, g)
  PROVE  g \in S
<1>1. CASE \E s \in Packets : Lawful(h, s) /\ Sends(h, g, s)
  BY <1>1 DEF ClosedUnder
<1>2. CASE \E s \in Packets, x \in Context :
             CutShort(h, s) /\ Closes(h, x, s) /\ Aftermath(LostCallback(x), g)
  <2>1. PICK s \in Packets, x \in Context :
          CutShort(h, s) /\ Closes(h, x, s) /\ Aftermath(LostCallback(x), g)
    BY <1>2
  <2>2. x \in S /\ x.c.state = "CLOSED"
    BY <2>1 DEF ClosedUnder, Closes
  <2> QED BY <2>1, <2>2, AftermathIn
<1> QED BY <1>1, <1>2 DEF Outcome

\* The senders of control packets, each in its state.
LEMMA SendIn ==
  ASSUME NEW S, ClosedUnder(S), NEW h \in S
  PROVE  /\ h.c.state = "SYN_SENT" => sendSYN(h) \in S
         /\ h.c.state = "SYN_RECVD" => sendSYNACK(h) \in S
         /\ h.c.state = "ACTIVE" => sendACK(h) \in S /\ sendNACK(h) \in S
<1>1. h \in Context /\ h.c \in GoodConn
  BY ContextFields DEF ClosedUnder
<1>2. /\ SYN(h.c) \in Packet /\ ACK(h.c) \in Packet
      /\ SYNACK(h.c) \in Packet /\ NACK(h.c) \in Packet
  BY <1>1, ControlType
<1>3. ASSUME NEW p \in Packet, Lawful(h, <<p>>)
      PROVE  /\ MYsendto(h, p) \in S
             /\ [MYsendto(h, p) EXCEPT !.c.ackPending = 0] \in S
  <2> DEFINE g == MYsendto(h, p)
  <2>1. g \in S
    BY <1>3, MYsendtoIn
  <2> HIDE DEF g
  <2>2. g \in Context
    BY <2>1 DEF ClosedUnder
  <2>3. [g EXCEPT !.c.ackPending = 0] \in S
    BY <2>1, <2>2, AckPendingSends, BookkeepingIn
  <2> QED BY <2>1, <2>3 DEF g
<1>4. h.c.state = "SYN_SENT" => sendSYN(h) \in S
  BY <1>2, <1>3 DEF sendSYN, Lawful
<1>5. h.c.state = "SYN_RECVD" => sendSYNACK(h) \in S
  BY <1>2, <1>3 DEF sendSYNACK, Lawful
<1>6. h.c.state = "ACTIVE" => sendACK(h) \in S
  BY <1>2, <1>3 DEF sendACK, Lawful
<1>7. h.c.state = "ACTIVE" => sendNACK(h) \in S
  BY <1>2, <1>3 DEF sendNACK, Lawful
<1> QED BY <1>4, <1>5, <1>6, <1>7

\* An ACTIVE connection stays so or is closed when it acknowledges.
LEMMA SendStates ==
  ASSUME NEW S, ClosedUnder(S), NEW h \in S, h.c.state = "ACTIVE"
  PROVE  /\ sendACK(h).c.state \in {"ACTIVE", "CLOSED"} \/ Indifferent(S)
         /\ sendNACK(h).c.state \in {"ACTIVE", "CLOSED"} \/ Indifferent(S)
<1>1. h \in Context /\ ACK(h.c) \in Packet /\ NACK(h.c) \in Packet
  BY ContextFields, ControlType DEF ClosedUnder
<1>2. ASSUME NEW p \in {ACK(h.c), NACK(h.c)}
      PROVE  /\ MYsendto(h, p) \in Context
             /\ MYsendto(h, p).c.state \in {"ACTIVE", "CLOSED"} \/ Indifferent(S)
  <2>1. p \in Packet /\ Lawful(h, <<p>>)
    BY <1>1 DEF Lawful
  <2> QED BY <1>1, <2>1, MYsendtoIn, MYsendtoType
<1> DEFINE g == MYsendto(h, ACK(h.c))
<1>3. g \in Context /\ (g.c.state \in {"ACTIVE", "CLOSED"} \/ Indifferent(S))
  BY <1>2
<1> HIDE DEF g
<1>4. [g EXCEPT !.c.ackPending = 0].c.state = g.c.state
  BY <1>3, AckPendingSends
<1> QED BY <1>2, <1>3, <1>4 DEF sendACK, sendNACK, g

\* resendMsgs().
LEMMA resendMsgsIn ==
  ASSUME NEW S, ClosedUnder(S), NEW h \in S
  PROVE  resendMsgs(h) \in S
<1> DEFINE q == [h EXCEPT !.c.tmout = TRUE]
           r == [q EXCEPT !.c.retrans = @ + 1]
<1>1. h \in Context /\ h.c.state \in State
  BY ContextFields, ConnFields DEF ClosedUnder
<1>2. CASE h.c.state = "ACTIVE"
  BY <1>1, <1>2, resendMsgsType, resendMsgsOutcome, OutcomeIn
<1>3. CASE h.c.state # "ACTIVE"
  <2>1. /\ q \in Context /\ Sends(h, q, << >>)
        /\ r \in Context /\ Sends(h, r, << >>) /\ r.c.state = h.c.state
    BY <1>1, TimerSends
  <2>2. q \in S /\ r \in S
    <3> HIDE DEF q, r
    <3> QED BY <2>1, BookkeepingIn
  <2>3. h.c.retrans > RDPMaxRetransCount \/ h.c.retrans <= RDPMaxRetransCount
    BY <1>1, RetransAssumption, ContextFields, ConnFields
  <2>4. \/ resendMsgs(h) \in {h, closeConnection(q)}
        \/ h.c.state = "CLOSED" /\ resendMsgs(h) = r
        \/ h.c.state = "SYN_SENT" /\ resendMsgs(h) = sendSYN(r)
        \/ h.c.state = "SYN_RECVD" /\ resendMsgs(h) = sendSYNACK(r)
    BY <1>1, <1>3, <2>3 DEF resendMsgs, State
  <2> HIDE DEF q, r
  <2> QED BY <2>1, <2>2, <2>4, CloseIn, SendIn
<1> QED BY <1>2, <1>3

-----------------------------------------------------------------------------
\* What a callback on a closed connection leaves closed it leaves as it was.
LEMMA LostCallbackNumbers ==
  ASSUME NEW h \in Context, LostCallback(h).c.state = "CLOSED"
  PROVE  SameNumbers(h.c, LostCallback(h).c)
<1> DEFINE q == [h EXCEPT !.told = "down"]
           d == [q.c EXCEPT !.known = FALSE]
           g == [q EXCEPT !.c = d]
           r == [g EXCEPT !.env.react = "none"]
           e == [q EXCEPT !.env.react = "none"]
<1>1. q \in Context /\ q.c = h.c /\ q.c \in Conn
  BY NewTold, ContextFields, ConnFields DEF Report, Context
<1> HIDE DEF q
<1>2. CASE h.env.react = "FORGET"
  <2>1. SameNumbers(q.c, d)
    BY <1>1 DEF Conn, SameNumbers
  <2>2. g.c = d
    <3> HIDE DEF d
    <3> QED BY <1>1, WithConn
  <2>3. r.c = g.c
    <3> HIDE DEF d
    <3> QED BY <1>1 DEF Context
  <2>4. LostCallback(h) = r
    BY <1>2 DEF LostCallback, q
  <2> QED BY <1>1, <2>1, <2>2, <2>3, <2>4
<1>3. CASE h.env.react # "FORGET" /\ ~(q.env.react = "LOST" /\ CanSend(q))
  BY <1>1, <1>3 DEF LostCallback, Callback, SameNumbers, q
<1>4. CASE h.env.react # "FORGET" /\ q.env.react = "LOST" /\ CanSend(q)
  <2>1. LostCallback(h) = PutFirst(Enqueue(e))
    BY <1>4 DEF LostCallback, Callback, q
  <2>2. e \in Context /\ CanSend(e)
    BY <1>1, <1>4, NoReaction, CalmSends DEF CanSend
  <2> HIDE DEF e
  <2>3. Enqueue(e) \in Context /\ Queues(e, Enqueue(e))
    BY <2>2, EnqueueQueues
  <2>4. FirstPacket(Enqueue(e).c) \in Packet
    BY <2>2, <2>3, FirstPacketLawful
  <2>5. PutFirst(Enqueue(e)).c = Enqueue(e).c
    BY <2>3, <2>4, PutSends DEF PutFirst
  <2>6. e.c.state \in State
    BY <2>2, ContextFields, ConnFields
  <2>7. Enqueue(e).c.state # "CLOSED"
    BY <2>3, <2>6 DEF Queues, State
  <2> QED BY <2>1, <2>5, <2>7
<1> QED BY <1>2, <1>3, <1>4

\* The messages that waited for the connection count as sent.
LEMMA CountPendingFields ==
  ASSUME NEW h \in Context
  PROVE  LET g == CountPending(h)
         IN  /\ g \in Context /\ OnlyConn(h, g) /\ g.env = h.env
             /\ g.c.state = h.c.state /\ g.c.msgPending = 0
             /\ g.c.frameToSend = h.c.frameToSend + h.c.msgPending
             /\ g.c.ackExpected = h.c.ackExpected
             /\ g.c.frameExpected = h.c.frameExpected
             /\ g.c.ConnID_in = h.c.ConnID_in
             /\ g.c.ConnID_out = h.c.ConnID_out
             /\ g.c.pendList = h.c.pendList
<1> DEFINE c == h.c
           f == c.frameToSend + c.msgPending
           d == [c EXCEPT !.frameToSend = f, !.msgPending = 0]
           g == [h EXCEPT !.c = d]
<1>1. c \in Conn
  BY ContextFields, ConnFields
<1>2. /\ d.state = c.state /\ d.msgPending = 0 /\ d.frameToSend = f
      /\ d.ackExpected = c.ackExpected /\ d.frameExpected = c.frameExpected
      /\ d.ConnID_in = c.ConnID_in /\ d.ConnID_out = c.ConnID_out
      /\ d.pendList = c.pendList
  <2> HIDE DEF c, f
  <2> QED BY <1>1 DEF Conn
<1>3. CountPending(h) = g
  BY DEF CountPending
<1> HIDE DEF d
<1>4. g.c = d /\ OnlyConn(h, g) /\ g.env = h.env
  BY WithConn
<1> HIDE DEF g
<1> QED BY <1>2, <1>3, <1>4, CountPendingType

\* The state of a context.
LEMMA SetStateFields ==
  ASSUME NEW h \in Context, NEW s \in State
  PROVE  LET g == [h EXCEPT !.c.state = s]
         IN  /\ g \in Context /\ OnlyConn(h, g) /\ g.env = h.env
             /\ g.c.state = s /\ SameNumbers(h.c, g.c)
             /\ g.c.ConnID_out = h.c.ConnID_out
<1> DEFINE d == [h.c EXCEPT !.state = s]
           g == [h EXCEPT !.c = d]
<1>1. g \in Context
  BY SetState
<1>2. d.state = s /\ SameNumbers(h.c, d) /\ d.ConnID_out = h.c.ConnID_out
  <2>1. h.c \in Conn
    BY ContextFields, ConnFields
  <2> QED BY <2>1 DEF Conn, SameNumbers
<1> HIDE DEF d
<1>3. g.c = d /\ OnlyConn(h, g) /\ g.env = h.env
  BY WithConn
<1> QED BY <1>1, <1>2, <1>3 DEF d

\* What the upper layer is told.
LEMMA SetTold ==
  ASSUME NEW h \in Context, NEW t \in Report
  PROVE  LET g == [h EXCEPT !.told = t]
         IN  /\ g \in Context /\ g.c = h.c /\ g.told = t /\ g.out = h.out
             /\ g.acc = h.acc /\ g.owed = h.owed /\ g.env = h.env
<1> QED BY NewTold DEF Context

\* MYsendto() of a lawful packet.
LEMMA MYsendtoOutcome ==
  ASSUME NEW h \in Context, NEW p \in Packet, Lawful(h, <<p>>)
  PROVE  Outcome(h, MYsendto(h, p))
<1> DEFINE k == IF h.env.fail = 0 THEN 0 ELSE h.env.fail - 1
           g == [h EXCEPT !.env.fail = k]
           q == [h EXCEPT !.env.fail = 0]
           x == Reset(q)
           y == LostCallback(x)
<1>1. k \in Nat /\ k <= h.env.fail /\ 0 <= h.env.fail
  BY ContextFields
<1>2. /\ g \in Context /\ Sends(h, g, << >>) /\ g.c = h.c /\ g.told = h.told
      /\ q \in Context /\ Sends(h, q, << >>) /\ q.c = h.c /\ q.told = h.told
  <2> HIDE DEF k
  <2>1. /\ g.c = h.c /\ q.c = h.c /\ g.told = h.told /\ q.told = h.told
    BY DEF Context
  <2> QED BY <1>1, <2>1, NewFail, FailSends
<1>3. MYsendto(h, p) \in {Put(g, p), q, SendAgain(closeConnection(q), p)}
  BY DEF MYsendto
<1> HIDE DEF g, q
<1>4. h.out \o << >> = h.out /\ << >> \in Packets /\ Lawful(h, << >>)
  BY NothingSent DEF Context, Lawful, Packets
<1>5. Outcome(h, Put(g, p))
  <2>1. /\ Sends(g, Put(g, p), <<p>>) /\ Put(g, p) \in Context
        /\ <<p>> \in Packets
    BY <1>2, PutSends
  <2>2. Passes(h, Put(g, p))
    <3>1. /\ Passes(h, g) /\ Passes(g, Put(g, p)) /\ h.env.fail \in Nat
          /\ g.env.fail \in Nat /\ Put(g, p).env.fail \in Nat
      BY <1>2, <2>1, ContextFields DEF Sends
    <3> QED BY <3>1 DEF Passes
  <2>3. Sends(h, Put(g, p), <<p>>)
    BY <1>2, <1>4, <2>1, <2>2 DEF Sends, SameNumbers
  <2> QED BY <2>1, <2>3 DEF Outcome
<1>6. Outcome(h, q)
  BY <1>2, <1>4 DEF Outcome
<1>7. Outcome(h, SendAgain(closeConnection(q), p))
  <2>1. x \in Context /\ Closes(q, x, << >>) /\ y \in Context
    BY <1>2, ResetCloses, LostCallbackType
  <2> HIDE DEF x
  <2>2. Passes(h, x)
    <3>1. /\ Passes(h, q) /\ Passes(q, x) /\ h.env.fail \in Nat
          /\ q.env.fail \in Nat /\ x.env.fail \in Nat
      BY <1>2, <2>1, ContextFields DEF Sends, Closes
    <3> QED BY <3>1 DEF Passes
  <2>3. Closes(h, x, << >>) /\ CutShort(h, << >>)
    BY <1>2, <1>4, <2>1, <2>2 DEF Closes, CutShort, Sends
  <2>4. closeConnection(q) = y
    BY DEF closeConnection, x
  <2> HIDE DEF y
  <2>5. Aftermath(y, SendAgain(y, p))
    <3>1. CASE y.c.state = "CLOSED"
      BY <2>1, <3>1, SameSends DEF SendAgain, Aftermath
    <3>2. CASE y.c.state # "CLOSED"
      BY <2>1, <3>2, PutSends DEF SendAgain, Aftermath, SameQueue
    <3> QED BY <3>1, <3>2
  <2> QED BY <1>4, <2>1, <2>3, <2>4, <2>5 DEF Outcome, y
<1> QED BY <1>3, <1>5, <1>6, <1>7

\* sendACK() of a usable connection.
LEMMA sendACKOutcome ==
  ASSUME NEW h \in Context, h.c.state = "ACTIVE"
  PROVE  Outcome(h, sendACK(h))
<1> DEFINE p == ACK(h.c)
           g == MYsendto(h, p)
           f == [g EXCEPT !.c.ackPending = 0]
<1>1. p \in Packet
  BY ContextFields, ControlType
<1>2. Lawful(h, <<p>>)
  BY DEF Lawful
<1> HIDE DEF p
<1>3. Outcome(h, g) /\ g \in Context
  BY <1>1, <1>2, MYsendtoOutcome, MYsendtoType
<1> HIDE DEF g
<1>4. f \in Context /\ Sends(g, f, << >>) /\ f.told = g.told
  BY <1>3, AckPendingSends
<1>5. Outcome(h, f)
  BY <1>3, <1>4, SameSends, OutcomeThen
<1> QED BY <1>5 DEF sendACK, p, g

\* Established() works on the connection as if it were ACTIVE all the time.
LEMMA EstablishedOutcome ==
  ASSUME NEW h \in Context, h.c.state = "ACTIVE"
  PROVE  LET r == IF h.c.msgPending # 0 THEN resendMsgs(h) ELSE sendACK(h)
         IN  r \in Context /\ Outcome(h, r)
BY resendMsgsOutcome, sendACKOutcome, resendMsgsType, SendType

\* updateState() on the way to ACTIVE.
LEMMA EstablishedIn ==
  ASSUME NEW S, ClosedUnder(S), NEW h \in S, h.c.state = "SYN_RECVD"
  PROVE  Established(h) \in S
<1> DEFINE a == [h EXCEPT !.c.state = "ACTIVE"]
           r == IF a.c.msgPending # 0 THEN resendMsgs(a) ELSE sendACK(a)
           q == IF a.c.msgPending # 0 THEN CountPending(r) ELSE r
           f == [q EXCEPT !.told = "up"]
           e == CountPending(a)
           b == [e EXCEPT !.told = "up"]
<1>1. h \in Context /\ "ACTIVE" \in State /\ "up" \in Report
  BY DEF ClosedUnder, State, Report
<1>2. /\ a \in Context /\ OnlyConn(h, a) /\ a.env = h.env
      /\ a.c.state = "ACTIVE" /\ SameNumbers(h.c, a.c)
      /\ a.c.ConnID_out = h.c.ConnID_out
  BY <1>1, SetStateFields
<1> HIDE DEF a
<1>3. r \in Context /\ Outcome(a, r)
  BY <1>2, EstablishedOutcome
<1>4. Established(h) = Callback(f, "NEW")
  BY DEF Established, a
<1> HIDE DEF r
<1>5. /\ e \in Context /\ OnlyConn(a, e) /\ e.env = a.env
      /\ e.c.state = a.c.state /\ e.c.msgPending = 0
      /\ e.c.frameToSend = a.c.frameToSend + a.c.msgPending
      /\ e.c.ackExpected = a.c.ackExpected
      /\ e.c.frameExpected = a.c.frameExpected
      /\ e.c.ConnID_in = a.c.ConnID_in
      /\ e.c.ConnID_out = a.c.ConnID_out
      /\ e.c.pendList = a.c.pendList
  BY <1>2, CountPendingFields
<1> HIDE DEF e
<1>6. /\ b \in Context /\ b.c = e.c /\ b.told = "up" /\ b.out = e.out
      /\ b.acc = e.acc /\ b.owed = e.owed /\ b.env = e.env
  BY <1>1, <1>5, SetTold
<1> HIDE DEF b
<1>7. b \in S
  <2>1. h.c \in Conn /\ h.env.fail \in Nat
    BY <1>1, ContextFields, ConnFields
  <2> DEFINE d == [h.c EXCEPT !.frameToSend = @ + h.c.msgPending, !.msgPending = 0]
  <2>2. /\ d.frameToSend = h.c.frameToSend + h.c.msgPending /\ d.msgPending = 0
        /\ d.ackExpected = h.c.ackExpected /\ d.frameExpected = h.c.frameExpected
        /\ d.ConnID_in = h.c.ConnID_in /\ d.pendList = h.c.pendList
    BY <2>1 DEF Conn
  <2> HIDE DEF d
  <2>3. SameNumbers(d, b.c)
    BY <1>2, <1>5, <1>6, <2>2 DEF SameNumbers
  <2>4. Establishes(h, b)
    BY <1>2, <1>5, <1>6, <2>1, <2>3 DEF Establishes, OnlyConn, Passes, d
  <2> QED BY <1>6, <2>4 DEF ClosedUnder
<1>8. /\ q \in Context /\ q.out = r.out /\ q.acc = r.acc /\ q.owed = r.owed
      /\ q.told = r.told /\ q.env = r.env /\ q.c.state = r.c.state
      /\ q.c.ackExpected = r.c.ackExpected
      /\ q.c.frameExpected = r.c.frameExpected
      /\ q.c.ConnID_in = r.c.ConnID_in /\ q.c.ConnID_out = r.c.ConnID_out
      /\ q.c.pendList = r.c.pendList
      /\ a.c.msgPending # 0 => /\ q.c.msgPending = 0
                               /\ q.c.frameToSend = r.c.frameToSend + r.c.msgPending
      /\ a.c.msgPending = 0 => q.c = r.c
  <2>1. CASE a.c.msgPending # 0
    BY <1>3, <2>1, CountPendingFields DEF OnlyConn
  <2>2. CASE a.c.msgPending = 0
    BY <1>3, <2>2
  <2> QED BY <2>1, <2>2
<1> HIDE DEF q
<1>9. /\ f \in Context /\ f.c = q.c /\ f.told = "up" /\ f.out = q.out
      /\ f.acc = q.acc /\ f.owed = q.owed /\ f.env = q.env
  BY <1>1, <1>8, SetTold
<1> HIDE DEF f
<1>10. f \in S
  <2>1. CASE \E s \in Packets : Lawful(a, s) /\ Sends(a, r, s)
    <3>1. PICK s \in Packets : Lawful(a, s) /\ Sends(a, r, s)
      BY <2>1
    <3>2. \A t : Burst(a.c, t) <=> Burst(b.c, t)
      BY <1>5, <1>6 DEF Burst, Live, DATA
    <3>3. Lawful(b, s)
      BY <1>2, <1>5, <1>6, <3>1, <3>2 DEF Lawful, ACK, NACK
    <3>4. Passes(b, f)
      BY <1>5, <1>6, <1>8, <1>9, <3>1 DEF Sends, Passes
    <3>5. a.c.msgPending \in Nat /\ a.c.frameToSend \in Int
      BY <1>2, ContextFields, ConnFields
    <3>6. SameNumbers(b.c, f.c) /\ f.c.state = b.c.state /\ f.c.ConnID_out = b.c.ConnID_out
      BY <1>5, <1>6, <1>8, <1>9, <3>1, <3>5 DEF Sends, SameNumbers
    <3>7. Sends(b, f, s)
      BY <1>5, <1>6, <1>8, <1>9, <3>1, <3>4, <3>6 DEF Sends, OnlyConn
    <3> QED BY <1>7, <1>9, <3>3, <3>7 DEF ClosedUnder
  <2>2. CASE \E s \in Packets, x \in Context :
               CutShort(a, s) /\ Closes(a, x, s) /\ Aftermath(LostCallback(x), r)
    <3>1. PICK s \in Packets, x \in Context :
            CutShort(a, s) /\ Closes(a, x, s) /\ Aftermath(LostCallback(x), r)
      BY <2>2
    <3>2. CutShort(h, s)
      <4>1. \A t : Burst(a.c, t) <=> Burst(h.c, t)
        BY <1>2 DEF Burst, Live, DATA, SameNumbers
      <4> QED BY <1>2, <3>1, <4>1 DEF CutShort
    <3>3. Closes(h, x, s)
      <4>1. Live(a.c) = Live(h.c)
        BY <1>2 DEF Live, SameNumbers
      <4> QED BY <1>2, <3>1, <4>1 DEF Closes, Passes, OnlyConn, SameNumbers
    <3>4. x \in S /\ x.c.state = "CLOSED" /\ x.c.msgPending = 0
      BY <3>2, <3>3 DEF ClosedUnder, Closes
    <3>5. r \in S /\ (r.c.state = "CLOSED" \/ Indifferent(S))
      BY <1>3, <3>1, <3>4, AftermathIn
    <3>6. CASE Indifferent(S)
      <4>1. r.c.frameToSend \in Int /\ r.c.msgPending \in Int
        BY <1>3, ContextFields, ConnFields
      <4>2. SameQueue(r.c, f.c)
        BY <1>8, <1>9, <4>1 DEF SameQueue
      <4> QED BY <1>8, <1>9, <3>5, <3>6, <4>2 DEF Indifferent
    <3>7. CASE r.c.state = "CLOSED"
      <4> DEFINE y == LostCallback(x)
      <4>1. y.c.state = "CLOSED" /\ Sends(y, r, << >>)
        BY <3>1, <3>7 DEF Aftermath, SameQueue, Sends
      <4>2. SameNumbers(x.c, y.c)
        BY <4>1, LostCallbackNumbers
      <4>3. r.c.msgPending = 0 /\ r.c.frameToSend \in Int
        BY <1>3, <3>4, <4>1, <4>2, ContextFields, ConnFields DEF Sends, SameNumbers
      <4>4. SameNumbers(r.c, f.c)
        BY <1>8, <1>9, <4>3 DEF SameNumbers
      <4>5. r.out \o << >> = r.out /\ r.env.fail \in Nat
        BY <1>3, NothingSent, ContextFields DEF Context
      <4>6. Sends(r, f, << >>)
        BY <1>8, <1>9, <4>4, <4>5 DEF Sends, Passes
      <4> QED BY <1>9, <3>5, <4>6, BookkeepingIn
    <3> QED BY <3>5, <3>6, <3>7
  <2> QED BY <1>3, <2>1, <2>2 DEF Outcome
<1> QED BY <1>4, <1>10, CallbackIn

\* A callback does not make a closed connection usable.
LEMMA LostCallbackState ==
  ASSUME NEW h \in Context, h.c.state = "CLOSED"
  PROVE  LostCallback(h).c.state \in {"CLOSED", "SYN_SENT"}
<1> DEFINE q == [h EXCEPT !.told = "down"]
           d == [q.c EXCEPT !.known = FALSE]
           g == [q EXCEPT !.c = d]
           r == [g EXCEPT !.env.react = "none"]
           e == [q EXCEPT !.env.react = "none"]
<1>1. q \in Context /\ q.c = h.c /\ q.c \in Conn
  BY NewTold, ContextFields, ConnFields DEF Report, Context
<1> HIDE DEF q
<1>2. CASE h.env.react = "FORGET"
  <2>1. d.state = q.c.state
    BY <1>1 DEF Conn
  <2>2. g.c = d
    <3> HIDE DEF d
    <3> QED BY <1>1, WithConn
  <2>3. r.c = g.c
    <3> HIDE DEF d
    <3> QED BY <1>1 DEF Context
  <2>4. LostCallback(h) = r
    BY <1>2 DEF LostCallback, q
  <2> QED BY <1>1, <2>1, <2>2, <2>3, <2>4
<1>3. CASE h.env.react # "FORGET" /\ ~(q.env.react = "LOST" /\ CanSend(q))
  BY <1>1, <1>3 DEF LostCallback, Callback, q
<1>4. CASE h.env.react # "FORGET" /\ q.env.react = "LOST" /\ CanSend(q)
  <2>1. LostCallback(h) = PutFirst(Enqueue(e))
    BY <1>4 DEF LostCallback, Callback, q
  <2>2. e \in Context /\ CanSend(e) /\ e.c = q.c
    BY <1>1, <1>4, NoReaction, CalmSends DEF CanSend
  <2> HIDE DEF e
  <2>3. Enqueue(e) \in Context /\ Queues(e, Enqueue(e))
    BY <2>2, EnqueueQueues
  <2>4. FirstPacket(Enqueue(e).c) \in Packet
    BY <2>2, <2>3, FirstPacketLawful
  <2>5. PutFirst(Enqueue(e)).c = Enqueue(e).c
    BY <2>3, <2>4, PutSends DEF PutFirst
  <2> QED BY <1>1, <2>1, <2>2, <2>3, <2>5 DEF Queues
<1> QED BY <1>2, <1>3, <1>4

\* The peer's numbering is taken over.
LEMMA AdoptIn ==
  ASSUME NEW S, NEW p \in Packet, ClosedFor(S, p), NEW h \in S,
         h.c.state # "ACTIVE", p.type \in {"SYN", "SYNACK"},
         NEW s \in {"SYN_SENT", "SYN_RECVD"}
  PROVE  Adopt(h, s, p) \in S /\ Adopt(h, s, p).c.state = s
<1> DEFINE d == [h.c EXCEPT !.state = s, !.frameExpected = p.seqno,
                            !.ConnID_in = p.connid]
           k == [h.c EXCEPT !.frameExpected = p.seqno, !.ConnID_in = p.connid]
           g == [h EXCEPT !.c = d]
<1>1. h \in Context /\ s \in State /\ Adopt(h, s, p) = g
  BY DEF ClosedFor, ClosedUnder, State, Adopt
<1>2. h.c \in Conn
  BY <1>1, ContextFields, ConnFields
<1>3. /\ d.state = s /\ SameNumbers(k, d) /\ d.ConnID_out = h.c.ConnID_out
  BY <1>2 DEF Conn, SameNumbers
<1> HIDE DEF d, k
<1>4. g.c = d /\ OnlyConn(h, g)
  BY <1>1, WithConn
<1>5. g \in Context
  BY <1>1, AdoptType
<1> HIDE DEF g
<1>6. Adopts(h, g, p)
  BY <1>3, <1>4 DEF Adopts, k
<1> QED BY <1>1, <1>3, <1>4, <1>5, <1>6 DEF ClosedFor

\* The connection is requested.
LEMMA RequestIn ==
  ASSUME NEW S, ClosedUnder(S), NEW h \in S,
         h.c.state \in {"CLOSED", "SYN_RECVD"}
  PROVE  sendSYN([h EXCEPT !.c.state = "SYN_SENT"]) \in S
<1> DEFINE g == [h EXCEPT !.c.state = "SYN_SENT"]
<1>1. h \in Context /\ "SYN_SENT" \in State
  BY DEF ClosedUnder, State
<1>2. g \in Context /\ Requests(h, g) /\ g.c.state = "SYN_SENT"
  BY <1>1, SetStateFields DEF Requests
<1> HIDE DEF g
<1>3. g \in S
  BY <1>2 DEF ClosedUnder
<1> QED BY <1>2, <1>3, SendIn DEF g

\* closeConnection() of any connection, and the peer's new numbering.
LEMMA CloseAndAdopt ==
  ASSUME NEW S, NEW p \in Packet, ClosedFor(S, p), NEW h \in S,
         p.type \in {"SYN", "SYNACK"}, NEW s \in {"SYN_SENT", "SYN_RECVD"}
  PROVE  LET g == Adopt(closeConnection(h), s, p)
         IN  g \in S /\ g.c.state = s
<1> DEFINE x == Reset(h)
           y == LostCallback(x)
<1>1. ClosedUnder(S) /\ h \in Context
  BY DEF ClosedFor, ClosedUnder
<1>2. x \in Context /\ x.c.state = "CLOSED"
  BY <1>1, ResetType
<1>3. y \in S /\ closeConnection(h) = y
  BY <1>1, CloseIn DEF closeConnection
<1> HIDE DEF x
<1>4. y.c.state # "ACTIVE"
  BY <1>2, LostCallbackState
<1> HIDE DEF y
<1> QED BY <1>3, <1>4, AdoptIn

\* updateState().
LEMMA updateStateIn ==
  ASSUME NEW S, NEW p \in Packet, ClosedFor(S, p), NEW h \in S
  PROVE  updateState(h, p) \in S
<1>1. ClosedUnder(S) /\ h \in Context /\ h.c.state \in State
  BY ContextFields, ConnFields DEF ClosedFor, ClosedUnder
<1>2. p.type \in PacketType
  BY DEF Packet
<1>3. ASSUME h.c.state # "ACTIVE", p.type = "SYN"
      PROVE  sendSYNACK(Adopt(h, "SYN_RECVD", p)) \in S
  BY <1>1, <1>3, AdoptIn, SendIn
<1>4. CASE h.c.state = "CLOSED"
  BY <1>1, <1>3, <1>4, RequestIn DEF updateState, UpdateClosed
<1>5. CASE h.c.state = "SYN_SENT"
  <2>1. CASE p.type = "SYN"
    BY <1>3, <1>5, <2>1 DEF updateState, UpdateSynSent
  <2>2. CASE p.type = "SYNACK"
    <3> DEFINE g == Adopt(h, "SYN_RECVD", p)
               f == Adopt(h, "ACTIVE", p)
    <3>1. g \in S /\ g.c.state = "SYN_RECVD"
      BY <1>5, <2>2, AdoptIn
    <3>2. [f EXCEPT !.c.state = "ACTIVE"] = [g EXCEPT !.c.state = "ACTIVE"]
      <4>1. h.c \in Conn
        BY <1>1, ContextFields, ConnFields
      <4> DEFINE d == [h.c EXCEPT !.state = "SYN_RECVD", !.frameExpected = p.seqno,
                                  !.ConnID_in = p.connid]
                 e == [h.c EXCEPT !.state = "ACTIVE", !.frameExpected = p.seqno,
                                  !.ConnID_in = p.connid]
      <4>2. [d EXCEPT !.state = "ACTIVE"] = [e EXCEPT !.state = "ACTIVE"]
        BY <4>1 DEF Conn
      <4>3. g = [h EXCEPT !.c = d] /\ f = [h EXCEPT !.c = e]
        BY DEF Adopt
      <4> HIDE DEF d, e, g, f
      <4>4. g.c = d /\ f.c = e
        BY <1>1, <4>3, WithConn
      <4>5. /\ [f EXCEPT !.c.state = "ACTIVE"] = [f EXCEPT !.c = [e EXCEPT !.state = "ACTIVE"]]
            /\ [g EXCEPT !.c.state = "ACTIVE"] = [g EXCEPT !.c = [d EXCEPT !.state = "ACTIVE"]]
        BY <4>4
      <4> DEFINE d1 == [d EXCEPT !.state = "ACTIVE"]
                 e1 == [e EXCEPT !.state = "ACTIVE"]
      <4>6. d1 = e1
        BY <4>2
      <4> HIDE DEF d1, e1
      <4>7. [f EXCEPT !.c = e1] = [g EXCEPT !.c = d1]
        BY <1>1, <4>3, <4>6 DEF Context
      <4> QED BY <4>5, <4>7 DEF d1, e1
    <3> HIDE DEF f, g
    <3>3. Established(f) = Established(g)
      BY <3>2 DEF Established
    <3>4. Established(g) \in S
      BY <1>1, <3>1, EstablishedIn
    <3> QED BY <1>5, <2>2, <3>3, <3>4 DEF updateState, UpdateSynSent, f
  <2>3. CASE p.type \notin {"SYN", "SYNACK"}
    BY <1>1, <1>5, <2>3, SendIn DEF updateState, UpdateSynSent
  <2> QED BY <2>1, <2>2, <2>3
<1>6. CASE h.c.state = "SYN_RECVD"
  <2>1. CASE p.type = "SYN"
    BY <1>3, <1>6, <2>1 DEF updateState, UpdateSynRecvd
  <2>2. CASE p.type = "SYNACK"
    <3>1. Established(Adopt(h, "SYN_RECVD", p)) \in S
      BY <1>1, <1>6, <2>2, AdoptIn, EstablishedIn
    <3> QED BY <1>6, <2>2, <3>1 DEF updateState, UpdateSynRecvd
  <2>3. CASE p.type \in {"ACK", "DATA"}
    BY <1>1, <1>6, <2>3, EstablishedIn DEF updateState, UpdateSynRecvd
  <2>4. CASE p.type \notin {"SYN", "SYNACK", "ACK", "DATA"}
    BY <1>1, <1>6, <2>4, RequestIn DEF updateState, UpdateSynRecvd
  <2> QED BY <2>1, <2>2, <2>3, <2>4
<1>7. CASE h.c.state = "ACTIVE"
  <2>1. CASE p.type = "SYN"
    <3>1. sendSYNACK(Adopt(closeConnection(h), "SYN_RECVD", p)) \in S
      BY <1>1, <2>1, CloseAndAdopt, SendIn
    <3> QED BY <1>7, <2>1, <3>1 DEF updateState, UpdateActive
  <2>2. CASE p.type = "SYNACK" /\ p.connid # h.c.ConnID_in
    <3>1. sendSYN(Adopt(closeConnection(h), "SYN_SENT", p)) \in S
      BY <1>1, <2>2, CloseAndAdopt, SendIn
    <3> QED BY <1>7, <2>2, <3>1 DEF updateState, UpdateActive
  <2>3. CASE p.type \notin {"SYN", "SYNACK"} /\ p.connid # h.c.ConnID_in
    BY <1>1, <1>7, <2>3, CloseIn DEF updateState, UpdateActive
  <2>4. CASE p.type # "SYN" /\ p.connid = h.c.ConnID_in
    BY <1>7, <2>4 DEF updateState, UpdateActive
  <2> QED BY <2>1, <2>2, <2>3, <2>4
<1> QED BY <1>1, <1>4, <1>5, <1>6, <1>7 DEF State

-----------------------------------------------------------------------------
\* The fields behind putMsg() of the first k buffers.
LEMMA DropFields ==
  ASSUME NEW h \in Context, NEW k \in 0..Len(h.c.pendList)
  PROVE  LET g == Drop(h, k)
             e == [h.c EXCEPT !.pendList = SubSeq(@, k + 1, Len(@))]
         IN  /\ g \in Context /\ OnlyConn(h, g) /\ g.env = h.env
             /\ g.c.state = h.c.state /\ SameNumbers(e, g.c)
             /\ g.c.ConnID_out = h.c.ConnID_out
<1> DEFINE c == h.c
           p == SubSeq(c.pendList, k + 1, Len(c.pendList))
           w == c.window + k
           d == [c EXCEPT !.pendList = p, !.window = w]
           e == [c EXCEPT !.pendList = p]
           g == [h EXCEPT !.c = d]
<1>1. c \in Conn
  BY ContextFields, ConnFields
<1>2. Drop(h, k) = g
  BY DEF Drop, Context
<1>3. /\ SameNumbers(e, d) /\ d.state = c.state
      /\ d.ConnID_out = c.ConnID_out
  <2> HIDE DEF c, p, w
  <2> QED BY <1>1 DEF Conn, SameNumbers
<1> HIDE DEF d
<1>4. g.c = d /\ OnlyConn(h, g) /\ g.env = h.env
  <2>1. ASSUME NEW x, x = [h EXCEPT !.c = d]
        PROVE  x.c = d /\ OnlyConn(h, x) /\ x.env = h.env
    BY <2>1, WithConn DEF Context
  <2> QED BY <2>1
<1> HIDE DEF g
<1> QED BY <1>2, <1>3, <1>4, DropType

\* putMsg() of deleted buffers.
LEMMA DropIn ==
  ASSUME NEW S, ClosedUnder(S), NEW h \in S, NEW k \in 0..Len(h.c.pendList),
         \A i \in 1..k : h.c.pendList[i].deleted
  PROVE  Drop(h, k) \in S
<1>1. h \in Context
  BY DEF ClosedUnder
<1>2. Drop(h, k) \in Context /\ Drops(h, Drop(h, k), k)
  BY <1>1, DropFields DEF Drops
<1> QED BY <1>2 DEF ClosedUnder

\* The release of what a packet acknowledges.
LEMMA ReleaseAckedIn ==
  ASSUME NEW S, NEW p \in Packet, ClosedFor(S, p), NEW h \in S,
         p.type \notin {"SYN", "SYNACK"},
         h.c.state \in {"ACTIVE", "CLOSED"} \/ Indifferent(S)
  PROVE  ReleaseAcked(h, p.ackno) \in S
<1> DEFINE k == FreedBy(h.c.pendList, p.ackno)
           acked == Cardinality({i \in Live(h.c) : i <= k})
           g == Drop(h, k)
           c == g.c
           a == c.ackExpected + acked
           n == IF acked > 0 THEN 0 ELSE c.retrans
           d == [c EXCEPT !.ackExpected = a, !.retrans = n]
           e == [h.c EXCEPT !.pendList = SubSeq(@, k + 1, Len(@))]
           f == [h.c EXCEPT !.pendList = SubSeq(@, k + 1, Len(@)),
                            !.ackExpected = @ + acked]
           q == [g EXCEPT !.c = d]
<1>0. ClosedUnder(S) /\ h \in Context /\ p.ackno \in Int
  BY DEF ClosedFor, ClosedUnder, Packet
<1>1. /\ h.c.pendList \in Seq(MsgBuf) /\ Len(h.c.pendList) \in Nat
      /\ DOMAIN h.c.pendList = 1..Len(h.c.pendList)
      /\ h.c \in Conn /\ h.c.retrans \in Nat
  BY <1>0, ContextFields, ConnFields, LenProperties
<1>2. k \in 0..Len(h.c.pendList)
  BY <1>1, PrefixRange
<1>3. acked \in Nat
  <2>1. {i \in Live(h.c) : i <= k} \in SUBSET (1..Len(h.c.pendList))
    BY <1>1 DEF Live
  <2>2. acked \in 0..Len(h.c.pendList)
    BY <1>1, <2>1, PartOfInterval
  <2> QED BY <1>1, <2>2
<1>12. f.ackExpected = h.c.ackExpected + acked /\ f.msgPending = h.c.msgPending
       /\ f.frameToSend = h.c.frameToSend /\ f.frameExpected = h.c.frameExpected
       /\ f.ConnID_in = h.c.ConnID_in
       /\ f.pendList = SubSeq(h.c.pendList, k + 1, Len(h.c.pendList))
  <2> HIDE DEF k, acked
  <2> QED BY <1>1 DEF Conn
<1>13. e.ackExpected = h.c.ackExpected /\ e.msgPending = h.c.msgPending
       /\ e.frameToSend = h.c.frameToSend /\ e.frameExpected = h.c.frameExpected
       /\ e.ConnID_in = h.c.ConnID_in
       /\ e.pendList = SubSeq(h.c.pendList, k + 1, Len(h.c.pendList))
  <2> HIDE DEF k
  <2> QED BY <1>1 DEF Conn
<1>4. /\ g \in Context /\ OnlyConn(h, g) /\ g.env = h.env
      /\ g.c.state = h.c.state /\ SameNumbers(e, g.c)
      /\ g.c.ConnID_out = h.c.ConnID_out
  <2> HIDE DEF k
  <2> QED BY <1>0, <1>2, DropFields
<1> HIDE DEF g, e, f
<1>5. c \in GoodConn /\ c \in Conn
  BY <1>4, ContextFields, ConnFields
<1>6. a \in Number /\ n \in Count
  <2> HIDE DEF acked
  <2> QED BY <1>3, <1>5, ConnFields DEF Number, Count
<1>7. /\ d \in GoodConn /\ d.ackExpected = a /\ d.msgPending = c.msgPending
      /\ d.frameToSend = c.frameToSend /\ d.frameExpected = c.frameExpected
      /\ d.ConnID_in = c.ConnID_in /\ d.pendList = c.pendList
      /\ d.state = c.state /\ d.ConnID_out = c.ConnID_out
  <2> HIDE DEF c, a, n
  <2>1. /\ d \in Conn /\ d.window = c.window /\ d.pendList = c.pendList
        /\ d.ackExpected = a /\ d.msgPending = c.msgPending
        /\ d.frameToSend = c.frameToSend /\ d.frameExpected = c.frameExpected
        /\ d.ConnID_in = c.ConnID_in
        /\ d.state = c.state /\ d.ConnID_out = c.ConnID_out
    BY <1>5, <1>6 DEF Conn
  <2> HIDE DEF d
  <2> QED BY <1>5, <2>1, SameSlots
<1>9. [g EXCEPT !.c.ackExpected = @ + acked,
                !.c.retrans = IF acked > 0 THEN 0 ELSE @] = q
  <2> HIDE DEF acked
  <2> QED BY <1>4, <1>5 DEF Context, Conn
<1> HIDE DEF d
<1>8. q \in Context /\ q.c = d /\ OnlyConn(g, q)
  BY <1>4, <1>7, NewConn, WithConn
<1>10. ReleaseAcked(h, p.ackno) = IF h.c.window = 0 /\ k > 0
                                  THEN Callback(q, "CONT") ELSE q
  <2> HIDE DEF q
  <2> QED BY <1>9 DEF ReleaseAcked, g, k, acked
<1> HIDE DEF q, k, acked
<1>11. SameNumbers(f, d)
  BY <1>4, <1>7, <1>12, <1>13 DEF SameNumbers
<1>14. OnlyConn(h, q)
  <2>1. h.env.fail \in Nat /\ g.env.fail \in Nat /\ q.env.fail \in Nat
    BY <1>0, <1>4, <1>8, ContextFields
  <2> QED BY <1>4, <1>8, <2>1 DEF OnlyConn, Passes
<1>15. q.c.state = h.c.state /\ q.c.ConnID_out = h.c.ConnID_out
  BY <1>4, <1>7, <1>8
<1>17. Discards(h, q, p)
  BY <1>8, <1>11, <1>14, <1>15 DEF Discards, f, k, acked
<1>16. q \in S
  <2>1. CASE h.c.state \in {"ACTIVE", "CLOSED"}
    <3>1. Frees(h, q, p)
      BY <1>17, <2>1 DEF Frees
    <3> QED BY <1>8, <3>1 DEF ClosedFor
  <2>2. CASE Indifferent(S)
    BY <1>8, <1>17, <2>2 DEF Indifferent
  <2> QED BY <2>1, <2>2
<1> QED BY <1>0, <1>10, <1>16, CallbackIn

\* doACK().
LEMMA doACKIn ==
  ASSUME NEW S, NEW p \in Packet, ClosedFor(S, p), NEW h \in S,
         h.c.state = "ACTIVE", p.type \notin {"SYN", "SYNACK"}
  PROVE  doACK(h, p) \in S
<1>1. ClosedUnder(S) /\ h \in Context
  BY DEF ClosedFor, ClosedUnder
<1>2. /\ sendACK(h) \in S /\ sendNACK(h) \in S
      /\ sendACK(h).c.state \in {"ACTIVE", "CLOSED"} \/ Indifferent(S)
      /\ sendNACK(h).c.state \in {"ACTIVE", "CLOSED"} \/ Indifferent(S)
  BY <1>1, SendIn, SendStates
<1>3. /\ updateState(h, p) \in S
      /\ ReleaseAcked(sendACK(h), p.ackno) \in S
      /\ ReleaseAcked(sendNACK(h), p.ackno) \in S
      /\ ReleaseAcked(h, p.ackno) \in S
  BY <1>2, updateStateIn, ReleaseAckedIn
<1>4. p.seqno \in Int /\ h.c.frameExpected \in Int
  BY <1>1, ContextFields, ConnFields DEF Packet
<1>5. \/ p.seqno < h.c.frameExpected \/ p.seqno > h.c.frameExpected
      \/ p.seqno = h.c.frameExpected
  BY <1>4
<1>6. doACK(h, p) \in {updateState(h, p), ReleaseAcked(sendACK(h), p.ackno),
                       ReleaseAcked(sendNACK(h), p.ackno),
                       ReleaseAcked(h, p.ackno)}
  BY <1>5 DEF doACK
<1> QED BY <1>3, <1>6

\* What every packet is used for first.
LEMMA UpdateOrACKIn ==
  ASSUME NEW S, NEW p \in Packet, ClosedFor(S, p), NEW h \in S
  PROVE  UpdateOrACK(h, p) \in S
BY updateStateIn, doACKIn DEF UpdateOrACK

\* An ACK in whatever state the connection is.
LEMMA AnyACKIn ==
  ASSUME NEW T, Acknowledging(T), NEW h \in T
  PROVE  sendACK(h) \in T
<1> DEFINE g == MYsendto(h, ACK(h.c))
<1>1. ClosedUnder(T) /\ h \in Context
  BY DEF Acknowledging, ClosedUnder
<1>2. ACK(h.c) \in Packet
  BY <1>1, ContextFields, ControlType
<1>3. \A f \in T, x \in Context :
        f.c = h.c /\ Sends(f, x, <<ACK(h.c)>>) => x \in T
  BY DEF Acknowledging
<1>4. g \in T
  BY <1>1, <1>2, <1>3, MYsendtoStays
<1> HIDE DEF g
<1>5. g \in Context
  BY <1>1, <1>4 DEF ClosedUnder
<1>6. [g EXCEPT !.c.ackPending = 0] \in T
  BY <1>1, <1>4, <1>5, AckPendingSends, BookkeepingIn
<1> QED BY <1>6 DEF sendACK, g

\* Rrecvfrom(): what becomes of a context in S if the message is taken is in
\* T.
LEMMA RrecvfromIn ==
  ASSUME NEW S, ClosedUnder(S), NEW T, Acknowledging(T), NEW p \in Packet,
         \A h \in S, g \in Context : Advances(h, g, p) => g \in T,
         NEW h \in S
  PROVE  Rrecvfrom(h, p) \in IF Accepts(h, p) THEN T ELSE S
<1> DEFINE c == h.c
           e == c.frameExpected + 1
           n == c.ackPending + 1
           d == [c EXCEPT !.frameExpected = e, !.ackPending = n]
           f == [c EXCEPT !.frameExpected = @ + 1]
           r == [h EXCEPT !.c = d]
<1>1. h \in Context
  BY DEF ClosedUnder
<1>2. c \in GoodConn /\ c \in Conn
  BY <1>1, ContextFields, ConnFields
<1>3. e \in Number /\ n \in Count
  BY <1>2, ConnFields DEF Number, Count
<1>4. /\ d \in GoodConn /\ SameNumbers(f, d) /\ d.state = c.state
      /\ d.ConnID_out = c.ConnID_out
  <2>1. f = [c EXCEPT !.frameExpected = e]
    OBVIOUS
  <2> HIDE DEF c, e, n, f
  <2>2. d \in Conn /\ d.window = c.window /\ d.pendList = c.pendList
    BY <1>2, <1>3 DEF Conn
  <2>3. d \in GoodConn
    BY <1>2, <2>2, SameSlots
  <2> QED BY <1>2, <2>1, <2>3 DEF Conn, SameNumbers
<1>6. [h EXCEPT !.c.frameExpected = @ + 1, !.c.ackPending = @ + 1] = r
  BY <1>1, <1>2 DEF Context, Conn
<1> HIDE DEF d, f
<1>5. r \in Context /\ r.c = d /\ OnlyConn(h, r)
  BY <1>1, <1>4, NewConn, WithConn
<1> HIDE DEF r
<1>7. CASE ~Accepts(h, p)
  BY <1>7 DEF Rrecvfrom
<1>8. CASE Accepts(h, p)
  <2>1. Advances(h, r, p)
    BY <1>4, <1>5, <1>8 DEF Advances, Accepts, f
  <2>2. r \in T
    BY <1>5, <2>1
  <2>3. Rrecvfrom(h, p) \in {r, sendACK(r)}
    BY <1>6, <1>8 DEF Rrecvfrom
  <2> QED BY <1>8, <2>2, <2>3, AnyACKIn
<1> QED BY <1>7, <1>8

\* handleRDP() behind UpdateOrACK.
LEMMA HandleRestIn ==
  ASSUME NEW S, ClosedUnder(S), NEW T, Acknowledging(T), NEW p \in Packet,
         \A h \in S, g \in Context : Advances(h, g, p) => g \in T,
         NEW h \in S, NEW ready, ready => p.type = "DATA"
  PROVE  HandleRest(h, p, ready) \in IF ready /\ Accepts(h, p) THEN T ELSE S
<1>1. CASE ready
  <2>1. HandleRest(h, p, ready) = Rrecvfrom(h, p)
    BY <1>1 DEF HandleRest
  <2> QED BY <1>1, <2>1, RrecvfromIn
<1>2. CASE ~ready
  <2>1. resendMsgs(h) \in S
    BY resendMsgsIn
  <2>2. HandleRest(h, p, ready) \in {h, resendMsgs(h)}
    BY <1>2 DEF HandleRest
  <2> QED BY <1>2, <2>1, <2>2
<1> QED BY <1>1, <1>2

\* handleTimeoutRDP(), first loop.
LEMMA TimeoutResendIn ==
  ASSUME NEW S, ClosedUnder(S), NEW h \in S
  PROVE  TimeoutResend(h) \in S
<1>1. \A g \in S : ResendTimedOut(g) \in S
  BY resendMsgsIn DEF ResendTimedOut
<1> QED BY <1>1 DEF TimeoutResend

\* handleTimeoutRDP(), second loop.
LEMMA CleanupIn ==
  ASSUME NEW S, ClosedUnder(S), NEW h \in S
  PROVE  Cleanup(h) \in S
<1> DEFINE q == Drop(h, 1)
           r == IF h.c.window = 0 THEN Callback(q, "CONT") ELSE q
<1>1. \A g \in S : /\ DeletedPrefix(g.c.pendList) \in 0..Len(g.c.pendList)
                   /\ Len(g.c.pendList) \in Nat
                   /\ \A i \in 1..Len(g.c.pendList) :
                        g.c.pendList[i].deleted <=> i <= DeletedPrefix(g.c.pendList)
  <2> TAKE g \in S
  <2>1. g.c.pendList \in Seq(MsgBuf) /\ InFront(g.c.pendList)
    BY ContextFields, ConnFields DEF ClosedUnder
  <2> QED BY <2>1, DeletedPrefixFacts, LenProperties
<1>2. CASE DeletedPrefix(h.c.pendList) = 0
  BY <1>2 DEF Cleanup
<1>3. CASE DeletedPrefix(h.c.pendList) # 0
  <2>1. 1 \in 0..Len(h.c.pendList) /\ \A i \in 1..1 : h.c.pendList[i].deleted
    BY <1>1, <1>3
  <2>2. q \in S
    BY <2>1, DropIn
  <2> HIDE DEF q
  <2>3. r \in S
    BY <2>2, CallbackIn
  <2>4. Cleanup(h) = Drop(r, DeletedPrefix(r.c.pendList))
    BY <1>3 DEF Cleanup, CleanupRest, q
  <2> HIDE DEF r
  <2>5. /\ DeletedPrefix(r.c.pendList) \in 0..Len(r.c.pendList)
        /\ \A i \in 1..DeletedPrefix(r.c.pendList) : r.c.pendList[i].deleted
    BY <1>1, <2>3
  <2> QED BY <2>3, <2>4, <2>5, DropIn
<1> QED BY <1>2, <1>3

\* RDP_updateNode() for a context.
LEMMA ReaddressIn ==
  ASSUME NEW S, ClosedUnder(S), NEW h \in S, NEW b \in BOOLEAN
  PROVE  /\ Readdress(h, b) \in S /\ Readdress(h, b).c.state = "CLOSED"
         /\ [Readdress(h, b) EXCEPT !.told = "down"] \in S
<1> DEFINE q == IF h.c.state = "CLOSED" THEN h ELSE Reset(h)
           d == [q.c EXCEPT !.known = b]
           g == [q EXCEPT !.c = d]
<1>1. q \in S /\ q.c.state = "CLOSED" /\ q \in Context
  BY CloseIn, ResetType DEF ClosedUnder
<1>2. Readdress(h, b) = g
  BY DEF Readdress
<1> HIDE DEF q
<1>3. /\ SameNumbers(q.c, d) /\ d.state = q.c.state
      /\ d.ConnID_out = q.c.ConnID_out
  <2>1. q.c \in Conn
    BY <1>1, ContextFields, ConnFields
  <2> QED BY <2>1 DEF Conn, SameNumbers
<1>4. g \in Context
  BY <1>1, SetKnown
<1> HIDE DEF d
<1>5. Sends(q, g, << >>) /\ g.c = d
  BY <1>1, <1>3, SameConnSends, WithConn
<1> HIDE DEF g
<1>6. g \in S /\ g.c.state = "CLOSED"
  BY <1>1, <1>3, <1>4, <1>5, BookkeepingIn
<1>7. [g EXCEPT !.told = "down"] \in S
  <2>1. Sends(g, [g EXCEPT !.told = "down"], << >>)
    BY <1>4, <1>6, ToldSends
  <2>2. [g EXCEPT !.told = "down"] \in Context
    BY <1>4, NewTold DEF Report
  <2> QED BY <1>6, <2>1, <2>2, BookkeepingIn
<1> QED BY <1>2, <1>6, <1>7

\* Rsendto().
LEMMA SendNewIn ==
  ASSUME NEW S, ClosedUnder(S), NEW h \in S, CanSend(h)
  PROVE  SendNew(Enqueue(h)) \in S
<1> DEFINE g == Enqueue(h)
<1>1. h \in Context
  BY DEF ClosedUnder
<1>2. g \in Context /\ Queues(h, g)
  BY <1>1, EnqueueQueues
<1> HIDE DEF g
<1>3. g \in S
  BY <1>2 DEF ClosedUnder
<1>4. CASE g.c.state = "SYN_RECVD"
  BY <1>3, <1>4, SendIn DEF SendNew, g
<1>5. CASE g.c.state # "SYN_RECVD"
  <2>1. FirstPacket(g.c) \in Packet /\ Lawful(g, <<FirstPacket(g.c)>>)
    BY <1>1, <1>2, FirstPacketLawful
  <2>2. MYsendto(g, FirstPacket(g.c)) \in S
    BY <1>3, <2>1, MYsendtoIn
  <2> QED BY <1>5, <2>2 DEF SendNew, g
<1> QED BY <1>4, <1>5

\* closeConnRDP().
LEMMA QuietCloseIn ==
  ASSUME NEW S, ClosedUnder(S), NEW h \in S
  PROVE  [Reset(h) EXCEPT !.c.closed = TRUE, !.told = "down"] \in S
<1> DEFINE q == Reset(h)
           yes == TRUE
           d == [q.c EXCEPT !.closed = yes]
           g == [q EXCEPT !.c = d]
           f == [g EXCEPT !.told = "down"]
<1>1. q \in S /\ q.c.state = "CLOSED" /\ q \in Context
  BY CloseIn, ResetType DEF ClosedUnder
<1> HIDE DEF q
<1>2. q.c \in Conn /\ q.c \in GoodConn
  BY <1>1, ContextFields, ConnFields
<1>3. /\ d \in GoodConn /\ SameNumbers(q.c, d) /\ d.state = q.c.state
      /\ d.ConnID_out = q.c.ConnID_out
  <2>1. yes \in Bool
    BY DEF Bool
  <2> HIDE DEF yes
  <2>2. /\ d \in Conn /\ d.window = q.c.window /\ d.pendList = q.c.pendList
    BY <1>2, <2>1 DEF Conn
  <2>3. d \in GoodConn
    BY <1>2, <2>2, SameSlots
  <2> QED BY <1>2, <2>3 DEF Conn, SameNumbers
<1>4. [q EXCEPT !.c.closed = TRUE, !.told = "down"] = f
  BY <1>1 DEF Context
<1> HIDE DEF d
<1>5. g \in Context
  BY <1>1, <1>3, NewConn
<1>6. Sends(q, g, << >>) /\ g.c = d
  BY <1>1, <1>3, SameConnSends, WithConn
<1> HIDE DEF g
<1>7. g \in S /\ g.c.state = "CLOSED"
  BY <1>1, <1>3, <1>5, <1>6, BookkeepingIn
<1>8. Sends(g, f, << >>) /\ f \in Context
  BY <1>5, <1>7, ToldSends, NewTold DEF Report
<1> HIDE DEF f
<1>9. f \in S
  BY <1>7, <1>8, BookkeepingIn
<1> QED BY <1>4, <1>9 DEF q

-----------------------------------------------------------------------------
(***************************************************************************)
(* A step of the psids, seen from one pair of them: what it may do to the  *)
(* connection of n to m, and to that of m to n.                            *)
(***************************************************************************)

\* What n keeps about m, but for the packets under way.
Untouched(n, m) ==
  /\ conn'[n][m] = conn[n][m] /\ accepted'[n][m] = accepted[n][m]
  /\ owed'[n][m] = owed[n][m] /\ told'[n][m] = told[n][m]

\* Nothing happens on the way from n to m.
Still(n, m) ==
  /\ Untouched(n, m)
  /\ net'[n][m] = net[n][m] /\ delivered'[n][m] = delivered[n][m]

\* A handler of n concerning m ends in h.
Ends(n, m, h) ==
  /\ conn'[n][m] = h.c /\ accepted'[n][m] = h.acc /\ owed'[n][m] = h.owed
  /\ told'[n][m] = h.told /\ net'[n][m] = Carry(net[n][m] \o h.out)

\* A handler of n concerning m starts in S.
Starts(n, m, S) == \A env \in Environ : Ctx(n, m, env) \in S

\* A handler of n acts on its connection to m.
Acts(n, m) ==
  /\ Still(m, n) /\ delivered'[n][m] = delivered[n][m]
  /\ \A S : ClosedUnder(S) /\ Starts(n, m, S) => \E h \in S : Ends(n, m, h)

\* The message in the oldest packet from m to n is taken.
Takes(n, m) ==
  LET p == Head(net[m][n])
  IN  /\ p.type = "DATA" /\ conn[n][m].state = "ACTIVE"
      /\ p.seqno = conn[n][m].frameExpected
      /\ delivered'[m][n] = Append(delivered[m][n], p.payload)

\* The handler of n for a packet p from m, ending in T if it takes a message.
Handles(n, m, S, T, p) ==
  \/ delivered'[m][n] = delivered[m][n] /\ \E h \in S : Ends(n, m, h)
  \/ Takes(n, m) /\ \E h \in T : Ends(n, m, h)

\* n handles the oldest packet from m.
Receives(n, m) ==
  LET p == Head(net[m][n])
  IN  /\ net[m][n] # << >> /\ net'[m][n] = Tail(net[m][n])
      /\ Untouched(m, n) /\ delivered'[n][m] = delivered[n][m]
      /\ \A S, T : /\ ClosedFor(S, p) /\ Starts(n, m, S) /\ Acknowledging(T)
                   /\ \A h \in S, g \in Context : Advances(h, g, p) => g \in T
                   => Handles(n, m, S, T, p)

\* A timer of a connection elapses.
Ticks(n, m) ==
  /\ Still(m, n) /\ delivered'[n][m] = delivered[n][m]
  /\ accepted'[n][m] = accepted[n][m] /\ owed'[n][m] = owed[n][m]
  /\ told'[n][m] = told[n][m] /\ net'[n][m] = net[n][m]
  /\ SameNumbers(conn[n][m], conn'[n][m])
  /\ conn'[n][m].state = conn[n][m].state
  /\ conn'[n][m].ConnID_out = conn[n][m].ConnID_out

\* A packet gets lost on the way from n to m.
Loses(n, m) ==
  /\ Still(m, n) /\ Untouched(n, m) /\ delivered'[n][m] = delivered[n][m]
  /\ net[n][m] # << >> /\ net'[n][m] = Tail(net[n][m])

\* Packets overtake each other on the way from n to m.
Swaps(n, m) ==
  /\ "reorder" \in Fault
  /\ Still(m, n) /\ Untouched(n, m) /\ delivered'[n][m] = delivered[n][m]
  /\ \A i \in DOMAIN net'[n][m] :
       \E j \in DOMAIN net[n][m] : net'[n][m][i] = net[n][m][j]

\* n starts again.
Restarts(n, m) ==
  /\ "restart" \in Fault
  /\ Still(m, n) /\ delivered'[n][m] = delivered[n][m]
  /\ accepted'[n][m] = accepted[n][m] /\ net'[n][m] = net[n][m]
  /\ owed'[n][m] = {} /\ told'[n][m] = "down"
  /\ \E fts \in FirstToSend, fe \in FirstExpected, id \in ConnId :
       conn'[n][m] = InitConn(fts, fe, id)

\* What n may do to the pair.
Moves(n, m) ==
  \/ Acts(n, m) \/ Receives(n, m) \/ Ticks(n, m) \/ Loses(n, m)
  \/ Swaps(n, m) \/ Restarts(n, m)

\* A step, seen from the pair of n and m.
PairStep(n, m) == (Still(n, m) /\ Still(m, n)) \/ Moves(n, m) \/ Moves(m, n)

\* Nothing happens to other pairs than that of n and m.
Elsewhere(n, m) ==
  \A k \in Node : \A l \in Peer(k) : {k, l} # {n, m} => Still(k, l)

\* An entry of a table of which one has been changed.
LEMMA TableAt ==
  ASSUME NEW f, NEW S, IsTable(f, S), NEW n \in Node, NEW m \in Peer(n),
         NEW k \in Node, NEW l \in Peer(k), NEW x
  PROVE  /\ [f EXCEPT ![n][m] = x][n][m] = x
         /\ <<k, l>> # <<n, m>> => [f EXCEPT ![n][m] = x][k][l] = f[k][l]
BY DEF IsTable

\* What a handler leaves behind, entry by entry.
LEMMA FinishEnds ==
  ASSUME IInv, NEW n \in Node, NEW m \in Peer(n), NEW h, NEW channels,
         IsTable(channels, Packets), channels[n][m] = net[n][m],
         Finish(n, m, h, channels)
  PROVE  /\ Ends(n, m, h)
         /\ \A k \in Node : \A l \in Peer(k) :
              <<k, l>> # <<n, m>> => /\ Untouched(k, l)
                                     /\ net'[k][l] = channels[k][l]
<1>1. /\ IsTable(conn, GoodConn) /\ IsTable(accepted, Count)
      /\ IsTable(owed, Messages) /\ IsTable(told, Report)
  BY DEF IInv
<1> DEFINE s == Carry(net[n][m] \o h.out)
<1>2. /\ conn' = [conn EXCEPT ![n][m] = h.c]
      /\ net' = [channels EXCEPT ![n][m] = s]
      /\ accepted' = [accepted EXCEPT ![n][m] = h.acc]
      /\ owed' = [owed EXCEPT ![n][m] = h.owed]
      /\ told' = [told EXCEPT ![n][m] = h.told]
  BY DEF Finish
<1> HIDE DEF s
<1>3. Ends(n, m, h)
  <2>1. \A f, x, S : IsTable(f, S) => [f EXCEPT ![n][m] = x][n][m] = x
    BY TableAt
  <2>2. conn'[n][m] = h.c /\ net'[n][m] = s
    BY <1>1, <1>2, <2>1
  <2>3. /\ accepted'[n][m] = h.acc /\ owed'[n][m] = h.owed
        /\ told'[n][m] = h.told
    BY <1>1, <1>2, <2>1
  <2> QED BY <2>2, <2>3 DEF Ends, s
<1>4. ASSUME NEW k \in Node, NEW l \in Peer(k), <<k, l>> # <<n, m>>
      PROVE  Untouched(k, l) /\ net'[k][l] = channels[k][l]
  BY <1>1, <1>2, <1>4, TableAt DEF Untouched
<1> QED BY <1>3, <1>4

\* A handler without a packet.
LEMMA FinishActs ==
  ASSUME IInv, NEW n \in Node, NEW m \in Peer(n), NEW h,
         Finish(n, m, h, net), delivered' = delivered,
         \A S : ClosedUnder(S) /\ Starts(n, m, S) => h \in S
  PROVE  Acts(n, m) /\ Elsewhere(n, m)
<1>1. m \in Node /\ n \in Peer(m) /\ n # m
  BY PeerOfPeer DEF Peer
<1>2. /\ Ends(n, m, h)
      /\ \A k \in Node : \A l \in Peer(k) :
           <<k, l>> # <<n, m>> => Untouched(k, l) /\ net'[k][l] = net[k][l]
  BY FinishEnds DEF IInv
<1>3. \A k \in Node : \A l \in Peer(k) : <<k, l>> # <<n, m>> => Still(k, l)
  BY <1>2 DEF Still
<1>4. Still(m, n)
  BY <1>1, <1>3
<1>5. Elsewhere(n, m)
  BY <1>3 DEF Elsewhere
<1> QED BY <1>2, <1>4, <1>5 DEF Acts

\* Rsendto().
LEMMA RsendtoActs ==
  ASSUME IInv, NEW n \in Node, NEW m \in Peer(n), Rsendto(n, m)
  PROVE  Acts(n, m) /\ Elsewhere(n, m)
<1>1. PICK env \in Environ :
        /\ CanSend(Ctx(n, m, env))
        /\ Finish(n, m, SendNew(Enqueue(Ctx(n, m, env))), net)
  BY DEF Rsendto
<1>2. delivered' = delivered
  BY DEF Rsendto
<1>3. ASSUME NEW S, ClosedUnder(S), Starts(n, m, S)
      PROVE  SendNew(Enqueue(Ctx(n, m, env))) \in S
  BY <1>1, <1>3, SendNewIn DEF Starts
<1> QED BY <1>1, <1>2, <1>3, FinishActs

\* An error of the socket.
LEMMA SocketErrorActs ==
  ASSUME IInv, NEW n \in Node, NEW m \in Peer(n), SocketError(n, m)
  PROVE  Acts(n, m) /\ Elsewhere(n, m)
<1>1. PICK env \in Environ :
        Finish(n, m, closeConnection(Ctx(n, m, env)), net)
  BY DEF SocketError
<1>2. delivered' = delivered
  BY DEF SocketError
<1>3. ASSUME NEW S, ClosedUnder(S), Starts(n, m, S)
      PROVE  closeConnection(Ctx(n, m, env)) \in S
  BY <1>3, CloseIn DEF Starts
<1> QED BY <1>1, <1>2, <1>3, FinishActs

\* closeConnRDP().
LEMMA closeConnRDPActs ==
  ASSUME IInv, NEW n \in Node, NEW m \in Peer(n), closeConnRDP(n, m)
  PROVE  Acts(n, m) /\ Elsewhere(n, m)
<1>1. PICK env \in Environ :
        Finish(n, m, [Reset(Ctx(n, m, env)) EXCEPT !.c.closed = TRUE,
                                                   !.told = "down"], net)
  BY DEF closeConnRDP
<1>2. delivered' = delivered
  BY DEF closeConnRDP
<1>3. ASSUME NEW S, ClosedUnder(S), Starts(n, m, S)
      PROVE  [Reset(Ctx(n, m, env)) EXCEPT !.c.closed = TRUE,
                                           !.told = "down"] \in S
  <2> DEFINE h == Ctx(n, m, env)
  <2>1. h \in S
    BY <1>3 DEF Starts
  <2> HIDE DEF h
  <2>2. [Reset(h) EXCEPT !.c.closed = TRUE, !.told = "down"] \in S
    BY <1>3, <2>1, QuietCloseIn
  <2> QED BY <2>2 DEF h
<1> DEFINE g == [Reset(Ctx(n, m, env)) EXCEPT !.c.closed = TRUE, !.told = "down"]
<1>4. Finish(n, m, g, net) /\ \A S : ClosedUnder(S) /\ Starts(n, m, S) => g \in S
  BY <1>1, <1>3
<1> HIDE DEF g
<1> QED BY <1>2, <1>4, FinishActs

\* RDP_updateNode().
LEMMA updateNodeActs ==
  ASSUME IInv, NEW n \in Node, NEW m \in Peer(n), RDP_updateNode(n, m)
  PROVE  Acts(n, m) /\ Elsewhere(n, m)
<1>1. PICK env \in Environ :
        Finish(n, m, [Readdress(Ctx(n, m, env), ~conn[n][m].known)
                        EXCEPT !.told = "down"], net)
  BY DEF RDP_updateNode
<1>2. delivered' = delivered
  BY DEF RDP_updateNode
<1> DEFINE b == ~conn[n][m].known
           g == [Readdress(Ctx(n, m, env), b) EXCEPT !.told = "down"]
<1>3. Finish(n, m, g, net) /\ b \in BOOLEAN
  BY <1>1
<1> HIDE DEF b
<1>4. ASSUME NEW S, ClosedUnder(S), Starts(n, m, S)
      PROVE  g \in S
  <2> DEFINE h == Ctx(n, m, env)
  <2>1. h \in S
    BY <1>4 DEF Starts
  <2> HIDE DEF h
  <2>2. [Readdress(h, b) EXCEPT !.told = "down"] \in S
    BY <1>3, <1>4, <2>1, ReaddressIn
  <2> QED BY <2>2 DEF h
<1> HIDE DEF g
<1> QED BY <1>2, <1>3, <1>4, FinishActs

\* The network without the oldest packet from m to n.
LEMMA RestAt ==
  ASSUME IInv, NEW n \in Node, NEW m \in Peer(n)
  PROVE  LET rest == [net EXCEPT ![m][n] = Tail(@)]
         IN  /\ m \in Node /\ n \in Peer(m) /\ n # m
             /\ rest[n][m] = net[n][m] /\ rest[m][n] = Tail(net[m][n])
             /\ \A k \in Node : \A l \in Peer(k) :
                  <<k, l>> # <<m, n>> => rest[k][l] = net[k][l]
<1>1. m \in Node /\ n \in Peer(m) /\ n # m
  BY PeerOfPeer DEF Peer
<1>2. IsTable(net, Packets)
  BY DEF IInv
<1> DEFINE t == Tail(net[m][n])
           rest == [net EXCEPT ![m][n] = t]
<1>3. /\ rest[m][n] = t
      /\ \A k \in Node : \A l \in Peer(k) :
           <<k, l>> # <<m, n>> => rest[k][l] = net[k][l]
  <2> HIDE DEF t
  <2> QED BY <1>1, <1>2, TableAt
<1> QED BY <1>1, <1>3

\* A handler of a packet.
LEMMA FinishReceives ==
  ASSUME IInv, NEW n \in Node, NEW m \in Peer(n), NEW h, net[m][n] # << >>,
         Finish(n, m, h, [net EXCEPT ![m][n] = Tail(@)])
  PROVE  /\ Ends(n, m, h)
         /\ net'[m][n] = Tail(net[m][n]) /\ Untouched(m, n)
         /\ \A k \in Node : \A l \in Peer(k) :
              {k, l} # {n, m} => Untouched(k, l) /\ net'[k][l] = net[k][l]
<1> DEFINE rest == [net EXCEPT ![m][n] = Tail(@)]
<1>1. /\ m \in Node /\ n \in Peer(m) /\ n # m
      /\ rest[n][m] = net[n][m] /\ rest[m][n] = Tail(net[m][n])
      /\ \A k \in Node : \A l \in Peer(k) :
           <<k, l>> # <<m, n>> => rest[k][l] = net[k][l]
  BY RestAt
<1>2. IsTable(rest, Packets)
  BY ConsumeType
<1>3. Finish(n, m, h, rest)
  OBVIOUS
<1> HIDE DEF rest
<1>4. /\ Ends(n, m, h)
      /\ \A k \in Node : \A l \in Peer(k) :
           <<k, l>> # <<n, m>> => /\ Untouched(k, l)
                                  /\ net'[k][l] = rest[k][l]
  BY <1>1, <1>2, <1>3, FinishEnds
<1>5. ASSUME NEW k \in Node, NEW l \in Peer(k), {k, l} # {n, m}
      PROVE  Untouched(k, l) /\ net'[k][l] = net[k][l]
  <2>1. <<k, l>> # <<n, m>> /\ <<k, l>> # <<m, n>>
    BY <1>5
  <2> QED BY <1>1, <1>4, <2>1
<1>6. <<m, n>> # <<n, m>>
  BY <1>1
<1> QED BY <1>1, <1>4, <1>5, <1>6

\* A packet that is thrown away.
LEMMA ThrownAway ==
  ASSUME IInv, NEW n \in Node, NEW m \in Peer(n), net[m][n] # << >>,
         net' = [net EXCEPT ![m][n] = Tail(@)],
         UNCHANGED <<conn, accepted, owed, told, delivered>>
  PROVE  Loses(m, n) /\ Elsewhere(n, m)
<1> DEFINE rest == [net EXCEPT ![m][n] = Tail(@)]
<1>1. /\ m \in Node /\ n \in Peer(m) /\ n # m
      /\ rest[n][m] = net[n][m] /\ rest[m][n] = Tail(net[m][n])
      /\ \A k \in Node : \A l \in Peer(k) :
           <<k, l>> # <<m, n>> => rest[k][l] = net[k][l]
  BY RestAt
<1>2. net' = rest
  OBVIOUS
<1> HIDE DEF rest
<1>3. ASSUME NEW k \in Node, NEW l \in Peer(k), <<k, l>> # <<m, n>>
      PROVE  Still(k, l)
  BY <1>1, <1>2, <1>3 DEF Still, Untouched
<1>4. Elsewhere(n, m)
  <2>1. ASSUME NEW k \in Node, NEW l \in Peer(k), {k, l} # {n, m}
        PROVE  <<k, l>> # <<m, n>>
    BY <2>1
  <2> QED BY <1>3, <2>1 DEF Elsewhere
<1>5. Still(n, m) /\ Untouched(m, n)
  <2>1. <<n, m>> # <<m, n>>
    BY <1>1
  <2> QED BY <1>3, <2>1 DEF Untouched
<1> QED BY <1>1, <1>2, <1>4, <1>5 DEF Loses

\* The connection, the queue and the plan a handler starts with.
LEMMA CtxFields ==
  ASSUME NEW n, NEW m, NEW env
  PROVE  LET h == Ctx(n, m, env)
         IN  /\ h.c = conn[n][m] /\ h.out = << >> /\ h.acc = accepted[n][m]
             /\ h.owed = owed[n][m] /\ h.told = told[n][m] /\ h.env = env
BY DEF Ctx

\* handleRDP() of a known sender.
LEMMA ReceiveMoves ==
  ASSUME IInv, NEW n \in Node, NEW m \in Peer(n), Receive(n, m)
  PROVE  (Receives(n, m) \/ Loses(m, n)) /\ Elsewhere(n, m)
<1> DEFINE p == Head(net[m][n])
           rest == [net EXCEPT ![m][n] = Tail(@)]
<1>1. net[m][n] # << >> /\ p \in Packet
  BY ConsumeType DEF Receive
<1>2. CASE conn[n][m].closed
  <2>1. net' = rest /\ UNCHANGED <<conn, accepted, owed, told, delivered>>
    BY <1>2 DEF Receive
  <2> QED BY <1>1, <2>1, ThrownAway
<1>3. CASE ~conn[n][m].closed
  <2>1. PICK env \in Environ :
          LET h == UpdateOrACK(Ctx(n, m, env), p)
              ready == Dispatched(Ctx(n, m, env), p)
          IN  /\ Finish(n, m, HandleRest(h, p, ready), rest)
              /\ delivered' = IF ready /\ Accepts(h, p)
                              THEN [delivered EXCEPT
                                      ![m][n] = Append(@, p.payload)]
                              ELSE delivered
    BY <1>3 DEF Receive
  <2> DEFINE c == Ctx(n, m, env)
             h == UpdateOrACK(c, p)
             ready == Dispatched(c, p)
             g == HandleRest(h, p, ready)
  <2>2. /\ Finish(n, m, g, rest)
        /\ delivered' = IF ready /\ Accepts(h, p)
                        THEN [delivered EXCEPT ![m][n] = Append(@, p.payload)]
                        ELSE delivered
    BY <2>1
  <2>3. c.c = conn[n][m]
    BY CtxFields
  <2>4. ready => /\ p.type = "DATA" /\ conn[n][m].state = "ACTIVE"
                 /\ p.seqno = conn[n][m].frameExpected
    BY <2>3 DEF Dispatched
  <2> HIDE DEF p, c, ready
  <2>5. ASSUME NEW S, NEW T, ClosedFor(S, p), Starts(n, m, S), Acknowledging(T),
               \A x \in S, y \in Context : Advances(x, y, p) => y \in T
        PROVE  g \in IF ready /\ Accepts(h, p) THEN T ELSE S
    <3>1. c \in S /\ ClosedUnder(S)
      BY <2>5 DEF Starts, ClosedFor, c
    <3>2. h \in S
      BY <1>1, <2>5, <3>1, UpdateOrACKIn
    <3> HIDE DEF h
    <3> QED BY <1>1, <2>4, <2>5, <3>1, <3>2, HandleRestIn
  <2> HIDE DEF g, h
  <2>6. /\ Ends(n, m, g)
        /\ net'[m][n] = Tail(net[m][n]) /\ Untouched(m, n)
        /\ \A k \in Node : \A l \in Peer(k) :
             {k, l} # {n, m} => Untouched(k, l) /\ net'[k][l] = net[k][l]
    BY <1>1, <2>2, FinishReceives
  <2>7. m \in Node /\ n \in Peer(m) /\ n # m /\ IsTable(delivered, Seq(Nat))
    BY PeerOfPeer DEF IInv, Peer
  <2>8. /\ \A k \in Node : \A l \in Peer(k) :
             <<k, l>> # <<m, n>> => delivered'[k][l] = delivered[k][l]
        /\ delivered'[m][n] = IF ready /\ Accepts(h, p)
                              THEN Append(delivered[m][n], p.payload)
                              ELSE delivered[m][n]
    <3> DEFINE x == Append(delivered[m][n], p.payload)
    <3>1. CASE ready /\ Accepts(h, p)
      <4>1. delivered' = [delivered EXCEPT ![m][n] = x]
        BY <2>2, <3>1
      <4> HIDE DEF x
      <4>2. \A k \in Node : \A l \in Peer(k) :
              <<k, l>> # <<m, n>> => delivered'[k][l] = delivered[k][l]
        BY <2>7, <4>1, TableAt
      <4>3. delivered'[m][n] = x
        BY <2>7, <4>1, TableAt
      <4> QED BY <3>1, <4>2, <4>3 DEF x
    <3>2. CASE ~(ready /\ Accepts(h, p))
      BY <2>2, <3>2
    <3> QED BY <3>1, <3>2
  <2>9. Elsewhere(n, m)
    <3>1. ASSUME NEW k \in Node, NEW l \in Peer(k), {k, l} # {n, m}
          PROVE  Still(k, l)
      <4>1. <<k, l>> # <<m, n>>
        BY <3>1
      <4> QED BY <2>6, <2>8, <3>1, <4>1 DEF Still
    <3> QED BY <3>1 DEF Elsewhere
  <2>10. delivered'[n][m] = delivered[n][m]
    <3>1. <<n, m>> # <<m, n>>
      BY <2>7
    <3> QED BY <2>8, <3>1
  <2>11. ASSUME NEW S, NEW T, ClosedFor(S, p), Starts(n, m, S), Acknowledging(T),
                \A x \in S, y \in Context : Advances(x, y, p) => y \in T
         PROVE  Handles(n, m, S, T, p)
    <3>1. CASE ready /\ Accepts(h, p)
      <4>1. g \in T
        BY <2>5, <2>11, <3>1
      <4>2. Takes(n, m)
        BY <2>4, <2>8, <3>1 DEF Takes, p
      <4> QED BY <2>6, <4>1, <4>2 DEF Handles
    <3>2. CASE ~(ready /\ Accepts(h, p))
      <4>1. g \in S
        BY <2>5, <2>11, <3>2
      <4> QED BY <2>6, <2>8, <3>2, <4>1 DEF Handles
    <3> QED BY <3>1, <3>2
  <2>12. Receives(n, m)
    BY <1>1, <2>6, <2>10, <2>11 DEF Receives, p
  <2> QED BY <2>9, <2>12
<1> QED BY <1>2, <1>3

\* handleRDP() of an unknown sender.
LEMMA ReceiveUnknownMoves ==
  ASSUME IInv, NEW n \in Node, NEW m \in Peer(n), ReceiveUnknown(n, m)
  PROVE  (Receives(n, m) \/ Loses(m, n)) /\ Elsewhere(n, m)
<1> DEFINE p == Head(net[m][n])
           rest == [net EXCEPT ![m][n] = Tail(@)]
<1>1. net[m][n] # << >> /\ p \in Packet
  BY ConsumeType DEF ReceiveUnknown
<1>2. delivered' = delivered
  BY DEF ReceiveUnknown
<1>3. CASE net' = rest /\ UNCHANGED <<conn, cleanupReq, accepted, owed, told>>
  BY <1>1, <1>2, <1>3, ThrownAway
<1>4. ASSUME NEW env \in Environ,
             LET h == Readdress(Ctx(n, m, env), TRUE)
             IN  Finish(n, m, IF h.c.closed THEN h ELSE updateState(h, p), rest)
      PROVE  Receives(n, m) /\ Elsewhere(n, m)
  <2> DEFINE c == Ctx(n, m, env)
             h == Readdress(c, TRUE)
             g == IF h.c.closed THEN h ELSE updateState(h, p)
  <2>1. Finish(n, m, g, rest)
    BY <1>4
  <2> HIDE DEF p
  <2>2. ASSUME NEW S, ClosedFor(S, p), Starts(n, m, S)
        PROVE  g \in S
    <3>1. c \in S /\ ClosedUnder(S)
      BY <2>2 DEF Starts, ClosedFor
    <3>2. h \in S
      <4> HIDE DEF c
      <4> QED BY <3>1, ReaddressIn
    <3> HIDE DEF h
    <3> QED BY <1>1, <2>2, <3>2, updateStateIn
  <2> HIDE DEF g
  <2>3. /\ Ends(n, m, g)
        /\ net'[m][n] = Tail(net[m][n]) /\ Untouched(m, n)
        /\ \A k \in Node : \A l \in Peer(k) :
             {k, l} # {n, m} => Untouched(k, l) /\ net'[k][l] = net[k][l]
    BY <1>1, <2>1, FinishReceives
  <2>4. Elsewhere(n, m)
    BY <1>2, <2>3 DEF Elsewhere, Still
  <2>5. ASSUME NEW S, NEW T, ClosedFor(S, p), Starts(n, m, S)
        PROVE  Handles(n, m, S, T, p)
    BY <1>2, <2>2, <2>3, <2>5 DEF Handles
  <2>6. Receives(n, m)
    BY <1>1, <1>2, <2>3, <2>5 DEF Receives, p
  <2> QED BY <2>4, <2>6
<1> QED BY <1>3, <1>4 DEF ReceiveUnknown

\* A row of a table that has been changed.
LEMMA RowAt ==
  ASSUME NEW f, NEW S, IsTable(f, S), NEW n \in Node, NEW r,
         NEW k \in Node, NEW l \in Peer(k)
  PROVE  /\ [f EXCEPT ![n] = r][n] = r
         /\ k # n => [f EXCEPT ![n] = r][k][l] = f[k][l]
BY DEF IsTable

\* handleTimeoutRDP() acts on all connections.
LEMMA TimeoutActs ==
  ASSUME IInv, NEW n \in Node, Timeout(n)
  PROVE  /\ \A m \in Peer(n) : Acts(n, m)
         /\ \A k \in Node : \A l \in Peer(k) : k # n => Still(k, l)
<1>1. PICK env \in [Peer(n) -> Environ] :
        LET sent == [m \in Peer(n) |-> TimeoutResend(Ctx(n, m, env[m]))]
        IN  /\ FinishAll(n, IF cleanupReq[n] \/ \E m \in Peer(n) : sent[m].cleanup
                            THEN [m \in Peer(n) |-> Cleanup(sent[m])]
                            ELSE sent)
            /\ delivered' = delivered
  BY DEF Timeout
<1> DEFINE sent == [m \in Peer(n) |-> TimeoutResend(Ctx(n, m, env[m]))]
           swept == [m \in Peer(n) |-> Cleanup(sent[m])]
           done == IF cleanupReq[n] \/ \E m \in Peer(n) : sent[m].cleanup
                   THEN swept ELSE sent
<1>2. FinishAll(n, done) /\ delivered' = delivered
  BY <1>1
<1>3. ASSUME NEW m \in Peer(n), NEW S, ClosedUnder(S), Starts(n, m, S)
      PROVE  done[m] \in S
  <2>1. Ctx(n, m, env[m]) \in S
    BY <1>3 DEF Starts
  <2>2. sent[m] \in S
    BY <1>3, <2>1, TimeoutResendIn
  <2> HIDE DEF sent
  <2>3. swept[m] \in S
    BY <1>3, <2>2, CleanupIn
  <2> QED BY <2>2, <2>3
<1> HIDE DEF done
<1>4. /\ IsTable(conn, GoodConn) /\ IsTable(accepted, Count)
      /\ IsTable(owed, Messages) /\ IsTable(told, Report)
      /\ IsTable(net, Packets)
  BY DEF IInv
<1> DEFINE cs == [m \in Peer(n) |-> done[m].c]
           ns == [m \in Peer(n) |-> Carry(net[n][m] \o done[m].out)]
           as == [m \in Peer(n) |-> done[m].acc]
           os == [m \in Peer(n) |-> done[m].owed]
           ts == [m \in Peer(n) |-> done[m].told]
<1>5. /\ conn' = [conn EXCEPT ![n] = cs] /\ net' = [net EXCEPT ![n] = ns]
      /\ accepted' = [accepted EXCEPT ![n] = as]
      /\ owed' = [owed EXCEPT ![n] = os] /\ told' = [told EXCEPT ![n] = ts]
  BY <1>2 DEF FinishAll
<1>6. ASSUME NEW k \in Node, NEW l \in Peer(k), k # n
      PROVE  Still(k, l)
  <2> HIDE DEF cs, ns, as, os, ts
  <2>1. \A f, S, r : IsTable(f, S) => [f EXCEPT ![n] = r][k][l] = f[k][l]
    BY <1>6, RowAt
  <2>2. conn'[k][l] = conn[k][l] /\ net'[k][l] = net[k][l]
    BY <1>4, <1>5, <2>1
  <2>3. accepted'[k][l] = accepted[k][l] /\ owed'[k][l] = owed[k][l]
    BY <1>4, <1>5, <2>1
  <2>4. told'[k][l] = told[k][l] /\ delivered'[k][l] = delivered[k][l]
    BY <1>2, <1>4, <1>5, <2>1
  <2> QED BY <2>2, <2>3, <2>4 DEF Still, Untouched
<1>7. ASSUME NEW m \in Peer(n)
      PROVE  Acts(n, m)
  <2>1. m \in Node /\ n \in Peer(m) /\ m # n
    BY PeerOfPeer DEF Peer
  <2>2. Still(m, n)
    BY <1>6, <2>1
  <2>3. Ends(n, m, done[m])
    <3>0. /\ cs[m] = done[m].c /\ ns[m] = Carry(net[n][m] \o done[m].out)
          /\ as[m] = done[m].acc /\ os[m] = done[m].owed /\ ts[m] = done[m].told
      OBVIOUS
    <3> HIDE DEF cs, ns, as, os, ts
    <3>1. \A f, S, r : IsTable(f, S) => [f EXCEPT ![n] = r][n] = r
      BY <2>1, RowAt
    <3>2. conn'[n] = cs /\ net'[n] = ns
      BY <1>4, <1>5, <3>1
    <3>3. accepted'[n] = as /\ owed'[n] = os
      BY <1>4, <1>5, <3>1
    <3>4. told'[n] = ts
      BY <1>4, <1>5, <3>1
    <3> QED BY <3>0, <3>2, <3>3, <3>4 DEF Ends
  <2>4. delivered'[n][m] = delivered[n][m]
    BY <1>2
  <2> QED BY <1>3, <2>2, <2>3, <2>4 DEF Acts
<1> QED BY <1>6, <1>7

\* The timers of a connection.
LEMMA ElapseTicks ==
  ASSUME IInv, NEW n \in Node, NEW m \in Peer(n),
         ElapseResend(n, m) \/ ElapseClosed(n, m)
  PROVE  Ticks(n, m) /\ Elsewhere(n, m)
<1> DEFINE c == conn[n][m]
           no == FALSE
           d == [c EXCEPT !.tmout = no]
           e == [c EXCEPT !.closed = no]
<1>1. c \in Conn /\ IsTable(conn, GoodConn) /\ m \in Node /\ n \in Peer(m) /\ n # m
  BY TableEntryType, ConnFields, PeerOfPeer DEF IInv, Peer
<1>2. PICK x \in {d, e} : conn' = [conn EXCEPT ![n][m] = x]
  BY DEF ElapseResend, ElapseClosed
<1>3. UNCHANGED <<net, accepted, owed, told, delivered>>
  BY DEF ElapseResend, ElapseClosed
<1> HIDE DEF no
<1>4. /\ SameNumbers(c, x) /\ x.state = c.state
      /\ x.ConnID_out = c.ConnID_out
  <2> HIDE DEF c
  <2> QED BY <1>1, <1>2 DEF Conn, SameNumbers
<1>5. conn'[n][m] = x
  BY <1>1, <1>2, TableAt
<1>6. \A k \in Node : \A l \in Peer(k) :
        <<k, l>> # <<n, m>> => conn'[k][l] = conn[k][l]
  BY <1>1, <1>2, TableAt
<1>7. \A k \in Node : \A l \in Peer(k) : <<k, l>> # <<n, m>> => Still(k, l)
  BY <1>3, <1>6 DEF Still, Untouched
<1>8. Elsewhere(n, m)
  BY <1>7 DEF Elsewhere
<1>9. Still(m, n)
  <2>1. <<m, n>> # <<n, m>>
    BY <1>1
  <2> QED BY <1>1, <1>7, <2>1
<1> QED BY <1>3, <1>4, <1>5, <1>8, <1>9 DEF Ticks

\* The network.
LEMMA NetworkMoves ==
  ASSUME IInv, NEW n \in Node, NEW m \in Peer(n), Lose(n, m) \/ Reorder(n, m)
  PROVE  (Loses(n, m) \/ Swaps(n, m)) /\ Elsewhere(n, m)
<1>1. /\ IsTable(net, Packets) /\ m \in Node /\ n \in Peer(m) /\ n # m
      /\ net[n][m] \in Seq(Packet)
  BY PeerOfPeer, TableEntryType DEF IInv, Peer, Packets
<1>2. UNCHANGED <<conn, accepted, owed, told, delivered>>
  BY DEF Lose, Reorder
<1>3. ASSUME NEW s, net' = [net EXCEPT ![n][m] = s]
      PROVE  /\ net'[n][m] = s /\ Still(m, n) /\ Elsewhere(n, m)
             /\ Untouched(n, m) /\ delivered'[n][m] = delivered[n][m]
  <2>1. net'[n][m] = s
    BY <1>1, <1>3, TableAt
  <2>2. \A k \in Node : \A l \in Peer(k) :
          <<k, l>> # <<n, m>> => net'[k][l] = net[k][l]
    BY <1>1, <1>3, TableAt
  <2>3. \A k \in Node : \A l \in Peer(k) : <<k, l>> # <<n, m>> => Still(k, l)
    BY <1>2, <2>2 DEF Still, Untouched
  <2>4. Elsewhere(n, m)
    BY <2>3 DEF Elsewhere
  <2>5. <<m, n>> # <<n, m>>
    BY <1>1
  <2> QED BY <1>1, <1>2, <2>1, <2>3, <2>4, <2>5 DEF Untouched
<1>4. CASE Lose(n, m)
  <2> DEFINE t == Tail(net[n][m])
  <2>1. net[n][m] # << >> /\ net' = [net EXCEPT ![n][m] = t]
    BY <1>4 DEF Lose
  <2> HIDE DEF t
  <2>2. Loses(n, m) /\ Elsewhere(n, m)
    BY <1>3, <2>1 DEF Loses, t
  <2> QED BY <2>2
<1>5. CASE Reorder(n, m)
  <2> DEFINE s == net[n][m]
  <2>1. PICK i \in 2 .. Len(s) :
          net' = [net EXCEPT ![n][m] = [@ EXCEPT ![i - 1] = s[i], ![i] = s[i - 1]]]
    BY <1>5 DEF Reorder
  <2> DEFINE r == [s EXCEPT ![i - 1] = s[i], ![i] = s[i - 1]]
  <2>2. net' = [net EXCEPT ![n][m] = r]
    BY <2>1
  <2>3. \A j \in DOMAIN r : \E k \in DOMAIN s : r[j] = s[k]
    <3>1. DOMAIN s = 1 .. Len(s) /\ Len(s) \in Nat
      BY <1>1, LenProperties
    <3> HIDE DEF s
    <3> QED BY <3>1
  <2>4. "reorder" \in Fault
    BY <1>5 DEF Reorder, FaultHappens
  <2> HIDE DEF r
  <2>5. net'[n][m] = r
    BY <1>3, <2>2
  <2>6. Swaps(n, m)
    BY <1>3, <2>2, <2>3, <2>4, <2>5 DEF Swaps
  <2> QED BY <1>3, <2>2, <2>6
<1> QED BY <1>4, <1>5

\* A psid that starts again forgets all connections.
LEMMA RestartRestarts ==
  ASSUME IInv, NEW n \in Node, Restart(n)
  PROVE  /\ \A m \in Peer(n) : Restarts(n, m)
         /\ \A k \in Node : \A l \in Peer(k) : k # n => Still(k, l)
<1>1. PICK fts \in FirstToSend, fe \in FirstExpected, env \in Environ :
        conn' = [conn EXCEPT ![n] =
                   [m \in Peer(n) |-> InitConn(fts, fe, random(Ctx(n, m, env)))]]
  BY DEF Restart
<1> DEFINE cs == [m \in Peer(n) |-> InitConn(fts, fe, random(Ctx(n, m, env)))]
           os == [m \in Peer(n) |-> {}]
           ts == [m \in Peer(n) |-> "down"]
<1>2. /\ conn' = [conn EXCEPT ![n] = cs] /\ owed' = [owed EXCEPT ![n] = os]
      /\ told' = [told EXCEPT ![n] = ts]
      /\ UNCHANGED <<net, accepted, delivered>> /\ "restart" \in Fault
  BY <1>1 DEF Restart, FaultHappens
<1>3. /\ IsTable(conn, GoodConn) /\ IsTable(owed, Messages)
      /\ IsTable(told, Report)
  BY DEF IInv
<1>4. \A m \in Peer(n) :
        /\ \E id \in ConnId : cs[m] = InitConn(fts, fe, id)
        /\ os[m] = {} /\ ts[m] = "down"
  BY RandomType
<1> HIDE DEF cs, os, ts
<1>5. ASSUME NEW k \in Node, NEW l \in Peer(k), k # n
      PROVE  Still(k, l)
  <2>1. \A f, S, r : IsTable(f, S) => [f EXCEPT ![n] = r][k][l] = f[k][l]
    BY <1>5, RowAt
  <2>2. conn'[k][l] = conn[k][l] /\ owed'[k][l] = owed[k][l]
    BY <1>2, <1>3, <2>1
  <2>3. told'[k][l] = told[k][l]
    BY <1>2, <1>3, <2>1
  <2> QED BY <1>2, <2>2, <2>3 DEF Still, Untouched
<1>6. ASSUME NEW m \in Peer(n)
      PROVE  Restarts(n, m)
  <2>1. m \in Node /\ n \in Peer(m) /\ m # n
    BY PeerOfPeer DEF Peer
  <2>2. Still(m, n)
    BY <1>5, <2>1
  <2>3. \A f, S, r : IsTable(f, S) => [f EXCEPT ![n] = r][n] = r
    BY <2>1, RowAt
  <2>4. conn'[n] = cs /\ owed'[n] = os
    BY <1>2, <1>3, <2>3
  <2>5. told'[n] = ts
    BY <1>2, <1>3, <2>3
  <2> QED BY <1>2, <1>4, <2>2, <2>4, <2>5 DEF Restarts
<1> QED BY <1>5, <1>6

\* Every step, seen from every pair.
LEMMA StepIsPairStep ==
  ASSUME IInv, [Next]_vars, NEW a \in Node, NEW b \in Peer(a)
  PROVE  PairStep(a, b)
<1>1. b \in Node /\ a \in Peer(b) /\ a # b
  BY PeerOfPeer DEF Peer
<1>2. ASSUME NEW n \in Node, Timeout(n) \/ Restart(n)
      PROVE  PairStep(a, b)
  <2>1. /\ \A m \in Peer(n) : Moves(n, m)
        /\ \A k \in Node : \A l \in Peer(k) : k # n => Still(k, l)
    BY <1>2, TimeoutActs, RestartRestarts DEF Moves
  <2>2. CASE a = n
    BY <2>1, <2>2 DEF PairStep
  <2>3. CASE b = n
    BY <1>1, <2>1, <2>3 DEF PairStep
  <2>4. CASE a # n /\ b # n
    BY <1>1, <2>1, <2>4 DEF PairStep
  <2> QED BY <2>2, <2>3, <2>4
<1>3. ASSUME NEW n \in Node, NEW m \in Peer(n),
             Moves(n, m) \/ Moves(m, n), Elsewhere(n, m)
      PROVE  PairStep(a, b)
  <2>1. CASE {a, b} = {n, m}
    <3>1. (a = n /\ b = m) \/ (a = m /\ b = n)
      BY <2>1
    <3> QED BY <1>3, <3>1 DEF PairStep
  <2>2. CASE {a, b} # {n, m}
    <3>1. {b, a} # {n, m}
      BY <2>2
    <3> QED BY <1>1, <1>3, <2>2, <3>1 DEF PairStep, Elsewhere
  <2> QED BY <2>1, <2>2
<1>4. ASSUME NEW n \in Node, NEW m \in Peer(n),
             \/ Rsendto(n, m) \/ Receive(n, m) \/ ReceiveUnknown(n, m)
             \/ ElapseResend(n, m) \/ ElapseClosed(n, m)
             \/ SocketError(n, m) \/ closeConnRDP(n, m) \/ RDP_updateNode(n, m)
             \/ Lose(n, m) \/ Reorder(n, m)
      PROVE  PairStep(a, b)
  <2>1. (Moves(n, m) \/ Moves(m, n)) /\ Elsewhere(n, m)
    BY <1>4, RsendtoActs, ReceiveMoves, ReceiveUnknownMoves, ElapseTicks,
       SocketErrorActs, closeConnRDPActs, updateNodeActs, NetworkMoves
       DEF Moves
  <2> QED BY <1>3, <2>1
<1>5. CASE UNCHANGED vars
  BY <1>5 DEF vars, PairStep, Still, Untouched
<1> QED BY <1>2, <1>4, <1>5 DEF Next

=============================================================================
