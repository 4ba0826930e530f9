---------------------------- MODULE RDPLinkProof ----------------------------
(***************************************************************************)
(* RDP implements a reliable link, checked by TLAPS: no acknowledgment     *)
(* covers a message that has not been delivered, and each step is one that *)
(* ReliableLink allows.                                                    *)
(*                                                                         *)
(* The invariant Linked relates what is under way in both directions to    *)
(* the queue of the sender: each message on its way is still in the queue  *)
(* or has a number below those of the queue, and no number expected by the *)
(* receiver or acknowledged in a packet under way is beyond a message in   *)
(* the queue that has not been received.                                   *)
(***************************************************************************)
EXTENDS RDPQueueProof

\* The message with payload x has been received.
Got(got, x) == \E i \in DOMAIN got : got[i] = x

\* What a packet p of the sender c may carry: a SYN or SYNACK starts not beyond
\* the queue, a message is in the queue, or behind it.
Onward(p, c) ==
  /\ Sync(p) => p.seqno <= c.ackExpected
  /\ Data(p) => \/ p.seqno < c.ackExpected
                \/ /\ c.state = "ACTIVE"
                   /\ \E l \in Live(c) : /\ c.pendList[l].seqno = p.seqno
                                         /\ c.pendList[l].payload = p.payload

\* All that c has in its queue below the number q has been received.
Valid(c, got, q) ==
  /\ q <= c.frameToSend
  /\ \A l \in Live(c) : c.pendList[l].seqno < q => Got(got, c.pendList[l].payload)

\* What a packet p acknowledges has been received.
Back(p, c, got) == ~Sync(p) => Valid(c, got, p.ackno + 1)

\* A message owed has been received, or will be sent again.
Kept(c, got, x) ==
  Got(got, x) \/ \E l \in Live(c) : c.pendList[l].payload = x

\* What the receiver r expects, as soon as it has heard of the sender.
Expects(c, r, got) == r.ConnID_in # NoConn => Valid(c, got, r.frameExpected)

\* Who has a connection has heard of the peer.
Entered(r) == r.state \in {"SYN_RECVD", "ACTIVE"} => r.ConnID_in # NoConn

\* The packets w from the sender c to the receiver r, which has got got, the
\* packets v back, and the messages owed.
Linked(w, v, c, r, got, ow) ==
  /\ \A i \in 1..Len(w) : Onward(w[i], c)
  /\ \A i \in 1..Len(v) : Back(v[i], c, got)
  /\ Expects(c, r, got)
  /\ \A x \in ow : Kept(c, got, x)

PairLinked(n, m) ==
  /\ Linked(net[n][m], net[m][n], conn[n][m], conn[m][n], delivered[n][m],
            owed[n][m])
  /\ Entered(conn[n][m])

AllLinked == \A n \in Node : \A m \in Peer(n) : PairLinked(n, m)

-----------------------------------------------------------------------------
(* The queue.                                                              *)

\* The live messages are numbered from ackExpected to frameToSend + msgPending.
LEMMA NumberedFacts ==
  ASSUME NEW c \in GoodConn, Numbered(c)
  PROVE  /\ c.ackExpected \in Int /\ c.frameToSend \in Int /\ c.msgPending \in Nat
         /\ c.ackExpected <= c.frameToSend
         /\ c.state # "ACTIVE" => c.ackExpected = c.frameToSend
         /\ \A l \in Live(c) :
              /\ c.pendList[l].seqno \in Int
              /\ c.ackExpected <= c.pendList[l].seqno
              /\ c.state = "ACTIVE" => c.pendList[l].seqno < c.frameToSend
         /\ \A k, l \in Live(c) : c.pendList[k].seqno = c.pendList[l].seqno => k = l
<1>1. PICK d \in 0..Len(c.pendList) : NumberedBy(c, d)
  BY DEF Numbered
<1>2. /\ Len(c.pendList) \in Nat /\ DOMAIN c.pendList = 1..Len(c.pendList)
      /\ c.ackExpected \in Int /\ c.frameToSend \in Int /\ c.msgPending \in Nat
      /\ d \in Nat
  BY MessageFields, ConnFields
<1>3. /\ c.ackExpected + (Len(c.pendList) - d) = c.frameToSend + c.msgPending
      /\ c.msgPending = IF c.state = "ACTIVE" THEN 0 ELSE Len(c.pendList) - d
  BY <1>1 DEF NumberedBy, RunsFrom
<1>4. ASSUME NEW l \in Live(c)
      PROVE  /\ l \in Nat /\ l > d /\ l <= Len(c.pendList)
             /\ c.pendList[l].seqno = c.ackExpected + (l - d - 1)
  BY <1>1, <1>2 DEF NumberedBy, RunsFrom, Live
<1>5. c.ackExpected <= c.frameToSend
  <2>1. CASE c.state = "ACTIVE"
    BY <1>2, <1>3, <2>1
  <2>2. CASE c.state # "ACTIVE"
    BY <1>2, <1>3, <2>2
  <2> QED BY <2>1, <2>2
<1>6. c.state # "ACTIVE" => c.ackExpected = c.frameToSend
  BY <1>2, <1>3
<1>7. ASSUME NEW l \in Live(c)
      PROVE  /\ c.pendList[l].seqno \in Int
             /\ c.ackExpected <= c.pendList[l].seqno
             /\ c.state = "ACTIVE" => c.pendList[l].seqno < c.frameToSend
  <2> DEFINE x == c.pendList[l].seqno
             N == Len(c.pendList)
  <2>1. /\ l \in Nat /\ l > d /\ l <= N /\ N \in Nat
        /\ x = c.ackExpected + (l - d - 1)
    BY <1>2, <1>4
  <2> HIDE DEF x, N
  <2>2. x \in Int /\ c.ackExpected <= x
    BY <1>2, <2>1
  <2>3. ASSUME c.state = "ACTIVE" PROVE x < c.frameToSend
    BY <1>2, <1>3, <2>1, <2>3 DEF N
  <2> QED BY <2>2, <2>3 DEF x
<1>8. ASSUME NEW k \in Live(c), NEW l \in Live(c),
             c.pendList[k].seqno = c.pendList[l].seqno
      PROVE  k = l
  <2> DEFINE e == c.ackExpected
             x == c.pendList[k].seqno
  <2>1. /\ k \in Nat /\ l \in Nat /\ d \in Nat /\ e \in Int
        /\ x = e + (k - d - 1) /\ x = e + (l - d - 1)
    BY <1>2, <1>4, <1>8
  <2> HIDE DEF e, x
  <2> QED BY <2>1
<1> QED BY <1>2, <1>5, <1>6, <1>7, <1>8

\* Nothing gets lost between the connections c and d of the sender: what was
\* true of a packet, a number or a message still is.
Advance(c, d, got) ==
  /\ \A p \in Packet : Onward(p, c) => Onward(p, d)
  /\ \A q \in Int : Valid(c, got, q) => Valid(d, got, q)
  /\ \A x : Kept(c, got, x) => Kept(d, got, x)

\* The queue has kept its live messages, and no number has decreased.
LEMMA RestAdvance ==
  ASSUME NEW c \in GoodConn, NEW d \in GoodConn, NEW got,
         NEW k \in 0..Len(c.pendList),
         Len(d.pendList) = Len(c.pendList) - k,
         \A i \in 1..Len(d.pendList) : d.pendList[i] = c.pendList[i + k],
         \A l \in Live(c) : l <= k =>
           /\ Got(got, c.pendList[l].payload)
           /\ c.pendList[l].seqno < d.ackExpected,
         c.ackExpected <= d.ackExpected, c.frameToSend <= d.frameToSend,
         c.state = "ACTIVE" => d.state = "ACTIVE"
  PROVE  Advance(c, d, got)
<1>1. /\ Len(c.pendList) \in Nat /\ DOMAIN c.pendList = 1..Len(c.pendList)
      /\ Len(d.pendList) \in Nat /\ DOMAIN d.pendList = 1..Len(d.pendList)
      /\ c.ackExpected \in Int /\ d.ackExpected \in Int
      /\ c.frameToSend \in Int /\ d.frameToSend \in Int
  BY MessageFields, ConnFields
<1>2. ASSUME NEW l \in Live(d)
      PROVE  l + k \in Live(c) /\ d.pendList[l] = c.pendList[l + k]
  <2>1. l \in 1..Len(d.pendList) /\ ~d.pendList[l].deleted
    BY <1>1 DEF Live
  <2>2. d.pendList[l] = c.pendList[l + k] /\ l + k \in 1..Len(c.pendList)
    BY <1>1, <2>1
  <2> QED BY <1>1, <2>1, <2>2 DEF Live
<1>3. ASSUME NEW l \in Live(c), ~(l <= k)
      PROVE  \E i \in Live(d) : d.pendList[i] = c.pendList[l]
  <2>1. /\ l \in 1..Len(c.pendList) /\ k \in Nat /\ ~c.pendList[l].deleted
    BY <1>1 DEF Live
  <2>2. l - k \in 1..Len(d.pendList) /\ (l - k) + k = l
    BY <1>1, <1>3, <2>1
  <2>3. d.pendList[l - k] = c.pendList[l]
    BY <2>2
  <2>4. l - k \in Live(d)
    BY <1>1, <2>1, <2>2, <2>3 DEF Live
  <2> QED BY <2>3, <2>4
<1>4. ASSUME NEW p \in Packet, Onward(p, c)
      PROVE  Onward(p, d)
  <2>1. p.seqno \in Int
    BY DEF Packet
  <2>2. Sync(p) => p.seqno <= d.ackExpected
    BY <1>1, <1>4, <2>1 DEF Onward
  <2>3. ASSUME Data(p), p.seqno < c.ackExpected
        PROVE  p.seqno < d.ackExpected
    BY <1>1, <2>1, <2>3
  <2>4. ASSUME Data(p), c.state = "ACTIVE", NEW l \in Live(c),
               c.pendList[l].seqno = p.seqno, c.pendList[l].payload = p.payload
        PROVE  \/ p.seqno < d.ackExpected
               \/ /\ d.state = "ACTIVE"
                  /\ \E i \in Live(d) : /\ d.pendList[i].seqno = p.seqno
                                        /\ d.pendList[i].payload = p.payload
    BY <1>3, <2>4
  <2> QED BY <1>4, <2>2, <2>3, <2>4 DEF Onward
<1>5. ASSUME NEW q \in Int, Valid(c, got, q)
      PROVE  Valid(d, got, q)
  <2>1. q <= d.frameToSend
    BY <1>1, <1>5 DEF Valid
  <2> QED BY <1>2, <1>5, <2>1 DEF Valid
<1>6. ASSUME NEW x, Kept(c, got, x)
      PROVE  Kept(d, got, x)
  <2>1. CASE Got(got, x)
    BY <2>1 DEF Kept
  <2>2. ASSUME NEW l \in Live(c), c.pendList[l].payload = x
        PROVE  Kept(d, got, x)
    BY <1>3, <2>2 DEF Kept
  <2> QED BY <1>6, <2>1, <2>2 DEF Kept
<1> QED BY <1>4, <1>5, <1>6 DEF Advance

\* The queue has not changed.
LEMMA SameAdvance ==
  ASSUME NEW c \in GoodConn, NEW d \in GoodConn, NEW got,
         d.pendList = c.pendList, d.ackExpected = c.ackExpected,
         c.frameToSend <= d.frameToSend, c.state = "ACTIVE" => d.state = "ACTIVE"
  PROVE  Advance(c, d, got)
<1>1. Len(c.pendList) \in Nat /\ c.ackExpected \in Int
  BY MessageFields, ConnFields
<1>2. /\ 0 \in 0..Len(c.pendList) /\ Len(d.pendList) = Len(c.pendList) - 0
      /\ \A i \in 1..Len(d.pendList) : d.pendList[i] = c.pendList[i + 0]
      /\ \A l \in Live(c) : ~(l <= 0)
      /\ c.ackExpected <= d.ackExpected
  BY <1>1, MessageFields DEF Live
<1> QED BY <1>2, RestAdvance

\* The link holds for what the sender has become.
LEMMA AdvanceLinked ==
  ASSUME NEW w \in Packets, NEW v \in Packets, NEW c \in GoodConn,
         NEW d \in GoodConn, NEW r \in GoodConn, NEW got, NEW ow,
         Linked(w, v, c, r, got, ow), Advance(c, d, got)
  PROVE  Linked(w, v, d, r, got, ow)
<1>1. /\ \A i \in 1..Len(w) : w[i] \in Packet
      /\ \A i \in 1..Len(v) : v[i] \in Packet
  BY PacketFields
<1>2. \A p \in Packet : p.ackno + 1 \in Int
  BY DEF Packet
<1>3. r.frameExpected \in Int
  BY ConnFields
<1>4. \A i \in 1..Len(w) : Onward(w[i], d)
  BY <1>1 DEF Linked, Advance
<1>5. \A i \in 1..Len(v) : Back(v[i], d, got)
  BY <1>1, <1>2 DEF Linked, Advance, Back
<1>6. Expects(d, r, got)
  BY <1>3 DEF Linked, Advance, Expects
<1>7. \A x \in ow : Kept(d, got, x)
  BY DEF Linked, Advance
<1> QED BY <1>4, <1>5, <1>6, <1>7 DEF Linked

-----------------------------------------------------------------------------
(* Packets.                                                                *)

\* Every packet of v is one of w.
Among(v, w) ==
  v \in Packets /\ \A i \in 1..Len(v) : \E j \in 1..Len(w) : v[i] = w[j]

LEMMA PartAmong ==
  ASSUME NEW w \in Packets, NEW v, Part(v, w)
  PROVE  Among(v, w)
<1>1. PICK o \in 0..Len(w) :
        \A i \in 1..Len(v) : i + o \in 1..Len(w) /\ v[i] = w[i + o]
  BY DEF Part
<1> QED BY <1>1 DEF Part, Among

\* The link holds for fewer packets.
LEMMA AmongLinked ==
  ASSUME NEW w \in Packets, NEW v \in Packets, NEW x, NEW y, Among(x, w),
         Among(y, v), NEW c, NEW r, NEW got, NEW ow, Linked(w, v, c, r, got, ow)
  PROVE  Linked(x, y, c, r, got, ow)
<1>1. ASSUME NEW i \in 1..Len(x) PROVE Onward(x[i], c)
  BY DEF Among, Linked
<1>2. ASSUME NEW i \in 1..Len(y) PROVE Back(y[i], c, got)
  BY DEF Among, Linked
<1> QED BY <1>1, <1>2 DEF Linked

\* The link holds for more packets from the sender.
LEMMA MoreOnward ==
  ASSUME NEW w \in Packets, NEW s \in Packets, NEW v, NEW c, NEW r, NEW got,
         NEW ow, Linked(w, v, c, r, got, ow), \A i \in 1..Len(s) : Onward(s[i], c)
  PROVE  Linked(w \o s, v, c, r, got, ow)
<1> DEFINE t == w \o s
<1>1. /\ Len(t) = Len(w) + Len(s) /\ Len(w) \in Nat /\ Len(s) \in Nat
      /\ \A i \in 1..Len(w) : t[i] = w[i]
      /\ \A i \in (Len(w) + 1)..Len(t) :
           i - Len(w) \in 1..Len(s) /\ t[i] = s[i - Len(w)]
  BY ConcatAt
<1> HIDE DEF t
<1>2. ASSUME NEW i \in 1..Len(t)
      PROVE  Onward(t[i], c)
  <2>1. CASE i \in 1..Len(w)
    BY <1>1, <2>1 DEF Linked
  <2>2. CASE i \in (Len(w) + 1)..Len(t)
    BY <1>1, <2>2
  <2> QED BY <1>1, <2>1, <2>2
<1>3. Linked(t, v, c, r, got, ow)
  BY <1>2 DEF Linked
<1> QED BY <1>3 DEF t

\* The link holds for more packets back to the sender.
LEMMA MoreBack ==
  ASSUME NEW v \in Packets, NEW s \in Packets, NEW w, NEW c, NEW r, NEW got,
         NEW ow, Linked(w, v, c, r, got, ow), \A i \in 1..Len(s) : Back(s[i], c, got)
  PROVE  Linked(w, v \o s, c, r, got, ow)
<1> DEFINE t == v \o s
<1>1. /\ Len(t) = Len(v) + Len(s) /\ Len(v) \in Nat /\ Len(s) \in Nat
      /\ \A i \in 1..Len(v) : t[i] = v[i]
      /\ \A i \in (Len(v) + 1)..Len(t) :
           i - Len(v) \in 1..Len(s) /\ t[i] = s[i - Len(v)]
  BY ConcatAt
<1> HIDE DEF t
<1>2. ASSUME NEW i \in 1..Len(t)
      PROVE  Back(t[i], c, got)
  <2>1. CASE i \in 1..Len(v)
    BY <1>1, <2>1 DEF Linked
  <2>2. CASE i \in (Len(v) + 1)..Len(t)
    BY <1>1, <2>2
  <2> QED BY <1>1, <2>1, <2>2
<1>3. Linked(w, t, c, r, got, ow)
  BY <1>2 DEF Linked
<1> QED BY <1>3 DEF t

\* What is sent in order starts not beyond the queue, or is in it.
LEMMA SentOnward ==
  ASSUME NEW h \in Context, Numbered(h.c), NEW s \in Packets,
         s = <<ACK(h.c)>> \/ Lawful(h, s)
  PROVE  \A i \in 1..Len(s) : Onward(s[i], h.c)
<1> SUFFICES ASSUME NEW i \in 1..Len(s) PROVE Onward(s[i], h.c)
  OBVIOUS
<1>1. h.c \in GoodConn
  BY ContextFields
<1>2. h.c.state # "ACTIVE" => h.c.frameToSend <= h.c.ackExpected
  BY <1>1, NumberedFacts
<1>3. CASE s = << >>
  BY <1>3
<1>4. CASE s = <<SYN(h.c)>> /\ h.c.state = "SYN_SENT"
  BY <1>2, <1>4 DEF SYN, Onward, Data
<1>5. CASE s = <<SYNACK(h.c)>> /\ h.c.state = "SYN_RECVD"
  BY <1>2, <1>5 DEF SYNACK, Onward, Data
<1>6. CASE s = <<ACK(h.c)>> \/ s = <<NACK(h.c)>>
  BY <1>6 DEF ACK, NACK, Onward, Data, Sync
<1>7. CASE Burst(h.c, s) /\ h.c.state = "ACTIVE"
  <2>1. i \in DOMAIN s
    BY DEF Packets
  <2>2. PICK l \in Live(h.c) : s[i] = DATA(h.c, h.c.pendList[l])
    BY <1>7, <2>1 DEF Burst
  <2> QED BY <1>7, <2>2 DEF DATA, Onward, Sync
<1> QED BY <1>3, <1>4, <1>5, <1>6, <1>7 DEF Lawful

\* What is sent acknowledges what is expected.
LEMMA SentBack ==
  ASSUME NEW h \in Context, NEW s \in Packets, NEW r, NEW got,
         Expects(r, h.c, got),
         \/ s = <<ACK(h.c)>> /\ h.c.ConnID_in # NoConn
         \/ Lawful(h, s) /\ Entered(h.c)
  PROVE  \A i \in 1..Len(s) : Back(s[i], r, got)
<1> SUFFICES ASSUME NEW i \in 1..Len(s) PROVE Back(s[i], r, got)
  OBVIOUS
<1>1. h.c.frameExpected \in Int
  BY ContextFields, ConnFields
<1>2. ASSUME h.c.ConnID_in # NoConn, s[i].ackno = h.c.frameExpected - 1
      PROVE  Back(s[i], r, got)
  <2>1. s[i].ackno + 1 = h.c.frameExpected
    BY <1>1, <1>2
  <2> QED BY <1>2, <2>1 DEF Expects, Back
<1>3. CASE s = << >>
  BY <1>3
<1>4. CASE s = <<SYN(h.c)>> \/ s = <<SYNACK(h.c)>>
  BY <1>4 DEF SYN, SYNACK, Back, Sync
<1>5. CASE (s = <<ACK(h.c)>> \/ s = <<NACK(h.c)>>) /\ h.c.ConnID_in # NoConn
  BY <1>2, <1>5 DEF ACK, NACK
<1>6. CASE Burst(h.c, s) /\ h.c.ConnID_in # NoConn
  <2>1. i \in DOMAIN s
    BY DEF Packets
  <2>2. PICK l \in Live(h.c) : s[i] = DATA(h.c, h.c.pendList[l])
    BY <1>6, <2>1 DEF Burst
  <2> QED BY <1>2, <1>6, <2>2 DEF DATA
<1> QED BY <1>3, <1>4, <1>5, <1>6 DEF Lawful, Entered

-----------------------------------------------------------------------------
(* Handlers.                                                               *)

\* The contexts of a handler of a node that sends, behind the packets w, to the
\* node r, which has got got; v are the packets under way from r, of the
\* messages of which the handler's node has got own.  If heard is TRUE, it has
\* heard of r before.
LinkContext(w, v, r, got, own, heard) ==
  {h \in NumberedContext :
     /\ h.env.closes => h.env.fail <= 1
     /\ Linked(w \o h.out, v, h.c, r, got, h.owed)
     /\ \A i \in 1..Len(h.out) : Back(h.out[i], r, own)
     /\ Expects(r, h.c, own) /\ Entered(h.c)
     /\ heard => h.c.ConnID_in # NoConn}

\* A message is accepted.
LEMMA QueuesAdvance ==
  ASSUME NEW h \in Context, NEW g \in Context, Queues(h, g), NEW got
  PROVE  Advance(h.c, g.c, got) /\ Kept(g.c, got, h.acc + 1)
<1> DEFINE s == h.c.pendList
           t == g.c.pendList
           n == Len(s) + 1
<1>1. /\ h.c.frameToSend \in Int /\ h.c.msgPending \in Nat
      /\ h.c.ackExpected \in Int /\ g.c.frameToSend \in Int
  BY ContextFields, ConnFields
<1>2. /\ Len(s) \in Nat /\ DOMAIN s = 1..Len(s) /\ DOMAIN t = 1..Len(t)
      /\ s \in Seq(MsgBuf)
  BY ContextFields, MessageFields
<1>3. /\ Len(t) = n /\ t[n].payload = h.acc + 1 /\ ~t[n].deleted
      /\ t[n].seqno = h.c.frameToSend + h.c.msgPending
      /\ \A i \in 1..Len(s) : t[i] = s[i]
  BY <1>2 DEF Queues, NewBuffer
<1>4. /\ g.c.state = "ACTIVE" <=> h.c.state = "ACTIVE"
      /\ g.c.ackExpected = h.c.ackExpected
      /\ h.c.frameToSend <= g.c.frameToSend
  BY <1>1 DEF Queues
<1>l. /\ Live(h.c) = {i \in 1..Len(s) : ~s[i].deleted}
      /\ Live(g.c) = {i \in 1..n : ~t[i].deleted}
  BY <1>2, <1>3 DEF Live
<1>n. n = Len(s) + 1
  OBVIOUS
<1> HIDE DEF s, t, n
<1>5. n \in Live(g.c) /\ \A l \in Live(h.c) : l \in Live(g.c) /\ t[l] = s[l]
  BY <1>2, <1>3, <1>l, <1>n
<1>6. \A l \in Live(g.c) : l = n \/ (l \in Live(h.c) /\ t[l] = s[l])
  BY <1>2, <1>3, <1>l, <1>n
<1>7. ASSUME NEW p \in Packet, Onward(p, h.c) PROVE Onward(p, g.c)
  BY <1>4, <1>5, <1>7 DEF Onward, s, t
<1>8. ASSUME NEW q \in Int, Valid(h.c, got, q) PROVE Valid(g.c, got, q)
  <2>1. q <= h.c.frameToSend /\ q <= g.c.frameToSend
    BY <1>1, <1>4, <1>8 DEF Valid
  <2>2. ~(t[n].seqno < q)
    BY <1>1, <1>3, <2>1
  <2> QED BY <1>6, <1>8, <2>1, <2>2 DEF Valid, s, t
<1>9. ASSUME NEW x, Kept(h.c, got, x) PROVE Kept(g.c, got, x)
  BY <1>5, <1>9 DEF Kept, s, t
<1>10. Kept(g.c, got, h.acc + 1)
  BY <1>3, <1>5 DEF Kept, t
<1> QED BY <1>7, <1>8, <1>9, <1>10 DEF Advance

\* A connection is closed: its messages are given back, their numbers count as
\* acknowledged.
LEMMA ClosesLinked ==
  ASSUME NEW h \in Context, NEW g \in Context, Numbered(h.c), Numbered(g.c),
         NEW s, Closes(h, g, s), NEW w \in Packets, NEW v \in Packets,
         NEW r \in GoodConn, NEW got, Linked(w, v, h.c, r, got, h.owed)
  PROVE  Linked(w, v, g.c, r, got, g.owed)
<1>1. h.c \in GoodConn /\ g.c \in GoodConn
  BY ContextFields
<1>2. /\ h.c.ackExpected \in Int /\ h.c.frameToSend \in Int
      /\ h.c.ackExpected <= h.c.frameToSend
      /\ h.c.state = "ACTIVE" =>
           \A l \in Live(h.c) : h.c.pendList[l].seqno < h.c.frameToSend
  BY <1>1, NumberedFacts
<1>3. /\ g.c.state = "CLOSED" /\ g.c.ackExpected = h.c.frameToSend
      /\ g.c.frameToSend = h.c.frameToSend
      /\ g.owed = h.owed \ {h.c.pendList[i].payload : i \in Live(h.c)}
  BY DEF Closes
<1>4. Live(g.c) = {}
  BY <1>1, <1>3, ClosedEmpty
<1>5. ASSUME NEW i \in 1..Len(w)
      PROVE  Onward(w[i], g.c)
  <2>1. Onward(w[i], h.c) /\ w[i].seqno \in Int
    BY PacketFields DEF Linked, Packet
  <2> DEFINE q == w[i].seqno
  <2>2. ASSUME q <= h.c.ackExpected PROVE q <= g.c.ackExpected
    BY <1>2, <1>3, <2>1, <2>2
  <2>3. ASSUME q < h.c.ackExpected PROVE q < g.c.ackExpected
    BY <1>2, <1>3, <2>1, <2>3
  <2>4. ASSUME h.c.state = "ACTIVE", NEW l \in Live(h.c),
               h.c.pendList[l].seqno = q
        PROVE  q < g.c.ackExpected
    BY <1>2, <1>3, <2>4
  <2> HIDE DEF q
  <2> QED BY <2>1, <2>2, <2>3, <2>4 DEF Onward, q
<1>6. \A q : Valid(h.c, got, q) => Valid(g.c, got, q)
  BY <1>3, <1>4 DEF Valid
<1>7. ASSUME NEW x \in g.owed
      PROVE  Kept(g.c, got, x)
  BY <1>3, <1>7 DEF Linked, Kept
<1> QED BY <1>5, <1>6, <1>7 DEF Linked, Back, Expects

\* What a packet acknowledges has been received.
LEMMA FreesAdvance ==
  ASSUME NEW h \in Context, NEW g \in Context, NEW p \in Packet, Numbered(h.c),
         Frees(h, g, p), NEW got, Back(p, h.c, got)
  PROVE  Advance(h.c, g.c, got)
<1> DEFINE c == h.c
           d == g.c
           j == FreedBy(c.pendList, p.ackno)
<1>1. PICK k \in 0..Len(c.pendList) : NumberedBy(c, k)
  BY DEF Numbered
<1>2. /\ j \in 0..Len(c.pendList)
      /\ \A i \in 1..j : c.pendList[i].deleted \/ c.pendList[i].seqno <= p.ackno
      /\ d.pendList = SubSeq(c.pendList, j + 1, Len(c.pendList))
      /\ d.ackExpected = c.ackExpected + (IF j > k THEN j - k ELSE 0)
      /\ d.frameToSend = c.frameToSend /\ d.state = c.state
  BY <1>1, FreesFields
<1>3. c \in GoodConn /\ d \in GoodConn
  BY ContextFields
<1>4. Valid(c, got, p.ackno + 1) /\ p.ackno \in Int
  BY DEF Frees, Discards, Back, Sync, Packet
<1> HIDE DEF c, d, j
<1>5. /\ c.pendList \in Seq(MsgBuf) /\ Len(c.pendList) \in Nat
      /\ DOMAIN c.pendList = 1..Len(c.pendList)
      /\ c.ackExpected \in Int /\ c.frameToSend \in Int /\ k \in Nat /\ j \in Nat
  BY <1>2, <1>3, ConnFields, MessageFields
<1>6. /\ Len(d.pendList) = Len(c.pendList) - j
      /\ \A i \in 1..Len(d.pendList) : d.pendList[i] = c.pendList[i + j]
  BY <1>2, <1>5, SubSeqFields
<1>7. ASSUME NEW l \in Live(c), l <= j
      PROVE  /\ Got(got, c.pendList[l].payload)
             /\ c.pendList[l].seqno < d.ackExpected
  <2>1. l \in 1..Len(c.pendList) /\ l \in 1..j /\ ~c.pendList[l].deleted /\ l > k
    BY <1>1, <1>5, <1>7 DEF Live, NumberedBy, RunsFrom
  <2>2. /\ c.pendList[l].seqno = c.ackExpected + (l - k - 1)
        /\ c.pendList[l].seqno <= p.ackno
    BY <1>1, <1>2, <1>5, <2>1 DEF NumberedBy, RunsFrom
  <2> DEFINE q == c.pendList[l].seqno
  <2>3. q = c.ackExpected + (l - k - 1) /\ q <= p.ackno /\ l \in Int
    BY <2>1, <2>2
  <2> HIDE DEF q
  <2>4. q < p.ackno + 1 /\ q < d.ackExpected
    BY <1>2, <1>4, <1>5, <1>7, <2>1, <2>3
  <2> QED BY <1>4, <2>4 DEF Valid, q
<1>8. c.ackExpected <= d.ackExpected /\ c.frameToSend <= d.frameToSend
  BY <1>2, <1>5
<1>9. Advance(c, d, got)
  BY <1>2, <1>3, <1>6, <1>7, <1>8, RestAdvance
<1> QED BY <1>9 DEF c, d

\* A SYN or SYNACK of r makes the receiver expect no message beyond the queue.
LEMMA AdoptsExpects ==
  ASSUME NEW r \in GoodConn, Numbered(r), NEW p \in Packet, Onward(p, r), Sync(p),
         NEW d, d.frameExpected = p.seqno, NEW got
  PROVE  Expects(r, d, got)
<1>1. /\ r.ackExpected \in Int /\ r.frameToSend \in Int
      /\ r.ackExpected <= r.frameToSend /\ p.seqno \in Int
      /\ p.seqno <= r.ackExpected
  BY NumberedFacts DEF Onward, Packet
<1>2. \A l \in Live(r) : /\ r.pendList[l].seqno \in Int
                         /\ r.ackExpected <= r.pendList[l].seqno
  BY NumberedFacts
<1>3. \A l \in Live(r) : ~(r.pendList[l].seqno < p.seqno)
  BY <1>1, <1>2
<1>4. p.seqno <= r.frameToSend
  BY <1>1
<1> QED BY <1>3, <1>4 DEF Expects, Valid

\* One more message has been received.
LEMMA GotMore ==
  ASSUME NEW got \in Seq(Nat), NEW y \in Nat
  PROVE  /\ \A x : Got(got, x) => Got(Append(got, y), x)
         /\ Got(Append(got, y), y)
<1> DEFINE more == Append(got, y)
<1>1. /\ Len(got) \in Nat /\ DOMAIN got = 1..Len(got)
      /\ DOMAIN more = 1..(Len(got) + 1)
      /\ \A i \in 1..Len(got) : more[i] = got[i]
      /\ more[Len(got) + 1] = y
  OBVIOUS
<1> HIDE DEF more
<1>2. \A i \in DOMAIN got : i \in DOMAIN more /\ more[i] = got[i]
  BY <1>1
<1>3. Len(got) + 1 \in DOMAIN more
  BY <1>1
<1>4. (\A x : Got(got, x) => Got(more, x)) /\ Got(more, y)
  BY <1>1, <1>2, <1>3 DEF Got
<1> QED BY <1>4 DEF more

\* The message of r in p is received.
LEMMA AdvancesExpects ==
  ASSUME NEW r \in GoodConn, Numbered(r), NEW p \in Packet, Onward(p, r), Data(p),
         NEW got \in Seq(Nat), Valid(r, got, p.seqno)
  PROVE  Valid(r, Append(got, p.payload), p.seqno + 1)
<1> DEFINE more == Append(got, p.payload)
<1>1. (\A x : Got(got, x) => Got(more, x)) /\ Got(more, p.payload)
  BY GotMore DEF Packet
<1> HIDE DEF more
<1>2. /\ r.ackExpected \in Int /\ r.frameToSend \in Int /\ p.seqno \in Int
      /\ r.ackExpected <= r.frameToSend
  BY NumberedFacts DEF Packet
<1>3. /\ \A l \in Live(r) :
           /\ r.pendList[l].seqno \in Int
           /\ r.ackExpected <= r.pendList[l].seqno
           /\ r.state = "ACTIVE" => r.pendList[l].seqno < r.frameToSend
      /\ \A k, l \in Live(r) : r.pendList[k].seqno = r.pendList[l].seqno => k = l
  BY NumberedFacts
<1>4. CASE p.seqno < r.ackExpected
  <2>1. p.seqno + 1 <= r.frameToSend
    BY <1>2, <1>4
  <2>2. \A l \in Live(r) : ~(r.pendList[l].seqno < p.seqno + 1)
    BY <1>2, <1>3, <1>4
  <2> QED BY <2>1, <2>2 DEF Valid, more
<1>5. ASSUME r.state = "ACTIVE", NEW l \in Live(r), r.pendList[l].seqno = p.seqno,
             r.pendList[l].payload = p.payload
      PROVE  Valid(r, more, p.seqno + 1)
  <2>1. p.seqno + 1 <= r.frameToSend
    BY <1>2, <1>3, <1>5
  <2>2. ASSUME NEW k \in Live(r), r.pendList[k].seqno < p.seqno + 1
        PROVE  Got(more, r.pendList[k].payload)
    <3>1. CASE r.pendList[k].seqno < p.seqno
      BY <1>1, <3>1 DEF Valid
    <3>2. CASE r.pendList[k].seqno = p.seqno
      <4>1. k = l
        BY <1>3, <1>5, <3>2
      <4> QED BY <1>1, <1>5, <4>1
    <3> QED BY <1>2, <1>3, <2>2, <3>1, <3>2
  <2> QED BY <2>1, <2>2 DEF Valid
<1> QED BY <1>4, <1>5 DEF Onward, more

\* No handler breaks the link, as far as it does not receive a message.
LEMMA LinkedClosed ==
  ASSUME NEW w \in Packets, NEW v \in Packets, NEW r \in GoodConn, Numbered(r),
         NEW got, NEW own, NEW heard \in BOOLEAN
  PROVE  LET S == LinkContext(w, v, r, got, own, heard)
         IN  /\ ClosedUnder(S)
             /\ heard => Acknowledging(S)
             /\ \A i \in 1..Len(v) : Onward(v[i], r) => ClosedFor(S, v[i])
<1> DEFINE S == LinkContext(w, v, r, got, own, heard)
           Joined(h) == Linked(w \o h.out, v, h.c, r, got, h.owed)
           Answers(h) == \A i \in 1..Len(h.out) : Back(h.out[i], r, own)
           Hears(h) == /\ Expects(r, h.c, own) /\ Entered(h.c)
                       /\ heard => h.c.ConnID_in # NoConn
<1>1. ASSUME NEW h \in S
      PROVE  /\ h \in Context /\ h \in NumberedContext /\ Numbered(h.c)
             /\ h.env.closes => h.env.fail <= 1
             /\ Joined(h) /\ Answers(h) /\ Hears(h) /\ h.c \in GoodConn
             /\ h.out \in Packets /\ w \o h.out \in Packets
             /\ h.env.react # "LOST"
  <2>1. /\ h \in Context /\ h \in NumberedContext /\ Numbered(h.c)
        /\ h.env.closes => h.env.fail <= 1
        /\ Joined(h) /\ Answers(h) /\ Hears(h) /\ h.env.react # "LOST"
    BY DEF LinkContext, NumberedContext
  <2>2. h.out \in Packets /\ h.c \in GoodConn
    BY <2>1, ContextFields DEF Packets
  <2>3. w \o h.out \in Packets
    BY <2>2, ConcatAt
  <2> QED BY <2>1, <2>2, <2>3
<1>2. ASSUME NEW h \in S, NEW g \in NumberedContext, Passes(h, g),
             Joined(g), Answers(g), Hears(g)
      PROVE  g \in S
  <2>1. g.env.closes => g.env.fail <= 1
    <3>1. /\ g.env.fail \in Nat /\ h.env.fail \in Nat
          /\ g.env.closes \in BOOLEAN /\ h.env.closes \in BOOLEAN
      BY <1>1, ContextFields DEF NumberedContext
    <3>2. h.env.closes => h.env.fail <= 1
      BY <1>1
    <3>3. /\ g.env.closes = h.env.closes
          /\ g.env.fail <= h.env.fail \/ g.env.fail = 1
      BY <1>2 DEF Passes
    <3> QED BY <3>1, <3>2, <3>3
  <2> QED BY <1>2, <2>1 DEF LinkContext
<1>3. ASSUME NEW h \in S, NEW g \in NumberedContext, Advance(h.c, g.c, got),
             NEW u \in Packets, Linked(u, v, h.c, r, got, h.owed),
             NEW ow, \A x \in ow : x \in h.owed \/ Kept(g.c, got, x)
      PROVE  Linked(u, v, g.c, r, got, ow)
  <2>1. g.c \in GoodConn
    BY ContextFields DEF NumberedContext
  <2>2. Linked(u, v, g.c, r, got, h.owed)
    BY <1>1, <1>3, <2>1, AdvanceLinked
  <2> QED BY <1>3, <2>2 DEF Linked
<1>4. ASSUME NEW h \in S, NEW g,
             g.c.frameExpected = h.c.frameExpected,
             g.c.ConnID_in = h.c.ConnID_in,
             \/ g.c.state \in {h.c.state, "CLOSED", "SYN_SENT"}
             \/ h.c.state = "SYN_RECVD"
      PROVE  Hears(g)
  BY <1>1, <1>4 DEF Expects, Entered
<1>5. ClosedUnder(NumberedContext) /\ Acknowledging(NumberedContext)
      /\ \A p \in Packet : ClosedFor(NumberedContext, p)
  BY NumberedClosed DEF Closed
<1> HIDE DEF S, Hears
<1>6. ASSUME NEW h \in S, NEW g \in NumberedContext, Passes(h, g), Hears(g),
             g.out = h.out, g.owed = h.owed, Advance(h.c, g.c, got)
      PROVE  g \in S
  <2>1. Joined(g)
    BY <1>1, <1>3, <1>6
  <2>2. Answers(g)
    BY <1>1, <1>6
  <2> QED BY <1>2, <1>6, <2>1, <2>2
<1>7. ASSUME NEW h \in S, NEW g \in Context, NEW s \in Packets, Sends(h, g, s),
             Lawful(h, s) \/ (heard /\ s = <<ACK(h.c)>>)
      PROVE  g \in S
  <2>1. g \in NumberedContext
    BY <1>1, <1>5, <1>7 DEF ClosedUnder, Acknowledging
  <2>2. g.out = h.out \o s /\ g.owed = h.owed /\ Passes(h, g)
    BY <1>7 DEF Sends
  <2>3. /\ g.c.pendList = h.c.pendList /\ g.c.ackExpected = h.c.ackExpected
        /\ g.c.frameToSend = h.c.frameToSend /\ g.c.state = h.c.state
        /\ g.c.frameExpected = h.c.frameExpected /\ g.c.ConnID_in = h.c.ConnID_in
    BY <1>7 DEF Sends, SameNumbers
  <2>4. Hears(g)
    BY <1>4, <2>3
  <2>5. Advance(h.c, g.c, got)
    <3>1. g.c \in GoodConn /\ h.c \in GoodConn /\ h.c.frameToSend \in Int
      BY <1>1, ContextFields, ConnFields
    <3>2. h.c.frameToSend <= g.c.frameToSend
      BY <2>3, <3>1
    <3> QED BY <2>3, <3>1, <3>2, SameAdvance
  <2>6. Answers(g)
    <3>1. \A i \in 1..Len(s) : Back(s[i], r, own)
      <4>1. Expects(r, h.c, own) /\ Entered(h.c) /\ (heard => h.c.ConnID_in # NoConn)
        BY <1>1 DEF Hears
      <4> QED BY <1>1, <1>7, <4>1, SentBack
    <3> DEFINE t == h.out \o s
    <3>2. /\ Len(t) = Len(h.out) + Len(s) /\ Len(h.out) \in Nat /\ Len(s) \in Nat
          /\ \A i \in 1..Len(h.out) : t[i] = h.out[i]
          /\ \A i \in (Len(h.out) + 1)..Len(t) :
               i - Len(h.out) \in 1..Len(s) /\ t[i] = s[i - Len(h.out)]
      BY <1>1, ConcatAt
    <3>3. \A i \in 1..Len(h.out) : Back(h.out[i], r, own)
      BY <1>1
    <3> HIDE DEF t
    <3>4. \A i \in 1..Len(t) : Back(t[i], r, own)
      <4> TAKE i \in 1..Len(t)
      <4>1. i \in 1..Len(h.out) \/ i \in (Len(h.out) + 1)..Len(t)
        BY <3>2
      <4> QED BY <3>1, <3>2, <3>3, <4>1
    <3> QED BY <2>2, <3>4 DEF t
  <2>7. Joined(g)
    <3>1. \A i \in 1..Len(s) : Onward(s[i], h.c)
      BY <1>1, <1>7, SentOnward
    <3>2. Linked((w \o h.out) \o s, v, h.c, r, got, h.owed)
      BY <1>1, <3>1, MoreOnward
    <3>3. (w \o h.out) \o s = w \o (h.out \o s)
      <4>1. \A a, b, d \in Seq(Packet) : (a \o b) \o d = a \o (b \o d)
        BY ConcatAssociative
      <4>2. w \in Seq(Packet) /\ h.out \in Seq(Packet) /\ s \in Seq(Packet)
        BY <1>1 DEF Packets
      <4> QED BY <4>1, <4>2, Zenon
    <3>4. w \o g.out \in Packets
      <4>1. g.out \in Packets
        BY ContextFields DEF Packets
      <4> QED BY <4>1, ConcatAt
    <3>5. Linked(w \o g.out, v, h.c, r, got, h.owed)
      BY <2>2, <3>2, <3>3
    <3> QED BY <1>3, <2>1, <2>2, <2>5, <3>4, <3>5
  <2> QED BY <1>2, <2>1, <2>2, <2>4, <2>6, <2>7
<1>8. ASSUME NEW h \in S, NEW g \in Context, NEW s \in Packets, Closes(h, g, s),
             CutShort(h, s)
      PROVE  g \in S
  <2>1. g \in NumberedContext /\ Numbered(g.c)
    BY <1>1, <1>5, <1>8 DEF ClosedUnder, NumberedContext
  <2>2. s = << >>
    <3>1. Len(s) \in Nat /\ h.env.fail \in Nat /\ s \in Seq(Packet)
      BY <1>1, ContextFields, LenProperties DEF Packets
    <3>2. ASSUME Len(s) = 0 PROVE s = << >>
      BY <3>1, <3>2, EmptySeq
    <3> QED BY <1>1, <1>8, <3>1, <3>2 DEF CutShort
  <2>3. g.out = h.out
    <3>1. h.out \o << >> = h.out
      BY <1>1, NothingSent
    <3> QED BY <1>8, <2>2, <3>1 DEF Closes
  <2>4. Joined(g)
    <3>1. Linked(w \o h.out, v, g.c, r, got, g.owed)
      BY <1>1, <1>8, <2>1, ClosesLinked
    <3> QED BY <2>3, <3>1
  <2>5. Hears(g) /\ Passes(h, g) /\ Answers(g)
    BY <1>1, <1>4, <1>8, <2>3 DEF Closes
  <2> QED BY <1>2, <2>1, <2>4, <2>5
<1>9. ASSUME NEW h \in S, NEW g \in Context, Queues(h, g)
      PROVE  g \in S
  <2>1. g \in NumberedContext
    BY <1>1, <1>5, <1>9 DEF ClosedUnder
  <2>2. /\ g.out = h.out /\ g.owed = h.owed \cup {h.acc + 1} /\ Passes(h, g)
        /\ g.c.frameExpected = h.c.frameExpected
        /\ g.c.ConnID_in = h.c.ConnID_in
        /\ g.c.state \in {h.c.state, "SYN_SENT"}
    BY <1>9 DEF Queues
  <2>3. Hears(g)
    BY <1>4, <2>2
  <2>4. Advance(h.c, g.c, got) /\ Kept(g.c, got, h.acc + 1)
    BY <1>1, <1>9, QueuesAdvance
  <2>5. Joined(g)
    BY <1>1, <1>3, <2>1, <2>2, <2>4
  <2>6. Answers(g)
    BY <1>1, <2>2
  <2> QED BY <1>2, <2>1, <2>2, <2>3, <2>5, <2>6
<1>10. ASSUME NEW h \in S, NEW g \in Context, g \in NumberedContext, Passes(h, g),
              g.out = h.out, g.owed = h.owed, Hears(g),
              g.c.pendList = h.c.pendList, g.c.ackExpected = h.c.ackExpected,
              h.c.frameToSend <= g.c.frameToSend,
              h.c.state = "ACTIVE" => g.c.state = "ACTIVE"
       PROVE  g \in S
  <2>1. h.c \in GoodConn /\ g.c \in GoodConn
    BY <1>1, ContextFields
  <2>2. Advance(h.c, g.c, got)
    BY <1>10, <2>1, SameAdvance
  <2> QED BY <1>6, <1>10, <2>2
<1>11. \A h \in S : h.c.frameToSend \in Int /\ h.c.msgPending \in Nat
  BY <1>1, ConnFields
<1>12. ASSUME NEW h \in S, NEW g \in Context, Requests(h, g)
       PROVE  g \in S
  <2>1. g \in NumberedContext
    BY <1>1, <1>5, <1>12 DEF ClosedUnder
  <2>2. /\ g.out = h.out /\ g.owed = h.owed /\ h.c.state # "ACTIVE" /\ Passes(h, g)
        /\ g.c.state = "SYN_SENT" /\ g.c.pendList = h.c.pendList
        /\ g.c.ackExpected = h.c.ackExpected /\ g.c.frameToSend = h.c.frameToSend
        /\ g.c.frameExpected = h.c.frameExpected /\ g.c.ConnID_in = h.c.ConnID_in
    BY <1>12 DEF Requests, OnlyConn, SameNumbers
  <2>3. Hears(g) /\ h.c.frameToSend <= g.c.frameToSend
    BY <1>4, <1>11, <2>2
  <2> QED BY <1>10, <2>1, <2>2, <2>3
<1>13. ASSUME NEW h \in S, NEW g \in Context, Establishes(h, g)
       PROVE  g \in S
  <2>1. g \in NumberedContext
    BY <1>1, <1>5, <1>13 DEF ClosedUnder
  <2>2. g.out = h.out /\ g.owed = h.owed /\ Passes(h, g)
    BY <1>13 DEF Establishes
  <2>3. /\ g.c.pendList = h.c.pendList /\ h.c.state = "SYN_RECVD"
        /\ g.c.frameExpected = h.c.frameExpected /\ g.c.ConnID_in = h.c.ConnID_in
        /\ g.c.frameToSend = h.c.frameToSend + h.c.msgPending
        /\ g.c.ackExpected = h.c.ackExpected
    BY <1>1, <1>13, EstablishesFields
  <2>4. Hears(g) /\ h.c.frameToSend <= g.c.frameToSend
    BY <1>4, <1>11, <2>3
  <2> QED BY <1>10, <2>1, <2>2, <2>3, <2>4
<1>14. ASSUME NEW h \in S, NEW g \in Context, NEW k, Drops(h, g, k)
       PROVE  g \in S
  <2>1. g \in NumberedContext
    BY <1>1, <1>5, <1>14 DEF ClosedUnder
  <2>2. g.out = h.out /\ g.owed = h.owed /\ Passes(h, g)
    BY <1>14 DEF Drops, OnlyConn
  <2>3. /\ g.c.state = h.c.state /\ k \in 0..Len(h.c.pendList)
        /\ \A i \in 1..k : h.c.pendList[i].deleted
        /\ Len(g.c.pendList) = Len(h.c.pendList) - k
        /\ \A i \in 1..Len(g.c.pendList) : g.c.pendList[i] = h.c.pendList[i + k]
        /\ g.c.frameExpected = h.c.frameExpected /\ g.c.ConnID_in = h.c.ConnID_in
        /\ g.c.frameToSend = h.c.frameToSend /\ g.c.ackExpected = h.c.ackExpected
    BY <1>1, <1>14, DropsFields
  <2>4. Advance(h.c, g.c, got)
    <3>1. /\ h.c \in GoodConn /\ g.c \in GoodConn /\ h.c.frameToSend \in Int
          /\ h.c.ackExpected \in Int /\ Len(h.c.pendList) \in Nat
          /\ DOMAIN h.c.pendList = 1..Len(h.c.pendList)
      BY <1>1, ContextFields, ConnFields, MessageFields
    <3>2. \A l \in Live(h.c) : ~(l <= k)
      BY <2>3, <3>1 DEF Live
    <3>3. /\ h.c.ackExpected <= g.c.ackExpected
          /\ h.c.frameToSend <= g.c.frameToSend
      BY <2>3, <3>1
    <3> QED BY <2>3, <3>1, <3>2, <3>3, RestAdvance
  <2>5. Hears(g)
    BY <1>4, <2>3
  <2> QED BY <1>6, <2>1, <2>2, <2>4, <2>5
<1>15. ClosedUnder(S)
  <2>1. S \subseteq Context /\ \A h \in S : h.env.react # "LOST"
    BY <1>1
  <2> QED BY <1>7, <1>8, <1>9, <1>12, <1>13, <1>14, <2>1 DEF ClosedUnder
<1>16. ASSUME heard
       PROVE  Acknowledging(S)
  <2> SUFFICES ASSUME NEW h \in S, NEW g \in Context, Sends(h, g, <<ACK(h.c)>>)
               PROVE  g \in S
    BY <1>15 DEF Acknowledging
  <2>1. <<ACK(h.c)>> \in Packets
    BY <1>1, ControlType DEF Packets
  <2> QED BY <1>7, <1>16, <2>1
<1>17. ASSUME NEW j \in 1..Len(v), Onward(v[j], r)
       PROVE  ClosedFor(S, v[j])
  <2> DEFINE p == v[j]
  <2>1. p \in Packet
    BY PacketFields
  <2> HIDE DEF p
  <2>2. ASSUME NEW h \in S, NEW g \in Context, Adopts(h, g, p)
        PROVE  g \in S
    <3>1. g \in NumberedContext
      BY <1>1, <1>5, <2>1, <2>2 DEF ClosedFor
    <3>2. g.out = h.out /\ g.owed = h.owed /\ Passes(h, g)
      BY <2>2 DEF Adopts, OnlyConn
    <3>3. /\ g.c.pendList = h.c.pendList /\ Sync(p) /\ h.c.state # "ACTIVE"
          /\ g.c.frameExpected = p.seqno /\ g.c.ConnID_in = p.connid
          /\ g.c.frameToSend = h.c.frameToSend
          /\ g.c.ackExpected = h.c.ackExpected
      BY <1>1, <2>2, AdoptsFields
    <3>4. Expects(r, g.c, own)
      BY <1>17, <2>1, <3>3, AdoptsExpects DEF p
    <3>5. p.connid # NoConn
      BY <2>1, ConnIdAssumption DEF Packet, NoConn
    <3>6. Hears(g)
      BY <3>3, <3>4, <3>5 DEF Hears, Entered
    <3>7. h.c.frameToSend <= g.c.frameToSend
      BY <1>11, <3>3
    <3> QED BY <1>10, <3>1, <3>2, <3>3, <3>6, <3>7
  <2>3. ASSUME NEW h \in S, NEW g \in Context, Frees(h, g, p)
        PROVE  g \in S
    <3>1. g \in NumberedContext
      BY <1>1, <1>5, <2>1, <2>3 DEF ClosedFor
    <3>2. g.out = h.out /\ g.owed = h.owed /\ Passes(h, g)
      BY <2>3 DEF Frees, Discards, OnlyConn
    <3>3. Back(p, h.c, got)
      BY <1>1 DEF Linked, p
    <3>4. Advance(h.c, g.c, got)
      BY <1>1, <2>1, <2>3, <3>3, FreesAdvance
    <3>5. /\ g.c.state = h.c.state /\ g.c.frameExpected = h.c.frameExpected
          /\ g.c.ConnID_in = h.c.ConnID_in
      <4>1. PICK k \in 0..Len(h.c.pendList) : NumberedBy(h.c, k)
        BY <1>1 DEF Numbered
      <4> QED BY <1>1, <2>1, <2>3, <4>1, FreesFields
    <3>6. Hears(g)
      BY <1>4, <3>5
    <3> QED BY <1>6, <3>1, <3>2, <3>4, <3>6
  <2>4. ClosedFor(S, p)
    BY <1>15, <2>2, <2>3 DEF ClosedFor
  <2> QED BY <2>4 DEF p
<1> QED BY <1>15, <1>16, <1>17 DEF S

\* Whatever more has been received, all that had been received still is.
LEMMA GrownLinked ==
  ASSUME NEW w, NEW v, NEW c, NEW r, NEW d, NEW got, NEW more, NEW ow,
         Linked(w, v, c, r, got, ow), \A x : Got(got, x) => Got(more, x),
         Expects(c, d, more)
  PROVE  Linked(w, v, c, d, more, ow)
BY DEF Linked, Back, Valid, Kept

\* Behind a message of r the handler may acknowledge it.
LEMMA AdvancesLinked ==
  ASSUME NEW w \in Packets, NEW v \in Packets, NEW r \in GoodConn, Numbered(r),
         NEW got, NEW own \in Seq(Nat),
         NEW h \in LinkContext(w, v, r, got, own, TRUE), NEW g \in Context,
         NEW p \in Packet, Onward(p, r), Data(p), Advances(h, g, p)
  PROVE  g \in LinkContext(w, v, r, got, Append(own, p.payload), TRUE)
<1> DEFINE more == Append(own, p.payload)
<1>1. /\ h \in Context /\ h \in NumberedContext /\ Numbered(h.c)
      /\ h.env.closes => h.env.fail <= 1
      /\ Linked(w \o h.out, v, h.c, r, got, h.owed)
      /\ \A i \in 1..Len(h.out) : Back(h.out[i], r, own)
      /\ Expects(r, h.c, own) /\ Entered(h.c) /\ h.c.ConnID_in # NoConn
  BY DEF LinkContext, NumberedContext
<1>2. g \in NumberedContext
  BY <1>1, NumberedClosed DEF Closed
<1>3. g.out = h.out /\ g.owed = h.owed /\ Passes(h, g)
  BY DEF Advances, OnlyConn
<1>4. /\ g.c.pendList = h.c.pendList /\ g.c.state = h.c.state
      /\ h.c.frameExpected = p.seqno
      /\ g.c.frameExpected = h.c.frameExpected + 1
      /\ g.c.frameToSend = h.c.frameToSend
      /\ g.c.ackExpected = h.c.ackExpected
      /\ g.c.ConnID_in = h.c.ConnID_in
  BY <1>1, AdvancesFields
<1>5. h.c \in GoodConn /\ g.c \in GoodConn /\ h.out \in Packets
  BY <1>1, ContextFields DEF Packets
<1>6. /\ \A x : Got(own, x) => Got(more, x)
      /\ p.payload \in Nat
  BY GotMore DEF Packet
<1>7. g.env.closes => g.env.fail <= 1
  <2>1. /\ g.env.fail \in Nat /\ h.env.fail \in Nat
        /\ g.env.closes \in BOOLEAN /\ h.env.closes \in BOOLEAN
    BY <1>1, ContextFields
  <2>2. /\ g.env.closes = h.env.closes
        /\ g.env.fail <= h.env.fail \/ g.env.fail = 1
    BY <1>3 DEF Passes
  <2> QED BY <1>1, <2>1, <2>2
<1>8. Linked(w \o g.out, v, g.c, r, got, g.owed)
  <2>1. Advance(h.c, g.c, got)
    <3>1. h.c.frameToSend <= g.c.frameToSend
      BY <1>4, <1>5, ConnFields
    <3> QED BY <1>4, <1>5, <3>1, SameAdvance
  <2>2. w \o h.out \in Packets
    BY <1>5, ConcatAt
  <2> QED BY <1>1, <1>3, <1>5, <2>1, <2>2, AdvanceLinked
<1>9. Expects(r, g.c, more)
  <2>1. Valid(r, own, p.seqno)
    BY <1>1, <1>4 DEF Expects
  <2>2. Valid(r, more, p.seqno + 1)
    BY <2>1, AdvancesExpects
  <2> QED BY <1>4, <2>2 DEF Expects
<1>10. \A i \in 1..Len(g.out) : Back(g.out[i], r, more)
  BY <1>1, <1>3, <1>6 DEF Back, Valid
<1>11. Entered(g.c) /\ g.c.ConnID_in # NoConn
  BY <1>1, <1>4 DEF Entered
<1> HIDE DEF more
<1>12. g \in LinkContext(w, v, r, got, more, TRUE)
  BY <1>2, <1>7, <1>8, <1>9, <1>10, <1>11 DEF LinkContext
<1> QED BY <1>12 DEF more

-----------------------------------------------------------------------------
(* Steps.                                                                  *)

\* What the psid does in its callbacks and what may fail inside of a handler:
\* no Rsendto() to a peer just lost, and an error that closes the connection
\* strikes the first send of a handler, if any.
Tame == \A env \in Environ : env.react # "LOST" /\ (env.closes => env.fail <= 1)

\* A handler starts with the link intact.
LEMMA StartsLinked ==
  ASSUME Tame, IInv, AllNumbered, NEW n \in Node, NEW m \in Peer(n),
         PairLinked(n, m), PairLinked(m, n),
         NEW heard \in BOOLEAN, heard => conn[n][m].ConnID_in # NoConn
  PROVE  Starts(n, m, LinkContext(net[n][m], net[m][n], conn[m][n],
                                  delivered[n][m], delivered[m][n], heard))
<1> DEFINE S == LinkContext(net[n][m], net[m][n], conn[m][n],
                            delivered[n][m], delivered[m][n], heard)
<1> SUFFICES ASSUME NEW env \in Environ
             PROVE  Ctx(n, m, env) \in S
  BY DEF Starts
<1> DEFINE h == Ctx(n, m, env)
<1>1. h \in Context
  BY CtxType
<1>2. h.c = conn[n][m] /\ h.out = << >> /\ h.owed = owed[n][m] /\ h.env = env
  BY CtxFields
<1>3. Numbered(conn[n][m]) /\ net[n][m] \in Packets
  BY PairFields DEF AllNumbered
<1>4. net[n][m] \o << >> = net[n][m]
  BY <1>3, NothingSent
<1> HIDE DEF h
<1>5. h \in NumberedContext
  BY <1>1, <1>2, <1>3 DEF NumberedContext, Tame
<1>6. Linked(net[n][m] \o h.out, net[m][n], h.c, conn[m][n], delivered[n][m], h.owed)
  BY <1>2, <1>4 DEF PairLinked
<1>7. Expects(conn[m][n], h.c, delivered[m][n]) /\ Entered(h.c)
  BY <1>2 DEF PairLinked, Linked
<1>8. \A i \in 1..Len(h.out) : Back(h.out[i], conn[m][n], delivered[m][n])
  BY <1>2
<1>9. h.env.closes => h.env.fail <= 1
  BY <1>2 DEF Tame
<1>10. heard => h.c.ConnID_in # NoConn
  BY <1>2
<1>11. h \in S
  BY <1>5, <1>6, <1>7, <1>8, <1>9, <1>10 DEF LinkContext
<1> QED BY <1>11 DEF h

\* A handler of n ends with the link intact, in both directions.
LEMMA EndsLinked ==
  ASSUME IInv, NEW n \in Node, NEW m \in Peer(n),
         PairLinked(m, n), NEW more, NEW heard,
         \A x : Got(delivered[m][n], x) => Got(more, x),
         NEW h \in LinkContext(net[n][m], net[m][n], conn[m][n],
                               delivered[n][m], more, heard),
         Ends(n, m, h), Untouched(m, n), delivered'[n][m] = delivered[n][m],
         delivered'[m][n] = more, Among(net'[m][n], net[m][n])
  PROVE  PairLinked(n, m)' /\ PairLinked(m, n)'
<1> DEFINE w == net[n][m]
           v == net[m][n]
           r == conn[m][n]
           u == w \o h.out
<1>1. /\ h \in Context /\ h.c \in GoodConn /\ h.out \in Packets
      /\ Linked(u, v, h.c, r, delivered[n][m], h.owed)
      /\ \A i \in 1..Len(h.out) : Back(h.out[i], r, more)
      /\ Expects(r, h.c, more) /\ Entered(h.c)
  <2>1. /\ h \in Context
        /\ Linked(u, v, h.c, r, delivered[n][m], h.owed)
        /\ \A i \in 1..Len(h.out) : Back(h.out[i], r, more)
        /\ Expects(r, h.c, more) /\ Entered(h.c)
    BY DEF LinkContext, NumberedContext
  <2> QED BY <2>1, ContextFields DEF Packets
<1>2. w \in Packets /\ v \in Packets
  BY PairFields
<1>3. u \in Packets
  BY <1>1, <1>2, ConcatAt
<1>4. Among(Carry(u), u)
  BY <1>3, CarryPart, PartAmong
<1>5. /\ conn'[n][m] = h.c /\ owed'[n][m] = h.owed /\ net'[n][m] = Carry(u)
      /\ conn'[m][n] = r /\ owed'[m][n] = owed[m][n]
  BY DEF Ends, Untouched
<1>6. PairLinked(n, m)'
  <2>1. Linked(Carry(u), net'[m][n], h.c, r, delivered[n][m], h.owed)
    <3> HIDE DEF u
    <3> QED BY <1>1, <1>2, <1>3, <1>4, AmongLinked
  <2> HIDE DEF u
  <2> QED BY <1>1, <1>5, <2>1 DEF PairLinked
<1>7. PairLinked(m, n)'
  <2>1. Linked(v, w, r, conn[n][m], delivered[m][n], owed[m][n]) /\ Entered(r)
    BY DEF PairLinked
  <2>2. Linked(v, w, r, h.c, more, owed[m][n])
    BY <1>1, <2>1, GrownLinked
  <2>3. Linked(v, u, r, h.c, more, owed[m][n])
    BY <1>1, <1>2, <2>2, MoreBack
  <2>4. Linked(net'[m][n], Carry(u), r, h.c, more, owed[m][n])
    <3> HIDE DEF u
    <3> QED BY <1>2, <1>3, <1>4, <2>3, AmongLinked
  <2> HIDE DEF u
  <2> QED BY <1>5, <2>1, <2>4 DEF PairLinked
<1> QED BY <1>6, <1>7

\* Any handler ends in a context.
LEMMA AllAcknowledging == Acknowledging(Context)
<1>1. ClosedUnder(Context)
  BY DEF ClosedUnder, Indifferent
<1> QED BY <1>1 DEF Acknowledging

\* What is not touched by a step of the network keeps the link intact.
LEMMA ChannelLinked ==
  ASSUME IInv, NEW n \in Node, NEW m \in Peer(n), PairLinked(n, m),
         PairLinked(m, n), Still(m, n), Untouched(n, m),
         delivered'[n][m] = delivered[n][m], Among(net'[n][m], net[n][m])
  PROVE  PairLinked(n, m)' /\ PairLinked(m, n)'
<1>1. net[n][m] \in Packets /\ net[m][n] \in Packets
  BY PairFields
<1>2. Among(net[m][n], net[m][n])
  BY <1>1 DEF Among
<1>3. Linked(net'[n][m], net[m][n], conn[n][m], conn[m][n], delivered[n][m],
             owed[n][m])
  BY <1>1, <1>2, AmongLinked DEF PairLinked
<1>4. Linked(net[m][n], net'[n][m], conn[m][n], conn[n][m], delivered[m][n],
             owed[m][n])
  BY <1>1, <1>2, AmongLinked DEF PairLinked
<1> QED BY <1>3, <1>4 DEF PairLinked, Still, Untouched

\* Whatever n does, the link stays intact in both directions.
LEMMA MoveLinked ==
  ASSUME "restart" \notin Fault, Tame, IInv, IInv', AllNumbered,
         NEW n \in Node, NEW m \in Peer(n),
         PairLinked(n, m), PairLinked(m, n), Moves(n, m)
  PROVE  PairLinked(n, m)' /\ PairLinked(m, n)'
<1>1. /\ m \in Node /\ n \in Peer(m)
      /\ conn[n][m] \in GoodConn /\ conn[m][n] \in GoodConn
      /\ net[n][m] \in Packets /\ net[m][n] \in Packets
      /\ delivered[n][m] \in Seq(Nat) /\ delivered[m][n] \in Seq(Nat)
      /\ Numbered(conn[m][n])
  BY PairFields DEF AllNumbered
<1> DEFINE w == net[n][m]
           v == net[m][n]
           c == conn[n][m]
           r == conn[m][n]
           own == delivered[m][n]
           p == Head(v)
           S(b) == LinkContext(w, v, r, delivered[n][m], own, b)
           T == LinkContext(w, v, r, delivered[n][m], Append(own, p.payload), TRUE)
<1>2. ASSUME NEW b \in BOOLEAN, b => c.ConnID_in # NoConn
      PROVE  /\ Starts(n, m, S(b)) /\ ClosedUnder(S(b))
             /\ \A i \in 1..Len(v) : ClosedFor(S(b), v[i])
  <2>1. Starts(n, m, S(b))
    BY <1>2, StartsLinked
  <2>2. \A i \in 1..Len(v) : Onward(v[i], r)
    BY DEF PairLinked, Linked
  <2>3. /\ ClosedUnder(S(b))
        /\ \A i \in 1..Len(v) : Onward(v[i], r) => ClosedFor(S(b), v[i])
    BY <1>1, LinkedClosed
  <2> HIDE DEF S
  <2> QED BY <2>1, <2>2, <2>3
<1>3. Among(v, v)
  BY <1>1 DEF Among
<1>4. CASE Acts(n, m)
  <2>1. PICK h \in S(FALSE) : Ends(n, m, h)
    <3> HIDE DEF S
    <3>1. Starts(n, m, S(FALSE)) /\ ClosedUnder(S(FALSE))
      BY <1>2
    <3> QED BY <1>4, <3>1 DEF Acts
  <2>2. /\ Untouched(m, n) /\ delivered'[n][m] = delivered[n][m]
        /\ delivered'[m][n] = own /\ net'[m][n] = v
    BY <1>4 DEF Acts, Still
  <2> QED BY <1>3, <2>1, <2>2, EndsLinked
<1>5. CASE Receives(n, m)
  <2>1. /\ v # << >> /\ net'[m][n] = Tail(v)
        /\ Untouched(m, n) /\ delivered'[n][m] = delivered[n][m]
    BY <1>5 DEF Receives
  <2>2. /\ p \in Packet /\ p = v[1] /\ 1 \in 1..Len(v) /\ Part(Tail(v), v)
    <3>1. Len(v) \in Nat
      BY <1>1, LenProperties DEF Packets
    <3> QED BY <1>1, <2>1, <3>1, TailPart
  <2>3. Among(net'[m][n], v)
    BY <1>1, <2>1, <2>2, PartAmong
  <2>4. Onward(p, r)
    BY <2>2 DEF PairLinked, Linked
  <2> DEFINE heard == c.ConnID_in # NoConn
  <2>5. heard \in BOOLEAN /\ Starts(n, m, S(heard)) /\ ClosedFor(S(heard), p)
    <3> HIDE DEF S
    <3> QED BY <1>2, <2>2
  <2>6. CASE delivered'[m][n] = own /\ \E h \in S(heard) : Ends(n, m, h)
    BY <2>1, <2>3, <2>6, EndsLinked
  <2>7. CASE ~heard
    <3>1. Acknowledging(Context) /\ \A h \in S(heard), g \in Context :
                                      Advances(h, g, p) => g \in Context
      BY AllAcknowledging
    <3>2. Handles(n, m, S(heard), Context, p)
      <4> HIDE DEF S, heard
      <4> QED BY <1>5, <2>5, <3>1 DEF Receives
    <3>3. ~Takes(n, m)
      BY <2>7 DEF Takes, PairLinked, Entered
    <3> QED BY <2>6, <3>2, <3>3 DEF Handles
  <2>8. CASE heard
    <3> DEFINE Tp == IF Data(p) THEN T ELSE Context
    <3>1. Acknowledging(Tp)
      <4>1. CASE Data(p)
        <5>1. /\ Append(own, p.payload) \in Seq(Nat)
          BY <1>1, <2>2 DEF Packet
        <5>2. Acknowledging(T)
          BY <1>1, LinkedClosed
        <5> HIDE DEF T
        <5> QED BY <4>1, <5>2
      <4>2. CASE ~Data(p)
        <5> HIDE DEF T
        <5> QED BY <4>2, AllAcknowledging
      <4> HIDE DEF Tp
      <4> QED BY <4>1, <4>2
    <3>2. \A h \in S(heard), g \in Context : Advances(h, g, p) => g \in Tp
      <4>1. CASE Data(p)
        <5>1. \A h \in S(TRUE), g \in Context : Advances(h, g, p) => g \in T
          BY <1>1, <2>2, <2>4, <4>1, AdvancesLinked
        <5> HIDE DEF T, S
        <5> QED BY <2>8, <4>1, <5>1
      <4>2. CASE ~Data(p)
        <5> HIDE DEF T, S
        <5> QED BY <4>2
      <4> HIDE DEF Tp, S
      <4> QED BY <4>1, <4>2
    <3>3. Handles(n, m, S(heard), Tp, p)
      <4> HIDE DEF S, heard, Tp
      <4> QED BY <1>5, <2>5, <3>1, <3>2 DEF Receives
    <3>4. CASE Takes(n, m) /\ \E h \in Tp : Ends(n, m, h)
      <4>1. Data(p) /\ delivered'[m][n] = Append(own, p.payload)
        BY <3>4 DEF Takes, Data
      <4>2. PICK h \in T : Ends(n, m, h)
        <5> HIDE DEF T
        <5> QED BY <3>4, <4>1
      <4>3. \A x : Got(own, x) => Got(Append(own, p.payload), x)
        BY <1>1, <2>2, GotMore DEF Packet
      <4> QED BY <2>1, <2>3, <4>1, <4>2, <4>3, EndsLinked
    <3> HIDE DEF S, Tp, heard
    <3> QED BY <2>6, <3>3, <3>4 DEF Handles
  <2> QED BY <2>7, <2>8
<1>6. CASE Ticks(n, m)
  <2>1. conn'[n][m] \in GoodConn
    BY PairFields, TableEntryType DEF IInv
  <2> DEFINE d == conn'[n][m]
  <2>2. /\ d.pendList = c.pendList /\ d.state = c.state
        /\ d.frameExpected = c.frameExpected /\ d.frameToSend = c.frameToSend
        /\ d.ackExpected = c.ackExpected /\ d.ConnID_in = c.ConnID_in
    BY <1>6 DEF Ticks, SameNumbers
  <2>3. Advance(c, d, delivered[n][m])
    <3>1. c.frameToSend <= d.frameToSend
      BY <1>1, <2>2, ConnFields
    <3> QED BY <1>1, <2>1, <2>2, <3>1, SameAdvance
  <2>4. Linked(w, v, d, r, delivered[n][m], owed[n][m])
    BY <1>1, <2>1, <2>3, AdvanceLinked DEF PairLinked
  <2>5. Linked(v, w, r, d, own, owed[m][n]) /\ Entered(d)
    BY <2>2 DEF PairLinked, Linked, Expects, Entered
  <2> QED BY <1>6, <2>4, <2>5 DEF Ticks, PairLinked, Still, Untouched
<1>7. CASE Loses(n, m)
  <2>1. Among(Tail(w), w)
    BY <1>1, <1>7, TailPart, PartAmong DEF Loses
  <2> QED BY <1>7, <2>1, ChannelLinked DEF Loses
<1>8. CASE Swaps(n, m)
  <2>1. net'[n][m] \in Packets
    BY PairFields, TableEntryType DEF IInv
  <2>2. Among(net'[n][m], w)
    <3>1. /\ DOMAIN w = 1..Len(w) /\ DOMAIN net'[n][m] = 1..Len(net'[n][m])
      BY <1>1, <2>1 DEF Packets
    <3> QED BY <1>8, <2>1, <3>1 DEF Swaps, Among
  <2> QED BY <1>8, <2>2, ChannelLinked DEF Swaps
<1> QED BY <1>4, <1>5, <1>6, <1>7, <1>8 DEF Moves, Restarts

\* So does every step.
LEMMA LinkedStep ==
  ASSUME "restart" \notin Fault, Tame, IInv, IInv', AllNumbered, AllLinked,
         [Next]_vars
  PROVE  AllLinked'
<1> SUFFICES ASSUME NEW n \in Node, NEW m \in Peer(n)
             PROVE  PairLinked(n, m)'
  BY DEF AllLinked
<1>1. m \in Node /\ n \in Peer(m)
  BY PeerOfPeer
<1>2. PairLinked(n, m) /\ PairLinked(m, n)
  BY <1>1 DEF AllLinked
<1>3. PairStep(n, m)
  BY StepIsPairStep
<1>4. CASE Still(n, m) /\ Still(m, n)
  BY <1>2, <1>4 DEF Still, Untouched, PairLinked
<1>5. CASE Moves(n, m)
  BY <1>2, <1>5, MoveLinked
<1>6. CASE Moves(m, n)
  BY <1>1, <1>2, <1>6, MoveLinked
<1> QED BY <1>3, <1>4, <1>5, <1>6 DEF PairStep

\* At first nothing is under way, and nobody has heard of anybody.
LEMMA InitLinked == Init => AllLinked
<1> SUFFICES ASSUME Init, NEW n \in Node, NEW m \in Peer(n)
             PROVE  PairLinked(n, m)
  BY DEF AllLinked
<1>1. m \in Node /\ n \in Peer(m)
  BY PeerOfPeer
<1>2. /\ net[n][m] = << >> /\ net[m][n] = << >> /\ owed[n][m] = {}
      /\ conn[n][m].state = "CLOSED" /\ conn[m][n].ConnID_in = NoConn
  BY <1>1 DEF Init, InitConn
<1> QED BY <1>2 DEF PairLinked, Linked, Expects, Entered

\* The conjunction is inductive.
LEMMA LinkedAlways ==
  ASSUME "restart" \notin Fault, Tame
  PROVE  Spec => [](IInv /\ AllNumbered /\ AllLinked)
<1> DEFINE I == IInv /\ AllNumbered /\ AllLinked
<1>1. Init => I
  BY InitInvariant, InitNumbered, InitLinked DEF Init, AllNumbered
<1>2. I /\ [Next]_vars => I'
  BY NextInvariant, NumberedStep, LinkedStep DEF Tame
<1> HIDE DEF I
<1>3. Spec => []I
  BY <1>1, <1>2, PTL DEF Spec
<1> QED BY <1>3 DEF I

\* No acknowledgment ever covers a message that has not been delivered: each
\* message Rsendto() has accepted has been received, is still in pendList, or
\* has been given back, whatever the network loses or reorders, whenever a
\* connection is closed and rebuilt, an address is changed or a send fails, as
\* long as no psid restarts, RDP_LOST_CONNECTION is not answered by another
\* Rsendto(), and the failure that closes a connection strikes no later send of
\* a handler than its first.
THEOREM NothingLost ==
  ASSUME "restart" \notin Fault, Tame
  PROVE  Spec => []NoSilentLoss
<1>1. AllLinked => NoSilentLoss
  BY DEF AllLinked, PairLinked, Linked, Kept, Got, NoSilentLoss
<1> QED BY <1>1, LinkedAlways, PTL

-----------------------------------------------------------------------------
(* The reliable link.                                                      *)

\* The contexts of a handler that has accepted messages beyond the a-th, and
\* has given back some of those or of ow.
AccountContext(a, ow) ==
  {h \in Context : /\ h.env.react # "LOST"
                   /\ h.acc >= a /\ h.owed \subseteq ow \cup (a + 1)..h.acc}

LEMMA AccountClosed ==
  ASSUME NEW a \in Nat, NEW ow
  PROVE  Closed(AccountContext(a, ow))
<1> DEFINE S == AccountContext(a, ow)
<1>1. ASSUME NEW h \in S
      PROVE  /\ h \in Context /\ h.env.react # "LOST" /\ h.acc \in Nat
             /\ h.acc >= a /\ h.owed \subseteq ow \cup (a + 1)..h.acc
  BY ContextFields DEF AccountContext
<1>2. ASSUME NEW h \in S, NEW g \in Context, Passes(h, g),
             g.acc = h.acc, g.owed \subseteq h.owed
      PROVE  g \in S
  BY <1>1, <1>2 DEF AccountContext, Passes
<1>3. ASSUME NEW h \in S, NEW g \in Context, OnlyConn(h, g)
      PROVE  g \in S
  <2>1. Passes(h, g) /\ g.acc = h.acc /\ g.owed \subseteq h.owed
    BY <1>3 DEF OnlyConn
  <2> QED BY <1>2, <2>1
<1>4. ASSUME NEW h \in S, NEW g \in Context, NEW s, Sends(h, g, s)
      PROVE  g \in S
  <2>1. Passes(h, g) /\ g.acc = h.acc /\ g.owed \subseteq h.owed
    BY <1>4 DEF Sends
  <2> QED BY <1>2, <2>1
<1>5. ASSUME NEW h \in S, NEW g \in Context, NEW s, Closes(h, g, s)
      PROVE  g \in S
  <2>1. Passes(h, g) /\ g.acc = h.acc /\ g.owed \subseteq h.owed
    BY <1>5 DEF Closes
  <2> QED BY <1>2, <2>1
<1>6. ASSUME NEW h \in S, NEW g \in Context, Establishes(h, g)
      PROVE  g \in S
  <2>1. Passes(h, g) /\ g.acc = h.acc /\ g.owed \subseteq h.owed
    BY <1>6 DEF Establishes
  <2> QED BY <1>2, <2>1
<1>7. ASSUME NEW h \in S, NEW g \in Context, Queues(h, g)
      PROVE  g \in S
  <2>1. /\ g.env.react \in {h.env.react, "none"}
        /\ g.acc = h.acc + 1 /\ g.owed = h.owed \cup {h.acc + 1}
    BY <1>7 DEF Queues, Passes
  <2>2. h.acc \in Nat /\ h.acc >= a
    BY <1>1
  <2>3. g.owed \subseteq ow \cup (a + 1)..g.acc
    <3>1. h.owed \subseteq ow \cup (a + 1)..h.acc
      BY <1>1
    <3>2. (a + 1)..h.acc \subseteq (a + 1)..g.acc /\ h.acc + 1 \in (a + 1)..g.acc
      BY <2>1, <2>2
    <3> QED BY <2>1, <3>1, <3>2
  <2>4. g.acc >= a
    BY <2>1, <2>2
  <2> QED BY <1>1, <2>1, <2>3, <2>4 DEF AccountContext
<1>8. ASSUME NEW h \in S, NEW g \in Context
      PROVE  /\ Requests(h, g) => g \in S
             /\ \A k : Drops(h, g, k) => g \in S
             /\ \A p : Adopts(h, g, p) \/ Frees(h, g, p) \/ Advances(h, g, p)
                         => g \in S
  BY <1>3 DEF Requests, Drops, Adopts, Frees, Discards, Advances
<1> HIDE DEF S
<1>9. ClosedUnder(S)
  BY <1>1, <1>4, <1>5, <1>6, <1>7, <1>8 DEF ClosedUnder
<1>10. Acknowledging(S)
  BY <1>4, <1>9 DEF Acknowledging
<1>11. \A p : ClosedFor(S, p)
  BY <1>8, <1>9 DEF ClosedFor
<1>12. Closed(S)
  BY <1>8, <1>9, <1>10, <1>11 DEF Closed
<1> QED BY <1>12 DEF S

\* What a step of the link may do with the messages accepted.
Accounts(n, m) ==
  /\ accepted'[n][m] >= accepted[n][m]
  /\ owed'[n][m] \subseteq owed[n][m] \cup (accepted[n][m] + 1)..accepted'[n][m]

\* What it may deliver.
Delivers(n, m) ==
  \/ delivered'[n][m] = delivered[n][m]
  \/ \E x \in 1..accepted[n][m] :
       /\ \A i \in DOMAIN delivered[n][m] : delivered[n][m][i] < x
       /\ \A y \in owed[n][m] : y < x => Got(delivered[n][m], y)
       /\ delivered'[n][m] = Append(delivered[n][m], x)

\* n accepts messages and gives some back.
LEMMA MoveAccounts ==
  ASSUME "restart" \notin Fault, Tame, IInv, IInv', NEW n \in Node,
         NEW m \in Peer(n), Moves(n, m)
  PROVE  Accounts(n, m) /\ Accounts(m, n)
<1> DEFINE S == AccountContext(accepted[n][m], owed[n][m])
<1>1. /\ accepted[n][m] \in Nat /\ accepted[m][n] \in Nat
  BY PairFields
<1>2. Accounts(m, n)
  <2>1. accepted'[m][n] = accepted[m][n] /\ owed'[m][n] = owed[m][n]
    BY DEF Moves, Acts, Receives, Ticks, Loses, Swaps, Restarts, Still, Untouched
  <2> QED BY <1>1, <2>1 DEF Accounts
<1>3. CASE Acts(n, m) \/ Receives(n, m)
  <2>1. Starts(n, m, S)
    <3> SUFFICES ASSUME NEW env \in Environ PROVE Ctx(n, m, env) \in S
      BY DEF Starts
    <3> DEFINE h == Ctx(n, m, env)
    <3>1. h \in Context
      BY CtxType
    <3>2. h.acc = accepted[n][m] /\ h.owed = owed[n][m] /\ h.env = env
      BY CtxFields
    <3> HIDE DEF h
    <3>3. h.acc >= accepted[n][m]
      BY <1>1, <3>2
    <3>4. h \in S
      BY <3>1, <3>2, <3>3 DEF Tame, AccountContext
    <3> QED BY <3>4 DEF h
  <2>2. Closed(S)
    BY <1>1, AccountClosed
  <2>3. PICK h \in S : Ends(n, m, h)
    <3> HIDE DEF S
    <3> QED BY <1>3, <2>1, <2>2, ClosedMoves
  <2>4. Accounts(n, m)
    BY <2>3 DEF AccountContext, Ends, Accounts
  <2> QED BY <1>2, <2>4
<1>4. CASE Ticks(n, m) \/ Loses(n, m) \/ Swaps(n, m)
  <2>1. accepted'[n][m] = accepted[n][m] /\ owed'[n][m] = owed[n][m]
    BY <1>4 DEF Ticks, Loses, Swaps, Still, Untouched
  <2>2. Accounts(n, m)
    BY <1>1, <2>1 DEF Accounts
  <2> QED BY <1>2, <2>2
<1> QED BY <1>3, <1>4 DEF Moves, Restarts

\* The message taken is a later one, and all that are still owed before it have
\* been received.
LEMMA TakesDelivers ==
  ASSUME IInv, AllNumbered, AllOrdered, AllLinked, NEW n \in Node,
         NEW m \in Peer(n), net[m][n] # << >>, Takes(n, m)
  PROVE  Delivers(m, n)
<1> DEFINE v == net[m][n]
           c == conn[n][m]
           r == conn[m][n]
           own == delivered[m][n]
           p == Head(v)
<1>1. /\ m \in Node /\ n \in Peer(m) /\ c \in GoodConn /\ r \in GoodConn
      /\ v \in Packets
  BY PairFields
<1>2. /\ PairLinked(m, n) /\ PairLinked(n, m) /\ PairOrdered(m, n) /\ Numbered(r)
  BY <1>1 DEF AllLinked, AllOrdered, AllNumbered, PairOrdered
<1>3. p = v[1] /\ 1 \in 1..Len(v) /\ p \in Packet
  <2>1. Len(v) \in Nat
    BY <1>1, LenProperties DEF Packets
  <2> QED BY <1>1, <2>1, TailPart
<1>4. /\ Data(p) /\ c.state = "ACTIVE" /\ p.seqno = c.frameExpected
      /\ delivered'[m][n] = Append(own, p.payload)
  BY DEF Takes, Data
<1>5. /\ p.payload \in Nat /\ p.seqno \in Int
  BY <1>3 DEF Packet
<1>6. PacketInOrder(v, 1, c, own, accepted[m][n])
  BY <1>2, <1>3, <1>4 DEF PairOrdered, Ordered, ChannelOrdered
<1>7. p.payload \in 1..accepted[m][n] /\ Fresh(own, p.payload)
  <2>1. ~Over(c, p.seqno)
    BY <1>4, <1>5 DEF Over, Down
  <2> QED BY <1>3, <1>6, <2>1 DEF PacketInOrder
<1>8. Valid(r, own, p.seqno) /\ Onward(p, r)
  <2>1. c.ConnID_in # NoConn
    BY <1>2, <1>4 DEF PairLinked, Entered
  <2> QED BY <1>2, <1>3, <1>4, <2>1 DEF PairLinked, Linked, Expects
<1>9. ASSUME NEW y \in owed[m][n], y < p.payload
      PROVE  Got(own, y)
  <2> SUFFICES ASSUME NEW l \in Live(r), r.pendList[l].payload = y
               PROVE  Got(own, y)
    BY <1>2 DEF PairLinked, Linked, Kept
  <2> DEFINE x == r.pendList[l]
  <2>1. y \in Nat
    <3>1. owed[m][n] \in SUBSET Nat
      BY <1>1, PairFields
    <3> QED BY <3>1
  <2>2. x.seqno \in Int /\ r.ackExpected <= x.seqno /\ r.ackExpected \in Int
    BY <1>1, <1>2, NumberedFacts
  <2>3. x.seqno <= p.seqno
    <3>1. MessageInOrder(v, r, l, c, own, accepted[m][n])
      BY <1>2 DEF PairOrdered, Ordered, QueueOrdered
    <3>2. ~(p.payload < y)
      BY <1>5, <1>9, <2>1
    <3> QED BY <1>3, <1>4, <3>1, <3>2 DEF MessageInOrder
  <2>4. x.seqno # p.seqno
    <3> SUFFICES ASSUME x.seqno = p.seqno PROVE FALSE
      OBVIOUS
    <3>1. ~(p.seqno < r.ackExpected)
      BY <2>2
    <3>2. PICK k \in Live(r) : /\ r.pendList[k].seqno = p.seqno
                               /\ r.pendList[k].payload = p.payload
      BY <1>4, <1>8, <3>1 DEF Onward
    <3>3. k = l
      BY <1>1, <1>2, <3>2, NumberedFacts
    <3> QED BY <1>5, <1>9, <2>1, <3>2, <3>3
  <2>5. x.seqno < p.seqno
    BY <1>5, <2>2, <2>3, <2>4
  <2> QED BY <1>8, <2>5 DEF Valid
<1> QED BY <1>4, <1>7, <1>9 DEF Delivers, Fresh

\* n receives at most one message from m.
LEMMA MoveDelivers ==
  ASSUME "restart" \notin Fault, IInv, AllNumbered, AllOrdered, AllLinked,
         NEW n \in Node, NEW m \in Peer(n), Moves(n, m)
  PROVE  Delivers(n, m) /\ Delivers(m, n)
<1>1. Delivers(n, m)
  <2>1. delivered'[n][m] = delivered[n][m]
    BY DEF Moves, Acts, Receives, Ticks, Loses, Swaps, Restarts
  <2> QED BY <2>1 DEF Delivers
<1>2. CASE Receives(n, m)
  <2>1. /\ Acknowledging(Context) /\ Starts(n, m, Context)
        /\ ClosedFor(Context, Head(net[m][n]))
    <3>1. Starts(n, m, Context)
      BY CtxType DEF Starts
    <3>2. ClosedFor(Context, Head(net[m][n]))
      BY AllAcknowledging DEF ClosedFor, Acknowledging
    <3> QED BY <3>1, <3>2, AllAcknowledging
  <2>2. Handles(n, m, Context, Context, Head(net[m][n]))
    BY <1>2, <2>1 DEF Receives
  <2>3. delivered'[m][n] = delivered[m][n] \/ Takes(n, m)
    BY <2>2 DEF Handles
  <2>4. net[m][n] # << >>
    BY <1>2 DEF Receives
  <2>5. Delivers(m, n)
    BY <2>3, <2>4, TakesDelivers DEF Delivers
  <2> QED BY <1>1, <2>5
<1>3. CASE ~Receives(n, m)
  <2>1. delivered'[m][n] = delivered[m][n]
    BY <1>3 DEF Moves, Acts, Ticks, Loses, Swaps, Restarts, Still
  <2>2. Delivers(m, n)
    BY <2>1 DEF Delivers
  <2> QED BY <1>1, <2>2
<1> QED BY <1>2, <1>3

\* Every step is one of the reliable link, or changes nothing it knows of.
LEMMA StepIsLinkStep ==
  ASSUME "restart" \notin Fault, Tame, IInv, IInv', AllNumbered, AllOrdered,
         AllLinked, [Next]_vars
  PROVE  Link!Next
<1>1. ASSUME NEW n \in Node, NEW m \in Peer(n)
      PROVE  Accounts(n, m) /\ Delivers(n, m)
  <2>1. m \in Node /\ n \in Peer(m)
    BY PeerOfPeer
  <2>2. PairStep(n, m)
    BY StepIsPairStep
  <2>3. CASE Still(n, m) /\ Still(m, n)
    <3>1. accepted[n][m] \in Nat
      BY PairFields
    <3> QED BY <2>3, <3>1 DEF Still, Untouched, Accounts, Delivers
  <2>4. CASE Moves(n, m)
    BY <2>4, MoveAccounts, MoveDelivers
  <2>5. CASE Moves(m, n)
    BY <2>1, <2>5, MoveAccounts, MoveDelivers
  <2> QED BY <2>2, <2>3, <2>4, <2>5 DEF PairStep
<1>2. ASSUME NEW n \in Node, NEW m \in Link!Peer(n)
      PROVE  Link!Transfer(n, m)
  <2>1. m \in Peer(n)
    BY DEF Link!Peer, Peer
  <2> QED BY <1>1, <2>1 DEF Accounts, Delivers, Got, Link!Transfer,
                            Link!Deliver, Link!Accepted
<1> QED BY <1>2 DEF Link!Next

\* Seen from outside, RDP is a reliable link: messages are accepted, given back
\* and delivered as ReliableLink allows, each at most once, in order, and none
\* before an earlier one that is still owed; whatever the network loses and
\* whenever connections are closed and rebuilt, addresses changed and sends
\* fail, under the assumptions of InOrder and NothingLost.
THEOREM LinkImplemented ==
  ASSUME "restart" \notin Fault, "reorder" \notin Fault, Tame
  PROVE  Spec => ImplementsLink
<1> DEFINE I == IInv /\ AllNumbered /\ AllOrdered /\ AllLinked
<1>1. Init => I /\ Link!Init
  <2>1. Init => Link!Init
    BY DEF Init, Link!Init, Link!Peer, Peer
  <2> QED BY <2>1, InitInvariant, InitNumbered, InitOrdered, InitLinked
          DEF Init, AllNumbered
<1>2. I /\ [Next]_vars => I'
  BY NextInvariant, NumberedStep, OrderedStep, LinkedStep DEF Tame
<1>3. I /\ I' /\ [Next]_vars => [Link!Next]_<<accepted, owed, delivered>>
  BY StepIsLinkStep
<1> HIDE DEF I
<1> QED BY <1>1, <1>2, <1>3, PTL DEF Spec, ImplementsLink, Link!Spec
=============================================================================
