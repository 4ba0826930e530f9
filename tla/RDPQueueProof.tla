--------------------------- MODULE RDPQueueProof ---------------------------
(***************************************************************************)
(* Theorems about the queues of RDP, checked by TLAPS.                     *)
(*                                                                         *)
(* One end of a connection: what the upper layer is told of it, and that   *)
(* the numbers of the messages in its queue stay consistent.               *)
(*                                                                         *)
(* One direction: messages are delivered in order and none twice.          *)
(***************************************************************************)
EXTENDS RDPCalls

-----------------------------------------------------------------------------
(* A property of one end of a connection is an invariant if no handler     *)
(* leaves the set of contexts that have it.                                *)

\* No step at all leaves S.
Closed(S) ==
  /\ ClosedUnder(S) /\ Acknowledging(S)
  /\ \A p \in Packet : ClosedFor(S, p)
  /\ \A h \in S, g \in Context, p \in Packet : Advances(h, g, p) => g \in S

\* A handler of either kind ends in a closed set.
LEMMA ClosedMoves ==
  ASSUME IInv, NEW S, Closed(S), NEW n \in Node, NEW m \in Peer(n),
         Acts(n, m) \/ Receives(n, m), Starts(n, m, S)
  PROVE  \E h \in S : Ends(n, m, h)
<1>1. CASE Acts(n, m)
  BY <1>1 DEF Acts, Closed
<1>2. CASE Receives(n, m)
  <2> DEFINE p == Head(net[m][n])
  <2>1. p \in Packet
    BY <1>2, ConsumeType DEF Receives
  <2>2. ClosedFor(S, p) /\ Acknowledging(S)
    BY <2>1 DEF Closed
  <2>3. \A h \in S, g \in Context : Advances(h, g, p) => g \in S
    BY <2>1 DEF Closed
  <2>4. Handles(n, m, S, S, p)
    BY <1>2, <2>2, <2>3 DEF Receives
  <2> QED BY <2>4 DEF Handles
<1> QED BY <1>1, <1>2

-----------------------------------------------------------------------------
\* A connection is reported as usable if it is.
Told(state, report) == state = "ACTIVE" => report = "up"

\* The contexts in which this holds.
ToldContext == {h \in Context : Told(h.c.state, h.told)}

\* No step of a handler ends elsewhere.
LEMMA ToldClosed == Closed(ToldContext)
<1> DEFINE S == ToldContext
<1>1. Indifferent(S)
  BY DEF Indifferent, SameQueue, Discards, OnlyConn, ToldContext, Told
<1>2. ASSUME NEW h \in S, NEW g \in Context, NEW s, Sends(h, g, s)
      PROVE  g \in S
  BY <1>2 DEF Sends, ToldContext, Told
<1>3. ASSUME NEW h \in S, NEW g \in Context, NEW s, Closes(h, g, s)
      PROVE  g \in S
  BY <1>3 DEF Closes, ToldContext, Told
<1>4. ASSUME NEW h \in S, NEW g \in Context
      PROVE  /\ Queues(h, g) => g \in S
             /\ Requests(h, g) => g \in S
             /\ Establishes(h, g) => g \in S
             /\ \A k : Drops(h, g, k) => g \in S
             /\ \A p : Adopts(h, g, p) \/ Frees(h, g, p) \/ Advances(h, g, p)
                         => g \in S
  BY DEF Queues, Requests, Establishes, Drops, Adopts, Frees, Discards, Advances,
         OnlyConn, ToldContext, Told
<1>5. S \subseteq Context
  BY DEF ToldContext
<1> HIDE DEF S
<1>6. ClosedUnder(S)
  BY <1>1, <1>2, <1>3, <1>4, <1>5 DEF ClosedUnder
<1>7. Acknowledging(S)
  BY <1>2, <1>6 DEF Acknowledging
<1>8. \A p : ClosedFor(S, p)
  BY <1>4, <1>6 DEF ClosedFor
<1>9. Closed(S)
  BY <1>4, <1>6, <1>7, <1>8 DEF Closed
<1> QED BY <1>9 DEF S

\* Every step keeps the reports true.
LEMMA ToldStep == IInv /\ ActiveIsTold /\ [Next]_vars => ActiveIsTold'
<1> SUFFICES ASSUME IInv, ActiveIsTold, [Next]_vars,
                    NEW n \in Node, NEW m \in Peer(n)
             PROVE  Told(conn'[n][m].state, told'[n][m])
  BY DEF ActiveIsTold, Told
<1>1. m \in Node /\ n \in Peer(m)
  BY PeerOfPeer
<1>2. Told(conn[n][m].state, told[n][m])
  BY DEF ActiveIsTold, Told
<1>3. PairStep(n, m)
  BY StepIsPairStep
<1>4. CASE Acts(n, m) \/ Receives(n, m)
  <2>1. Starts(n, m, ToldContext)
    BY <1>2, CtxType, CtxFields DEF Starts, ToldContext
  <2>2. \E h \in ToldContext : Ends(n, m, h)
    BY <1>4, <2>1, ToldClosed, ClosedMoves
  <2> QED BY <2>2 DEF Ends, ToldContext
<1>5. CASE Restarts(n, m)
  BY <1>5 DEF Restarts, InitConn, Told
<1>6. CASE ~(Acts(n, m) \/ Receives(n, m) \/ Restarts(n, m))
  <2>1. conn'[n][m].state = conn[n][m].state /\ told'[n][m] = told[n][m]
    BY <1>3, <1>6 DEF PairStep, Moves, Acts, Receives, Ticks, Loses, Swaps,
                      Restarts, Still, Untouched
  <2> QED BY <1>2, <2>1
<1> QED BY <1>4, <1>5, <1>6

\* The upper layer has been told of every usable connection: whatever a handler
\* meets, in whatever order callbacks, errors and restarts come, ACTIVE is
\* never reached without RDP_NEW_CONNECTION, nor kept behind a report of its
\* loss.
THEOREM UsableIsTold == Spec => []ActiveIsTold
<1>1. Init => ActiveIsTold
  BY DEF Init, ActiveIsTold, InitConn
<1>2. IInv /\ ActiveIsTold /\ [Next]_vars => IInv' /\ ActiveIsTold'
  BY NextInvariant, ToldStep
<1> QED BY <1>1, <1>2, InitInvariant, PTL DEF Spec

-----------------------------------------------------------------------------
\* The end of a queue.
LEMMA SubSeqFields ==
  ASSUME NEW s \in Seq(MsgBuf), NEW k \in 0..Len(s)
  PROVE  LET p == SubSeq(s, k + 1, Len(s))
         IN  p \in Seq(MsgBuf) /\ Len(p) = Len(s) - k
             /\ \A i \in 1..Len(p) : p[i] = s[i + k]
<1> DEFINE p == SubSeq(s, k + 1, Len(s))
<1>1. Len(s) \in Nat /\ DOMAIN s = 1..Len(s) /\ k \in 0..Len(s)
  BY LenProperties
<1>2. \A i \in (k + 1)..Len(s) : s[i] \in MsgBuf
  BY <1>1, ElementOfSeq
<1>3. /\ p \in Seq(MsgBuf)
      /\ Len(p) = IF k + 1 <= Len(s) THEN Len(s) - (k + 1) + 1 ELSE 0
      /\ \A i \in 1..(Len(s) - (k + 1) + 1) : p[i] = s[k + 1 + i - 1]
  <2>1. k + 1 \in Int /\ Len(s) \in Int
    BY <1>1
  <2> QED BY <1>2, <2>1, SubSeqProperties
<1> HIDE DEF p
<1>4. Len(p) = Len(s) - k /\ Len(s) - (k + 1) + 1 = Len(s) - k
  <2>1. \A x \in Nat : \A y \in 0..x :
          /\ x - (y + 1) + 1 = x - y
          /\ (IF y + 1 <= x THEN x - (y + 1) + 1 ELSE 0) = x - y
    OBVIOUS
  <2> QED BY <1>1, <1>3, <2>1
<1>5. \A i \in 1..(Len(s) - k) : k + 1 + i - 1 = i + k
  BY <1>1
<1>6. \A i \in 1..Len(p) : p[i] = s[i + k]
  BY <1>3, <1>4, <1>5
<1> QED BY <1>3, <1>4, <1>6 DEF p

\* The number of live buffers among the first j.
LEMMA LiveCount ==
  ASSUME NEW c \in GoodConn, NEW k \in 0..Len(c.pendList),
         \A i \in DOMAIN c.pendList : c.pendList[i].deleted <=> i <= k,
         NEW j \in 0..Len(c.pendList)
  PROVE  Cardinality({i \in Live(c) : i <= j}) = IF j > k THEN j - k ELSE 0
<1>1. Len(c.pendList) \in Nat /\ DOMAIN c.pendList = 1..Len(c.pendList)
  BY ConnFields, LenProperties
<1>2. {i \in Live(c) : i <= j} = (k + 1)..j
  BY <1>1 DEF Live
<1>3. k \in Int /\ j \in Int /\ k + 1 \in Int
  BY <1>1
<1>4. Cardinality((k + 1)..j) = IF k + 1 > j THEN 0 ELSE j - (k + 1) + 1
  BY <1>3, FS_Interval
<1>5. Cardinality((k + 1)..j) = IF j > k THEN j - k ELSE 0
  BY <1>3, <1>4
<1> QED BY <1>2, <1>5

\* The buffers at the front that are deleted or acknowledged.
LEMMA FreedByFacts ==
  ASSUME NEW s \in Seq(MsgBuf), NEW a \in Int
  PROVE  /\ FreedBy(s, a) \in 0..Len(s)
         /\ \A i \in 1..FreedBy(s, a) : s[i].deleted \/ s[i].seqno <= a
<1> DEFINE T == {i \in 1..Len(s) : \A j \in 1..i : s[j].deleted \/ s[j].seqno <= a}
<1>1. Len(s) \in Nat
  BY LenProperties
<1>2. T \in SUBSET (1..Len(s)) /\ \A i \in T : \A j \in 1..i : j \in T
  BY <1>1
<1>3. T = 1..Cardinality(T) /\ Cardinality(T) \in 0..Len(s)
  <2> HIDE DEF T
  <2> QED BY <1>1, <1>2, LowerPart
<1>4. FreedBy(s, a) = Cardinality(T)
  BY DEF FreedBy
<1> DEFINE n == Cardinality(T)
<1>5. \A i \in 1..n : i \in T
  <2> HIDE DEF T
  <2> QED BY <1>3
<1>6. n \in Nat
  BY <1>1, <1>3
<1>7. \A i \in 1..n : s[i].deleted \/ s[i].seqno <= a
  <2> TAKE i \in 1..n
  <2> HIDE DEF n
  <2>1. i \in T /\ i \in 1..i
    BY <1>5, <1>6
  <2> QED BY <2>1
<1> HIDE DEF T
<1> QED BY <1>3, <1>4, <1>7

-----------------------------------------------------------------------------
(* The numbers in the queue.                                               *)

\* The first k buffers are deleted, the others are numbered from ackExpected on
\* and carry the connection ID in use.
RunsFrom(c, k) ==
  /\ \A i \in DOMAIN c.pendList : c.pendList[i].deleted <=> i <= k
  /\ c.ackExpected + (Len(c.pendList) - k) = c.frameToSend + c.msgPending
  /\ \A i \in DOMAIN c.pendList :
       i > k => /\ c.pendList[i].seqno = c.ackExpected + (i - k - 1)
                /\ c.pendList[i].connid = c.ConnID_out

Consecutive(c) == \E k \in 0..Len(c.pendList) : RunsFrom(c, k)

\* Moreover, they all wait for a connection, or none.
NumberedBy(c, k) ==
  /\ RunsFrom(c, k)
  /\ c.msgPending = IF c.state = "ACTIVE" THEN 0 ELSE Len(c.pendList) - k
  /\ c.state = "CLOSED" => k = Len(c.pendList)

Numbered(c) == \E k \in 0..Len(c.pendList) : NumberedBy(c, k)

\* The contexts of which this holds, if no message is sent from within
\* RDP_LOST_CONNECTION.
NumberedContext == {h \in Context : Numbered(h.c) /\ h.env.react # "LOST"}

\* Nothing that matters for the numbers has changed.
LEMMA SameNumbered ==
  ASSUME NEW c, NEW d, Numbered(c), SameNumbers(c, d),
         d.ConnID_out = c.ConnID_out,
         d.state = "ACTIVE" <=> c.state = "ACTIVE",
         d.state = "CLOSED" => c.state = "CLOSED"
  PROVE  Numbered(d)
<1>1. PICK k \in 0..Len(c.pendList) : NumberedBy(c, k)
  BY DEF Numbered
<1>2. d.pendList = c.pendList
  BY DEF SameNumbers
<1>3. NumberedBy(d, k)
  BY <1>1 DEF SameNumbers, NumberedBy, RunsFrom
<1> QED BY <1>1, <1>2, <1>3 DEF Numbered

\* A message is appended.
LEMMA QueuesRuns ==
  ASSUME NEW h \in Context, NEW g \in Context, Queues(h, g),
         NEW k \in 0..Len(h.c.pendList), RunsFrom(h.c, k)
  PROVE  /\ k \in 0..Len(g.c.pendList) /\ Len(g.c.pendList) = Len(h.c.pendList) + 1
         /\ RunsFrom(g.c, k)
<1> DEFINE s == h.c.pendList
           mp == NewBuffer(h)
           t == Append(s, mp)
<1>1. k \in 0..Len(s) /\ RunsFrom(h.c, k)
  OBVIOUS
<1>2. /\ s \in Seq(MsgBuf) /\ Len(s) \in Nat /\ DOMAIN s = 1..Len(s)
      /\ h.c.frameToSend \in Int /\ h.c.msgPending \in Nat
      /\ h.c.ackExpected \in Int /\ h.c.state \in State
  BY ContextFields, ConnFields, LenProperties
<1>3. g.c.pendList = t /\ g.c.pendList \in Seq(MsgBuf)
  BY ContextFields, ConnFields DEF Queues
<1>4. /\ mp.seqno = h.c.frameToSend + h.c.msgPending
      /\ mp.connid = h.c.ConnID_out /\ ~mp.deleted
  BY DEF NewBuffer
<1> HIDE DEF mp
<1>5. /\ Len(t) = Len(s) + 1 /\ t[Len(s) + 1] = mp
      /\ \A i \in 1..Len(s) : t[i] = s[i]
  BY <1>2
<1>6. DOMAIN t = 1..(Len(s) + 1)
  BY <1>3, <1>5, LenProperties
<1> HIDE DEF t
<1>7. RunsFrom(g.c, k)
  <2>1. ASSUME NEW i \in DOMAIN t
        PROVE  t[i].deleted <=> i <= k
    <3>1. CASE i \in 1..Len(s)
      <4>1. t[i] = s[i] /\ i \in DOMAIN s
        BY <1>2, <1>5, <3>1
      <4>2. s[i].deleted <=> i <= k
        BY <1>1, <4>1 DEF RunsFrom
      <4> QED BY <4>1, <4>2
    <3>2. CASE i = Len(s) + 1
      <4>1. t[i] = mp /\ ~(i <= k)
        BY <1>1, <1>2, <1>5, <3>2
      <4> QED BY <1>4, <4>1
    <3> QED BY <1>2, <1>6, <3>1, <3>2
  <2>2. /\ g.c.ackExpected = h.c.ackExpected
        /\ g.c.frameToSend + g.c.msgPending = h.c.frameToSend + h.c.msgPending + 1
        /\ g.c.ConnID_out = h.c.ConnID_out
    <3>1. CASE h.c.state = "ACTIVE"
      BY <1>2, <3>1 DEF Queues
    <3>2. CASE h.c.state # "ACTIVE"
      BY <1>2, <3>2 DEF Queues
    <3> QED BY <3>1, <3>2
  <2>3. h.c.ackExpected + (Len(s) - k) = h.c.frameToSend + h.c.msgPending
    BY <1>1 DEF RunsFrom
  <2>4. g.c.ackExpected + (Len(t) - k) = g.c.frameToSend + g.c.msgPending
    BY <1>1, <1>2, <1>5, <2>2, <2>3
  <2>5. ASSUME NEW i \in DOMAIN t, i > k
        PROVE  t[i].seqno = h.c.ackExpected + (i - k - 1) /\ t[i].connid = h.c.ConnID_out
    <3>1. CASE i \in 1..Len(s)
      BY <1>1, <1>2, <1>5, <2>5, <3>1 DEF RunsFrom
    <3>2. CASE i = Len(s) + 1
      BY <1>1, <1>2, <1>4, <1>5, <2>3, <3>2
    <3>3. i \in 1..Len(s) \/ i = Len(s) + 1
      BY <1>2, <1>6
    <3> QED BY <3>1, <3>2, <3>3
  <2> QED BY <1>3, <2>1, <2>2, <2>4, <2>5 DEF RunsFrom
<1> QED BY <1>1, <1>2, <1>3, <1>5, <1>7

\* Of a connection not in use it waits like the others.
LEMMA QueuesNumbered ==
  ASSUME NEW h \in Context, NEW g \in Context, Numbered(h.c), Queues(h, g)
  PROVE  Numbered(g.c)
<1>1. PICK k \in 0..Len(h.c.pendList) : NumberedBy(h.c, k)
  BY DEF Numbered
<1>2. /\ k \in 0..Len(g.c.pendList) /\ Len(g.c.pendList) = Len(h.c.pendList) + 1
      /\ RunsFrom(g.c, k)
  BY <1>1, QueuesRuns DEF NumberedBy
<1>3. /\ Len(h.c.pendList) \in Nat /\ h.c.msgPending \in Nat /\ h.c.state \in State
  BY ContextFields, ConnFields, LenProperties
<1>4. g.c.msgPending = IF g.c.state = "ACTIVE" THEN 0 ELSE Len(g.c.pendList) - k
  BY <1>1, <1>2, <1>3 DEF NumberedBy, Queues
<1>5. g.c.state # "CLOSED"
  BY <1>3 DEF Queues, State
<1> QED BY <1>2, <1>4, <1>5 DEF Numbered, NumberedBy

\* The connection is closed: all buffers are deleted.
LEMMA ClosesNumbered ==
  ASSUME NEW h \in Context, NEW g \in Context, NEW s, Closes(h, g, s)
  PROVE  Numbered(g.c)
<1> DEFINE q == h.c.pendList
           d == Deleted(q)
<1>1. /\ q \in Seq(MsgBuf) /\ Len(q) \in Nat /\ DOMAIN q = 1..Len(q)
      /\ g.c.frameToSend \in Int
  BY ContextFields, ConnFields, LenProperties
<1>2. g.c.pendList = d /\ g.c.pendList \in Seq(MsgBuf)
  BY ContextFields, ConnFields DEF Closes
<1>3. DOMAIN d = 1..Len(q) /\ \A i \in 1..Len(q) : d[i].deleted
  <2>1. \A i \in 1..Len(q) : [q[i] EXCEPT !.deleted = TRUE].deleted
    <3> TAKE i \in 1..Len(q)
    <3>1. q[i] \in MsgBuf
      BY <1>1, ElementOfSeq
    <3> QED BY <3>1 DEF MsgBuf
  <2> HIDE DEF q
  <2> QED BY <1>1, <2>1 DEF Deleted
<1> HIDE DEF d
<1>4. Len(d) = Len(q)
  BY <1>1, <1>2, <1>3, LenProperties
<1>5. NumberedBy(g.c, Len(q))
  BY <1>1, <1>2, <1>3, <1>4 DEF NumberedBy, RunsFrom, Closes
<1> QED BY <1>1, <1>2, <1>4, <1>5 DEF Numbered

\* The first j buffers are freed; those of them that were not deleted count as
\* acknowledged.
LEMMA FreedRuns ==
  ASSUME NEW c \in GoodConn, NEW d \in GoodConn, NEW j \in 0..Len(c.pendList),
         NEW k \in 0..Len(c.pendList), RunsFrom(c, k),
         d.pendList = SubSeq(c.pendList, j + 1, Len(c.pendList)),
         d.ackExpected = c.ackExpected + (IF j > k THEN j - k ELSE 0),
         d.frameToSend = c.frameToSend, d.msgPending = c.msgPending,
         d.ConnID_out = c.ConnID_out
  PROVE  LET l == IF j > k THEN 0 ELSE k - j
         IN  /\ l \in 0..Len(d.pendList) /\ RunsFrom(d, l)
             /\ Len(d.pendList) = Len(c.pendList) - j
<1> DEFINE q == c.pendList
           t == d.pendList
           l == IF j > k THEN 0 ELSE k - j
<1>1. /\ q \in Seq(MsgBuf) /\ Len(q) \in Nat /\ DOMAIN q = 1..Len(q)
      /\ t \in Seq(MsgBuf) /\ Len(t) \in Nat /\ DOMAIN t = 1..Len(t)
      /\ c.ackExpected \in Int /\ c.frameToSend \in Int /\ c.msgPending \in Nat
  BY ConnFields, LenProperties
<1>2. Len(t) = Len(q) - j /\ \A i \in 1..Len(t) : t[i] = q[i + j]
  BY <1>1, SubSeqFields
<1>3. /\ l \in 0..Len(t) /\ j \in Nat /\ k \in Nat
      /\ l = (IF j > k THEN 0 ELSE k - j)
      /\ d.ackExpected = c.ackExpected + (l + j - k)
  BY <1>1, <1>2
<1>4. ASSUME NEW i \in 1..Len(t)
      PROVE  /\ t[i].deleted <=> i <= l
             /\ i > l => /\ t[i].seqno = d.ackExpected + (i - l - 1)
                         /\ t[i].connid = d.ConnID_out
  <2> HIDE DEF l, t, q
  <2>1. t[i] = q[i + j] /\ i + j \in DOMAIN q /\ i \in Nat
    <3>1. i \in Nat /\ i >= 1 /\ i <= Len(q) - j
      BY <1>1, <1>2
    <3>2. i + j >= 1 /\ i + j <= Len(q) /\ i + j \in Nat
      BY <1>1, <1>3, <3>1
    <3> QED BY <1>1, <1>2, <3>1, <3>2
  <2>2. /\ q[i + j].deleted <=> i + j <= k
        /\ i + j > k => /\ q[i + j].seqno = c.ackExpected + (i + j - k - 1)
                        /\ q[i + j].connid = c.ConnID_out
    BY <2>1 DEF RunsFrom, q
  <2>3. (i + j <= k) <=> i <= l
    BY <1>1, <1>3, <2>1
  <2>4. c.ackExpected + (i + j - k - 1) = d.ackExpected + (i - l - 1)
    BY <1>1, <1>3, <2>1
  <2>5. i > l => i + j > k
    BY <1>1, <1>3, <2>1
  <2> QED BY <2>1, <2>2, <2>3, <2>4, <2>5
<1>5. d.ackExpected + (Len(t) - l) = d.frameToSend + d.msgPending
  <2>1. c.ackExpected + (Len(q) - k) = c.frameToSend + c.msgPending
    BY DEF RunsFrom
  <2> HIDE DEF l, t, q
  <2> QED BY <1>1, <1>2, <1>3, <2>1
<1>8. RunsFrom(d, l)
  BY <1>1, <1>4, <1>5 DEF RunsFrom
<1> QED BY <1>2, <1>3, <1>8

\* Messages are acknowledged only while the connection is in use.
LEMMA FreedNumbered ==
  ASSUME NEW c \in GoodConn, NEW d \in GoodConn, NEW j \in 0..Len(c.pendList),
         NEW k \in 0..Len(c.pendList), NumberedBy(c, k),
         d.pendList = SubSeq(c.pendList, j + 1, Len(c.pendList)),
         d.ackExpected = c.ackExpected + (IF j > k THEN j - k ELSE 0),
         d.frameToSend = c.frameToSend, d.msgPending = c.msgPending,
         d.ConnID_out = c.ConnID_out, d.state = c.state,
         j <= k \/ c.state = "ACTIVE"
  PROVE  Numbered(d)
<1> DEFINE l == IF j > k THEN 0 ELSE k - j
<1>1. /\ l \in 0..Len(d.pendList) /\ RunsFrom(d, l)
      /\ Len(d.pendList) = Len(c.pendList) - j
  BY FreedRuns DEF NumberedBy
<1>2. Len(c.pendList) \in Nat /\ c.msgPending \in Nat
  BY ConnFields, LenProperties
<1>3. CASE c.state = "ACTIVE"
  BY <1>1, <1>2, <1>3 DEF Numbered, NumberedBy
<1>4. CASE c.state # "ACTIVE"
  <2>1. l = k - j /\ j \in Nat /\ k \in Nat /\ j <= k
    BY <1>2, <1>4
  <2>2. /\ c.msgPending = Len(c.pendList) - k
        /\ c.state = "CLOSED" => k = Len(c.pendList)
    BY <1>4 DEF NumberedBy
  <2> HIDE DEF l
  <2>3. d.msgPending = Len(d.pendList) - l
    BY <1>1, <1>2, <2>1, <2>2
  <2>4. d.state = "CLOSED" => l = Len(d.pendList)
    BY <1>1, <1>2, <2>1, <2>2
  <2> QED BY <1>1, <1>4, <2>3, <2>4 DEF Numbered, NumberedBy
<1> QED BY <1>3, <1>4

\* putMsg() of deleted buffers.
LEMMA DropsNumbered ==
  ASSUME NEW h \in Context, NEW g \in Context, NEW j, Numbered(h.c),
         Drops(h, g, j)
  PROVE  Numbered(g.c)
<1> DEFINE c == h.c
           e == [c EXCEPT !.pendList = SubSeq(@, j + 1, Len(@))]
<1>1. PICK k \in 0..Len(c.pendList) : NumberedBy(c, k)
  BY DEF Numbered
<1>2. /\ c \in GoodConn /\ g.c \in GoodConn /\ c \in Conn
      /\ Len(c.pendList) \in Nat /\ DOMAIN c.pendList = 1..Len(c.pendList)
      /\ c.ackExpected \in Int
  BY ContextFields, ConnFields, LenProperties
<1>3. /\ e.pendList = SubSeq(c.pendList, j + 1, Len(c.pendList))
      /\ e.ackExpected = c.ackExpected /\ e.frameToSend = c.frameToSend
      /\ e.msgPending = c.msgPending
  <2> HIDE DEF c
  <2> QED BY <1>2 DEF Conn
<1>4. /\ j \in 0..Len(c.pendList) /\ \A i \in 1..j : c.pendList[i].deleted
      /\ g.c.state = c.state /\ g.c.ConnID_out = c.ConnID_out
      /\ SameNumbers(e, g.c)
  BY DEF Drops
<1> HIDE DEF e, c
<1>5. j <= k
  BY <1>1, <1>2, <1>4 DEF NumberedBy, RunsFrom
<1>6. /\ g.c.pendList = SubSeq(c.pendList, j + 1, Len(c.pendList))
      /\ g.c.ackExpected = c.ackExpected + (IF j > k THEN j - k ELSE 0)
      /\ g.c.frameToSend = c.frameToSend /\ g.c.msgPending = c.msgPending
  BY <1>2, <1>3, <1>4, <1>5 DEF SameNumbers
<1> QED BY <1>1, <1>2, <1>4, <1>5, <1>6, FreedNumbered

\* The fields behind the release of acknowledged messages.
LEMMA DiscardsFields ==
  ASSUME NEW h \in Context, NEW g \in Context, NEW p \in Packet,
         NEW k \in 0..Len(h.c.pendList), RunsFrom(h.c, k), Discards(h, g, p)
  PROVE  LET j == FreedBy(h.c.pendList, p.ackno)
         IN  /\ j \in 0..Len(h.c.pendList)
             /\ \A i \in 1..j : h.c.pendList[i].deleted \/ h.c.pendList[i].seqno <= p.ackno
             /\ g.c.pendList = SubSeq(h.c.pendList, j + 1, Len(h.c.pendList))
             /\ g.c.ackExpected = h.c.ackExpected + (IF j > k THEN j - k ELSE 0)
             /\ g.c.frameToSend = h.c.frameToSend
             /\ g.c.frameExpected = h.c.frameExpected
             /\ g.c.ConnID_in = h.c.ConnID_in
             /\ g.c.msgPending = h.c.msgPending
             /\ g.c.ConnID_out = h.c.ConnID_out /\ g.c.state = h.c.state
<1> DEFINE c == h.c
           j == FreedBy(c.pendList, p.ackno)
           acked == Cardinality({i \in Live(c) : i <= j})
           e == [c EXCEPT !.pendList = SubSeq(@, j + 1, Len(@)),
                          !.ackExpected = @ + acked]
<1>1. /\ c \in GoodConn /\ c \in Conn /\ c.pendList \in Seq(MsgBuf)
      /\ Len(c.pendList) \in Nat /\ p.ackno \in Int
  BY ContextFields, ConnFields, LenProperties DEF Packet
<1>2. /\ j \in 0..Len(c.pendList)
      /\ \A i \in 1..j : c.pendList[i].deleted \/ c.pendList[i].seqno <= p.ackno
  BY <1>1, FreedByFacts
<1>3. /\ SameNumbers(e, g.c) /\ g.c.state = c.state
      /\ g.c.ConnID_out = c.ConnID_out
  BY DEF Discards
<1> HIDE DEF j
<1>4. acked = IF j > k THEN j - k ELSE 0
  <2>1. \A i \in DOMAIN c.pendList : c.pendList[i].deleted <=> i <= k
    BY DEF RunsFrom
  <2> HIDE DEF c
  <2> QED BY <1>1, <1>2, <2>1, LiveCount DEF c
<1> HIDE DEF acked
<1>5. /\ e.pendList = SubSeq(c.pendList, j + 1, Len(c.pendList))
      /\ e.ackExpected = c.ackExpected + acked
      /\ e.frameToSend = c.frameToSend /\ e.msgPending = c.msgPending
      /\ e.frameExpected = c.frameExpected /\ e.ConnID_in = c.ConnID_in
  <2> HIDE DEF c
  <2> QED BY <1>1 DEF Conn
<1> HIDE DEF e
<1> QED BY <1>2, <1>3, <1>4, <1>5 DEF SameNumbers, j

\* A connection not in use has nothing to free but deleted buffers.
LEMMA FreesFields ==
  ASSUME NEW h \in Context, NEW g \in Context, NEW p \in Packet,
         NEW k \in 0..Len(h.c.pendList), NumberedBy(h.c, k), Frees(h, g, p)
  PROVE  LET j == FreedBy(h.c.pendList, p.ackno)
         IN  /\ j \in 0..Len(h.c.pendList)
             /\ \A i \in 1..j : h.c.pendList[i].deleted \/ h.c.pendList[i].seqno <= p.ackno
             /\ j <= k \/ h.c.state = "ACTIVE"
             /\ g.c.pendList = SubSeq(h.c.pendList, j + 1, Len(h.c.pendList))
             /\ g.c.ackExpected = h.c.ackExpected + (IF j > k THEN j - k ELSE 0)
             /\ g.c.frameToSend = h.c.frameToSend
             /\ g.c.frameExpected = h.c.frameExpected
             /\ g.c.ConnID_in = h.c.ConnID_in
             /\ g.c.msgPending = h.c.msgPending
             /\ g.c.ConnID_out = h.c.ConnID_out /\ g.c.state = h.c.state
<1> DEFINE j == FreedBy(h.c.pendList, p.ackno)
<1>1. RunsFrom(h.c, k) /\ Discards(h, g, p)
  BY DEF NumberedBy, Frees
<1>2. /\ j \in 0..Len(h.c.pendList)
      /\ \A i \in 1..j : h.c.pendList[i].deleted \/ h.c.pendList[i].seqno <= p.ackno
      /\ g.c.pendList = SubSeq(h.c.pendList, j + 1, Len(h.c.pendList))
      /\ g.c.ackExpected = h.c.ackExpected + (IF j > k THEN j - k ELSE 0)
      /\ g.c.frameToSend = h.c.frameToSend
      /\ g.c.frameExpected = h.c.frameExpected
      /\ g.c.ConnID_in = h.c.ConnID_in
      /\ g.c.msgPending = h.c.msgPending
      /\ g.c.ConnID_out = h.c.ConnID_out /\ g.c.state = h.c.state
  BY <1>1, DiscardsFields
<1> HIDE DEF j
<1>3. j <= k \/ h.c.state = "ACTIVE"
  <2>1. Len(h.c.pendList) \in Nat
    BY ContextFields, ConnFields, LenProperties
  <2> QED BY <1>2, <2>1 DEF NumberedBy, Frees
<1> QED BY <1>2, <1>3 DEF j

\* The release of acknowledged messages.
LEMMA FreesNumbered ==
  ASSUME NEW h \in Context, NEW g \in Context, NEW p \in Packet, Numbered(h.c),
         Frees(h, g, p)
  PROVE  Numbered(g.c)
<1>1. PICK k \in 0..Len(h.c.pendList) : NumberedBy(h.c, k)
  BY DEF Numbered
<1>2. h.c \in GoodConn /\ g.c \in GoodConn
  BY ContextFields
<1> DEFINE j == FreedBy(h.c.pendList, p.ackno)
<1>3. /\ j \in 0..Len(h.c.pendList)
      /\ j <= k \/ h.c.state = "ACTIVE"
      /\ g.c.pendList = SubSeq(h.c.pendList, j + 1, Len(h.c.pendList))
      /\ g.c.ackExpected = h.c.ackExpected + (IF j > k THEN j - k ELSE 0)
      /\ g.c.frameToSend = h.c.frameToSend /\ g.c.msgPending = h.c.msgPending
      /\ g.c.ConnID_out = h.c.ConnID_out /\ g.c.state = h.c.state
  BY <1>1, FreesFields
<1> HIDE DEF j
<1> QED BY <1>1, <1>2, <1>3, FreedNumbered

\* The messages that waited count as sent.
LEMMA EstablishesNumbered ==
  ASSUME NEW h \in Context, NEW g \in Context, Numbered(h.c), Establishes(h, g)
  PROVE  Numbered(g.c)
<1> DEFINE c == h.c
           e == [c EXCEPT !.frameToSend = @ + h.c.msgPending, !.msgPending = 0]
<1>1. PICK k \in 0..Len(c.pendList) : NumberedBy(c, k)
  BY DEF Numbered
<1>2. c \in Conn /\ c.frameToSend \in Int /\ c.msgPending \in Nat
  BY ContextFields, ConnFields
<1>3. /\ e.pendList = c.pendList /\ e.ackExpected = c.ackExpected
      /\ e.frameToSend = c.frameToSend + c.msgPending /\ e.msgPending = 0
  <2> HIDE DEF c
  <2> QED BY <1>2 DEF Conn, c
<1>4. SameNumbers(e, g.c) /\ g.c.state = "ACTIVE" /\ g.c.ConnID_out = c.ConnID_out
  BY DEF Establishes
<1> HIDE DEF e, c
<1>5. g.c.pendList = c.pendList /\ NumberedBy(g.c, k)
  BY <1>1, <1>2, <1>3, <1>4 DEF NumberedBy, RunsFrom, SameNumbers
<1> QED BY <1>1, <1>5 DEF Numbered

\* The message in a packet is taken, or the numbering of the peer taken over.
LEMMA InputNumbered ==
  ASSUME NEW h \in Context, NEW g \in Context, NEW p, Numbered(h.c),
         Advances(h, g, p) \/ Adopts(h, g, p)
  PROVE  Numbered(g.c)
<1> DEFINE c == h.c
           e == [c EXCEPT !.frameExpected = @ + 1]
           f == [c EXCEPT !.frameExpected = p.seqno, !.ConnID_in = p.connid]
<1>1. c \in Conn
  BY ContextFields, ConnFields
<1>2. /\ e.pendList = c.pendList /\ e.ackExpected = c.ackExpected
      /\ e.frameToSend = c.frameToSend /\ e.msgPending = c.msgPending
      /\ f.pendList = c.pendList /\ f.ackExpected = c.ackExpected
      /\ f.frameToSend = c.frameToSend /\ f.msgPending = c.msgPending
  <2> HIDE DEF c
  <2> QED BY <1>1 DEF Conn
<1>3. /\ SameNumbers(e, g.c) \/ SameNumbers(f, g.c)
      /\ g.c.ConnID_out = c.ConnID_out
      /\ g.c.state = "ACTIVE" <=> c.state = "ACTIVE"
      /\ g.c.state = "CLOSED" => c.state = "CLOSED"
  BY DEF Advances, Adopts
<1> HIDE DEF e, f, c
<1>4. PICK k \in 0..Len(c.pendList) : NumberedBy(c, k)
  BY DEF Numbered, c
<1>5. g.c.pendList = c.pendList /\ NumberedBy(g.c, k)
  BY <1>2, <1>3, <1>4 DEF NumberedBy, RunsFrom, SameNumbers
<1> QED BY <1>4, <1>5 DEF Numbered

\* No step of a handler leaves the set.
LEMMA NumberedClosed == Closed(NumberedContext)
<1> DEFINE S == NumberedContext
<1>1. \A h \in S, g \in Context : Passes(h, g) => g.env.react # "LOST"
  BY DEF NumberedContext, Passes
<1>2. ASSUME NEW h \in S, NEW g \in Context, NEW s, Sends(h, g, s)
      PROVE  g \in S
  BY <1>1, <1>2, SameNumbered DEF Sends, NumberedContext
<1>3. ASSUME NEW h \in S, NEW g \in Context, NEW s, Closes(h, g, s)
      PROVE  g \in S
  BY <1>1, <1>3, ClosesNumbered DEF Closes, NumberedContext
<1>4. ASSUME NEW h \in S, NEW g \in Context
      PROVE  /\ Queues(h, g) => g \in S
             /\ Requests(h, g) => g \in S
             /\ Establishes(h, g) => g \in S
             /\ \A k : Drops(h, g, k) => g \in S
             /\ \A p : Adopts(h, g, p) => g \in S
             /\ \A p : Advances(h, g, p) => g \in S
             /\ \A p \in Packet : Frees(h, g, p) => g \in S
  <2>0. h \in Context /\ Numbered(h.c)
    BY DEF NumberedContext
  <2>1. Queues(h, g) => g \in S
    BY <1>1, <2>0, QueuesNumbered DEF Queues, NumberedContext
  <2>2. Requests(h, g) => g \in S
    <3>1. SUFFICES ASSUME Requests(h, g) PROVE g \in S
      OBVIOUS
    <3>2. Numbered(g.c)
      BY <2>0, <3>1, SameNumbered DEF Requests
    <3> QED BY <1>1, <3>1, <3>2 DEF Requests, OnlyConn, NumberedContext
  <2>3. Establishes(h, g) => g \in S
    BY <1>1, <2>0, EstablishesNumbered DEF Establishes, NumberedContext
  <2>4. \A k : Drops(h, g, k) => g \in S
    BY <1>1, <2>0, DropsNumbered DEF Drops, OnlyConn, NumberedContext
  <2>5. \A p : Adopts(h, g, p) => g \in S
    BY <1>1, <2>0, InputNumbered DEF Adopts, OnlyConn, NumberedContext
  <2>6. \A p : Advances(h, g, p) => g \in S
    BY <1>1, <2>0, InputNumbered DEF Advances, OnlyConn, NumberedContext
  <2>7. \A p \in Packet : Frees(h, g, p) => g \in S
    BY <1>1, <2>0, FreesNumbered DEF Frees, Discards, OnlyConn, NumberedContext
  <2> QED BY <2>1, <2>2, <2>3, <2>4, <2>5, <2>6, <2>7
<1>5. S \subseteq Context /\ \A h \in S : h.env.react # "LOST"
  BY DEF NumberedContext
<1> HIDE DEF S
<1>6. ClosedUnder(S)
  BY <1>2, <1>3, <1>4, <1>5 DEF ClosedUnder
<1>7. Acknowledging(S)
  BY <1>2, <1>6 DEF Acknowledging
<1>8. \A p \in Packet : ClosedFor(S, p)
  BY <1>4, <1>6 DEF ClosedFor
<1>9. Closed(S)
  BY <1>4, <1>6, <1>7, <1>8 DEF Closed
<1> QED BY <1>9 DEF S

\* All queues are numbered.
AllNumbered == \A n \in Node : \A m \in Peer(n) : Numbered(conn[n][m])

\* The entry of a freshly started psid is.
LEMMA InitNumbered ==
  ASSUME NEW fts \in FirstToSend, NEW fe, NEW id
  PROVE  Numbered(InitConn(fts, fe, id))
<1> DEFINE c == InitConn(fts, fe, id)
<1>1. /\ c.pendList = << >> /\ c.ackExpected = fts /\ c.frameToSend = fts
      /\ c.msgPending = 0 /\ c.state = "CLOSED" /\ fts \in Int
  BY FirstAssumption DEF InitConn
<1> HIDE DEF c
<1>2. Len(c.pendList) = 0 /\ DOMAIN c.pendList = {}
  BY <1>1
<1>3. NumberedBy(c, 0)
  BY <1>1, <1>2 DEF NumberedBy, RunsFrom
<1> QED BY <1>2, <1>3 DEF Numbered, c

\* Every step keeps the numbers in order.
LEMMA NumberedStep ==
  ASSUME \A env \in Environ : env.react # "LOST",
         IInv, AllNumbered, [Next]_vars
  PROVE  AllNumbered'
<1> SUFFICES ASSUME NEW n \in Node, NEW m \in Peer(n)
             PROVE  Numbered(conn'[n][m])
  BY DEF AllNumbered
<1>1. m \in Node /\ n \in Peer(m)
  BY PeerOfPeer
<1>2. Numbered(conn[n][m])
  BY DEF AllNumbered
<1>3. PairStep(n, m)
  BY StepIsPairStep
<1>4. CASE Acts(n, m) \/ Receives(n, m)
  <2>1. Starts(n, m, NumberedContext)
    BY <1>2, CtxType, CtxFields DEF Starts, NumberedContext
  <2>2. \E h \in NumberedContext : Ends(n, m, h)
    BY <1>4, <2>1, NumberedClosed, ClosedMoves
  <2> QED BY <2>2 DEF Ends, NumberedContext
<1>5. CASE Restarts(n, m)
  BY <1>5, InitNumbered DEF Restarts
<1>6. CASE Ticks(n, m)
  BY <1>2, <1>6, SameNumbered DEF Ticks
<1>7. CASE ~(Acts(n, m) \/ Receives(n, m) \/ Restarts(n, m) \/ Ticks(n, m))
  <2>1. conn'[n][m] = conn[n][m]
    BY <1>3, <1>7 DEF PairStep, Moves, Acts, Receives, Ticks, Loses, Swaps,
                      Restarts, Still, Untouched
  <2> QED BY <1>2, <2>1
<1> QED BY <1>4, <1>5, <1>6, <1>7

-----------------------------------------------------------------------------
(* Consecutive numbers need nothing else, so they hold whatever is done from *)
(* within a callback.                                                        *)

\* Nothing that matters for them has changed.
LEMMA SameRuns ==
  ASSUME NEW c, NEW d, Consecutive(c),
         d.pendList = c.pendList, d.ackExpected = c.ackExpected,
         d.ConnID_out = c.ConnID_out,
         d.frameToSend + d.msgPending = c.frameToSend + c.msgPending
  PROVE  Consecutive(d)
BY DEF Consecutive, RunsFrom

\* Buffers are freed.
LEMMA DiscardsRuns ==
  ASSUME NEW h \in Context, NEW g \in Context, Consecutive(h.c)
  PROVE  /\ \A p \in Packet : Discards(h, g, p) => Consecutive(g.c)
         /\ \A j : Drops(h, g, j) => Consecutive(g.c)
<1>1. PICK k \in 0..Len(h.c.pendList) : RunsFrom(h.c, k)
  BY DEF Consecutive
<1>2. h.c \in GoodConn /\ g.c \in GoodConn
  BY ContextFields
<1>3. ASSUME NEW p \in Packet, Discards(h, g, p)
      PROVE  Consecutive(g.c)
  <2> DEFINE j == FreedBy(h.c.pendList, p.ackno)
  <2>1. /\ j \in 0..Len(h.c.pendList)
        /\ g.c.pendList = SubSeq(h.c.pendList, j + 1, Len(h.c.pendList))
        /\ g.c.ackExpected = h.c.ackExpected + (IF j > k THEN j - k ELSE 0)
        /\ g.c.frameToSend = h.c.frameToSend /\ g.c.msgPending = h.c.msgPending
        /\ g.c.ConnID_out = h.c.ConnID_out
    BY <1>1, <1>3, DiscardsFields
  <2> HIDE DEF j
  <2> DEFINE l == IF j > k THEN 0 ELSE k - j
  <2>2. l \in 0..Len(g.c.pendList) /\ RunsFrom(g.c, l)
    BY <1>1, <1>2, <2>1, FreedRuns
  <2> HIDE DEF l
  <2> QED BY <2>2 DEF Consecutive
<1>4. ASSUME NEW j, Drops(h, g, j)
      PROVE  Consecutive(g.c)
  <2> DEFINE c == h.c
             e == [c EXCEPT !.pendList = SubSeq(@, j + 1, Len(@))]
             l == IF j > k THEN 0 ELSE k - j
  <2>1. /\ c \in Conn /\ Len(c.pendList) \in Nat
        /\ DOMAIN c.pendList = 1..Len(c.pendList) /\ c.ackExpected \in Int
    BY ContextFields, ConnFields, LenProperties
  <2>2. /\ e.pendList = SubSeq(c.pendList, j + 1, Len(c.pendList))
        /\ e.ackExpected = c.ackExpected /\ e.frameToSend = c.frameToSend
        /\ e.msgPending = c.msgPending
    <3> HIDE DEF c
    <3> QED BY <2>1 DEF Conn
  <2>3. /\ j \in 0..Len(c.pendList) /\ \A i \in 1..j : c.pendList[i].deleted
        /\ g.c.ConnID_out = c.ConnID_out /\ SameNumbers(e, g.c)
    BY <1>4 DEF Drops
  <2> HIDE DEF e
  <2>4. j <= k
    BY <1>1, <2>1, <2>3 DEF RunsFrom
  <2>5. /\ g.c.pendList = SubSeq(c.pendList, j + 1, Len(c.pendList))
        /\ g.c.ackExpected = c.ackExpected + (IF j > k THEN j - k ELSE 0)
        /\ g.c.frameToSend = c.frameToSend /\ g.c.msgPending = c.msgPending
    BY <1>1, <2>1, <2>2, <2>3, <2>4 DEF SameNumbers
  <2>6. l \in 0..Len(g.c.pendList) /\ RunsFrom(g.c, l)
    BY <1>1, <1>2, <2>3, <2>5, FreedRuns
  <2> HIDE DEF l
  <2> QED BY <2>6 DEF Consecutive
<1> QED BY <1>3, <1>4

\* The messages that waited count as sent, or the receiver moves on.
LEMMA OtherRuns ==
  ASSUME NEW h \in Context, NEW g \in Context, Consecutive(h.c), NEW p,
         Establishes(h, g) \/ Adopts(h, g, p) \/ Advances(h, g, p)
  PROVE  Consecutive(g.c)
<1> DEFINE c == h.c
           b == [c EXCEPT !.frameToSend = @ + c.msgPending, !.msgPending = 0]
           e == [c EXCEPT !.frameExpected = @ + 1]
           f == [c EXCEPT !.frameExpected = p.seqno, !.ConnID_in = p.connid]
<1>1. c \in Conn /\ c.frameToSend \in Int /\ c.msgPending \in Nat
  BY ContextFields, ConnFields
<1>2. /\ e.pendList = c.pendList /\ e.ackExpected = c.ackExpected
      /\ e.frameToSend = c.frameToSend /\ e.msgPending = c.msgPending
      /\ f.pendList = c.pendList /\ f.ackExpected = c.ackExpected
      /\ f.frameToSend = c.frameToSend /\ f.msgPending = c.msgPending
      /\ b.pendList = c.pendList /\ b.ackExpected = c.ackExpected
      /\ b.frameToSend = c.frameToSend + c.msgPending /\ b.msgPending = 0
  <2> HIDE DEF c
  <2> QED BY <1>1 DEF Conn
<1>3. /\ SameNumbers(b, g.c) \/ SameNumbers(e, g.c) \/ SameNumbers(f, g.c)
      /\ g.c.ConnID_out = c.ConnID_out
  BY DEF Establishes, Adopts, Advances
<1> HIDE DEF b, e, f
<1>4. /\ g.c.pendList = c.pendList /\ g.c.ackExpected = c.ackExpected
      /\ g.c.frameToSend + g.c.msgPending = c.frameToSend + c.msgPending
  BY <1>1, <1>2, <1>3 DEF SameNumbers
<1> QED BY <1>3, <1>4, SameRuns DEF c

ConsecutiveContext == {h \in Context : Consecutive(h.c)}

\* No step of a handler leaves the set, not even one that goes on with a
\* connection which has been opened anew from within RDP_LOST_CONNECTION.
LEMMA ConsecutiveClosed == Closed(ConsecutiveContext)
<1> DEFINE S == ConsecutiveContext
<1>1. \A h : h \in S <=> h \in Context /\ Consecutive(h.c)
  BY DEF ConsecutiveContext
<1>2. S \subseteq Context
  BY <1>1
<1> HIDE DEF S
<1>3. Indifferent(S)
  BY <1>1, SameRuns, DiscardsRuns DEF Indifferent, SameQueue
<1>4. ASSUME NEW h \in S, NEW g \in Context, NEW s
      PROVE  /\ Sends(h, g, s) => g \in S
             /\ Closes(h, g, s) => g \in S
  <2>1. Sends(h, g, s) => g \in S
    BY <1>1, SameRuns DEF Sends, SameNumbers
  <2>2. Closes(h, g, s) => g \in S
    BY <1>1, ClosesNumbered DEF Numbered, NumberedBy, Consecutive
  <2> QED BY <2>1, <2>2
<1>5. ASSUME NEW h \in S, NEW g \in Context
      PROVE  /\ Queues(h, g) => g \in S
             /\ Requests(h, g) => g \in S
             /\ Establishes(h, g) => g \in S
             /\ \A k : Drops(h, g, k) => g \in S
             /\ \A p : Adopts(h, g, p) \/ Advances(h, g, p) => g \in S
             /\ \A p \in Packet : Frees(h, g, p) => g \in S
  <2>1. Queues(h, g) => g \in S
    BY <1>1, QueuesRuns DEF Consecutive
  <2>2. Requests(h, g) => g \in S
    BY <1>1, SameRuns DEF Requests, SameNumbers
  <2>3. /\ Establishes(h, g) => g \in S
        /\ \A p : Adopts(h, g, p) \/ Advances(h, g, p) => g \in S
    BY <1>1, OtherRuns
  <2>4. /\ \A k : Drops(h, g, k) => g \in S
        /\ \A p \in Packet : Frees(h, g, p) => g \in S
    BY <1>1, DiscardsRuns DEF Frees
  <2> QED BY <2>1, <2>2, <2>3, <2>4
<1>6. ClosedUnder(S)
  BY <1>2, <1>3, <1>4, <1>5 DEF ClosedUnder
<1>7. Acknowledging(S)
  BY <1>4, <1>6 DEF Acknowledging
<1>8. \A p \in Packet : ClosedFor(S, p)
  BY <1>5, <1>6 DEF ClosedFor
<1>9. Closed(S)
  BY <1>5, <1>6, <1>7, <1>8 DEF Closed
<1> QED BY <1>9 DEF S

AllConsecutive == \A n \in Node : \A m \in Peer(n) : Consecutive(conn[n][m])

\* Every step keeps the numbers consecutive.
LEMMA ConsecutiveStep ==
  ASSUME IInv, AllConsecutive, [Next]_vars
  PROVE  AllConsecutive'
<1> SUFFICES ASSUME NEW n \in Node, NEW m \in Peer(n)
             PROVE  Consecutive(conn'[n][m])
  BY DEF AllConsecutive
<1>1. Consecutive(conn[n][m])
  BY DEF AllConsecutive
<1>2. PairStep(n, m)
  BY StepIsPairStep
<1>3. CASE Acts(n, m) \/ Receives(n, m)
  <2>1. Starts(n, m, ConsecutiveContext)
    BY <1>1, CtxType, CtxFields DEF Starts, ConsecutiveContext
  <2>2. \E h \in ConsecutiveContext : Ends(n, m, h)
    BY <1>3, <2>1, ConsecutiveClosed, ClosedMoves
  <2> QED BY <2>2 DEF Ends, ConsecutiveContext
<1>4. CASE Restarts(n, m)
  BY <1>4, InitNumbered DEF Restarts, Numbered, NumberedBy, Consecutive
<1>5. CASE Ticks(n, m)
  BY <1>1, <1>5, SameRuns DEF Ticks, SameNumbers
<1>6. CASE ~(Acts(n, m) \/ Receives(n, m) \/ Restarts(n, m) \/ Ticks(n, m))
  <2>1. conn'[n][m] = conn[n][m]
    BY <1>2, <1>6 DEF PairStep, Moves, Acts, Receives, Ticks, Loses, Swaps,
                      Restarts, Still, Untouched
  <2> QED BY <1>1, <2>1
<1> QED BY <1>3, <1>4, <1>5, <1>6

-----------------------------------------------------------------------------
(* The two invariants.                                                     *)

\* The number of live messages.
LEMMA RunsLive ==
  ASSUME NEW c \in GoodConn, NEW k \in 0..Len(c.pendList), RunsFrom(c, k)
  PROVE  Cardinality(Live(c)) = Len(c.pendList) - k
<1> DEFINE T == {i \in Live(c) : i <= Len(c.pendList)}
           N == Len(c.pendList)
<1>1. N \in Nat /\ DOMAIN c.pendList = 1..N
  BY ConnFields, LenProperties
<1>2. Live(c) = T
  BY <1>1 DEF Live
<1>3. \A i \in DOMAIN c.pendList : c.pendList[i].deleted <=> i <= k
  BY DEF RunsFrom
<1>4. N \in 0..N
  BY <1>1
<1>5. Cardinality(T) = IF N > k THEN N - k ELSE 0
  BY <1>3, <1>4, LiveCount
<1> HIDE DEF T
<1>6. Cardinality(T) = N - k
  BY <1>1, <1>5
<1> QED BY <1>2, <1>6

\* What SequenceNumbers says of one connection.
NumbersMatch(c) ==
  LET next == c.frameToSend + c.msgPending
  IN  /\ c.ackExpected + Cardinality(Live(c)) = next
      /\ \A i \in Live(c) :
           /\ c.pendList[i].seqno = next - 1 - (Len(c.pendList) - i)
           /\ c.pendList[i].connid = c.ConnID_out

\* They follow.
LEMMA ConsecutiveImplies == IInv /\ AllConsecutive => SequenceNumbers
<1> SUFFICES ASSUME IInv, AllConsecutive, NEW n \in Node, NEW m \in Peer(n)
             PROVE  NumbersMatch(conn[n][m])
  BY DEF SequenceNumbers, NumbersMatch
<1> DEFINE c == conn[n][m]
<1>1. c \in GoodConn
  BY TableEntryType DEF IInv
<1>2. PICK k \in 0..Len(c.pendList) : RunsFrom(c, k)
  BY DEF AllConsecutive, Consecutive
<1> HIDE DEF c
<1>3. /\ Len(c.pendList) \in Nat /\ DOMAIN c.pendList = 1..Len(c.pendList)
      /\ c.ackExpected \in Int /\ c.frameToSend \in Int /\ c.msgPending \in Nat
  BY <1>1, ConnFields, LenProperties
<1>4. Cardinality(Live(c)) = Len(c.pendList) - k
  BY <1>1, <1>2, RunsLive
<1>5. ASSUME NEW i \in Live(c)
      PROVE  /\ c.pendList[i].seqno = (c.frameToSend + c.msgPending) - 1
                                        - (Len(c.pendList) - i)
             /\ c.pendList[i].connid = c.ConnID_out
  <2>1. i \in DOMAIN c.pendList /\ i > k /\ i \in Nat /\ k \in Nat
    BY <1>2, <1>3 DEF RunsFrom, Live
  <2>2. /\ c.pendList[i].seqno = c.ackExpected + (i - k - 1)
        /\ c.pendList[i].connid = c.ConnID_out
        /\ c.ackExpected + (Len(c.pendList) - k) = c.frameToSend + c.msgPending
    BY <1>2, <2>1 DEF RunsFrom
  <2> DEFINE y == c.frameToSend + c.msgPending
             N == Len(c.pendList)
             x == c.ackExpected
  <2>3. x \in Int /\ y \in Int /\ N \in Int /\ x + (N - k) = y
    BY <1>3, <2>2
  <2>4. c.pendList[i].seqno = x + (i - k - 1)
    BY <2>2
  <2> HIDE DEF x, y, N
  <2>5. x + (i - k - 1) = y - 1 - (N - i)
    BY <2>1, <2>3
  <2>6. c.pendList[i].seqno = y - 1 - (N - i)
    BY <2>4, <2>5
  <2> QED BY <1>3, <2>1, <2>2, <2>6 DEF y, N
<1>6. c.ackExpected + Cardinality(Live(c)) = c.frameToSend + c.msgPending
  BY <1>2, <1>3, <1>4 DEF RunsFrom
<1>7. NumbersMatch(c)
  BY <1>5, <1>6 DEF NumbersMatch
<1> QED BY <1>7 DEF c

LEMMA NumberedImplies == IInv /\ AllNumbered => PendingCounted
<1> SUFFICES ASSUME IInv, AllNumbered, NEW n \in Node, NEW m \in Peer(n)
             PROVE  LET c == conn[n][m]
                    IN  c.msgPending = IF c.state = "ACTIVE" THEN 0
                                       ELSE Cardinality(Live(c))
  BY DEF PendingCounted
<1> DEFINE c == conn[n][m]
<1>1. c \in GoodConn
  BY TableEntryType DEF IInv
<1>2. PICK k \in 0..Len(c.pendList) : NumberedBy(c, k)
  BY DEF AllNumbered, Numbered
<1> HIDE DEF c
<1>3. Cardinality(Live(c)) = Len(c.pendList) - k
  BY <1>1, <1>2, RunsLive DEF NumberedBy
<1> QED BY <1>2, <1>3 DEF NumberedBy, c

\* "strange things happen" never do: across resends, reconnects, failures in
\* the middle of a loop, callbacks that send, restarts and cleanups the live
\* messages carry consecutive numbers from ackExpected on, and the connection ID
\* in use.
THEOREM NumbersConsecutive == Spec => []SequenceNumbers
<1>1. Init => AllConsecutive
  BY InitNumbered DEF Init, AllConsecutive, Numbered, NumberedBy, Consecutive
<1>2. IInv /\ AllConsecutive /\ [Next]_vars => IInv' /\ AllConsecutive'
  BY NextInvariant, ConsecutiveStep
<1> QED BY <1>1, <1>2, InitInvariant, ConsecutiveImplies, PTL DEF Spec

\* msgPending counts the messages that wait for a connection, and none while
\* it is in use, if the upper layer sends nothing from within
\* RDP_LOST_CONNECTION.
THEOREM WaitingCounted ==
  ASSUME \A env \in Environ : env.react # "LOST"
  PROVE  Spec => []PendingCounted
<1>1. Init => AllNumbered
  BY InitNumbered DEF Init, AllNumbered
<1>2. IInv /\ AllNumbered /\ [Next]_vars => IInv' /\ AllNumbered'
  BY NextInvariant, NumberedStep
<1> QED BY <1>1, <1>2, InitInvariant, NumberedImplies, PTL DEF Spec

-----------------------------------------------------------------------------
(***************************************************************************)
(* One direction                                                           *)
(*                                                                         *)
(* A message is on its way from one psid to another in three places: in    *)
(* the queue of the sender, in packets under way, and with the receiver.   *)
(* The invariant Ordered relates the three: what is later in the queue or  *)
(* on the net is a later message, unless it has been sent again, which     *)
(* only happens while the receiver would not take it a second time or a    *)
(* SYN ahead of it starts the numbers anew.                                *)
(***************************************************************************)

Sync(p) == p.type \in {"SYN", "SYNACK"}
Data(p) == p.type = "DATA"

\* A receiver that takes no message until it has seen a SYN or SYNACK.
Down(r) == r.state \in {"CLOSED", "SYN_SENT"}

\* The receiver r does not take the number q.
Over(r, q) == Down(r) \/ q < r.frameExpected

\* Message x is later than all that have been received.
Fresh(got, x) == \A i \in DOMAIN got : got[i] < x

\* The packets i to j of w contain no SYN or SYNACK.
NoSync(w, i, j) == \A k \in i..j : ~Sync(w[k])

\* Packet i of w to the receiver r: the message in it is a later one, or is
\* not taken; it is later than the messages ahead of it, or sent again.
PacketInOrder(w, i, r, got, acc) ==
  /\ w[i].payload \in 1..acc
  /\ Fresh(got, w[i].payload) \/ (Over(r, w[i].seqno) /\ NoSync(w, 1, i))
  /\ \A j \in 1..i : Data(w[j]) =>
       \/ w[j].payload < w[i].payload
       \/ w[i].seqno <= w[j].seqno /\ NoSync(w, j, i)

\* The same of message l in the queue of the sender c, behind all packets.
\* Only an established connection has sent it before.
MessageInOrder(w, c, l, r, got, acc) ==
  LET x == c.pendList[l]
  IN  /\ x.payload \in 1..acc
      /\ \/ Fresh(got, x.payload)
         \/ Over(r, x.seqno) /\ c.state = "ACTIVE" /\ NoSync(w, 1, Len(w))
      /\ \A j \in 1..Len(w) : Data(w[j]) =>
           \/ w[j].payload < x.payload
           \/ x.seqno <= w[j].seqno /\ c.state = "ACTIVE" /\ NoSync(w, j, Len(w))
      /\ \A i \in Live(c) : i < l => c.pendList[i].payload < x.payload

ChannelOrdered(w, r, got, acc) ==
  \A i \in 1..Len(w) : Data(w[i]) => PacketInOrder(w, i, r, got, acc)

QueueOrdered(w, c, r, got, acc) ==
  \A l \in Live(c) : MessageInOrder(w, c, l, r, got, acc)

\* What has been received is in order.
GotOrdered(got, acc) ==
  \A i \in DOMAIN got : got[i] \in 1..acc /\ \A j \in 1..(i - 1) : got[j] < got[i]

\* A sender c, packets w, and a receiver r that has got got of acc messages.
Ordered(w, c, r, got, acc) ==
  /\ ChannelOrdered(w, r, got, acc)
  /\ QueueOrdered(w, c, r, got, acc)
  /\ GotOrdered(got, acc)

AllOrdered ==
  \A n \in Node : \A m \in Peer(n) :
    Ordered(net[n][m], conn[n][m], conn[m][n], delivered[n][m], accepted[n][m])

-----------------------------------------------------------------------------
(* Channels.                                                               *)

\* Packets behind packets.
LEMMA ConcatAt ==
  ASSUME NEW w \in Packets, NEW s \in Packets
  PROVE  LET t == w \o s
         IN  /\ t \in Packets /\ Len(t) = Len(w) + Len(s)
             /\ Len(w) \in Nat /\ Len(s) \in Nat
             /\ \A i \in 1..Len(w) : t[i] = w[i]
             /\ \A i \in (Len(w) + 1)..Len(t) :
                  i - Len(w) \in 1..Len(s) /\ t[i] = s[i - Len(w)]
<1> DEFINE t == w \o s
<1>1. w \in Seq(Packet) /\ s \in Seq(Packet) /\ Len(w) \in Nat /\ Len(s) \in Nat
  BY LenProperties DEF Packets
<1>2. /\ t \in Seq(Packet) /\ Len(t) = Len(w) + Len(s)
      /\ \A i \in 1..(Len(w) + Len(s)) :
           t[i] = IF i <= Len(w) THEN w[i] ELSE s[i - Len(w)]
  BY <1>1, ConcatProperties
<1> HIDE DEF t
<1>3. \A i \in 1..Len(w) : t[i] = w[i]
  BY <1>1, <1>2
<1>4. ASSUME NEW i \in (Len(w) + 1)..Len(t)
      PROVE  i - Len(w) \in 1..Len(s) /\ t[i] = s[i - Len(w)]
  BY <1>1, <1>2
<1> QED BY <1>1, <1>2, <1>3, <1>4 DEF Packets, t

\* v is what is left of w if packets at its ends are lost.
Part(v, w) ==
  /\ v \in Packets
  /\ \E o \in 0..Len(w) : \A i \in 1..Len(v) : i + o \in 1..Len(w) /\ v[i] = w[i + o]

\* Packets beyond the capacity of the network are lost.
LEMMA CarryPart ==
  ASSUME NEW w \in Packets
  PROVE  Part(Carry(w), w)
<1> DEFINE k == IF Len(w) > NetCap THEN NetCap ELSE Len(w)
<1>1. w \in Seq(Packet) /\ Len(w) \in Nat /\ NetCap \in Nat
  BY LenProperties, BoundAssumption DEF Packets
<1>2. k \in 0..Len(w)
  BY <1>1
<1> HIDE DEF k
<1>3. \A i \in 1..k : w[i] \in Packet
  BY <1>1, <1>2, ElementOfSeq
<1> DEFINE v == SubSeq(w, 1, k)
<1>4. /\ v \in Seq(Packet)
      /\ Len(v) = IF 1 <= k THEN k - 1 + 1 ELSE 0
      /\ \A i \in 1..(k - 1 + 1) : v[i] = w[1 + i - 1]
  <2>1. k \in Int /\ 1 \in Int
    BY <1>1, <1>2
  <2> QED BY <1>3, <2>1, SubSeqProperties
<1>5. Carry(w) = v
  BY DEF Carry, k
<1> HIDE DEF v
<1>6. \A i \in 1..Len(v) : i + 0 \in 1..Len(w) /\ v[i] = w[i + 0]
  <2> TAKE i \in 1..Len(v)
  <2>1. i \in 1..k /\ 1 + i - 1 = i /\ i + 0 = i /\ k - 1 + 1 = k
    BY <1>1, <1>2, <1>4
  <2> QED BY <1>1, <1>2, <1>4, <2>1
<1>7. 0 \in 0..Len(w)
  BY <1>1
<1> QED BY <1>4, <1>5, <1>6, <1>7 DEF Part, Packets

\* The oldest packet is taken or lost.
LEMMA TailPart ==
  ASSUME NEW w \in Packets, w # << >>
  PROVE  Part(Tail(w), w) /\ Head(w) = w[1] /\ Head(w) \in Packet /\ Len(w) >= 1
<1>1. w \in Seq(Packet) /\ Len(w) \in Nat
  BY LenProperties DEF Packets
<1> DEFINE v == Tail(w)
<1>2. /\ v \in Seq(Packet) /\ Len(v) = Len(w) - 1 /\ Len(v) \in Nat
      /\ \A i \in 1..Len(v) : v[i] = w[i + 1]
  BY <1>1, HeadTailProperties, LenProperties
<1>3. Head(w) = w[1] /\ Head(w) \in Packet
  BY <1>1, HeadTailProperties
<1> HIDE DEF v
<1>4. 1 \in 0..Len(w) /\ Len(w) >= 1
  BY <1>1, <1>2
<1>5. \A i \in 1..Len(v) : i + 1 \in 1..Len(w) /\ v[i] = w[i + 1]
  BY <1>1, <1>2
<1> QED BY <1>2, <1>3, <1>4, <1>5 DEF Part, Packets, v

\* Losing packets disorders nothing.
LEMMA PartOrdered ==
  ASSUME NEW w \in Packets, NEW v, Part(v, w), NEW c, NEW r, NEW got, NEW acc,
         Ordered(w, c, r, got, acc)
  PROVE  Ordered(v, c, r, got, acc)
<1>1. PICK o \in 0..Len(w) :
        \A i \in 1..Len(v) : i + o \in 1..Len(w) /\ v[i] = w[i + o]
  BY DEF Part
<1>2. Len(w) \in Nat /\ Len(v) \in Nat
  BY LenProperties DEF Part, Packets
<1>3. ASSUME NEW i \in 1..Len(v), NEW j \in 1..i, NoSync(w, j + o, i + o)
      PROVE  NoSync(v, j, i)
  <2> SUFFICES ASSUME NEW k \in j..i PROVE ~Sync(v[k])
    BY DEF NoSync
  <2>1. k \in 1..Len(v) /\ k + o \in (j + o)..(i + o)
    BY <1>1, <1>2
  <2> QED BY <1>1, <1>3, <2>1 DEF NoSync
<1>4. ASSUME NEW i \in 1..Len(v), Data(v[i])
      PROVE  PacketInOrder(v, i, r, got, acc)
  <2>1. i + o \in 1..Len(w) /\ v[i] = w[i + o] /\ PacketInOrder(w, i + o, r, got, acc)
    BY <1>1, <1>4 DEF Ordered, ChannelOrdered
  <2>2. ASSUME NoSync(w, 1, i + o)
        PROVE  NoSync(v, 1, i)
    <3>1. 1 \in 1..i /\ NoSync(w, 1 + o, i + o)
      BY <1>1, <1>2, <2>2 DEF NoSync
    <3> QED BY <1>3, <3>1
  <2>3. ASSUME NEW j \in 1..i, Data(v[j])
        PROVE  \/ v[j].payload < v[i].payload
               \/ v[i].seqno <= v[j].seqno /\ NoSync(v, j, i)
    <3>1. j + o \in 1..(i + o) /\ v[j] = w[j + o]
      BY <1>1, <1>2
    <3> QED BY <1>3, <2>1, <2>3, <3>1 DEF PacketInOrder
  <2> QED BY <2>1, <2>2, <2>3 DEF PacketInOrder
<1>5. ASSUME NEW l \in Live(c)
      PROVE  MessageInOrder(v, c, l, r, got, acc)
  <2> DEFINE x == c.pendList[l]
  <2>1. MessageInOrder(w, c, l, r, got, acc)
    BY DEF Ordered, QueueOrdered
  <2>2. ASSUME NEW j \in 1..Len(v), NoSync(w, j + o, Len(w))
        PROVE  NoSync(v, j, Len(v))
    <3>1. Len(v) \in 1..Len(v) /\ j \in 1..Len(v)
      BY <1>2
    <3>2. NoSync(w, j + o, Len(v) + o)
      BY <1>1, <1>2, <2>2, <3>1 DEF NoSync
    <3> QED BY <1>3, <3>1, <3>2
  <2>3. ASSUME NoSync(w, 1, Len(w))
        PROVE  NoSync(v, 1, Len(v))
    <3>1. CASE Len(v) = 0
      BY <3>1 DEF NoSync
    <3>2. CASE Len(v) # 0
      <4>1. 1 \in 1..Len(v) /\ NoSync(w, 1 + o, Len(w))
        BY <1>1, <1>2, <2>3, <3>2 DEF NoSync
      <4> QED BY <2>2, <4>1
    <3> QED BY <3>1, <3>2
  <2>4. ASSUME NEW j \in 1..Len(v), Data(v[j])
        PROVE  \/ v[j].payload < x.payload
               \/ x.seqno <= v[j].seqno /\ c.state = "ACTIVE" /\ NoSync(v, j, Len(v))
    <3>1. j + o \in 1..Len(w) /\ v[j] = w[j + o]
      BY <1>1
    <3> QED BY <2>1, <2>2, <2>4, <3>1 DEF MessageInOrder
  <2> QED BY <2>1, <2>3, <2>4 DEF MessageInOrder
<1> QED BY <1>4, <1>5 DEF Ordered, ChannelOrdered, QueueOrdered

-----------------------------------------------------------------------------
(* The receiver.                                                           *)

\* The fields of the packets and messages of a channel.
LEMMA PacketFields ==
  ASSUME NEW w \in Packets
  PROVE  \A i \in 1..Len(w) : /\ w[i] \in Packet
                              /\ w[i].seqno \in Int /\ w[i].payload \in Nat
<1>1. w \in Seq(Packet)
  BY DEF Packets
<1>2. \A i \in 1..Len(w) : w[i] \in Packet
  BY <1>1, ElementOfSeq
<1> QED BY <1>2 DEF Packet

LEMMA MessageFields ==
  ASSUME NEW c \in GoodConn
  PROVE  /\ c.pendList \in Seq(MsgBuf) /\ Len(c.pendList) \in Nat
         /\ DOMAIN c.pendList = 1..Len(c.pendList)
         /\ \A l \in DOMAIN c.pendList :
              /\ c.pendList[l] \in MsgBuf /\ c.pendList[l].seqno \in Int
              /\ c.pendList[l].payload \in Nat
<1>1. /\ c.pendList \in Seq(MsgBuf) /\ Len(c.pendList) \in Nat
      /\ DOMAIN c.pendList = 1..Len(c.pendList)
  BY ConnFields, LenProperties
<1>2. \A l \in DOMAIN c.pendList : c.pendList[l] \in MsgBuf
  BY <1>1, ElementOfSeq
<1> QED BY <1>1, <1>2 DEF MsgBuf

\* A receiver that takes no more numbers than before.
LEMMA ReceiverOrdered ==
  ASSUME NEW w \in Packets, NEW c \in GoodConn, NEW r, NEW s, NEW got, NEW acc,
         Ordered(w, c, r, got, acc),
         \A q \in Int : Over(r, q) => Over(s, q)
  PROVE  Ordered(w, c, s, got, acc)
<1>1. ASSUME NEW i \in 1..Len(w), Data(w[i])
      PROVE  PacketInOrder(w, i, s, got, acc)
  <2>1. w[i].seqno \in Int
    BY PacketFields
  <2>2. PacketInOrder(w, i, r, got, acc)
    BY <1>1 DEF Ordered, ChannelOrdered
  <2> QED BY <2>1, <2>2 DEF PacketInOrder
<1>2. ASSUME NEW l \in Live(c)
      PROVE  MessageInOrder(w, c, l, s, got, acc)
  <2>1. c.pendList[l].seqno \in Int
    BY MessageFields DEF Live
  <2>2. MessageInOrder(w, c, l, r, got, acc)
    BY DEF Ordered, QueueOrdered
  <2> QED BY <2>1, <2>2 DEF MessageInOrder
<1> QED BY <1>1, <1>2 DEF Ordered, ChannelOrdered, QueueOrdered

\* Behind a SYN or SYNACK every message is a later one, whatever number the
\* receiver expects.
LEMMA SyncTaken ==
  ASSUME NEW w \in Packets, w # << >>, Sync(Head(w)),
         NEW c \in GoodConn, NEW r, NEW s, NEW got, NEW acc,
         Ordered(w, c, r, got, acc)
  PROVE  Ordered(Tail(w), c, s, got, acc)
<1>1. Part(Tail(w), w) /\ Head(w) = w[1] /\ Len(w) \in Nat /\ Len(w) >= 1
  BY TailPart, LenProperties DEF Packets
<1>2. \A i \in 1..Len(w) : ~NoSync(w, 1, i)
  BY <1>1 DEF NoSync
<1>3. Len(w) \in 1..Len(w)
  BY <1>1
<1>4. ChannelOrdered(w, s, got, acc)
  BY <1>2 DEF Ordered, ChannelOrdered, PacketInOrder
<1>5. QueueOrdered(w, c, s, got, acc)
  BY <1>2, <1>3 DEF Ordered, QueueOrdered, MessageInOrder
<1>6. Ordered(w, c, s, got, acc)
  BY <1>4, <1>5 DEF Ordered
<1> QED BY <1>1, <1>6, PartOrdered

\* The next message is later than all received, and no number up to its own is
\* taken any more.
LEMMA MessageTaken ==
  ASSUME NEW w \in Packets, w # << >>, Data(Head(w)),
         NEW c \in GoodConn, NEW r, NEW s, NEW got \in Seq(Nat), NEW acc \in Nat,
         Ordered(w, c, r, got, acc), ~Over(r, Head(w).seqno),
         \A q \in Int : Over(r, q) \/ q <= Head(w).seqno => Over(s, q)
  PROVE  Ordered(Tail(w), c, s, Append(got, Head(w).payload), acc)
<1> DEFINE p == w[1]
           new == Append(got, p.payload)
<1>1. Part(Tail(w), w) /\ Head(w) = p /\ Len(w) \in Nat /\ Len(w) >= 1
  BY TailPart, LenProperties DEF Packets
<1>2. 1 \in 1..Len(w) /\ p.payload \in Nat /\ p.seqno \in Int
  BY <1>1, PacketFields
<1>3. PacketInOrder(w, 1, r, got, acc) /\ GotOrdered(got, acc)
  BY <1>1, <1>2 DEF Ordered, ChannelOrdered
<1>4. Fresh(got, p.payload) /\ p.payload \in 1..acc
  BY <1>1, <1>3 DEF PacketInOrder
<1>5. /\ Len(got) \in Nat /\ DOMAIN got = 1..Len(got)
      /\ \A i \in 1..Len(got) : got[i] \in Nat
  BY LenProperties, ElementOfSeq
<1>6. /\ DOMAIN new = 1..(Len(got) + 1)
      /\ \A i \in 1..Len(got) : new[i] = got[i]
      /\ new[Len(got) + 1] = p.payload
  BY <1>2, <1>5, AppendProperties, LenProperties
<1> HIDE DEF new
<1>7. ASSUME NEW x \in Nat, Fresh(got, x), p.payload < x
      PROVE  Fresh(new, x)
  <2> SUFFICES ASSUME NEW i \in 1..(Len(got) + 1) PROVE new[i] < x
    BY <1>6 DEF Fresh
  <2>1. CASE i \in 1..Len(got)
    BY <1>5, <1>6, <1>7, <2>1 DEF Fresh
  <2>2. CASE i = Len(got) + 1
    BY <1>6, <1>7, <2>2
  <2> QED BY <1>5, <2>1, <2>2
<1>8. GotOrdered(new, acc)
  <2> SUFFICES ASSUME NEW i \in 1..(Len(got) + 1)
               PROVE  new[i] \in 1..acc /\ \A j \in 1..(i - 1) : new[j] < new[i]
    BY <1>6 DEF GotOrdered
  <2>1. CASE i \in 1..Len(got)
    <3>1. \A j \in 1..(i - 1) : j \in 1..Len(got)
      BY <1>5, <2>1
    <3> QED BY <1>3, <1>5, <1>6, <2>1, <3>1 DEF GotOrdered
  <2>2. CASE i = Len(got) + 1
    <3>1. \A j \in 1..(i - 1) : j \in 1..Len(got)
      BY <1>5, <2>2
    <3> QED BY <1>4, <1>5, <1>6, <2>2, <3>1 DEF Fresh
  <2> QED BY <1>5, <2>1, <2>2
<1> HIDE DEF p
<1>9. ASSUME NEW i \in 1..Len(w), i > 1, Data(w[i])
      PROVE  PacketInOrder(w, i, s, new, acc)
  <2>1. w[i].seqno \in Int /\ w[i].payload \in Nat
    BY PacketFields
  <2>2. PacketInOrder(w, i, r, got, acc)
    BY <1>9 DEF Ordered, ChannelOrdered
  <2>3. 1 \in 1..i /\ Data(p) /\ p = w[1]
    BY <1>1, <1>9 DEF p
  <2>4. Fresh(new, w[i].payload) \/ (Over(s, w[i].seqno) /\ NoSync(w, 1, i))
    <3>1. CASE Over(r, w[i].seqno) /\ NoSync(w, 1, i)
      BY <2>1, <3>1
    <3>2. CASE w[i].seqno <= p.seqno /\ NoSync(w, 1, i)
      BY <1>1, <2>1, <3>2
    <3>3. CASE Fresh(got, w[i].payload) /\ p.payload < w[i].payload
      BY <1>7, <2>1, <3>3
    <3> QED BY <2>2, <2>3, <3>1, <3>2, <3>3 DEF PacketInOrder
  <2> QED BY <2>2, <2>4 DEF PacketInOrder
<1>10. ASSUME NEW l \in Live(c)
       PROVE  MessageInOrder(w, c, l, s, new, acc)
  <2> DEFINE x == c.pendList[l]
  <2>1. x.seqno \in Int /\ x.payload \in Nat
    BY MessageFields DEF Live
  <2>2. MessageInOrder(w, c, l, r, got, acc)
    BY DEF Ordered, QueueOrdered
  <2>3. Data(p) /\ p = w[1]
    BY <1>1 DEF p
  <2> HIDE DEF x
  <2>4. \/ Fresh(new, x.payload)
        \/ Over(s, x.seqno) /\ c.state = "ACTIVE" /\ NoSync(w, 1, Len(w))
    <3>1. CASE Over(r, x.seqno) /\ c.state = "ACTIVE" /\ NoSync(w, 1, Len(w))
      BY <2>1, <3>1
    <3>2. CASE x.seqno <= p.seqno /\ c.state = "ACTIVE" /\ NoSync(w, 1, Len(w))
      BY <1>1, <2>1, <3>2
    <3>3. CASE Fresh(got, x.payload) /\ p.payload < x.payload
      BY <1>7, <2>1, <3>3
    <3> QED BY <1>2, <2>2, <2>3, <3>1, <3>2, <3>3 DEF MessageInOrder, x
  <2> QED BY <2>2, <2>4 DEF MessageInOrder, x
<1>11. ASSUME Data(w[1])
       PROVE  PacketInOrder(w, 1, s, new, acc)
  <2>1. Over(s, p.seqno) /\ w[1] = p
    BY <1>1, <1>2 DEF p
  <2>2. NoSync(w, 1, 1)
    BY <1>11 DEF NoSync, Sync, Data
  <2>3. PacketInOrder(w, 1, r, got, acc)
    BY <1>3
  <2> QED BY <2>1, <2>2, <2>3 DEF PacketInOrder
<1>12. Ordered(w, c, s, new, acc)
  <2>1. \A i \in 1..Len(w) : Data(w[i]) => PacketInOrder(w, i, s, new, acc)
    BY <1>1, <1>9, <1>11
  <2> QED BY <1>8, <1>10, <2>1 DEF Ordered, ChannelOrdered, QueueOrdered
<1>13. Ordered(Tail(w), c, s, new, acc)
  BY <1>1, <1>12, PartOrdered
<1> QED BY <1>1, <1>13 DEF new, p
-----------------------------------------------------------------------------
(* The sender.                                                             *)

\* Later messages have higher numbers.
LEMMA LiveNumbers ==
  ASSUME NEW c \in GoodConn, Numbered(c), NEW l \in Live(c), NEW k \in Live(c),
         k <= l
  PROVE  c.pendList[k].seqno <= c.pendList[l].seqno
<1>1. PICK d \in 0..Len(c.pendList) : NumberedBy(c, d)
  BY DEF Numbered
<1>2. Len(c.pendList) \in Nat /\ DOMAIN c.pendList = 1..Len(c.pendList)
  BY MessageFields
<1>3. /\ k \in DOMAIN c.pendList /\ k > d /\ k \in Nat
      /\ l \in DOMAIN c.pendList /\ l > d /\ l \in Nat /\ d \in Nat
  BY <1>1, <1>2 DEF Live, NumberedBy, RunsFrom
<1>4. /\ c.pendList[k].seqno = c.ackExpected + (k - d - 1)
      /\ c.pendList[l].seqno = c.ackExpected + (l - d - 1)
      /\ c.ackExpected \in Int
  BY <1>1, <1>3, ConnFields DEF NumberedBy, RunsFrom
<1> QED BY <1>3, <1>4

\* Messages of the queue are sent (again).
LEMMA BurstOrdered ==
  ASSUME NEW w \in Packets, NEW s \in Packets, NEW c \in GoodConn, Numbered(c),
         NEW r, NEW got, NEW acc \in Nat, Ordered(w, c, r, got, acc),
         Burst(c, s)
  PROVE  /\ ChannelOrdered(w \o s, r, got, acc)
         /\ c.state = "ACTIVE" => Ordered(w \o s, c, r, got, acc)
<1> DEFINE t == w \o s
<1>1. /\ t \in Packets /\ Len(t) = Len(w) + Len(s)
      /\ Len(w) \in Nat /\ Len(s) \in Nat
      /\ \A i \in 1..Len(w) : t[i] = w[i]
      /\ \A i \in (Len(w) + 1)..Len(t) :
           i - Len(w) \in 1..Len(s) /\ t[i] = s[i - Len(w)]
  BY ConcatAt
<1> HIDE DEF t
<1>2. ASSUME NEW i \in (Len(w) + 1)..Len(t)
      PROVE  \E l \in Live(c) : t[i] = DATA(c, c.pendList[l])
  BY <1>1, LenProperties DEF Burst, Packets
<1>3. \A l \in Live(c) : LET p == DATA(c, c.pendList[l])
                         IN  /\ Data(p) /\ ~Sync(p)
                             /\ p.seqno = c.pendList[l].seqno
                             /\ p.payload = c.pendList[l].payload
  BY DEF DATA, Data, Sync
<1>4. \A i \in (Len(w) + 1)..Len(t) : ~Sync(t[i])
  BY <1>2, <1>3
<1>5. ASSUME NEW j \in 1..Len(w), NEW i \in (Len(w) + 1)..Len(t),
             NoSync(w, j, Len(w))
      PROVE  NoSync(t, j, i)
  <2> SUFFICES ASSUME NEW k \in j..i PROVE ~Sync(t[k])
    BY DEF NoSync
  <2>1. CASE k <= Len(w)
    BY <1>1, <1>5, <2>1 DEF NoSync
  <2>2. CASE k > Len(w)
    BY <1>1, <1>4, <2>2
  <2> QED BY <1>1, <2>1, <2>2
<1>6. ASSUME NEW i \in (Len(w) + 1)..Len(t), NoSync(w, 1, Len(w))
      PROVE  NoSync(t, 1, i)
  <2> SUFFICES ASSUME NEW k \in 1..i PROVE ~Sync(t[k])
    BY DEF NoSync
  <2>1. CASE k <= Len(w)
    BY <1>1, <1>6, <2>1 DEF NoSync
  <2>2. CASE k > Len(w)
    BY <1>1, <1>4, <2>2
  <2> QED BY <1>1, <2>1, <2>2
<1>7. ASSUME NEW i \in 1..Len(w), NEW j \in 1..i, NoSync(w, j, i)
      PROVE  NoSync(t, j, i)
  BY <1>1, <1>7 DEF NoSync
<1>8. ASSUME NEW j \in (Len(w) + 1)..Len(t), NEW l \in Live(c)
      PROVE  \/ t[j].payload < c.pendList[l].payload
             \/ c.pendList[l].seqno <= t[j].seqno
  <2>1. PICK k \in Live(c) : t[j] = DATA(c, c.pendList[k])
    BY <1>2
  <2>2. /\ t[j].seqno = c.pendList[k].seqno /\ t[j].payload = c.pendList[k].payload
        /\ k \in Nat /\ l \in Nat
    BY <1>3, <2>1, MessageFields DEF Live
  <2>3. CASE k < l
    BY <2>2, <2>3 DEF Ordered, QueueOrdered, MessageInOrder
  <2>4. CASE l <= k
    BY <2>2, <2>4, LiveNumbers
  <2> QED BY <2>2, <2>3, <2>4
<1>9. ASSUME NEW i \in 1..Len(t), Data(t[i])
      PROVE  PacketInOrder(t, i, r, got, acc)
  <2>1. CASE i \in 1..Len(w)
    <3>1. t[i] = w[i] /\ PacketInOrder(w, i, r, got, acc)
      BY <1>1, <1>9, <2>1 DEF Ordered, ChannelOrdered
    <3>2. \A j \in 1..i : t[j] = w[j]
      BY <1>1, <2>1
    <3>3. 1 \in 1..i
      BY <2>1
    <3> QED BY <1>7, <2>1, <3>1, <3>2, <3>3 DEF PacketInOrder
  <2>2. CASE i \in (Len(w) + 1)..Len(t)
    <3>1. PICK l \in Live(c) : t[i] = DATA(c, c.pendList[l])
      BY <1>2, <2>2
    <3> DEFINE x == c.pendList[l]
    <3>2. t[i].seqno = x.seqno /\ t[i].payload = x.payload
      BY <1>3, <3>1
    <3>3. MessageInOrder(w, c, l, r, got, acc)
      BY DEF Ordered, QueueOrdered
    <3> HIDE DEF x
    <3>4. Fresh(got, x.payload) \/ (Over(r, x.seqno) /\ NoSync(t, 1, i))
      BY <1>6, <2>2, <3>3 DEF MessageInOrder, x
    <3>5. ASSUME NEW j \in 1..i, Data(t[j])
          PROVE  \/ t[j].payload < x.payload
                 \/ x.seqno <= t[j].seqno /\ NoSync(t, j, i)
      <4>1. CASE j \in 1..Len(w)
        <5>1. t[j] = w[j]
          BY <1>1, <4>1
        <5> QED BY <1>5, <2>2, <3>3, <3>5, <4>1, <5>1 DEF MessageInOrder, x
      <4>2. CASE j \in (Len(w) + 1)..Len(t)
        <5>1. NoSync(t, j, i)
          BY <1>1, <1>4, <2>2, <4>2 DEF NoSync
        <5> QED BY <1>8, <4>2, <5>1 DEF x
      <4> QED BY <1>1, <2>2, <4>1, <4>2
    <3> QED BY <3>2, <3>3, <3>4, <3>5 DEF PacketInOrder, MessageInOrder, x
  <2> QED BY <1>1, <2>1, <2>2
<1>10. ASSUME c.state = "ACTIVE", NEW l \in Live(c)
       PROVE  MessageInOrder(t, c, l, r, got, acc)
  <2> DEFINE x == c.pendList[l]
  <2>1. MessageInOrder(w, c, l, r, got, acc)
    BY DEF Ordered, QueueOrdered
  <2>2. NoSync(w, 1, Len(w)) => NoSync(t, 1, Len(t))
    <3>1. CASE Len(s) = 0
      BY <1>1, <3>1 DEF NoSync
    <3>2. CASE Len(s) # 0
      BY <1>1, <1>6, <3>2
    <3> QED BY <3>1, <3>2
  <2>3. ASSUME NEW j \in 1..Len(w), NoSync(w, j, Len(w))
        PROVE  NoSync(t, j, Len(t))
    <3>1. CASE Len(s) = 0
      BY <1>1, <2>3, <3>1 DEF NoSync
    <3>2. CASE Len(s) # 0
      <4>1. Len(t) \in (Len(w) + 1)..Len(t)
        BY <1>1, <3>2
      <4> QED BY <1>5, <2>3, <4>1
    <3> QED BY <3>1, <3>2
  <2>4. ASSUME NEW j \in 1..Len(t), Data(t[j])
        PROVE  \/ t[j].payload < x.payload
               \/ x.seqno <= t[j].seqno /\ NoSync(t, j, Len(t))
    <3>1. CASE j \in 1..Len(w)
      <4>1. t[j] = w[j]
        BY <1>1, <3>1
      <4> QED BY <2>1, <2>3, <2>4, <3>1, <4>1 DEF MessageInOrder
    <3>2. CASE j \in (Len(w) + 1)..Len(t)
      <4>1. NoSync(t, j, Len(t))
        BY <1>1, <1>4, <3>2 DEF NoSync
      <4> QED BY <1>8, <3>2, <4>1
    <3> QED BY <1>1, <3>1, <3>2
  <2> QED BY <1>10, <2>1, <2>2, <2>4 DEF MessageInOrder
<1>11. ChannelOrdered(t, r, got, acc)
  BY <1>9 DEF ChannelOrdered
<1> QED BY <1>10, <1>11 DEF Ordered, QueueOrdered, t

\* A packet without a message is sent, a SYN or SYNACK only while the
\* connection is not established.
LEMMA ControlOrdered ==
  ASSUME NEW w \in Packets, NEW p \in Packet, NEW c \in GoodConn,
         NEW r, NEW got, NEW acc, Ordered(w, c, r, got, acc),
         ~Data(p), ~Sync(p) \/ c.state # "ACTIVE"
  PROVE  Ordered(w \o <<p>>, c, r, got, acc)
<1> DEFINE t == w \o <<p>>
           n == Len(w) + 1
<1>1. <<p>> \in Packets /\ Len(<<p>>) = 1 /\ <<p>>[1] = p
  BY DEF Packets
<1>2. /\ t \in Packets /\ Len(t) = n /\ Len(w) \in Nat
      /\ \A i \in 1..Len(w) : t[i] = w[i]
      /\ t[n] = p
  <2>1. /\ t \in Packets /\ Len(t) = Len(w) + Len(<<p>>) /\ Len(w) \in Nat
        /\ \A i \in 1..Len(w) : t[i] = w[i]
        /\ \A i \in (Len(w) + 1)..Len(t) : t[i] = <<p>>[i - Len(w)]
    BY <1>1, ConcatAt
  <2> HIDE DEF t
  <2>2. n \in (Len(w) + 1)..Len(t) /\ n - Len(w) = 1
    BY <1>1, <2>1
  <2> QED BY <1>1, <2>1, <2>2
<1> HIDE DEF t
<1>3. ASSUME NEW i \in 1..Len(w), NEW j \in 1..i, NoSync(w, j, i)
      PROVE  NoSync(t, j, i)
  BY <1>2, <1>3 DEF NoSync
<1>4. ASSUME NEW i \in 1..Len(t), Data(t[i])
      PROVE  PacketInOrder(t, i, r, got, acc)
  <2>1. i \in 1..Len(w)
    BY <1>2, <1>4
  <2>2. t[i] = w[i] /\ PacketInOrder(w, i, r, got, acc)
    BY <1>2, <1>4, <2>1 DEF Ordered, ChannelOrdered
  <2>3. \A j \in 1..i : t[j] = w[j]
    BY <1>2, <2>1
  <2>4. 1 \in 1..i
    BY <2>1
  <2> QED BY <1>3, <2>1, <2>2, <2>3, <2>4 DEF PacketInOrder
<1>5. ASSUME NEW l \in Live(c)
      PROVE  MessageInOrder(t, c, l, r, got, acc)
  <2> DEFINE x == c.pendList[l]
  <2>1. MessageInOrder(w, c, l, r, got, acc)
    BY DEF Ordered, QueueOrdered
  <2>2. ASSUME c.state = "ACTIVE", NEW j \in 1..n, NoSync(w, j, Len(w))
        PROVE  NoSync(t, j, n)
    BY <1>2, <2>2 DEF NoSync
  <2>3. ASSUME NEW j \in 1..n, Data(t[j])
        PROVE  \/ t[j].payload < x.payload
               \/ x.seqno <= t[j].seqno /\ c.state = "ACTIVE" /\ NoSync(t, j, n)
    <3>1. j \in 1..Len(w) /\ t[j] = w[j]
      BY <1>2, <2>3
    <3> QED BY <2>1, <2>2, <2>3, <3>1 DEF MessageInOrder
  <2>4. 1 \in 1..n
    BY <1>2
  <2> QED BY <1>2, <2>1, <2>2, <2>3, <2>4 DEF MessageInOrder
<1> QED BY <1>4, <1>5 DEF Ordered, ChannelOrdered, QueueOrdered, t

\* The queue d is what is left of that of c.
Rest(c, d) ==
  \E k \in 0..Len(c.pendList) :
    /\ Len(d.pendList) = Len(c.pendList) - k
    /\ \A i \in 1..Len(d.pendList) : d.pendList[i] = c.pendList[i + k]

\* Messages leave the queue at its front.
LEMMA RestOrdered ==
  ASSUME NEW w \in Packets, NEW c \in GoodConn, NEW d \in GoodConn,
         NEW r, NEW got, NEW acc, Ordered(w, c, r, got, acc),
         Rest(c, d), c.state = "ACTIVE" => d.state = "ACTIVE"
  PROVE  Ordered(w, d, r, got, acc)
<1>1. PICK k \in 0..Len(c.pendList) :
        /\ Len(d.pendList) = Len(c.pendList) - k
        /\ \A i \in 1..Len(d.pendList) : d.pendList[i] = c.pendList[i + k]
  BY DEF Rest
<1>2. /\ Len(c.pendList) \in Nat /\ DOMAIN c.pendList = 1..Len(c.pendList)
      /\ Len(d.pendList) \in Nat /\ DOMAIN d.pendList = 1..Len(d.pendList)
  BY MessageFields
<1>3. ASSUME NEW l \in Live(d)
      PROVE  /\ l + k \in Live(c) /\ d.pendList[l] = c.pendList[l + k] /\ l \in Nat
  BY <1>1, <1>2 DEF Live
<1>4. ASSUME NEW l \in Live(d)
      PROVE  MessageInOrder(w, d, l, r, got, acc)
  <2>1. MessageInOrder(w, c, l + k, r, got, acc)
    BY <1>3 DEF Ordered, QueueOrdered
  <2>2. ASSUME NEW i \in Live(d), i < l
        PROVE  d.pendList[i].payload < d.pendList[l].payload
    <3>1. i + k < l + k
      BY <1>2, <1>3, <2>2
    <3> QED BY <1>3, <2>1, <3>1 DEF MessageInOrder
  <2> QED BY <1>3, <2>1, <2>2 DEF MessageInOrder
<1> QED BY <1>4 DEF Ordered, QueueOrdered

\* A message is accepted.
LEMMA QueuesOrdered ==
  ASSUME NEW w \in Packets, NEW h \in Context, NEW g \in Context,
         NEW r, NEW got, Ordered(w, h.c, r, got, h.acc), Queues(h, g)
  PROVE  Ordered(w, g.c, r, got, g.acc)
<1> DEFINE s == h.c.pendList
           t == g.c.pendList
           n == Len(s) + 1
           acc == h.acc
<1>1. /\ h.c \in GoodConn /\ g.c \in GoodConn /\ acc \in Nat /\ g.acc = acc + 1
  BY ContextFields DEF Queues
<1>2. /\ s \in Seq(MsgBuf) /\ Len(s) \in Nat /\ DOMAIN s = 1..Len(s)
      /\ Len(t) \in Nat /\ DOMAIN t = 1..Len(t)
      /\ \A l \in DOMAIN s : s[l].seqno \in Int /\ s[l].payload \in Nat
  BY <1>1, MessageFields
<1>3. /\ Len(t) = n /\ t[n].payload = acc + 1 /\ ~t[n].deleted
      /\ \A i \in 1..Len(s) : t[i] = s[i]
  BY <1>2 DEF Queues, NewBuffer
<1>4. /\ g.c.state = "ACTIVE" <=> h.c.state = "ACTIVE"
  BY DEF Queues
<1> HIDE DEF s, t, acc
<1>5. \A x : x \in 1..acc => x \in 1..(acc + 1) /\ x < acc + 1
  BY <1>1
<1>6. \A l : l \in Live(g.c) <=> l \in Live(h.c) \/ l = n
  <2>1. \A l : l \in Live(g.c) <=> l \in 1..n /\ ~t[l].deleted
    BY <1>2, <1>3 DEF Live, t
  <2>2. \A l : l \in Live(h.c) <=> l \in 1..Len(s) /\ ~s[l].deleted
    BY <1>2 DEF Live, s
  <2> QED BY <1>2, <1>3, <2>1, <2>2
<1>7. \A l \in Live(h.c) : l \in 1..Len(s) /\ t[l] = s[l]
  BY <1>2, <1>3 DEF Live, s
<1>8. GotOrdered(got, acc + 1)
  BY <1>5 DEF Ordered, GotOrdered, acc
<1>9. ChannelOrdered(w, r, got, acc + 1)
  BY <1>5 DEF Ordered, ChannelOrdered, PacketInOrder, acc
<1>10. ASSUME NEW l \in Live(h.c)
       PROVE  MessageInOrder(w, g.c, l, r, got, acc + 1)
  <2>1. MessageInOrder(w, h.c, l, r, got, acc)
    BY DEF Ordered, QueueOrdered, acc
  <2>2. ASSUME NEW i \in Live(g.c), i < l
        PROVE  t[i].payload < t[l].payload
    <3>1. i \in Live(h.c)
      BY <1>2, <1>6, <1>7, <2>2
    <3> QED BY <1>7, <2>1, <2>2, <3>1 DEF MessageInOrder, s
  <2> QED BY <1>4, <1>5, <1>7, <2>1, <2>2 DEF MessageInOrder, s, t
<1>11. MessageInOrder(w, g.c, n, r, got, acc + 1)
  <2>1. Fresh(got, acc + 1)
    BY <1>5 DEF Fresh, Ordered, GotOrdered, acc
  <2>2. \A j \in 1..Len(w) : Data(w[j]) => w[j].payload < acc + 1
    BY <1>5 DEF Ordered, ChannelOrdered, PacketInOrder, acc
  <2>3. ASSUME NEW i \in Live(g.c), i < n
        PROVE  t[i].payload < acc + 1
    <3>1. i \in Live(h.c) /\ i # n
      BY <1>2, <1>6, <2>3
    <3>2. MessageInOrder(w, h.c, i, r, got, acc)
      BY <3>1 DEF Ordered, QueueOrdered, acc
    <3> QED BY <1>5, <1>7, <3>1, <3>2 DEF MessageInOrder, s
  <2>4. acc + 1 \in 1..(acc + 1)
    BY <1>1
  <2> QED BY <1>3, <2>1, <2>2, <2>3, <2>4 DEF MessageInOrder, t
<1>12. QueueOrdered(w, g.c, r, got, acc + 1)
  BY <1>6, <1>10, <1>11 DEF QueueOrdered
<1> QED BY <1>1, <1>8, <1>9, <1>12 DEF Ordered, acc
-----------------------------------------------------------------------------
(* Handlers.                                                               *)

\* The fields behind the steps that only change the connection.
LEMMA DropsFields ==
  ASSUME NEW h \in Context, NEW g \in Context, NEW k, Drops(h, g, k)
  PROVE  /\ Rest(h.c, g.c) /\ g.c.state = h.c.state
         /\ k \in 0..Len(h.c.pendList) /\ \A i \in 1..k : h.c.pendList[i].deleted
         /\ Len(g.c.pendList) = Len(h.c.pendList) - k
         /\ \A i \in 1..Len(g.c.pendList) : g.c.pendList[i] = h.c.pendList[i + k]
         /\ g.c.frameExpected = h.c.frameExpected
         /\ g.c.frameToSend = h.c.frameToSend
         /\ g.c.ackExpected = h.c.ackExpected
         /\ g.c.ConnID_in = h.c.ConnID_in
<1> DEFINE c == h.c
           e == [c EXCEPT !.pendList = SubSeq(@, k + 1, Len(@))]
<1>1. c \in Conn /\ c.pendList \in Seq(MsgBuf)
  BY ContextFields, ConnFields
<1>2. /\ SameNumbers(e, g.c) /\ g.c.state = c.state
      /\ k \in 0..Len(c.pendList) /\ \A i \in 1..k : c.pendList[i].deleted
  BY DEF Drops
<1>3. /\ e.pendList = SubSeq(c.pendList, k + 1, Len(c.pendList))
      /\ e.frameExpected = c.frameExpected /\ e.frameToSend = c.frameToSend
      /\ e.ackExpected = c.ackExpected /\ e.ConnID_in = c.ConnID_in
  <2> HIDE DEF c
  <2> QED BY <1>1 DEF Conn
<1> HIDE DEF e, c
<1>4. /\ g.c.pendList = SubSeq(c.pendList, k + 1, Len(c.pendList))
      /\ g.c.frameExpected = c.frameExpected /\ g.c.frameToSend = c.frameToSend
      /\ g.c.ackExpected = c.ackExpected /\ g.c.ConnID_in = c.ConnID_in
  BY <1>2, <1>3 DEF SameNumbers
<1>5. /\ Len(g.c.pendList) = Len(c.pendList) - k
      /\ \A i \in 1..Len(g.c.pendList) : g.c.pendList[i] = c.pendList[i + k]
  BY <1>1, <1>2, <1>4, SubSeqFields
<1> QED BY <1>2, <1>4, <1>5 DEF Rest, c

LEMMA EstablishesFields ==
  ASSUME NEW h \in Context, NEW g \in Context, Establishes(h, g)
  PROVE  /\ g.c.pendList = h.c.pendList
         /\ h.c.state = "SYN_RECVD" /\ g.c.state = "ACTIVE"
         /\ g.c.frameExpected = h.c.frameExpected
         /\ g.c.frameToSend = h.c.frameToSend + h.c.msgPending
         /\ g.c.ackExpected = h.c.ackExpected
         /\ g.c.ConnID_in = h.c.ConnID_in
<1> DEFINE c == h.c
           e == [c EXCEPT !.frameToSend = @ + h.c.msgPending, !.msgPending = 0]
<1>1. c \in Conn
  BY ContextFields, ConnFields
<1>2. SameNumbers(e, g.c) /\ c.state = "SYN_RECVD" /\ g.c.state = "ACTIVE"
  BY DEF Establishes
<1>3. /\ e.pendList = c.pendList /\ e.frameExpected = c.frameExpected
      /\ e.frameToSend = c.frameToSend + c.msgPending
      /\ e.ackExpected = c.ackExpected /\ e.ConnID_in = c.ConnID_in
  <2> HIDE DEF c
  <2> QED BY <1>1 DEF Conn, c
<1> HIDE DEF e
<1> QED BY <1>2, <1>3 DEF SameNumbers

LEMMA AdoptsFields ==
  ASSUME NEW h \in Context, NEW g \in Context, NEW p, Adopts(h, g, p)
  PROVE  /\ g.c.pendList = h.c.pendList /\ Sync(p)
         /\ h.c.state # "ACTIVE" /\ g.c.state \in {"SYN_SENT", "SYN_RECVD"}
         /\ g.c.frameExpected = p.seqno /\ g.c.ConnID_in = p.connid
         /\ g.c.frameToSend = h.c.frameToSend
         /\ g.c.ackExpected = h.c.ackExpected
<1> DEFINE c == h.c
           e == [c EXCEPT !.frameExpected = p.seqno, !.ConnID_in = p.connid]
<1>1. c \in Conn
  BY ContextFields, ConnFields
<1>2. /\ SameNumbers(e, g.c) /\ c.state # "ACTIVE" /\ Sync(p)
      /\ g.c.state \in {"SYN_SENT", "SYN_RECVD"}
  BY DEF Adopts, Sync
<1>3. /\ e.pendList = c.pendList /\ e.frameExpected = p.seqno
      /\ e.ConnID_in = p.connid /\ e.frameToSend = c.frameToSend
      /\ e.ackExpected = c.ackExpected
  <2> HIDE DEF c
  <2> QED BY <1>1 DEF Conn
<1> HIDE DEF e
<1> QED BY <1>2, <1>3 DEF SameNumbers

LEMMA AdvancesFields ==
  ASSUME NEW h \in Context, NEW g \in Context, NEW p, Advances(h, g, p)
  PROVE  /\ g.c.pendList = h.c.pendList /\ g.c.state = h.c.state
         /\ h.c.frameExpected = p.seqno
         /\ g.c.frameExpected = h.c.frameExpected + 1
         /\ g.c.frameToSend = h.c.frameToSend
         /\ g.c.ackExpected = h.c.ackExpected
         /\ g.c.ConnID_in = h.c.ConnID_in
<1> DEFINE c == h.c
           e == [c EXCEPT !.frameExpected = @ + 1]
<1>1. c \in Conn
  BY ContextFields, ConnFields
<1>2. /\ SameNumbers(e, g.c) /\ c.frameExpected = p.seqno
      /\ g.c.state = c.state
  BY DEF Advances
<1>3. /\ e.pendList = c.pendList /\ e.frameExpected = c.frameExpected + 1
      /\ e.frameToSend = c.frameToSend /\ e.ackExpected = c.ackExpected
      /\ e.ConnID_in = c.ConnID_in
  <2> HIDE DEF c
  <2> QED BY <1>1 DEF Conn, c
<1> HIDE DEF e
<1> QED BY <1>2, <1>3 DEF SameNumbers

\* No message is left in a queue that has not changed, either.
LEMMA SameRest ==
  ASSUME NEW c \in GoodConn, NEW d, d.pendList = c.pendList
  PROVE  Rest(c, d)
<1>1. Len(c.pendList) \in Nat
  BY MessageFields
<1>2. /\ 0 \in 0..Len(c.pendList) /\ Len(d.pendList) = Len(c.pendList) - 0
      /\ \A i \in 1..Len(d.pendList) : d.pendList[i] = c.pendList[i + 0]
  BY <1>1
<1> QED BY <1>2 DEF Rest

\* What a packet acknowledges leaves the queue.
LEMMA FreesRest ==
  ASSUME NEW h \in Context, NEW g \in Context, NEW p \in Packet, Numbered(h.c),
         Frees(h, g, p)
  PROVE  Rest(h.c, g.c)
<1> DEFINE q == h.c.pendList
           t == g.c.pendList
           j == FreedBy(q, p.ackno)
<1>1. PICK k \in 0..Len(q) : NumberedBy(h.c, k)
  BY DEF Numbered
<1>2. j \in 0..Len(q) /\ t = SubSeq(q, j + 1, Len(q))
  BY <1>1, FreesFields
<1>3. q \in Seq(MsgBuf)
  BY ContextFields, ConnFields
<1> HIDE DEF j, q, t
<1>4. Len(t) = Len(q) - j /\ \A i \in 1..Len(t) : t[i] = q[i + j]
  BY <1>2, <1>3, SubSeqFields
<1> QED BY <1>2, <1>4 DEF Rest, q, t

\* A closed connection has no live message.
LEMMA ClosedEmpty ==
  ASSUME NEW c \in GoodConn, Numbered(c), c.state = "CLOSED"
  PROVE  Live(c) = {}
<1>1. PICK k \in 0..Len(c.pendList) : NumberedBy(c, k)
  BY DEF Numbered
<1>2. Len(c.pendList) \in Nat /\ DOMAIN c.pendList = 1..Len(c.pendList)
  BY MessageFields
<1> QED BY <1>1, <1>2 DEF NumberedBy, RunsFrom, Live

\* The contexts of a handler the packets of which, behind w, go to the receiver
\* r, and which does not take the numbers N.
OrderedContext(w, r, got, N) ==
  {h \in NumberedContext : /\ Ordered(w \o h.out, h.c, r, got, h.acc)
                           /\ \A q \in N : Over(h.c, q)}

\* What stays in order with the packets s sent last.
LEMMA SendsOrdered ==
  ASSUME NEW w \in Packets, NEW h \in Context, NEW g \in Context,
         NEW s \in Packets, NEW r, NEW got, Numbered(h.c),
         Ordered(w \o h.out, h.c, r, got, h.acc),
         g.out = h.out \o s,
         s = <<ACK(h.c)>> \/ Lawful(h, s) \/ CutShort(h, s)
  PROVE  /\ ChannelOrdered(w \o g.out, r, got, h.acc)
         /\ s = <<ACK(h.c)>> \/ Lawful(h, s)
              => Ordered(w \o g.out, h.c, r, got, h.acc)
<1> DEFINE v == w \o h.out
<1>1. /\ w \in Seq(Packet) /\ h.out \in Seq(Packet) /\ s \in Seq(Packet)
      /\ h.c \in GoodConn /\ h.acc \in Nat
  BY ContextFields DEF Packets
<1>2. w \o g.out = v \o s /\ v \in Packets
  <2>1. v \in Packets
    BY <1>1, ConcatAt DEF Packets
  <2>2. (w \o h.out) \o s = w \o (h.out \o s)
    <3>1. \A a, b, d \in Seq(Packet) : (a \o b) \o d = a \o (b \o d)
      BY ConcatAssociative
    <3> QED BY <1>1, <3>1, Zenon
  <2> QED BY <2>1, <2>2
<1>3. Ordered(v, h.c, r, got, h.acc)
  OBVIOUS
<1> HIDE DEF v
<1>4. CASE s = << >>
  <2>1. v \o s = v
    BY <1>2, <1>4 DEF Packets
  <2> QED BY <1>2, <1>3, <2>1 DEF Ordered
<1>5. ASSUME NEW p \in Packet, s = <<p>>, ~Data(p), ~Sync(p) \/ h.c.state # "ACTIVE"
      PROVE  Ordered(v \o s, h.c, r, got, h.acc)
  BY <1>1, <1>2, <1>3, <1>5, ControlOrdered
<1>6. CASE \/ s = <<ACK(h.c)>> \/ s = <<NACK(h.c)>>
           \/ s = <<SYN(h.c)>> /\ h.c.state = "SYN_SENT"
           \/ s = <<SYNACK(h.c)>> /\ h.c.state = "SYN_RECVD"
  <2>1. /\ ACK(h.c) \in Packet /\ NACK(h.c) \in Packet
        /\ SYN(h.c) \in Packet /\ SYNACK(h.c) \in Packet
    BY <1>1, ControlType
  <2>2. /\ ~Data(ACK(h.c)) /\ ~Sync(ACK(h.c)) /\ ~Data(NACK(h.c)) /\ ~Sync(NACK(h.c))
        /\ ~Data(SYN(h.c)) /\ ~Data(SYNACK(h.c))
    BY DEF ACK, NACK, SYN, SYNACK, Data, Sync
  <2>3. Ordered(v \o s, h.c, r, got, h.acc)
    BY <1>5, <1>6, <2>1, <2>2
  <2> QED BY <1>2, <2>3 DEF Ordered
<1>7. CASE Burst(h.c, s)
  <2>1. /\ ChannelOrdered(v \o s, r, got, h.acc)
        /\ h.c.state = "ACTIVE" => Ordered(v \o s, h.c, r, got, h.acc)
    BY <1>1, <1>2, <1>3, <1>7, BurstOrdered
  <2> QED BY <1>2, <1>4, <1>6, <2>1 DEF Lawful
<1> QED BY <1>4, <1>6, <1>7 DEF Lawful, CutShort

\* No handler sends, queues or forgets anything out of order.
LEMMA OrderedClosed ==
  ASSUME NEW w \in Packets, NEW r, NEW got, NEW N \in SUBSET Int
  PROVE  LET S == OrderedContext(w, r, got, N)
         IN  /\ ClosedUnder(S) /\ Acknowledging(S)
             /\ \A p \in Packet : Sync(p) /\ N = {} => ClosedFor(S, p)
             /\ \A p \in Packet : ~Sync(p) => ClosedFor(S, p)
<1> DEFINE S == OrderedContext(w, r, got, N)
           Order(h) == Ordered(w \o h.out, h.c, r, got, h.acc)
           Refuses(h) == \A q \in N : Over(h.c, q)
<1>1. ASSUME NEW h \in S
      PROVE  /\ h \in Context /\ h \in NumberedContext /\ Numbered(h.c)
             /\ Order(h) /\ Refuses(h) /\ h.c \in GoodConn /\ h.acc \in Nat
             /\ w \o h.out \in Packets /\ h.env.react # "LOST"
  <2>1. /\ h \in Context /\ h \in NumberedContext /\ Numbered(h.c)
        /\ Order(h) /\ Refuses(h) /\ h.env.react # "LOST"
    BY DEF OrderedContext, NumberedContext
  <2>2. h.out \in Packets /\ h.c \in GoodConn /\ h.acc \in Nat
    BY <2>1, ContextFields DEF Packets
  <2>3. w \o h.out \in Packets
    BY <2>2, ConcatAt
  <2> QED BY <2>1, <2>2, <2>3
<1>2. ASSUME NEW g \in NumberedContext, Order(g), Refuses(g)
      PROVE  g \in S
  BY <1>2 DEF OrderedContext
<1>3. ASSUME NEW h \in S, NEW g \in NumberedContext,
             Rest(h.c, g.c), h.c.state = "ACTIVE" => g.c.state = "ACTIVE",
             g.out = h.out, g.acc = h.acc
      PROVE  Order(g)
  <2>1. g.c \in GoodConn
    BY ContextFields DEF NumberedContext
  <2>2. Ordered(w \o h.out, g.c, r, got, h.acc)
    BY <1>1, <1>3, <2>1, RestOrdered
  <2> QED BY <1>3, <2>2
<1>4. ASSUME NEW h \in S, NEW g, g.c.state = h.c.state,
             g.c.frameExpected = h.c.frameExpected
      PROVE  Refuses(g)
  BY <1>1, <1>4 DEF Over, Down
<1>5. ASSUME NEW g, Down(g.c)
      PROVE  Refuses(g)
  BY <1>5 DEF Over
<1>6. ClosedUnder(NumberedContext) /\ Acknowledging(NumberedContext)
      /\ \A p \in Packet : ClosedFor(NumberedContext, p)
  BY NumberedClosed DEF Closed
<1> HIDE DEF S, Refuses
<1>7. ASSUME NEW h \in S, NEW g \in Context, NEW s \in Packets, Sends(h, g, s),
             Lawful(h, s) \/ s = <<ACK(h.c)>>
      PROVE  g \in S
  <2>1. g \in NumberedContext
    BY <1>1, <1>6, <1>7 DEF ClosedUnder, Acknowledging
  <2>2. g.out = h.out \o s /\ g.acc = h.acc
    BY <1>7 DEF Sends
  <2>3. Ordered(w \o g.out, h.c, r, got, h.acc)
    BY <1>1, <1>7, <2>2, SendsOrdered
  <2>4. g.c \in GoodConn /\ w \o g.out \in Packets
    <3>1. g.c \in GoodConn /\ g.out \in Packets
      BY ContextFields DEF Packets
    <3> QED BY <3>1, ConcatAt
  <2>5. Rest(h.c, g.c) /\ g.c.state = h.c.state
    BY <1>1, <1>7, SameRest DEF Sends, SameNumbers
  <2>6. Ordered(w \o g.out, g.c, r, got, h.acc)
    BY <1>1, <2>3, <2>4, <2>5, RestOrdered
  <2>7. Refuses(g)
    BY <1>4, <1>7 DEF Sends, SameNumbers
  <2> QED BY <1>2, <2>1, <2>2, <2>6, <2>7
<1>8. ASSUME NEW h \in S, NEW g \in Context, NEW s \in Packets, Closes(h, g, s),
             CutShort(h, s)
      PROVE  g \in S
  <2>1. g \in NumberedContext
    BY <1>1, <1>6, <1>8 DEF ClosedUnder
  <2>2. g.out = h.out \o s /\ g.acc = h.acc /\ g.c.state = "CLOSED"
    BY <1>8 DEF Closes
  <2>3. ChannelOrdered(w \o g.out, r, got, h.acc)
    BY <1>1, <1>8, <2>2, SendsOrdered
  <2>4. Live(g.c) = {}
    BY <2>1, <2>2, ClosedEmpty, ContextFields DEF NumberedContext
  <2>5. Order(g)
    BY <1>1, <2>2, <2>3, <2>4 DEF Ordered, QueueOrdered
  <2>6. Refuses(g)
    BY <1>5, <2>2 DEF Down
  <2> QED BY <1>2, <2>1, <2>5, <2>6
<1>9. ASSUME NEW h \in S, NEW g \in Context, Queues(h, g)
      PROVE  g \in S
  <2>1. g \in NumberedContext
    BY <1>1, <1>6, <1>9 DEF ClosedUnder
  <2>2. g.out = h.out
    BY <1>9 DEF Queues
  <2>3. Ordered(w \o h.out, g.c, r, got, g.acc)
    BY <1>1, <1>9, QueuesOrdered
  <2>4. CASE h.c.state = "CLOSED"
    <3>1. Down(g.c)
      BY <1>9, <2>4 DEF Queues, Down
    <3> QED BY <1>2, <1>5, <2>1, <2>2, <2>3, <3>1
  <2>5. CASE h.c.state # "CLOSED"
    <3>1. g.c.state = h.c.state /\ g.c.frameExpected = h.c.frameExpected
      BY <1>9, <2>5 DEF Queues
    <3> QED BY <1>2, <1>4, <2>1, <2>2, <2>3, <3>1
  <2> QED BY <2>4, <2>5
<1>10. ASSUME NEW h \in S, NEW g \in Context, Requests(h, g)
       PROVE  g \in S
  <2>1. g \in NumberedContext
    BY <1>1, <1>6, <1>10 DEF ClosedUnder
  <2>2. /\ g.out = h.out /\ g.acc = h.acc /\ h.c.state # "ACTIVE"
        /\ g.c.state = "SYN_SENT" /\ g.c.pendList = h.c.pendList
    BY <1>10 DEF Requests, OnlyConn, SameNumbers
  <2>3. Rest(h.c, g.c) /\ Down(g.c)
    BY <1>1, <2>2, SameRest DEF Down
  <2> QED BY <1>2, <1>3, <1>5, <2>1, <2>2, <2>3
<1>11. ASSUME NEW h \in S, NEW g \in Context, Establishes(h, g)
       PROVE  g \in S
  <2>1. g \in NumberedContext
    BY <1>1, <1>6, <1>11 DEF ClosedUnder
  <2>2. g.out = h.out /\ g.acc = h.acc
    BY <1>11 DEF Establishes
  <2>3. /\ g.c.pendList = h.c.pendList /\ g.c.frameExpected = h.c.frameExpected
        /\ h.c.state = "SYN_RECVD" /\ g.c.state = "ACTIVE"
    BY <1>1, <1>11, EstablishesFields
  <2>4. Rest(h.c, g.c)
    BY <1>1, <2>3, SameRest
  <2>5. Refuses(g)
    BY <1>1, <2>3 DEF Refuses, Over, Down
  <2> QED BY <1>2, <1>3, <2>1, <2>2, <2>3, <2>4, <2>5
<1>12. ASSUME NEW h \in S, NEW g \in Context, NEW k, Drops(h, g, k)
       PROVE  g \in S
  <2>1. g \in NumberedContext
    BY <1>1, <1>6, <1>12 DEF ClosedUnder
  <2>2. g.out = h.out /\ g.acc = h.acc
    BY <1>12 DEF Drops, OnlyConn
  <2>3. /\ Rest(h.c, g.c) /\ g.c.state = h.c.state
        /\ g.c.frameExpected = h.c.frameExpected
    BY <1>1, <1>12, DropsFields
  <2> QED BY <1>2, <1>3, <1>4, <2>1, <2>2, <2>3
<1>13. ASSUME NEW h \in S, NEW g \in Context, NEW p \in Packet, Frees(h, g, p)
       PROVE  g \in S
  <2>1. g \in NumberedContext
    BY <1>1, <1>6, <1>13 DEF ClosedFor
  <2>2. g.out = h.out /\ g.acc = h.acc
    BY <1>13 DEF Frees, Discards, OnlyConn
  <2>3. Rest(h.c, g.c)
    BY <1>1, <1>13, FreesRest
  <2>4. g.c.state = h.c.state /\ g.c.frameExpected = h.c.frameExpected
    <3>1. PICK k \in 0..Len(h.c.pendList) : NumberedBy(h.c, k)
      BY <1>1 DEF Numbered
    <3> QED BY <1>1, <1>13, <3>1, FreesFields
  <2> QED BY <1>2, <1>3, <1>4, <2>1, <2>2, <2>3, <2>4
<1>14. ASSUME NEW h \in S, NEW g \in Context, NEW p \in Packet, Adopts(h, g, p),
              N = {}
       PROVE  g \in S
  <2>1. g \in NumberedContext
    BY <1>1, <1>6, <1>14 DEF ClosedFor
  <2>2. g.out = h.out /\ g.acc = h.acc
    BY <1>14 DEF Adopts, OnlyConn
  <2>3. g.c.pendList = h.c.pendList /\ h.c.state # "ACTIVE"
    BY <1>1, <1>14, AdoptsFields
  <2>4. Rest(h.c, g.c) /\ Refuses(g)
    BY <1>1, <1>14, <2>3, SameRest DEF Refuses
  <2> QED BY <1>2, <1>3, <2>1, <2>2, <2>3, <2>4
<1>15. ClosedUnder(S)
  BY <1>1, <1>7, <1>8, <1>9, <1>10, <1>11, <1>12 DEF ClosedUnder
<1>16. Acknowledging(S)
  <2> SUFFICES ASSUME NEW h \in S, NEW g \in Context, Sends(h, g, <<ACK(h.c)>>)
               PROVE  g \in S
    BY <1>15 DEF Acknowledging
  <2>1. <<ACK(h.c)>> \in Packets
    BY <1>1, ControlType DEF Packets
  <2> QED BY <1>7, <2>1
<1>17. ASSUME NEW p \in Packet, N = {} \/ ~Sync(p)
       PROVE  ClosedFor(S, p)
  <2>1. ASSUME NEW h \in S, NEW g \in Context, Adopts(h, g, p)
        PROVE  g \in S
    BY <1>1, <1>14, <1>17, <2>1, AdoptsFields
  <2> QED BY <1>13, <1>15, <2>1 DEF ClosedFor
<1> QED BY <1>15, <1>16, <1>17 DEF S

\* Behind the message in p its number is refused, and so are all before it.
LEMMA AdvancesOrdered ==
  ASSUME NEW w \in Packets, NEW r, NEW got, NEW N \in SUBSET Int,
         NEW h \in OrderedContext(w, r, got, N), NEW g \in Context,
         NEW p \in Packet, Advances(h, g, p)
  PROVE  g \in OrderedContext(w, r, got, N \cup {q \in Int : q <= p.seqno})
<1>1. /\ h \in Context /\ h \in NumberedContext /\ Numbered(h.c)
      /\ Ordered(w \o h.out, h.c, r, got, h.acc)
      /\ \A q \in N : Over(h.c, q)
  BY DEF OrderedContext, NumberedContext
<1>2. g \in NumberedContext
  BY <1>1, NumberedClosed DEF Closed
<1>3. g.out = h.out /\ g.acc = h.acc
  BY DEF Advances, OnlyConn
<1>4. /\ g.c.pendList = h.c.pendList /\ g.c.state = h.c.state
      /\ h.c.frameExpected = p.seqno
      /\ g.c.frameExpected = h.c.frameExpected + 1
  BY <1>1, AdvancesFields
<1>5. h.c \in GoodConn /\ g.c \in GoodConn /\ h.out \in Packets /\ p.seqno \in Int
  BY <1>1, ContextFields DEF Packets, Packet
<1>6. w \o h.out \in Packets /\ Rest(h.c, g.c)
  BY <1>4, <1>5, ConcatAt, SameRest
<1>7. Ordered(w \o h.out, g.c, r, got, h.acc)
  BY <1>1, <1>4, <1>5, <1>6, RestOrdered
<1>8. \A q \in N \cup {q \in Int : q <= p.seqno} : Over(g.c, q)
  <2>1. ASSUME NEW q \in N
        PROVE  Over(g.c, q)
    <3>1. q \in Int /\ Over(h.c, q)
      BY <1>1
    <3> QED BY <1>4, <1>5, <3>1 DEF Over, Down
  <2>2. ASSUME NEW q \in Int, q <= p.seqno
        PROVE  Over(g.c, q)
    BY <1>4, <1>5, <2>2 DEF Over
  <2> QED BY <2>1, <2>2
<1> QED BY <1>2, <1>3, <1>7, <1>8 DEF OrderedContext

-----------------------------------------------------------------------------
(* Steps.                                                                  *)

\* One direction of a pair of psids.
PairOrdered(n, m) ==
  Ordered(net[n][m], conn[n][m], conn[m][n], delivered[n][m], accepted[n][m])

\* The types of what a pair consists of.
LEMMA PairFields ==
  ASSUME IInv, NEW n \in Node, NEW m \in Peer(n)
  PROVE  /\ m \in Node /\ n \in Peer(m)
         /\ conn[n][m] \in GoodConn /\ conn[m][n] \in GoodConn
         /\ net[n][m] \in Packets /\ net[m][n] \in Packets
         /\ delivered[n][m] \in Seq(Nat) /\ delivered[m][n] \in Seq(Nat)
         /\ accepted[n][m] \in Nat /\ accepted[m][n] \in Nat
         /\ owed[n][m] \in SUBSET Nat
<1>1. m \in Node /\ n \in Peer(m)
  BY PeerOfPeer
<1> QED BY <1>1, TableEntryType DEF IInv, Count, Messages

\* A handler starts in order.
LEMMA StartsOrdered ==
  ASSUME \A env \in Environ : env.react # "LOST",
         IInv, AllNumbered, NEW n \in Node, NEW m \in Peer(n), PairOrdered(n, m),
         NEW N, \A q \in N : Over(conn[n][m], q)
  PROVE  Starts(n, m, OrderedContext(net[n][m], conn[m][n], delivered[n][m], N))
<1> SUFFICES ASSUME NEW env \in Environ
             PROVE  Ctx(n, m, env) \in OrderedContext(net[n][m], conn[m][n],
                                                      delivered[n][m], N)
  BY DEF Starts
<1> DEFINE h == Ctx(n, m, env)
<1>1. h \in Context
  BY CtxType
<1>2. h.c = conn[n][m] /\ h.out = << >> /\ h.acc = accepted[n][m] /\ h.env = env
  BY CtxFields
<1>3. Numbered(conn[n][m]) /\ net[n][m] \in Packets
  BY PairFields DEF AllNumbered
<1>4. net[n][m] \o << >> = net[n][m]
  BY <1>3, NothingSent
<1> HIDE DEF h
<1>5. h \in NumberedContext
  BY <1>1, <1>2, <1>3 DEF NumberedContext
<1>6. Ordered(net[n][m] \o h.out, h.c, conn[m][n], delivered[n][m], h.acc)
  BY <1>2, <1>4 DEF PairOrdered
<1>7. h \in OrderedContext(net[n][m], conn[m][n], delivered[n][m], N)
  BY <1>2, <1>5, <1>6 DEF OrderedContext
<1> QED BY <1>7 DEF h

\* A handler ends in order, as far as what it sends goes.
LEMMA EndsOrdered ==
  ASSUME IInv, NEW n \in Node, NEW m \in Peer(n), NEW N,
         NEW h \in OrderedContext(net[n][m], conn[m][n], delivered[n][m], N),
         Ends(n, m, h),
         delivered'[n][m] = delivered[n][m], conn'[m][n] = conn[m][n]
  PROVE  PairOrdered(n, m)'
<1>1. /\ h \in Context
      /\ Ordered(net[n][m] \o h.out, h.c, conn[m][n], delivered[n][m], h.acc)
  BY DEF OrderedContext, NumberedContext
<1>2. net[n][m] \in Packets /\ h.out \in Packets
  BY <1>1, PairFields, ContextFields DEF Packets
<1>3. net[n][m] \o h.out \in Packets
  BY <1>2, ConcatAt
<1>4. Ordered(Carry(net[n][m] \o h.out), h.c, conn[m][n], delivered[n][m], h.acc)
  BY <1>1, <1>3, CarryPart, PartOrdered
<1> QED BY <1>4 DEF PairOrdered, Ends

\* Whatever n does, messages stay in order in both directions.
LEMMA MoveOrdered ==
  ASSUME "reorder" \notin Fault, \A env \in Environ : env.react # "LOST",
         IInv, IInv', AllNumbered, NEW n \in Node, NEW m \in Peer(n),
         PairOrdered(n, m), PairOrdered(m, n), Moves(n, m)
  PROVE  PairOrdered(n, m)' /\ PairOrdered(m, n)'
<1>1. /\ m \in Node /\ n \in Peer(m)
      /\ conn[n][m] \in GoodConn /\ conn[m][n] \in GoodConn
      /\ net[n][m] \in Packets /\ net[m][n] \in Packets
      /\ delivered[n][m] \in Seq(Nat) /\ delivered[m][n] \in Seq(Nat)
      /\ accepted[m][n] \in Nat
  BY PairFields
<1> DEFINE w == net[n][m]
           v == net[m][n]
           c == conn[n][m]
           S(N) == OrderedContext(w, conn[m][n], delivered[n][m], N)
           Refused == {q \in Int : Over(c, q)}
<1>2. \A q \in Refused : Over(conn[n][m], q)
  OBVIOUS
<1>3. ASSUME NEW N \in SUBSET Int, \A q \in N : Over(c, q)
      PROVE  /\ Starts(n, m, S(N))
             /\ ClosedUnder(S(N)) /\ Acknowledging(S(N))
             /\ \A p \in Packet : N = {} \/ ~Sync(p) => ClosedFor(S(N), p)
  <2>1. Starts(n, m, S(N))
    BY <1>3, StartsOrdered
  <2>2. /\ ClosedUnder(S(N)) /\ Acknowledging(S(N))
        /\ \A p \in Packet : Sync(p) /\ N = {} => ClosedFor(S(N), p)
        /\ \A p \in Packet : ~Sync(p) => ClosedFor(S(N), p)
    BY <1>1, OrderedClosed
  <2> HIDE DEF S
  <2> QED BY <2>1, <2>2
<1>4. CASE Acts(n, m)
  <2>1. Refused \in SUBSET Int
    OBVIOUS
  <2>2. PICK h \in S(Refused) : Ends(n, m, h)
    <3> HIDE DEF S, Refused
    <3>1. Starts(n, m, S(Refused)) /\ ClosedUnder(S(Refused))
      BY <1>2, <1>3, <2>1
    <3> QED BY <1>4, <3>1 DEF Acts
  <2>3. Still(m, n) /\ delivered'[n][m] = delivered[n][m]
    BY <1>4 DEF Acts
  <2>4. PairOrdered(n, m)'
    BY <2>2, <2>3, EndsOrdered DEF Still, Untouched
  <2>5. \A q \in Int : Over(conn[n][m], q) => Over(h.c, q)
    BY <2>2 DEF OrderedContext
  <2>6. Ordered(v, conn[m][n], h.c, delivered[m][n], accepted[m][n])
    BY <1>1, <2>5, ReceiverOrdered DEF PairOrdered
  <2>7. PairOrdered(m, n)'
    BY <2>2, <2>3, <2>6 DEF PairOrdered, Still, Untouched, Ends
  <2> QED BY <2>4, <2>7
<1>5. CASE Receives(n, m)
  <2> DEFINE p == Head(v)
             N == IF Sync(p) THEN {} ELSE Refused
             B == {q \in Int : q <= p.seqno}
  <2>1. /\ v # << >> /\ net'[m][n] = Tail(v)
        /\ Untouched(m, n) /\ delivered'[n][m] = delivered[n][m]
    BY <1>5 DEF Receives
  <2>2. p \in Packet /\ p.seqno \in Int
    BY <1>1, <2>1, TailPart DEF Packet
  <2>3. N \in SUBSET Int /\ N \cup B \in SUBSET Int /\ \A q \in N : Over(c, q)
    OBVIOUS
  <2>4. Handles(n, m, S(N), S(N \cup B), p)
    <3>1. Starts(n, m, S(N)) /\ ClosedFor(S(N), p)
      <4>1. N = {} \/ ~Sync(p)
        OBVIOUS
      <4> HIDE DEF S, N
      <4> QED BY <1>3, <2>2, <2>3, <4>1
    <3>2. Acknowledging(S(N \cup B))
      <4> HIDE DEF N, B
      <4> QED BY <1>1, <2>3, OrderedClosed
    <3>3. \A h \in S(N), g \in Context : Advances(h, g, p) => g \in S(N \cup B)
      <4> HIDE DEF N
      <4> QED BY <1>1, <2>2, <2>3, AdvancesOrdered
    <3> HIDE DEF S, N, B
    <3> QED BY <1>5, <3>1, <3>2, <3>3 DEF Receives
  <2>5. CASE delivered'[m][n] = delivered[m][n] /\ \E h \in S(N) : Ends(n, m, h)
    <3>1. PICK h \in S(N) : Ends(n, m, h)
      BY <2>5
    <3>2. PairOrdered(n, m)'
      <4> HIDE DEF N
      <4> QED BY <2>1, <3>1, EndsOrdered DEF Untouched
    <3>3. Ordered(Tail(v), conn[m][n], h.c, delivered[m][n], accepted[m][n])
      <4>1. CASE Sync(p)
        BY <1>1, <2>1, <4>1, SyncTaken DEF PairOrdered
      <4>2. CASE ~Sync(p)
        <5>1. \A q \in Int : Over(conn[n][m], q) => Over(h.c, q)
          BY <3>1, <4>2 DEF OrderedContext
        <5>2. Ordered(v, conn[m][n], h.c, delivered[m][n], accepted[m][n])
          BY <1>1, <5>1, ReceiverOrdered DEF PairOrdered
        <5> QED BY <1>1, <2>1, <5>2, TailPart, PartOrdered
      <4> QED BY <4>1, <4>2
    <3>4. PairOrdered(m, n)'
      BY <2>1, <2>5, <3>1, <3>3 DEF PairOrdered, Untouched, Ends
    <3> QED BY <3>2, <3>4
  <2>6. CASE Takes(n, m) /\ \E h \in S(N \cup B) : Ends(n, m, h)
    <3>1. PICK h \in S(N \cup B) : Ends(n, m, h)
      BY <2>6
    <3>2. PairOrdered(n, m)'
      <4> HIDE DEF N, B
      <4> QED BY <2>1, <3>1, EndsOrdered DEF Untouched
    <3>3. /\ Data(p) /\ c.state = "ACTIVE" /\ p.seqno = c.frameExpected
          /\ delivered'[m][n] = Append(delivered[m][n], p.payload)
      BY <2>6 DEF Takes, Data
    <3>4. ~Sync(p) /\ ~Over(c, p.seqno)
      BY <2>2, <3>3 DEF Sync, Data, Over, Down
    <3>5. \A q \in Int : Over(c, q) \/ q <= p.seqno => Over(h.c, q)
      BY <3>1, <3>4 DEF OrderedContext
    <3>6. Ordered(Tail(v), conn[m][n], h.c, Append(delivered[m][n], p.payload),
                  accepted[m][n])
      BY <1>1, <2>1, <3>3, <3>4, <3>5, MessageTaken DEF PairOrdered
    <3>7. PairOrdered(m, n)'
      BY <2>1, <3>1, <3>3, <3>6 DEF PairOrdered, Untouched, Ends
    <3> QED BY <3>2, <3>7
  <2> QED BY <2>4, <2>5, <2>6 DEF Handles
<1>6. CASE Ticks(n, m)
  <2>1. conn'[n][m] \in GoodConn
    BY PairFields, TableEntryType DEF IInv
  <2>2. /\ conn'[n][m].pendList = c.pendList /\ conn'[n][m].state = c.state
        /\ conn'[n][m].frameExpected = c.frameExpected
    BY <1>6 DEF Ticks, SameNumbers
  <2>3. Ordered(w, conn'[n][m], conn[m][n], delivered[n][m], accepted[n][m])
    BY <1>1, <2>1, <2>2, SameRest, RestOrdered DEF PairOrdered
  <2>4. Ordered(v, conn[m][n], conn'[n][m], delivered[m][n], accepted[m][n])
    <3>1. \A q \in Int : Over(c, q) => Over(conn'[n][m], q)
      BY <2>2 DEF Over, Down
    <3> QED BY <1>1, <3>1, ReceiverOrdered DEF PairOrdered
  <2> QED BY <1>6, <2>3, <2>4 DEF Ticks, PairOrdered, Still, Untouched
<1>7. CASE Loses(n, m)
  <2>1. Ordered(Tail(w), c, conn[m][n], delivered[n][m], accepted[n][m])
    BY <1>1, <1>7, TailPart, PartOrdered DEF Loses, PairOrdered
  <2> QED BY <1>7, <2>1 DEF Loses, PairOrdered, Still, Untouched
<1>8. CASE Restarts(n, m)
  <2>1. PICK fts \in FirstToSend, fe \in FirstExpected, id \in ConnId :
          conn'[n][m] = InitConn(fts, fe, id)
    BY <1>8 DEF Restarts
  <2>2. Live(conn'[n][m]) = {} /\ Down(conn'[n][m])
    BY <2>1 DEF InitConn, Live, Down
  <2>3. Ordered(w, conn'[n][m], conn[m][n], delivered[n][m], accepted[n][m])
    BY <2>2 DEF Ordered, QueueOrdered, PairOrdered
  <2>4. Ordered(v, conn[m][n], conn'[n][m], delivered[m][n], accepted[m][n])
    <3>1. \A q \in Int : Over(c, q) => Over(conn'[n][m], q)
      BY <2>2 DEF Over
    <3> QED BY <1>1, <3>1, ReceiverOrdered DEF PairOrdered
  <2> QED BY <1>8, <2>3, <2>4 DEF Restarts, PairOrdered, Still, Untouched
<1> QED BY <1>4, <1>5, <1>6, <1>7, <1>8 DEF Moves, Swaps

\* So does every step.
LEMMA OrderedStep ==
  ASSUME "reorder" \notin Fault, \A env \in Environ : env.react # "LOST",
         IInv, IInv', AllNumbered, AllOrdered, [Next]_vars
  PROVE  AllOrdered'
<1> SUFFICES ASSUME NEW n \in Node, NEW m \in Peer(n)
             PROVE  PairOrdered(n, m)'
  BY DEF AllOrdered, PairOrdered
<1>1. m \in Node /\ n \in Peer(m)
  BY PeerOfPeer
<1>2. PairOrdered(n, m) /\ PairOrdered(m, n)
  BY <1>1 DEF AllOrdered, PairOrdered
<1>3. PairStep(n, m)
  BY StepIsPairStep
<1>4. CASE Still(n, m) /\ Still(m, n)
  BY <1>2, <1>4 DEF Still, Untouched, PairOrdered
<1>5. CASE Moves(n, m)
  BY <1>2, <1>5, MoveOrdered
<1>6. CASE Moves(m, n)
  BY <1>1, <1>2, <1>6, MoveOrdered
<1> QED BY <1>3, <1>4, <1>5, <1>6 DEF PairStep

\* At first there are no messages.
LEMMA InitOrdered == Init => AllOrdered
<1> SUFFICES ASSUME Init, NEW n \in Node, NEW m \in Peer(n)
             PROVE  PairOrdered(n, m)
  BY DEF AllOrdered, PairOrdered
<1>1. m \in Node /\ n \in Peer(m)
  BY PeerOfPeer
<1>2. /\ net[n][m] = << >> /\ delivered[n][m] = << >>
      /\ conn[n][m].pendList = << >>
  BY DEF Init, InitConn
<1>3. Live(conn[n][m]) = {}
  BY <1>2 DEF Live
<1> QED BY <1>2, <1>3 DEF PairOrdered, Ordered, ChannelOrdered, QueueOrdered,
                          GotOrdered

\* Every message is delivered at most once, in the order of the Rsendto()
\* calls: resends after a lost acknowledgment, connections rebuilt in whatever
\* state either end is, changes of address, failed sends and restarts of either
\* psid included, as long as the network keeps the order of the packets and
\* RDP_LOST_CONNECTION is not answered by another Rsendto().
THEOREM InOrder ==
  ASSUME "reorder" \notin Fault, \A env \in Environ : env.react # "LOST"
  PROVE  Spec => []InOrderOnce
<1> DEFINE I == IInv /\ AllNumbered /\ AllOrdered
<1>1. Init => I
  BY InitInvariant, InitNumbered, InitOrdered DEF Init, AllNumbered
<1>2. I /\ [Next]_vars => I'
  BY NextInvariant, NumberedStep, OrderedStep
<1>3. I => InOrderOnce
  <2> SUFFICES ASSUME I, NEW n \in Node, NEW m \in Peer(n),
                      NEW i \in DOMAIN delivered[n][m],
                      NEW j \in DOMAIN delivered[n][m], i < j
               PROVE  delivered[n][m][i] < delivered[n][m][j]
    BY DEF InOrderOnce
  <2>1. /\ delivered[n][m] \in Seq(Nat)
        /\ GotOrdered(delivered[n][m], accepted[n][m])
    BY PairFields DEF AllOrdered, Ordered
  <2>2. i \in 1..(j - 1)
    BY <2>1, LenProperties
  <2> QED BY <2>1, <2>2 DEF GotOrdered
<1> HIDE DEF I
<1> QED BY <1>1, <1>2, <1>3, PTL DEF Spec
=============================================================================
