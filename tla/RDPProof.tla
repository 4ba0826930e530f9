------------------------------ MODULE RDPProof ------------------------------
(***************************************************************************)
(* Theorems about RDP, checked by TLAPS.                                   *)
(*                                                                         *)
(* Every handler is a function of a context, so the proof goes along the   *)
(* calls: each operator of RDP maps a context whose connection is in order *)
(* (Context) to such a context, from the helpers up to handleRDP().        *)
(***************************************************************************)
EXTENDS RDP, FiniteSetTheorems, SequenceTheorems, TLAPS

(* The types of the fields get names, which keeps them from being expanded *)
(* where a step only passes a value on.                                    *)
Bool == BOOLEAN
Count == Nat
Number == Int
Buffers == Seq(MsgBuf)
Packets == Seq(Packet)
Messages == SUBSET Nat
Report == {"up", "down"}
Ids == SUBSET KnownId

\* ConnInfo in these names.
Conn ==
  [known : Bool, state : State, window : Number, ackPending : Count,
   msgPending : Count, frameToSend : Number, ackExpected : Number,
   frameExpected : Number, ConnID_in : KnownId, ConnID_out : ConnId,
   pendList : Buffers, tmout : Bool, closed : Bool, retrans : Count]

\* The free send slots and the buffers in pendList make up the window.
SlotsOK(c) == c.window \in Nat /\ c.window + Len(c.pendList) = MAX_WINDOW_SIZE

\* Deleted buffers precede live ones.
InFront(s) == \A i, j \in DOMAIN s : i < j /\ s[j].deleted => s[i].deleted

\* A connection that has its type, accounts for its send slots and has its
\* deleted buffers in front.
GoodConn == {c \in Conn : SlotsOK(c) /\ InFront(c.pendList)}

Env == [fail : Count, closes : Bool, react : Reaction]

Context ==
  [c : GoodConn, out : Packets, cleanup : Bool, acc : Count,
   owed : Messages, told : Report, max : Count, used : Ids, env : Env]

-----------------------------------------------------------------------------
\* Conn and ConnInfo are the same set of records.
LEMMA ConnIsConnInfo == Conn = ConnInfo
BY DEF Conn, ConnInfo, Bool, Count, Number, Buffers

\* The fields of a good connection.
LEMMA ConnFields ==
  ASSUME NEW c \in GoodConn
  PROVE  /\ c \in Conn
         /\ c.known \in BOOLEAN /\ c.state \in State /\ c.window \in Nat
         /\ c.ackPending \in Nat /\ c.msgPending \in Nat
         /\ c.frameToSend \in Int /\ c.ackExpected \in Int
         /\ c.frameExpected \in Int /\ c.ConnID_in \in KnownId
         /\ c.ConnID_out \in ConnId /\ c.pendList \in Seq(MsgBuf)
         /\ c.tmout \in BOOLEAN /\ c.closed \in BOOLEAN /\ c.retrans \in Nat
         /\ c.window + Len(c.pendList) = MAX_WINDOW_SIZE
         /\ InFront(c.pendList)
BY DEF GoodConn, SlotsOK, Conn, Bool, Count, Number, Buffers

\* The fields of a context.
LEMMA ContextFields ==
  ASSUME NEW h \in Context
  PROVE  /\ h.c \in GoodConn /\ h.out \in Seq(Packet) /\ h.cleanup \in BOOLEAN
         /\ h.acc \in Nat /\ h.owed \in SUBSET Nat /\ h.told \in Report
         /\ h.max \in Nat /\ h.used \in Ids /\ h.env \in Env
         /\ h.env.fail \in Nat /\ h.env.closes \in BOOLEAN
         /\ h.env.react \in Reaction
BY DEF Context, Env, Packets, Bool, Count, Messages

\* A change that leaves window and pendList alone keeps the slots in order.
LEMMA SameSlots ==
  ASSUME NEW c \in GoodConn, NEW d \in Conn,
         d.window = c.window, d.pendList = c.pendList
  PROVE  d \in GoodConn
BY DEF GoodConn, SlotsOK

\* A context with another good connection.
LEMMA NewConn ==
  ASSUME NEW h \in Context, NEW d \in GoodConn
  PROVE  [h EXCEPT !.c = d] \in Context
BY DEF Context

\* A context that has sent further packets.
LEMMA NewOut ==
  ASSUME NEW h \in Context, NEW s \in Seq(Packet)
  PROVE  [h EXCEPT !.out = @ \o s] \in Context
<1>1. h.out \o s \in Packets
  BY ContextFields DEF Packets
<1> QED BY <1>1 DEF Context

\* A context whose plan for the failure of a send has changed.
LEMMA NewFail ==
  ASSUME NEW h \in Context, NEW k \in Nat
  PROVE  [h EXCEPT !.env.fail = k] \in Context
<1>1. h.env \in Env /\ k \in Count
  BY DEF Context, Count
<1>2. [h.env EXCEPT !.fail = k] \in Env
  BY <1>1 DEF Env
<1> QED BY <1>2 DEF Context

\* A context that reacts to no further callback.
LEMMA NoReaction ==
  ASSUME NEW h \in Context
  PROVE  [h EXCEPT !.env.react = "none"] \in Context
<1>1. h.env \in Env /\ "none" \in Reaction
  BY DEF Context, Reaction
<1>2. [h.env EXCEPT !.react = "none"] \in Env
  BY <1>1 DEF Env
<1> QED BY <1>2 DEF Context

-----------------------------------------------------------------------------
\* What sendSYN() and its like put on the net are packets.
LEMMA ControlType ==
  ASSUME NEW c \in GoodConn
  PROVE  /\ SYN(c) \in Packet /\ ACK(c) \in Packet
         /\ SYNACK(c) \in Packet /\ NACK(c) \in Packet
BY ConnFields DEF Packet, PacketType, SYN, ACK, SYNACK, NACK

\* So are the DATA packets.
LEMMA DataType ==
  ASSUME NEW c \in GoodConn, NEW mp \in MsgBuf
  PROVE  DATA(c, mp) \in Packet
BY ConnFields DEF Packet, PacketType, DATA, MsgBuf

\* random() yields a connection ID.
LEMMA RandomType == \A h : random(h) \in ConnId
BY ConnIdAssumption DEF random

\* sendto() of a packet.
LEMMA PutType ==
  ASSUME NEW h \in Context, NEW p \in Packet
  PROVE  Put(h, p) \in Context
<1>1. Append(h.out, p) \in Packets
  BY ContextFields DEF Packets
<1> QED BY <1>1 DEF Put, Context

\* The connection as Rsendto() changes it: a slot becomes a buffer.
LEMMA EnqueueConn ==
  ASSUME NEW c \in GoodConn, c.window # 0,
         NEW p \in Seq(MsgBuf), Len(p) = Len(c.pendList) + 1, InFront(p),
         NEW t \in BOOLEAN, NEW r \in Nat, NEW s \in State, NEW m \in Nat,
         NEW f \in Int
  PROVE  [c EXCEPT !.pendList = p, !.window = @ - 1, !.ackPending = 0,
                   !.tmout = t, !.retrans = r, !.state = s,
                   !.msgPending = m, !.frameToSend = f] \in GoodConn
<1> DEFINE w == c.window - 1
           d == [c EXCEPT !.pendList = p, !.window = w, !.ackPending = 0,
                          !.tmout = t, !.retrans = r, !.state = s,
                          !.msgPending = m, !.frameToSend = f]
<1>0. c.window \in Nat /\ c.window + Len(c.pendList) = MAX_WINDOW_SIZE
  BY ConnFields
<1>1. w \in Nat /\ w + Len(p) = MAX_WINDOW_SIZE
  BY <1>0, WindowAssumption, LenProperties, ConnFields
<1> HIDE DEF w
<1>2. /\ c \in Conn /\ w \in Number /\ 0 \in Count /\ p \in Buffers
      /\ t \in Bool /\ r \in Count /\ m \in Count /\ f \in Number
  BY <1>1, ConnFields DEF Number, Count, Buffers, Bool
<1>3. d \in Conn /\ d.window = w /\ d.pendList = p
  BY <1>2 DEF Conn
<1>4. d \in GoodConn
  <2> HIDE DEF d
  <2> QED BY <1>1, <1>3 DEF GoodConn, SlotsOK
<1> QED BY <1>4 DEF w

\* A live buffer behind the others leaves the deleted ones in front.
LEMMA AppendInFront ==
  ASSUME NEW s \in Seq(MsgBuf), InFront(s), NEW mp \in MsgBuf, ~mp.deleted
  PROVE  InFront(Append(s, mp))
<1> DEFINE q == Append(s, mp)
<1>1. /\ q \in Seq(MsgBuf) /\ Len(s) \in Nat /\ Len(q) = Len(s) + 1
      /\ DOMAIN q = 1..Len(q) /\ DOMAIN s = 1..Len(s)
      /\ \A i \in 1..Len(s) : q[i] = s[i]
      /\ q[Len(s) + 1] = mp
  BY AppendProperties, LenProperties
<1> HIDE DEF q
<1>2. SUFFICES ASSUME NEW i \in DOMAIN q, NEW j \in DOMAIN q,
                      i < j, q[j].deleted
               PROVE  q[i].deleted
  BY DEF InFront, q
<1>3. i \in Int /\ j \in Int /\ j # Len(s) + 1
  BY <1>1, <1>2
<1>4. i \in DOMAIN s /\ j \in DOMAIN s
  BY <1>1, <1>2, <1>3
<1>5. q[i] = s[i] /\ q[j] = s[j]
  BY <1>1, <1>4
<1>6. s[j].deleted
  BY <1>2, <1>5
<1>7. s[i].deleted
  BY <1>2, <1>4, <1>6 DEF InFront
<1> QED BY <1>5, <1>7

\* Rsendto() of a message keeps the connection in order.
LEMMA EnqueueType ==
  ASSUME NEW h \in Context, h.c.window # 0
  PROVE  Enqueue(h) \in Context /\ Enqueue(h).c.pendList # << >>
<1> DEFINE c == h.c
           mp == [seqno |-> c.frameToSend + c.msgPending,
                  connid |-> c.ConnID_out, payload |-> h.acc + 1,
                  deleted |-> FALSE]
           p == Append(c.pendList, mp)
           first == c.pendList = << >> /\ c.state = "ACTIVE"
           t == IF first THEN TRUE ELSE c.tmout
           r == IF first THEN 0 ELSE c.retrans
           s == IF c.state = "CLOSED" THEN "SYN_SENT" ELSE c.state
           m == IF c.state = "ACTIVE" THEN c.msgPending ELSE c.msgPending + 1
           f == IF c.state = "ACTIVE" THEN c.frameToSend + 1 ELSE c.frameToSend
           d == [c EXCEPT !.pendList = p, !.window = @ - 1, !.ackPending = 0,
                          !.tmout = t, !.retrans = r, !.state = s,
                          !.msgPending = m, !.frameToSend = f]
           a == h.acc + 1
           o == h.owed \cup {h.acc + 1}
<1>1. c \in GoodConn /\ h.acc \in Nat /\ h.owed \in SUBSET Nat
  BY ContextFields
<1>2. mp \in MsgBuf
  <2>1. /\ c.frameToSend + c.msgPending \in Int /\ c.ConnID_out \in ConnId
        /\ h.acc + 1 \in Nat /\ FALSE \in BOOLEAN
    BY <1>1, ConnFields
  <2> QED BY <2>1 DEF MsgBuf
<1>3. o \in Messages /\ a \in Count
  BY <1>1 DEF Messages, Count
<1>4. /\ p \in Seq(MsgBuf) /\ Len(p) = Len(c.pendList) + 1 /\ p # << >>
      /\ InFront(p)
  <2>1. ~mp.deleted
    OBVIOUS
  <2>2. c.pendList \in Seq(MsgBuf) /\ InFront(c.pendList)
    BY <1>1, ConnFields
  <2> HIDE DEF mp, c
  <2>3. InFront(p)
    BY <1>2, <2>1, <2>2, AppendInFront
  <2>4. p \in Seq(MsgBuf) /\ Len(p) = Len(c.pendList) + 1 /\ p # << >>
    BY <1>2, <2>2
  <2> QED BY <2>3, <2>4
<1>5. t \in BOOLEAN /\ r \in Nat /\ s \in State /\ m \in Nat /\ f \in Int
  <2>1. /\ c.tmout \in BOOLEAN /\ c.retrans \in Nat /\ c.state \in State
        /\ c.msgPending \in Nat /\ c.frameToSend \in Int
    BY <1>1, ConnFields
  <2>2. t \in BOOLEAN
    <3> HIDE DEF first, c
    <3>1. CASE first
      BY <3>1
    <3>2. CASE ~first
      BY <3>2, <2>1
    <3> QED BY <3>1, <3>2
  <2>3. r \in Nat /\ m \in Nat /\ f \in Int
    BY <2>1
  <2>4. s \in State
    BY <2>1 DEF State
  <2> QED BY <2>2, <2>3, <2>4
<1>6. d \in GoodConn /\ d.pendList = p
  <2>1. c \in GoodConn /\ c.window # 0 /\ c \in Conn
    BY <1>1, ConnFields
  <2> HIDE DEF c, p, t, r, s, m, f
  <2>2. d \in GoodConn
    BY <2>1, <1>4, <1>5, EnqueueConn
  <2>3. d.pendList = p
    BY <2>1 DEF Conn
  <2> QED BY <2>2, <2>3
<1>7. Enqueue(h) = [h EXCEPT !.acc = a, !.owed = o, !.c = d]
  BY DEF Enqueue
<1> HIDE DEF d, a, o, p
<1> QED BY <1>3, <1>4, <1>6, <1>7 DEF Context

\* The packet Rsendto() sends next.
LEMMA FirstPacketType ==
  ASSUME NEW c \in GoodConn, c.pendList # << >>
  PROVE  FirstPacket(c) \in Packet
<1>1. c.pendList \in Seq(MsgBuf)
  BY ConnFields
<1>2. c.pendList[Len(c.pendList)] \in MsgBuf
  <2>1. Len(c.pendList) \in 1..Len(c.pendList)
    BY <1>1, EmptySeq, LenProperties
  <2> QED BY <1>1, <2>1, ElementOfSeq
<1>3. DATA(c, c.pendList[Len(c.pendList)]) \in Packet
  BY <1>2, DataType
<1>4. SYN(c) \in Packet /\ SYNACK(c) \in Packet
  BY ControlType
<1> QED BY <1>3, <1>4 DEF FirstPacket

\* A callback, with whatever the psid does within.
LEMMA CallbackType ==
  ASSUME NEW h \in Context, NEW kind
  PROVE  Callback(h, kind) \in Context
<1> DEFINE g == [h EXCEPT !.env.react = "none"]
<1>1. CASE h.env.react = kind /\ CanSend(h)
  <2>1. g \in Context /\ g.c = h.c
    BY NoReaction DEF Context
  <2>2. g.c.window # 0
    BY <1>1, <2>1 DEF CanSend
  <2> HIDE DEF g
  <2>3. Enqueue(g) \in Context /\ Enqueue(g).c.pendList # << >>
    BY <2>1, <2>2, EnqueueType
  <2>4. FirstPacket(Enqueue(g).c) \in Packet
    BY <2>3, ContextFields, FirstPacketType
  <2>5. PutFirst(Enqueue(g)) \in Context
    BY <2>3, <2>4, PutType DEF PutFirst
  <2> QED BY <1>1, <2>5 DEF Callback, g
<1>2. CASE ~(h.env.react = kind /\ CanSend(h))
  BY <1>2 DEF Callback
<1> QED BY <1>1, <1>2

-----------------------------------------------------------------------------
\* Marking every buffer deleted neither adds nor removes one, nor does it leave
\* a live one in front.
LEMMA AllDeleted ==
  ASSUME NEW s \in Seq(MsgBuf)
  PROVE  LET d == [i \in DOMAIN s |-> [s[i] EXCEPT !.deleted = TRUE]]
         IN  d \in Seq(MsgBuf) /\ Len(d) = Len(s) /\ InFront(d)
<1> DEFINE d == [i \in DOMAIN s |-> [s[i] EXCEPT !.deleted = TRUE]]
<1>1. DOMAIN s = 1..Len(s) /\ Len(s) \in Nat
  BY LenProperties
<1>2. \A i \in 1..Len(s) : [s[i] EXCEPT !.deleted = TRUE] \in MsgBuf
  <2> SUFFICES ASSUME NEW i \in 1..Len(s)
               PROVE  [s[i] EXCEPT !.deleted = TRUE] \in MsgBuf
    OBVIOUS
  <2>1. s[i] \in MsgBuf
    BY ElementOfSeq
  <2> QED BY <2>1 DEF MsgBuf
<1>3. d \in [1..Len(s) -> MsgBuf]
  BY <1>1, <1>2
<1>4. \A i \in DOMAIN d : d[i].deleted
  <2> SUFFICES ASSUME NEW i \in 1..Len(s) PROVE d[i].deleted
    BY <1>1
  <2>1. s[i] \in MsgBuf
    BY ElementOfSeq
  <2>2. d[i] = [s[i] EXCEPT !.deleted = TRUE]
    BY <1>1
  <2> QED BY <2>1, <2>2 DEF MsgBuf
<1>5. InFront(d)
  <2> HIDE DEF d
  <2> QED BY <1>4 DEF InFront
<1>6. d \in Seq(MsgBuf) /\ Len(d) = Len(s)
  BY <1>1, <1>3, IsASeq, LenProperties
<1> QED BY <1>5, <1>6

\* clearMsgQ().
LEMMA clearMsgQType ==
  ASSUME NEW h \in Context
  PROVE  clearMsgQ(h) \in Context
<1> DEFINE p == [i \in DOMAIN h.c.pendList |->
                   [h.c.pendList[i] EXCEPT !.deleted = TRUE]]
           o == h.owed \ {h.c.pendList[i].payload : i \in Live(h.c)}
           b == h.cleanup \/ Live(h.c) # {}
           c == h.c
           f == h.c.frameToSend
           d == [c EXCEPT !.pendList = p, !.ackExpected = f]
<1>1. c \in GoodConn /\ c \in Conn /\ c.pendList \in Seq(MsgBuf)
  BY ContextFields, ConnFields
<1>2. p \in Buffers /\ Len(p) = Len(c.pendList) /\ InFront(p)
  BY <1>1, AllDeleted DEF Buffers
<1>3. o \in Messages /\ b \in Bool /\ f \in Number
  BY <1>1, ContextFields, ConnFields DEF Messages, Bool, Number
<1>4. clearMsgQ(h) = [h EXCEPT !.owed = o, !.cleanup = b, !.c = d]
  BY DEF clearMsgQ
<1> HIDE DEF p, o, b, c, f
<1>5. d \in Conn /\ d.pendList = p /\ d.window = c.window
  BY <1>1, <1>2, <1>3 DEF Conn
<1>6. d \in GoodConn
  BY <1>1, <1>2, <1>5 DEF GoodConn, SlotsOK
<1> HIDE DEF d
<1> QED BY <1>3, <1>4, <1>6 DEF Context

\* closeConnection() before its callback.
LEMMA ResetType ==
  ASSUME NEW h \in Context
  PROVE  Reset(h) \in Context /\ Reset(h).c.state = "CLOSED"
<1> DEFINE q == clearMsgQ(h)
           c == q.c
           id == random(h)
           s == "CLOSED"
           no == FALSE
           d == [c EXCEPT !.state = s, !.ackPending = 0, !.msgPending = 0,
                          !.retrans = 0, !.tmout = no, !.ConnID_out = id]
<1>1. q \in Context /\ c \in GoodConn /\ c \in Conn
  BY clearMsgQType, ContextFields, ConnFields
<1>2. id \in ConnId /\ s \in State /\ 0 \in Count /\ no \in Bool
  BY RandomType DEF State, Count, Bool
<1>3. Reset(h) = [q EXCEPT !.c = d]
  BY DEF Reset
<1> HIDE DEF q, c, id, s, no
<1>4. d \in Conn /\ d.pendList = c.pendList /\ d.window = c.window
      /\ d.state = s
  BY <1>1, <1>2 DEF Conn
<1>5. d \in GoodConn
  BY <1>1, <1>4, SameSlots
<1> HIDE DEF d
<1>6. Reset(h).c = d
  BY <1>1, <1>3 DEF Context
<1> QED BY <1>1, <1>3, <1>4, <1>5, <1>6, NewConn DEF s

\* A context with a new report to the upper layer.
LEMMA NewTold ==
  ASSUME NEW h \in Context, NEW t \in Report
  PROVE  [h EXCEPT !.told = t] \in Context
BY DEF Context

\* RDPCallback(RDP_LOST_CONNECTION).
LEMMA LostCallbackType ==
  ASSUME NEW h \in Context
  PROVE  LostCallback(h) \in Context
<1> DEFINE q == [h EXCEPT !.told = "down"]
           no == FALSE
           d == [q.c EXCEPT !.known = no]
           g == [q EXCEPT !.c = d]
<1>1. q \in Context
  BY NewTold DEF Report
<1> HIDE DEF q
<1>2. d \in GoodConn
  <2>1. q.c \in GoodConn /\ q.c \in Conn /\ no \in Bool
    BY <1>1, ContextFields, ConnFields DEF Bool
  <2> HIDE DEF no
  <2>2. d \in Conn /\ d.window = q.c.window /\ d.pendList = q.c.pendList
    BY <2>1 DEF Conn
  <2> QED BY <2>1, <2>2, SameSlots
<1>3. [g EXCEPT !.env.react = "none"] \in Context
  <2> HIDE DEF d
  <2>1. g \in Context
    BY <1>1, <1>2, NewConn
  <2> QED BY <2>1, NoReaction
<1>4. Callback(q, "LOST") \in Context
  BY <1>1, CallbackType
<1>5. LostCallback(h) = IF h.env.react = "FORGET"
                        THEN [g EXCEPT !.env.react = "none"]
                        ELSE Callback(q, "LOST")
  BY DEF LostCallback, q
<1> QED BY <1>3, <1>4, <1>5

\* closeConnection().
LEMMA CloseType ==
  ASSUME NEW h \in Context
  PROVE  closeConnection(h) \in Context
BY ResetType, LostCallbackType DEF closeConnection

\* MYsendto() of a packet, whether it fails or not.
LEMMA MYsendtoType ==
  ASSUME NEW h \in Context, NEW p \in Packet
  PROVE  MYsendto(h, p) \in Context
<1> DEFINE k == IF h.env.fail = 0 THEN 0 ELSE h.env.fail - 1
           g == [h EXCEPT !.env.fail = k]
           q == [h EXCEPT !.env.fail = 0]
           r == closeConnection(q)
<1>1. g \in Context
  <2>1. k \in Nat
    BY ContextFields
  <2> QED BY <2>1, NewFail
<1>2. q \in Context
  BY NewFail
<1>3. r \in Context
  <2> HIDE DEF q
  <2> QED BY <1>2, CloseType
<1>4. Put(g, p) \in Context /\ SendAgain(r, p) \in Context
  <2> HIDE DEF g, r
  <2> QED BY <1>1, <1>3, PutType DEF SendAgain
<1>5. MYsendto(h, p) \in {Put(g, p), q, SendAgain(r, p)}
  BY DEF MYsendto
<1> QED BY <1>2, <1>4, <1>5

\* Changes of single fields that leave window and pendList alone.
LEMMA ClearAckPending ==
  ASSUME NEW h \in Context
  PROVE  [h EXCEPT !.c.ackPending = 0] \in Context
<1> DEFINE c == h.c
           d == [c EXCEPT !.ackPending = 0]
<1>1. c \in GoodConn /\ c \in Conn /\ 0 \in Count
  BY ContextFields, ConnFields DEF Count
<1> HIDE DEF c
<1>2. d \in Conn /\ d.window = c.window /\ d.pendList = c.pendList
  BY <1>1 DEF Conn
<1>3. d \in GoodConn
  BY <1>1, <1>2, SameSlots
<1> HIDE DEF d
<1>4. [h EXCEPT !.c = d] \in Context
  BY <1>3, NewConn
<1> QED BY <1>4 DEF c, d

\* The state.
LEMMA SetState ==
  ASSUME NEW h \in Context, NEW s \in State
  PROVE  [h EXCEPT !.c.state = s] \in Context
<1> DEFINE c == h.c
           d == [c EXCEPT !.state = s]
<1>1. c \in GoodConn /\ c \in Conn
  BY ContextFields, ConnFields
<1> HIDE DEF c
<1>2. d \in Conn /\ d.window = c.window /\ d.pendList = c.pendList
  BY <1>1 DEF Conn
<1>3. d \in GoodConn
  BY <1>1, <1>2, SameSlots
<1> HIDE DEF d
<1>4. [h EXCEPT !.c = d] \in Context
  BY <1>3, NewConn
<1> QED BY <1>4 DEF c, d

\* Whether the address of the peer is known.
LEMMA SetKnown ==
  ASSUME NEW h \in Context, NEW b \in BOOLEAN
  PROVE  [h EXCEPT !.c.known = b] \in Context
<1> DEFINE c == h.c
           d == [c EXCEPT !.known = b]
<1>1. c \in GoodConn /\ c \in Conn /\ b \in Bool
  BY ContextFields, ConnFields DEF Bool
<1> HIDE DEF c
<1>2. d \in Conn /\ d.window = c.window /\ d.pendList = c.pendList
  BY <1>1 DEF Conn
<1>3. d \in GoodConn
  BY <1>1, <1>2, SameSlots
<1> HIDE DEF d
<1>4. [h EXCEPT !.c = d] \in Context
  BY <1>3, NewConn
<1> QED BY <1>4 DEF c, d

\* The resend timer is set, with or without a new number of resends.
LEMMA SetTimer ==
  ASSUME NEW h \in Context, NEW k \in Nat
  PROVE  /\ [h EXCEPT !.c.tmout = TRUE] \in Context
         /\ [[h EXCEPT !.c.tmout = TRUE] EXCEPT !.c.retrans = k] \in Context
<1> DEFINE c == h.c
           yes == TRUE
           d == [c EXCEPT !.tmout = yes]
           e == [d EXCEPT !.retrans = k]
<1>1. c \in GoodConn /\ c \in Conn /\ yes \in Bool /\ k \in Count
  BY ContextFields, ConnFields DEF Bool, Count
<1> HIDE DEF c, yes
<1>2. d \in Conn /\ d.window = c.window /\ d.pendList = c.pendList
  BY <1>1 DEF Conn
<1>3. d \in GoodConn
  BY <1>1, <1>2, SameSlots
<1> HIDE DEF d
<1>4. e \in Conn /\ e.window = d.window /\ e.pendList = d.pendList
  BY <1>1, <1>2 DEF Conn
<1>5. e \in GoodConn
  BY <1>3, <1>4, SameSlots
<1> HIDE DEF e
<1>6. [h EXCEPT !.c = d] \in Context /\ [h EXCEPT !.c = e] \in Context
  BY <1>3, <1>5, NewConn
<1>7. [[h EXCEPT !.c = d] EXCEPT !.c.retrans = k] = [h EXCEPT !.c = e]
  BY DEF e, Context
<1> QED BY <1>6, <1>7 DEF c, d, yes

\* The senders of control packets.
LEMMA SendType ==
  ASSUME NEW h \in Context
  PROVE  /\ sendSYN(h) \in Context /\ sendNACK(h) \in Context
         /\ sendACK(h) \in Context /\ sendSYNACK(h) \in Context
<1>1. h.c \in GoodConn
  BY ContextFields
<1>2. /\ SYN(h.c) \in Packet /\ ACK(h.c) \in Packet
      /\ SYNACK(h.c) \in Packet /\ NACK(h.c) \in Packet
  BY <1>1, ControlType
<1>3. /\ MYsendto(h, SYN(h.c)) \in Context /\ MYsendto(h, ACK(h.c)) \in Context
      /\ MYsendto(h, SYNACK(h.c)) \in Context
      /\ MYsendto(h, NACK(h.c)) \in Context
  BY <1>2, MYsendtoType
<1> QED BY <1>3, ClearAckPending DEF sendSYN, sendNACK, sendACK, sendSYNACK

-----------------------------------------------------------------------------
\* A part of 1..n has between 0 and n elements.
LEMMA PartOfInterval ==
  ASSUME NEW n \in Nat, NEW T \in SUBSET (1..n)
  PROVE  Cardinality(T) \in 0..n
<1>1. IsFiniteSet(1..n) /\ Cardinality(1..n) = n
  BY FS_Interval
<1>2. IsFiniteSet(T) /\ Cardinality(T) <= Cardinality(1..n)
  BY <1>1, FS_Subset
<1>3. Cardinality(T) \in Nat
  BY <1>2, FS_CardinalityType
<1> QED BY <1>1, <1>2, <1>3

\* What is freed is not more than what is there.
LEMMA PrefixRange ==
  ASSUME NEW s \in Seq(MsgBuf), NEW a
  PROVE  DeletedPrefix(s) \in 0..Len(s) /\ FreedBy(s, a) \in 0..Len(s)
<1>1. Len(s) \in Nat
  BY LenProperties
<1>2. {i \in 1..Len(s) : \A j \in 1..i : s[j].deleted} \in SUBSET (1..Len(s))
  OBVIOUS
<1>3. {i \in 1..Len(s) : \A j \in 1..i : s[j].deleted \/ s[j].seqno <= a}
        \in SUBSET (1..Len(s))
  OBVIOUS
<1> QED BY <1>1, <1>2, <1>3, PartOfInterval DEF DeletedPrefix, FreedBy

\* The packets resendMsgs() sends.
LEMMA LivePacketsType ==
  ASSUME NEW c \in GoodConn
  PROVE  LivePackets(c) \in Seq(Packet)
<1> DEFINE k == DeletedPrefix(c.pendList)
           n == Len(c.pendList) - k
           ps == [i \in 1..n |-> DATA(c, c.pendList[k + i])]
<1>1. c.pendList \in Seq(MsgBuf) /\ k \in 0..Len(c.pendList)
      /\ Len(c.pendList) \in Nat
  BY ConnFields, PrefixRange, LenProperties
<1> HIDE DEF k
<1>2. n \in Nat
  BY <1>1
<1>3. \A i \in 1..n : DATA(c, c.pendList[k + i]) \in Packet
  <2> SUFFICES ASSUME NEW i \in 1..n
               PROVE  DATA(c, c.pendList[k + i]) \in Packet
    OBVIOUS
  <2>1. k + i \in 1..Len(c.pendList)
    BY <1>1
  <2>2. c.pendList[k + i] \in MsgBuf
    BY <1>1, <2>1, ElementOfSeq
  <2> QED BY <2>2, DataType
<1>4. ps \in Seq(Packet)
  <2> HIDE DEF n
  <2> QED BY <1>2, <1>3, IsASeq
<1> QED BY <1>4 DEF LivePackets, k

\* resendMsgs() behind a closeConnection().
LEMMA ResendRestType ==
  ASSUME NEW h \in Context, NEW p \in Packet
  PROVE  ResendRest(h, p) \in Context
<1> DEFINE more == <<p>>
           ps == LivePackets(h.c)
           g == [h EXCEPT !.out = @ \o more]
<1>1. more \in Seq(Packet) /\ ps \in Seq(Packet)
  BY ContextFields, LivePacketsType
<1> HIDE DEF more, ps
<1>2. g \in Context
  BY <1>1, NewOut
<1>3. [g EXCEPT !.out = @ \o ps] \in Context
  <2> HIDE DEF g
  <2> QED BY <1>1, <1>2, NewOut
<1>4. ResendRest(h, p) \in {h, [g EXCEPT !.out = @ \o ps]}
  BY DEF ResendRest, more, ps, Context
<1> QED BY <1>3, <1>4

\* resendMsgs() in state ACTIVE, the loop.
LEMMA SendAllType ==
  ASSUME NEW h \in Context, NEW ps \in Seq(Packet), NEW k \in Nat
  PROVE  SendAll(h, ps, k) \in Context
<1> DEFINE all == [h EXCEPT !.out = @ \o ps]
           left == IF k = 0 THEN 0 ELSE k - Len(ps)
           now == SubSeq(ps, 1, k - 1)
           part == [h EXCEPT !.out = @ \o now]
           sent == [part EXCEPT !.env.fail = 0]
<1>1. Len(ps) \in Nat
  BY LenProperties
<1>2. CASE k \notin 1..Len(ps)
  <2>1. left \in Nat
    BY <1>1, <1>2
  <2>2. all \in Context
    BY NewOut
  <2>3. SendAll(h, ps, k) = [all EXCEPT !.env.fail = left]
    <3> HIDE DEF left
    <3>1. SendAll(h, ps, k) = [h EXCEPT !.out = @ \o ps, !.env.fail = left]
      BY <1>2 DEF SendAll, left
    <3> QED BY <3>1 DEF Context
  <2> HIDE DEF all, left
  <2> QED BY <2>1, <2>2, <2>3, NewFail
<1>3. CASE k \in 1..Len(ps)
  <2>1. now \in Seq(Packet) /\ ps[k] \in Packet
    <3>1. \A i \in 1..(k - 1) : ps[i] \in Packet
      BY <1>1, <1>3, ElementOfSeq
    <3> QED BY <1>1, <1>3, <3>1, SubSeqProperties, ElementOfSeq
  <2>2. sent \in Context
    <3> HIDE DEF now
    <3>1. part \in Context
      BY <2>1, NewOut
    <3> HIDE DEF part
    <3> QED BY <3>1, NewFail
  <2>3. SendAll(h, ps, k) \in {sent, ResendRest(closeConnection(sent), ps[k])}
    BY <1>3 DEF SendAll, Context
  <2> HIDE DEF sent
  <2> QED BY <2>1, <2>2, <2>3, CloseType, ResendRestType
<1> QED BY <1>2, <1>3

\* resendMsgs() in state ACTIVE.
LEMMA ResendActiveType ==
  ASSUME NEW h \in Context
  PROVE  ResendActive(h) \in Context
<1> DEFINE ps == LivePackets(h.c)
           k == IF h.c.known THEN h.env.fail ELSE 1
           q == SendAll(h, ps, k)
<1>1. ps \in Seq(Packet) /\ k \in Nat
  BY ContextFields, LivePacketsType
<1>2. q \in Context
  <2> HIDE DEF ps, k
  <2> QED BY <1>1, SendAllType
<1>3. ResendActive(h) = [q EXCEPT !.c.ackPending = 0]
  BY DEF ResendActive
<1> HIDE DEF q
<1> QED BY <1>2, <1>3, ClearAckPending

\* resendMsgs().
LEMMA resendMsgsType ==
  ASSUME NEW h \in Context
  PROVE  resendMsgs(h) \in Context
<1> DEFINE q == [h EXCEPT !.c.tmout = TRUE]
           k == h.c.retrans + 1
           r == [q EXCEPT !.c.retrans = k]
<1>1. h.c.retrans \in Nat /\ h.c.state \in State
  BY ContextFields, ConnFields
<1>2. q \in Context /\ r \in Context
  <2>1. k \in Nat
    BY <1>1
  <2> HIDE DEF k
  <2> QED BY <2>1, SetTimer
<1>3. r = [q EXCEPT !.c.retrans = @ + 1]
  BY ContextFields DEF Context, GoodConn, Conn
<1>4. resendMsgs(h) \in {h, closeConnection(q), r, sendSYN(r), sendSYNACK(r),
                         ResendActive(r)}
  <2> HIDE DEF r
  <2>1. h.c.retrans > RDPMaxRetransCount \/ h.c.retrans <= RDPMaxRetransCount
    BY <1>1, RetransAssumption
  <2>2. h.c.state \in {"CLOSED", "SYN_SENT", "SYN_RECVD", "ACTIVE"}
    BY <1>1 DEF State
  <2> QED BY <1>3, <2>1, <2>2 DEF resendMsgs
<1> HIDE DEF q, r
<1> QED BY <1>2, <1>4, CloseType, SendType, ResendActiveType

\* The messages that waited for the connection count as sent.
LEMMA CountPendingType ==
  ASSUME NEW h \in Context
  PROVE  CountPending(h) \in Context
<1> DEFINE c == h.c
           f == c.frameToSend + c.msgPending
           d == [c EXCEPT !.frameToSend = f, !.msgPending = 0]
<1>1. c \in GoodConn /\ c \in Conn
  BY ContextFields, ConnFields
<1>2. f \in Number /\ 0 \in Count
  BY <1>1, ConnFields DEF Number, Count
<1>3. d \in GoodConn
  <2> HIDE DEF c, f
  <2>1. d \in Conn /\ d.window = c.window /\ d.pendList = c.pendList
    BY <1>1, <1>2 DEF Conn
  <2> QED BY <1>1, <2>1, SameSlots
<1>4. CountPending(h) = [h EXCEPT !.c = d]
  BY DEF CountPending
<1> HIDE DEF d
<1> QED BY <1>3, <1>4, NewConn

\* updateState(), the steps to ACTIVE.
LEMMA EstablishedType ==
  ASSUME NEW h \in Context
  PROVE  Established(h) \in Context
<1> DEFINE a == [h EXCEPT !.c.state = "ACTIVE"]
           q == IF a.c.msgPending # 0 THEN CountPending(resendMsgs(a))
                ELSE sendACK(a)
<1>1. a \in Context
  BY SetState DEF State
<1> HIDE DEF a
<1>2. q \in Context
  BY <1>1, resendMsgsType, CountPendingType, SendType
<1>3. Established(h) = Callback([q EXCEPT !.told = "up"], "NEW")
  BY DEF Established, a
<1> HIDE DEF q
<1> QED BY <1>2, <1>3, NewTold, CallbackType DEF Report

\* The peer's SYN or SYNACK.
LEMMA AdoptType ==
  ASSUME NEW h \in Context, NEW s \in State, NEW p \in Packet
  PROVE  Adopt(h, s, p) \in Context
<1> DEFINE c == h.c
           f == p.seqno
           id == p.connid
           d == [c EXCEPT !.state = s, !.frameExpected = f, !.ConnID_in = id]
<1>1. c \in GoodConn /\ c \in Conn
  BY ContextFields, ConnFields
<1>2. f \in Number /\ id \in KnownId
  BY DEF Packet, Number, KnownId
<1>3. d \in GoodConn
  <2> HIDE DEF c, f, id
  <2>1. d \in Conn /\ d.window = c.window /\ d.pendList = c.pendList
    BY <1>1, <1>2 DEF Conn
  <2> QED BY <1>1, <2>1, SameSlots
<1> HIDE DEF d
<1>4. [h EXCEPT !.c = d] \in Context
  BY <1>3, NewConn
<1> QED BY <1>4 DEF Adopt, d

\* updateState(), by the state it finds.
LEMMA updateStateType ==
  ASSUME NEW h \in Context, NEW p \in Packet
  PROVE  updateState(h, p) \in Context
<1>1. "SYN_SENT" \in State /\ "SYN_RECVD" \in State /\ "ACTIVE" \in State
  BY DEF State
<1>2. closeConnection(h) \in Context
  BY CloseType
<1>3. [h EXCEPT !.c.state = "SYN_SENT"] \in Context
  BY <1>1, SetState
<1>4. /\ Adopt(h, "SYN_RECVD", p) \in Context
      /\ Adopt(h, "ACTIVE", p) \in Context
      /\ Adopt(closeConnection(h), "SYN_RECVD", p) \in Context
      /\ Adopt(closeConnection(h), "SYN_SENT", p) \in Context
  BY <1>1, <1>2, AdoptType
<1>5. UpdateClosed(h, p) \in Context
  BY <1>3, <1>4, SendType DEF UpdateClosed
<1>6. UpdateSynSent(h, p) \in Context
  BY <1>4, SendType, EstablishedType DEF UpdateSynSent
<1>7. UpdateSynRecvd(h, p) \in Context
  BY <1>3, <1>4, SendType, EstablishedType DEF UpdateSynRecvd
<1>8. UpdateActive(h, p) \in Context
  BY <1>2, <1>4, SendType DEF UpdateActive
<1>9. h.c.state \in {"CLOSED", "SYN_SENT", "SYN_RECVD", "ACTIVE"}
  BY ContextFields, ConnFields DEF State
<1> QED BY <1>5, <1>6, <1>7, <1>8, <1>9 DEF updateState

-----------------------------------------------------------------------------
\* What is left behind the front of a queue has its deleted buffers in front.
LEMMA SubSeqInFront ==
  ASSUME NEW s \in Seq(MsgBuf), InFront(s), NEW k \in 0..Len(s)
  PROVE  LET p == SubSeq(s, k + 1, Len(s))
         IN  p \in Seq(MsgBuf) /\ Len(p) = Len(s) - k /\ InFront(p)
<1> DEFINE p == SubSeq(s, k + 1, Len(s))
<1>1. Len(s) \in Nat /\ DOMAIN s = 1..Len(s) /\ k \in 0..Len(s)
  BY LenProperties
<1>2. \A i \in (k + 1)..Len(s) : s[i] \in MsgBuf
  BY <1>1, ElementOfSeq
<1>3. /\ p \in Seq(MsgBuf) /\ Len(p) = Len(s) - k
      /\ \A i \in 1..Len(p) : p[i] = s[k + i]
  <2>1. /\ p \in Seq(MsgBuf) /\ Len(p) = Len(s) - k
        /\ \A i \in 1..(Len(s) - k) : p[i] = s[k + 1 + i - 1]
    BY <1>1, <1>2, SubSeqProperties
  <2> HIDE DEF p
  <2>2. \A i \in 1..(Len(s) - k) : k + 1 + i - 1 = k + i
    BY <1>1
  <2> QED BY <2>1, <2>2
<1>4. DOMAIN p = 1..Len(p)
  BY <1>3, LenProperties
<1> HIDE DEF p
<1>5. InFront(p)
  <2> SUFFICES ASSUME NEW i \in DOMAIN p, NEW j \in DOMAIN p,
                      i < j, p[j].deleted
               PROVE  p[i].deleted
    BY DEF InFront
  <2>1. /\ k + i \in DOMAIN s /\ k + j \in DOMAIN s /\ k + i < k + j
        /\ p[i] = s[k + i] /\ p[j] = s[k + j]
    BY <1>1, <1>3, <1>4
  <2> QED BY <2>1 DEF InFront
<1> QED BY <1>3, <1>5 DEF p

\* putMsg() of the first k buffers gives k slots back.
LEMMA DropType ==
  ASSUME NEW h \in Context, NEW k \in 0..Len(h.c.pendList)
  PROVE  Drop(h, k) \in Context
<1> DEFINE c == h.c
           p == SubSeq(c.pendList, k + 1, Len(c.pendList))
           w == c.window + k
           d == [c EXCEPT !.pendList = p, !.window = @ + k]
<1>1. /\ c \in GoodConn /\ c \in Conn /\ c.pendList \in Seq(MsgBuf)
      /\ Len(c.pendList) \in Nat /\ c.window \in Nat
      /\ c.window + Len(c.pendList) = MAX_WINDOW_SIZE
      /\ k \in 0..Len(c.pendList) /\ InFront(c.pendList)
  BY ContextFields, ConnFields, LenProperties
<1>0. Drop(h, k) = [h EXCEPT !.c = d]
  BY DEF Drop, Context
<1> HIDE DEF c
<1>2. p \in Seq(MsgBuf) /\ Len(p) = Len(c.pendList) - k /\ InFront(p)
  BY <1>1, SubSeqInFront
<1>3. w \in Nat /\ w + Len(p) = MAX_WINDOW_SIZE
  <2> HIDE DEF p
  <2> QED BY <1>1, <1>2
<1>4. d \in GoodConn
  <2>1. p \in Buffers /\ w \in Number
    BY <1>2, <1>3 DEF Buffers, Number
  <2> HIDE DEF p
  <2>2. d \in Conn /\ d.window = w /\ d.pendList = p
    BY <1>1, <2>1 DEF Conn
  <2> HIDE DEF d
  <2> QED BY <1>2, <1>3, <2>2 DEF w, GoodConn, SlotsOK
<1> HIDE DEF d
<1>5. [h EXCEPT !.c = d] \in Context
  BY <1>4, NewConn
<1> QED BY <1>0, <1>5

\* doACK(), the release of what is acknowledged.
LEMMA ReleaseType ==
  ASSUME NEW h \in Context, NEW a \in Int
  PROVE  ReleaseAcked(h, a) \in Context
<1> DEFINE k == FreedBy(h.c.pendList, a)
           acked == Cardinality({i \in Live(h.c) : i <= k})
           g == Drop(h, k)
           c == g.c
           e == c.ackExpected + acked
           n == IF acked > 0 THEN 0 ELSE c.retrans
           d == [c EXCEPT !.ackExpected = e, !.retrans = n]
           q == [g EXCEPT !.c = d]
<1>1. /\ h.c.pendList \in Seq(MsgBuf) /\ Len(h.c.pendList) \in Nat
      /\ DOMAIN h.c.pendList = 1..Len(h.c.pendList)
  BY ContextFields, ConnFields, LenProperties
<1>2. k \in 0..Len(h.c.pendList)
  BY <1>1, PrefixRange
<1>3. acked \in Nat
  <2>1. {i \in Live(h.c) : i <= k} \in SUBSET (1..Len(h.c.pendList))
    BY <1>1 DEF Live
  <2>2. acked \in 0..Len(h.c.pendList)
    BY <1>1, <2>1, PartOfInterval
  <2> QED BY <1>1, <2>2
<1> HIDE DEF k, acked
<1>4. g \in Context
  BY <1>2, DropType
<1> HIDE DEF g
<1>5. c \in GoodConn /\ c \in Conn
  BY <1>4, ContextFields, ConnFields
<1>6. e \in Number /\ n \in Count
  BY <1>3, <1>5, ConnFields DEF Number, Count
<1>7. d \in GoodConn
  <2> HIDE DEF c, e, n
  <2>1. d \in Conn /\ d.window = c.window /\ d.pendList = c.pendList
    BY <1>5, <1>6 DEF Conn
  <2> QED BY <1>5, <2>1, SameSlots
<1>8. q \in Context
  <2> HIDE DEF d
  <2> QED BY <1>4, <1>7, NewConn
<1>9. [g EXCEPT !.c.ackExpected = @ + acked,
                !.c.retrans = IF acked > 0 THEN 0 ELSE @] = q
  BY <1>4, <1>5 DEF Context, Conn
<1>10. ReleaseAcked(h, a) = IF h.c.window = 0 /\ k > 0
                            THEN Callback(q, "CONT") ELSE q
  <2> HIDE DEF q
  <2> QED BY <1>9 DEF ReleaseAcked, g, k, acked
<1> HIDE DEF q
<1> QED BY <1>8, <1>10, CallbackType

\* doACK().
LEMMA doACKType ==
  ASSUME NEW h \in Context, NEW p \in Packet
  PROVE  doACK(h, p) \in Context
<1>1. p.ackno \in Int
  BY DEF Packet
<1>2. /\ updateState(h, p) \in Context
      /\ ReleaseAcked(sendACK(h), p.ackno) \in Context
      /\ ReleaseAcked(sendNACK(h), p.ackno) \in Context
      /\ ReleaseAcked(h, p.ackno) \in Context
  BY <1>1, updateStateType, SendType, ReleaseType
<1>3. p.seqno \in Int /\ h.c.frameExpected \in Int
  BY ContextFields, ConnFields DEF Packet
<1>4. \/ p.seqno < h.c.frameExpected \/ p.seqno > h.c.frameExpected
      \/ p.seqno = h.c.frameExpected
  BY <1>3
<1>5. doACK(h, p) \in {updateState(h, p), ReleaseAcked(sendACK(h), p.ackno),
                       ReleaseAcked(sendNACK(h), p.ackno),
                       ReleaseAcked(h, p.ackno)}
  BY <1>4 DEF doACK
<1> QED BY <1>2, <1>5

\* What every packet is used for first.
LEMMA UpdateOrACKType ==
  ASSUME NEW h \in Context, NEW p \in Packet
  PROVE  UpdateOrACK(h, p) \in Context
BY updateStateType, doACKType DEF UpdateOrACK

\* Rrecvfrom().
LEMMA RrecvfromType ==
  ASSUME NEW h \in Context, NEW p \in Packet
  PROVE  Rrecvfrom(h, p) \in Context
<1> DEFINE c == h.c
           e == c.frameExpected + 1
           n == c.ackPending + 1
           d == [c EXCEPT !.frameExpected = e, !.ackPending = n]
           r == [h EXCEPT !.c = d]
<1>2. c \in GoodConn /\ c \in Conn
  BY ContextFields, ConnFields
<1>3. e \in Number /\ n \in Count
  BY <1>2, ConnFields DEF Number, Count
<1>4. d \in GoodConn
  <2> HIDE DEF c, e, n
  <2>1. d \in Conn /\ d.window = c.window /\ d.pendList = c.pendList
    BY <1>2, <1>3 DEF Conn
  <2> QED BY <1>2, <2>1, SameSlots
<1>5. r \in Context /\ sendACK(r) \in Context
  <2> HIDE DEF d
  <2>1. r \in Context
    BY <1>4, NewConn
  <2> HIDE DEF r
  <2> QED BY <2>1, SendType
<1>6. [h EXCEPT !.c.frameExpected = @ + 1, !.c.ackPending = @ + 1] = r
  BY <1>2 DEF Context, Conn
<1>7. Rrecvfrom(h, p) \in {h, sendACK(r), r}
  <2> HIDE DEF r
  <2> QED BY <1>6 DEF Rrecvfrom
<1> HIDE DEF r
<1> QED BY <1>5, <1>7

\* handleRDP() behind UpdateOrACK.
LEMMA HandleRestType ==
  ASSUME NEW h \in Context, NEW p \in Packet, NEW ready
  PROVE  HandleRest(h, p, ready) \in Context
BY RrecvfromType, resendMsgsType DEF HandleRest

\* handleTimeoutRDP(), first loop, for one peer.
LEMMA TimeoutResendType ==
  ASSUME NEW h \in Context
  PROVE  TimeoutResend(h) \in Context
<1>1. \A g \in Context : ResendTimedOut(g) \in Context
  BY resendMsgsType DEF ResendTimedOut
<1> QED BY <1>1 DEF TimeoutResend

\* handleTimeoutRDP(), second loop: the deleted buffers are freed.
LEMMA CleanupType ==
  ASSUME NEW h \in Context
  PROVE  Cleanup(h) \in Context
<1> DEFINE q == Drop(h, 1)
           r == IF h.c.window = 0 THEN Callback(q, "CONT") ELSE q
<1>1. CASE DeletedPrefix(h.c.pendList) = 0
  BY <1>1 DEF Cleanup
<1>2. CASE DeletedPrefix(h.c.pendList) # 0
  <2>1. 1 \in 0..Len(h.c.pendList)
    <3>1. h.c.pendList \in Seq(MsgBuf)
      BY ContextFields, ConnFields
    <3>2. /\ DeletedPrefix(h.c.pendList) \in 0..Len(h.c.pendList)
          /\ Len(h.c.pendList) \in Nat
      BY <3>1, PrefixRange, LenProperties
    <3> QED BY <1>2, <3>2
  <2>2. q \in Context
    BY <2>1, DropType
  <2> HIDE DEF q
  <2>3. r \in Context
    BY <2>2, CallbackType
  <2>4. Cleanup(h) = Drop(r, DeletedPrefix(r.c.pendList))
    BY <1>2 DEF Cleanup, CleanupRest, q
  <2> HIDE DEF r
  <2>5. r.c.pendList \in Seq(MsgBuf)
    BY <2>3, ContextFields, ConnFields
  <2>6. DeletedPrefix(r.c.pendList) \in 0..Len(r.c.pendList)
    BY <2>5, PrefixRange
  <2> QED BY <2>3, <2>4, <2>6, DropType
<1> QED BY <1>1, <1>2

\* RDP_updateNode() for a context.
LEMMA ReaddressType ==
  ASSUME NEW h \in Context, NEW b \in BOOLEAN
  PROVE  Readdress(h, b) \in Context
<1> DEFINE q == IF h.c.state = "CLOSED" THEN h ELSE Reset(h)
<1>1. q \in Context
  BY ResetType
<1> HIDE DEF q
<1> QED BY <1>1, SetKnown DEF Readdress, q

-----------------------------------------------------------------------------
(* The variables are tables indexed by a psid and one of its peers.        *)
IsTable(f, S) ==
  /\ f = [n \in Node |-> f[n]]
  /\ \A n \in Node : f[n] \in [Peer(n) -> S]

\* The inductive invariant: every table holds values of its type, and every
\* connection accounts for its slots.
IInv ==
  /\ IsTable(conn, GoodConn)
  /\ IsTable(net, Packets)
  /\ IsTable(accepted, Count)
  /\ IsTable(owed, Messages)
  /\ IsTable(refused, Messages)
  /\ IsTable(told, Report)
  /\ IsTable(delivered, Seq(Nat))
  /\ cleanupReq \in [Node -> BOOLEAN]
  /\ faults \in Nat

\* A table with another entry is a table.
LEMMA TableEntry ==
  ASSUME NEW f, NEW S, IsTable(f, S), NEW n \in Node, NEW m \in Peer(n),
         NEW x \in S
  PROVE  IsTable([f EXCEPT ![n][m] = x], S)
BY DEF IsTable

\* A table with another row is a table.
LEMMA TableRow ==
  ASSUME NEW f, NEW S, IsTable(f, S), NEW n \in Node,
         NEW r \in [Peer(n) -> S]
  PROVE  IsTable([f EXCEPT ![n] = r], S)
BY DEF IsTable

\* A table with the same entry everywhere.
LEMMA TableConst ==
  ASSUME NEW S, NEW x \in S
  PROVE  IsTable([n \in Node |-> [m \in Peer(n) |-> x]], S)
BY DEF IsTable

\* The entries of a table.
LEMMA TableEntryType ==
  ASSUME NEW f, NEW S, IsTable(f, S), NEW n \in Node, NEW m \in Peer(n)
  PROVE  f[n][m] \in S
BY DEF IsTable

\* The peer of a peer.
LEMMA PeerOfPeer ==
  ASSUME NEW n \in Node, NEW m \in Peer(n)
  PROVE  m \in Node /\ n \in Peer(m)
BY DEF Peer

\* A handler starts in a context in order.
LEMMA CtxType ==
  ASSUME IInv, NEW n \in Node, NEW m \in Peer(n), NEW env \in Environ
  PROVE  Ctx(n, m, env) \in Context
<1> DEFINE ids == {net[n][m][i].connid : i \in DOMAIN net[n][m]}
           u == ids \cup {conn[m][n].ConnID_in}
<1>1. /\ conn[n][m] \in GoodConn /\ conn[m][n] \in GoodConn
      /\ net[n][m] \in Seq(Packet) /\ accepted[n][m] \in Count
      /\ owed[n][m] \in Messages /\ told[n][m] \in Report
  BY PeerOfPeer, TableEntryType DEF IInv, Packets
<1>2. u \in Ids
  <2>1. \A i \in DOMAIN net[n][m] : net[n][m][i].connid \in KnownId
    <3> DEFINE s == net[n][m]
    <3> SUFFICES ASSUME NEW i \in DOMAIN s
                 PROVE  s[i].connid \in KnownId
      OBVIOUS
    <3>1. s \in Seq(Packet)
      BY <1>1
    <3> HIDE DEF s
    <3>2. s[i] \in Packet
      BY <3>1, LenProperties, ElementOfSeq
    <3> QED BY <3>2 DEF Packet, KnownId
  <2>2. conn[m][n].ConnID_in \in KnownId
    BY <1>1, ConnFields
  <2> QED BY <2>1, <2>2 DEF Ids
<1>3. env \in Env /\ << >> \in Packets /\ FALSE \in Bool /\ MaxMsg[n] \in Count
  BY EnvironAssumption, BoundAssumption DEF Env, Count, Bool, Packets
<1> DEFINE c == conn[n][m]
           a == accepted[n][m]
           o == owed[n][m]
           t == told[n][m]
           b == MaxMsg[n]
           e == << >>
           no == FALSE
<1>4. Ctx(n, m, env) =
        [c |-> c, out |-> e, cleanup |-> no, acc |-> a, owed |-> o,
         told |-> t, max |-> b, used |-> u, env |-> env]
  BY DEF Ctx
<1>5. /\ c \in GoodConn /\ a \in Count /\ o \in Messages /\ t \in Report
      /\ b \in Count /\ e \in Packets /\ no \in Bool /\ u \in Ids
      /\ env \in Env
  BY <1>1, <1>2, <1>3
<1> HIDE DEF u, c, a, o, t, b, e, no
<1> QED BY <1>4, <1>5 DEF Context

\* The entry of a peer in a freshly started psid.
LEMMA InitConnType ==
  ASSUME NEW fts \in FirstToSend, NEW fe \in FirstExpected, NEW id \in ConnId
  PROVE  InitConn(fts, fe, id) \in GoodConn
<1> DEFINE c == InitConn(fts, fe, id)
<1>1. MAX_WINDOW_SIZE \in Nat
  BY WindowAssumption
<1>2. /\ fts \in Number /\ fe \in Number /\ MAX_WINDOW_SIZE \in Number
      /\ 0 \in Count /\ << >> \in Buffers /\ TRUE \in Bool /\ FALSE \in Bool
      /\ NoConn \in KnownId /\ "CLOSED" \in State
  BY <1>1, FirstAssumption
     DEF Number, Count, Buffers, Bool, KnownId, State
<1>3. c \in Conn
  BY <1>2 DEF InitConn, Conn
<1>4. c.window = MAX_WINDOW_SIZE /\ c.pendList = << >>
  BY DEF InitConn
<1> HIDE DEF c
<1>5. c \in GoodConn
  <2>1. InFront(c.pendList)
    BY <1>4 DEF InFront
  <2> QED BY <1>1, <1>3, <1>4, <2>1 DEF GoodConn, SlotsOK
<1> QED BY <1>5 DEF c

\* The network cuts a sequence of packets, if anything.
LEMMA CarryType ==
  ASSUME NEW s \in Packets
  PROVE  Carry(s) \in Packets
<1> DEFINE k == IF Len(s) > NetCap THEN NetCap ELSE Len(s)
<1>1. s \in Seq(Packet) /\ Len(s) \in Nat /\ NetCap \in Nat
  BY LenProperties, BoundAssumption DEF Packets
<1>2. k \in 0..Len(s)
  BY <1>1
<1> HIDE DEF k
<1>3. \A i \in 1..k : s[i] \in Packet
  BY <1>1, <1>2, ElementOfSeq
<1>4. SubSeq(s, 1, k) \in Seq(Packet)
  BY <1>1, <1>2, <1>3, SubSeqProperties
<1> QED BY <1>4 DEF Carry, k, Packets

\* What a handler leaves behind.
LEMMA FinishType ==
  ASSUME IInv, NEW n \in Node, NEW m \in Peer(n), NEW h \in Context,
         NEW channels, IsTable(channels, Packets), Finish(n, m, h, channels)
  PROVE  /\ IsTable(conn', GoodConn) /\ IsTable(net', Packets)
         /\ IsTable(accepted', Count) /\ IsTable(owed', Messages)
         /\ IsTable(told', Report) /\ cleanupReq' \in [Node -> BOOLEAN]
<1>1. /\ h.c \in GoodConn /\ h.acc \in Count /\ h.owed \in Messages
      /\ h.told \in Report /\ h.out \in Seq(Packet) /\ h.cleanup \in BOOLEAN
  BY ContextFields DEF Count, Messages
<1>2. /\ IsTable(conn', GoodConn) /\ IsTable(accepted', Count)
      /\ IsTable(owed', Messages) /\ IsTable(told', Report)
  BY <1>1, TableEntry DEF IInv, Finish
<1>3. IsTable(net', Packets)
  <2>1. channels[n][m] \in Seq(Packet)
    BY TableEntryType DEF Packets
  <2>2. channels[n][m] \o h.out \in Packets
    BY <1>1, <2>1, ConcatProperties DEF Packets
  <2>3. Carry(channels[n][m] \o h.out) \in Packets
    BY <2>2, CarryType
  <2> QED BY <2>3, TableEntry DEF Finish
<1>4. cleanupReq' \in [Node -> BOOLEAN]
  <2>1. (cleanupReq[n] \/ h.cleanup) \in BOOLEAN
    OBVIOUS
  <2> QED BY <2>1 DEF IInv, Finish
<1> QED BY <1>2, <1>3, <1>4

\* The network after its oldest packet from m to n has been taken off, and
\* that packet.
LEMMA ConsumeType ==
  ASSUME IInv, NEW n \in Node, NEW m \in Peer(n), net[m][n] # << >>
  PROVE  /\ Head(net[m][n]) \in Packet
         /\ IsTable([net EXCEPT ![m][n] = Tail(@)], Packets)
<1>1. m \in Node /\ n \in Peer(m)
  BY PeerOfPeer
<1>2. net[m][n] \in Seq(Packet)
  BY <1>1, TableEntryType DEF IInv, Packets
<1>3. Head(net[m][n]) \in Packet /\ Tail(net[m][n]) \in Packets
  BY <1>2, HeadTailProperties DEF Packets
<1> QED BY <1>1, <1>3, TableEntry DEF IInv

-----------------------------------------------------------------------------
\* The invariant holds initially.
LEMMA InitInvariant == Init => IInv
<1> SUFFICES ASSUME Init PROVE IInv
  OBVIOUS
<1>1. PICK fts \in FirstToSend, fe \in FirstExpected, id \in ConnId :
        conn = [n \in Node |-> [m \in Peer(n) |-> InitConn(fts, fe, id)]]
  BY DEF Init
<1>2. InitConn(fts, fe, id) \in GoodConn
  BY InitConnType
<1>3. IsTable(conn, GoodConn)
  BY <1>1, <1>2, TableConst
<1>4. /\ << >> \in Packets /\ << >> \in Seq(Nat) /\ 0 \in Count
      /\ {} \in Messages /\ "down" \in Report
  BY DEF Packets, Count, Messages, Report
<1>5. /\ IsTable(net, Packets) /\ IsTable(accepted, Count)
      /\ IsTable(owed, Messages) /\ IsTable(refused, Messages)
      /\ IsTable(told, Report) /\ IsTable(delivered, Seq(Nat))
  BY <1>4, TableConst DEF Init
<1>6. cleanupReq \in [Node -> BOOLEAN] /\ faults \in Nat
  BY DEF Init
<1> QED BY <1>3, <1>5, <1>6 DEF IInv

\* Rsendto() keeps the invariant.
LEMMA RsendtoInvariant ==
  ASSUME IInv, NEW n \in Node, NEW m \in Peer(n), Rsendto(n, m)
  PROVE  IInv'
<1>1. PICK env \in Environ :
        LET h == Ctx(n, m, env)
            q == Enqueue(h)
        IN  /\ CanSend(h)
            /\ Finish(n, m, SendNew(q), net)
            /\ \/ refused' = refused
               \/ refused' = [refused EXCEPT ![n][m] = @ \cup {q.acc}]
            /\ UNCHANGED <<faults, delivered>>
  BY DEF Rsendto
<1> DEFINE h == Ctx(n, m, env)
           q == Enqueue(h)
           r == SendNew(q)
<1>2. h \in Context /\ h.c.window # 0
  BY <1>1, CtxType DEF CanSend
<1>3. q \in Context /\ q.c.pendList # << >>
  <2> HIDE DEF h
  <2> QED BY <1>2, EnqueueType
<1>4. r \in Context
  <2> HIDE DEF q
  <2>1. FirstPacket(q.c) \in Packet
    BY <1>3, ContextFields, FirstPacketType
  <2>2. sendSYNACK(q) \in Context /\ MYsendto(q, FirstPacket(q.c)) \in Context
    BY <1>3, <2>1, SendType, MYsendtoType
  <2> QED BY <2>2 DEF SendNew
<1>5. Finish(n, m, r, net)
  BY <1>1
<1>6. IsTable(refused', Messages)
  <2>1. \/ refused' = refused
        \/ refused' = [refused EXCEPT ![n][m] = @ \cup {q.acc}]
    BY <1>1
  <2> HIDE DEF q
  <2>2. refused[n][m] \in Messages /\ q.acc \in Nat
    BY <1>3, ContextFields, TableEntryType DEF IInv
  <2> DEFINE S == refused[n][m] \cup {q.acc}
  <2>3. S \in Messages
    BY <2>2 DEF Messages
  <2>4. refused' = refused \/ refused' = [refused EXCEPT ![n][m] = S]
    BY <2>1
  <2> HIDE DEF S
  <2> QED BY <2>3, <2>4, TableEntry DEF IInv
<1>7. UNCHANGED <<faults, delivered>>
  BY <1>1
<1> HIDE DEF r
<1>8. /\ IsTable(conn', GoodConn) /\ IsTable(net', Packets)
      /\ IsTable(accepted', Count) /\ IsTable(owed', Messages)
      /\ IsTable(told', Report) /\ cleanupReq' \in [Node -> BOOLEAN]
  BY <1>4, <1>5, FinishType DEF IInv
<1> QED BY <1>6, <1>7, <1>8 DEF IInv

\* Receive() keeps the invariant.
LEMMA ReceiveInvariant ==
  ASSUME IInv, NEW n \in Node, NEW m \in Peer(n), Receive(n, m)
  PROVE  IInv'
<1> DEFINE p == Head(net[m][n])
           rest == [net EXCEPT ![m][n] = Tail(@)]
<1>1. p \in Packet /\ IsTable(rest, Packets)
  BY ConsumeType DEF Receive
<1>2. UNCHANGED <<faults, refused>>
  BY DEF Receive
<1>3. CASE conn[n][m].closed
  <2>1. /\ net' = rest
        /\ UNCHANGED <<conn, cleanupReq, accepted, owed, told, delivered>>
    BY <1>3 DEF Receive
  <2> HIDE DEF rest
  <2> QED BY <1>1, <1>2, <2>1 DEF IInv
<1>4. CASE ~conn[n][m].closed
  <2>1. PICK env \in Environ :
          /\ Finish(n, m, HandleRest(UpdateOrACK(Ctx(n, m, env), p), p,
                                     Dispatched(Ctx(n, m, env), p)), rest)
          /\ \/ delivered' = [delivered EXCEPT ![m][n] = Append(@, p.payload)]
             \/ delivered' = delivered
    BY <1>4 DEF Receive
  <2> HIDE DEF p, rest
  <2>2. HandleRest(UpdateOrACK(Ctx(n, m, env), p), p,
                   Dispatched(Ctx(n, m, env), p)) \in Context
    BY <1>1, CtxType, UpdateOrACKType, HandleRestType
  <2>3. /\ IsTable(conn', GoodConn) /\ IsTable(net', Packets)
        /\ IsTable(accepted', Count) /\ IsTable(owed', Messages)
        /\ IsTable(told', Report) /\ cleanupReq' \in [Node -> BOOLEAN]
    BY <1>1, <2>1, <2>2, FinishType
  <2>4. IsTable(delivered', Seq(Nat))
    <3>1. m \in Node /\ n \in Peer(m) /\ p.payload \in Nat
      BY <1>1, PeerOfPeer DEF Packet
    <3>2. delivered[m][n] \in Seq(Nat)
      BY <3>1, TableEntryType DEF IInv
    <3>3. Append(delivered[m][n], p.payload) \in Seq(Nat)
      BY <3>1, <3>2
    <3>4. IsTable(delivered, Seq(Nat))
      BY DEF IInv
    <3>5. IsTable([delivered EXCEPT ![m][n] = Append(@, p.payload)], Seq(Nat))
      BY <3>1, <3>3, <3>4, TableEntry
    <3> QED BY <2>1, <3>4, <3>5
  <2> QED BY <1>2, <2>3, <2>4 DEF IInv
<1> QED BY <1>3, <1>4

\* ReceiveUnknown() keeps the invariant.
LEMMA ReceiveUnknownInvariant ==
  ASSUME IInv, NEW n \in Node, NEW m \in Peer(n), ReceiveUnknown(n, m)
  PROVE  IInv'
<1> DEFINE p == Head(net[m][n])
           rest == [net EXCEPT ![m][n] = Tail(@)]
<1>1. p \in Packet /\ IsTable(rest, Packets)
  BY ConsumeType DEF ReceiveUnknown
<1>2. UNCHANGED <<faults, refused, delivered>>
  BY DEF ReceiveUnknown
<1>3. CASE net' = rest /\ UNCHANGED <<conn, cleanupReq, accepted, owed, told>>
  <2> HIDE DEF rest
  <2> QED BY <1>1, <1>2, <1>3 DEF IInv
<1>4. ASSUME NEW env \in Environ,
             LET h == Readdress(Ctx(n, m, env), TRUE)
             IN  Finish(n, m, IF h.c.closed THEN h ELSE updateState(h, p), rest)
      PROVE  IInv'
  <2> DEFINE h == Readdress(Ctx(n, m, env), TRUE)
             g == IF h.c.closed THEN h ELSE updateState(h, p)
  <2>1. Finish(n, m, g, rest)
    BY <1>4
  <2>2. h \in Context
    BY CtxType, ReaddressType
  <2> HIDE DEF p, rest
  <2>3. g \in Context
    <3> HIDE DEF h
    <3> QED BY <1>1, <2>2, updateStateType
  <2> HIDE DEF g
  <2> QED BY <1>1, <1>2, <2>1, <2>3, FinishType DEF IInv
<1> QED BY <1>3, <1>4 DEF ReceiveUnknown

\* Timeout() keeps the invariant.
LEMMA TimeoutInvariant ==
  ASSUME IInv, NEW n \in Node, Timeout(n)
  PROVE  IInv'
<1>1. PICK env \in [Peer(n) -> Environ] :
        LET sent == [m \in Peer(n) |-> TimeoutResend(Ctx(n, m, env[m]))]
        IN  /\ FinishAll(n, IF cleanupReq[n] \/ \E m \in Peer(n) : sent[m].cleanup
                            THEN [m \in Peer(n) |-> Cleanup(sent[m])]
                            ELSE sent)
            /\ cleanupReq' = [cleanupReq EXCEPT ![n] = FALSE]
            /\ UNCHANGED <<faults, refused, delivered>>
  BY DEF Timeout
<1> DEFINE sent == [m \in Peer(n) |-> TimeoutResend(Ctx(n, m, env[m]))]
           swept == [m \in Peer(n) |-> Cleanup(sent[m])]
           done == IF cleanupReq[n] \/ \E m \in Peer(n) : sent[m].cleanup
                   THEN swept ELSE sent
<1>2. sent \in [Peer(n) -> Context]
  <2>1. \A m \in Peer(n) : TimeoutResend(Ctx(n, m, env[m])) \in Context
    BY CtxType, TimeoutResendType
  <2> QED BY <2>1
<1>3. done \in [Peer(n) -> Context]
  <2> HIDE DEF sent
  <2>1. \A m \in Peer(n) : Cleanup(sent[m]) \in Context
    BY <1>2, CleanupType
  <2>2. swept \in [Peer(n) -> Context]
    BY <2>1
  <2> HIDE DEF swept
  <2> QED BY <1>2, <2>2
<1>4. /\ FinishAll(n, done)
      /\ cleanupReq' = [cleanupReq EXCEPT ![n] = FALSE]
      /\ UNCHANGED <<faults, refused, delivered>>
  BY <1>1
<1> HIDE DEF done
<1>5. \A m \in Peer(n) :
        /\ done[m].c \in GoodConn /\ done[m].acc \in Count
        /\ done[m].owed \in Messages /\ done[m].told \in Report
        /\ done[m].out \in Seq(Packet)
  BY <1>3, ContextFields DEF Count, Messages
<1>6. /\ [m \in Peer(n) |-> done[m].c] \in [Peer(n) -> GoodConn]
      /\ [m \in Peer(n) |-> done[m].acc] \in [Peer(n) -> Count]
      /\ [m \in Peer(n) |-> done[m].owed] \in [Peer(n) -> Messages]
      /\ [m \in Peer(n) |-> done[m].told] \in [Peer(n) -> Report]
  BY <1>5
<1>7. [m \in Peer(n) |-> Carry(net[n][m] \o done[m].out)] \in [Peer(n) -> Packets]
  <2> SUFFICES ASSUME NEW m \in Peer(n)
               PROVE  Carry(net[n][m] \o done[m].out) \in Packets
    OBVIOUS
  <2>1. net[n][m] \in Seq(Packet) /\ done[m].out \in Seq(Packet)
    BY <1>5, TableEntryType DEF IInv, Packets
  <2>2. net[n][m] \o done[m].out \in Packets
    BY <2>1, ConcatProperties DEF Packets
  <2> QED BY <2>2, CarryType
<1>8. /\ IsTable(conn', GoodConn) /\ IsTable(net', Packets)
      /\ IsTable(accepted', Count) /\ IsTable(owed', Messages)
      /\ IsTable(told', Report)
  BY <1>4, <1>6, <1>7, TableRow DEF IInv, FinishAll
<1>9. cleanupReq' \in [Node -> BOOLEAN]
  BY <1>4 DEF IInv
<1> QED BY <1>4, <1>8, <1>9 DEF IInv

\* The timers of a connection keep the invariant.
LEMMA ElapseInvariant ==
  ASSUME IInv, NEW n \in Node, NEW m \in Peer(n),
         ElapseResend(n, m) \/ ElapseClosed(n, m)
  PROVE  IInv'
<1> DEFINE c == conn[n][m]
           no == FALSE
           d == [c EXCEPT !.tmout = no]
           e == [c EXCEPT !.closed = no]
<1>1. c \in GoodConn /\ c \in Conn /\ no \in Bool
  BY TableEntryType, ConnFields DEF IInv, Bool
<1>2. /\ conn' \in {[conn EXCEPT ![n][m] = d], [conn EXCEPT ![n][m] = e]}
      /\ UNCHANGED <<cleanupReq, net, faults, accepted, owed, refused, told,
                     delivered>>
  BY DEF ElapseResend, ElapseClosed
<1> HIDE DEF c, no
<1>3. d \in GoodConn /\ e \in GoodConn
  <2>1. d \in Conn /\ d.window = c.window /\ d.pendList = c.pendList
    BY <1>1 DEF Conn
  <2>2. e \in Conn /\ e.window = c.window /\ e.pendList = c.pendList
    BY <1>1 DEF Conn
  <2> QED BY <1>1, <2>1, <2>2, SameSlots
<1> HIDE DEF d, e
<1>4. IsTable(conn', GoodConn)
  BY <1>2, <1>3, TableEntry DEF IInv
<1> QED BY <1>2, <1>4 DEF IInv

\* SocketError() keeps the invariant.
LEMMA SocketErrorInvariant ==
  ASSUME IInv, NEW n \in Node, NEW m \in Peer(n), SocketError(n, m)
  PROVE  IInv'
<1>1. PICK env \in Environ :
        Finish(n, m, closeConnection(Ctx(n, m, env)), net)
  BY DEF SocketError
<1>2. closeConnection(Ctx(n, m, env)) \in Context
  BY CtxType, CloseType
<1>3. faults' \in Nat /\ UNCHANGED <<refused, delivered>>
  BY DEF SocketError, FaultHappens, IInv
<1> QED BY <1>1, <1>2, <1>3, FinishType DEF IInv

\* closeConnRDP() keeps the invariant.
LEMMA closeConnRDPInvariant ==
  ASSUME IInv, NEW n \in Node, NEW m \in Peer(n), closeConnRDP(n, m)
  PROVE  IInv'
<1>1. PICK env \in Environ :
        Finish(n, m, [Reset(Ctx(n, m, env)) EXCEPT !.c.closed = TRUE,
                                                   !.told = "down"], net)
  BY DEF closeConnRDP
<1> DEFINE q == Reset(Ctx(n, m, env))
           c == q.c
           yes == TRUE
           d == [c EXCEPT !.closed = yes]
           g == [q EXCEPT !.c = d]
           h == [g EXCEPT !.told = "down"]
<1>2. Finish(n, m, h, net)
  BY <1>1
<1>3. q \in Context
  BY CtxType, ResetType
<1> HIDE DEF q
<1>4. d \in GoodConn
  <2>1. c \in GoodConn /\ c \in Conn /\ yes \in Bool
    BY <1>3, ContextFields, ConnFields DEF Bool
  <2> HIDE DEF c, yes
  <2>2. d \in Conn /\ d.window = c.window /\ d.pendList = c.pendList
    BY <2>1 DEF Conn
  <2> QED BY <2>1, <2>2, SameSlots
<1>5. h \in Context
  <2> HIDE DEF d
  <2>1. g \in Context
    BY <1>3, <1>4, NewConn
  <2> HIDE DEF g
  <2> QED BY <2>1, NewTold DEF Report
<1>6. faults' \in Nat /\ UNCHANGED <<refused, delivered>>
  BY DEF closeConnRDP, FaultHappens, IInv
<1> HIDE DEF h
<1> QED BY <1>2, <1>5, <1>6, FinishType DEF IInv

\* RDP_updateNode() keeps the invariant.
LEMMA updateNodeInvariant ==
  ASSUME IInv, NEW n \in Node, NEW m \in Peer(n), RDP_updateNode(n, m)
  PROVE  IInv'
<1>1. PICK env \in Environ :
        Finish(n, m,
               [Readdress(Ctx(n, m, env), ~conn[n][m].known)
                  EXCEPT !.told = "down"], net)
  BY DEF RDP_updateNode
<1> DEFINE b == ~conn[n][m].known
           g == Readdress(Ctx(n, m, env), b)
           r == [g EXCEPT !.told = "down"]
<1>2. Finish(n, m, r, net)
  BY <1>1
<1>3. g \in Context
  <2>1. b \in BOOLEAN
    OBVIOUS
  <2> HIDE DEF b
  <2> QED BY <2>1, CtxType, ReaddressType
<1>4. r \in Context
  <2> HIDE DEF g
  <2> QED BY <1>3, NewTold DEF Report
<1>5. faults' \in Nat /\ UNCHANGED <<refused, delivered>>
  BY DEF RDP_updateNode, FaultHappens, IInv
<1> HIDE DEF r
<1> QED BY <1>2, <1>4, <1>5, FinishType DEF IInv

\* Lose() keeps the invariant.
LEMMA LoseInvariant ==
  ASSUME IInv, NEW n \in Node, NEW m \in Peer(n), Lose(n, m)
  PROVE  IInv'
<1>1. /\ net[n][m] # << >>
      /\ net' = [net EXCEPT ![n][m] = Tail(@)]
      /\ UNCHANGED <<conn, cleanupReq, faults, accepted, owed, refused, told,
                     delivered>>
  BY DEF Lose
<1>2. net[n][m] \in Seq(Packet)
  BY TableEntryType DEF IInv, Packets
<1>3. Tail(net[n][m]) \in Packets
  BY <1>1, <1>2, HeadTailProperties DEF Packets
<1>4. IsTable(net', Packets)
  BY <1>1, <1>3, TableEntry DEF IInv
<1> QED BY <1>1, <1>4 DEF IInv

\* Reorder() keeps the invariant.
LEMMA ReorderInvariant ==
  ASSUME IInv, NEW n \in Node, NEW m \in Peer(n), Reorder(n, m)
  PROVE  IInv'
<1> DEFINE s == net[n][m]
<1>1. PICK i \in 2 .. Len(s) :
        net' = [net EXCEPT ![n][m] = [@ EXCEPT ![i - 1] = s[i], ![i] = s[i - 1]]]
  BY DEF Reorder
<1>2. /\ UNCHANGED <<conn, cleanupReq, accepted, owed, refused, told, delivered>>
      /\ faults' \in Nat
  BY DEF Reorder, FaultHappens, IInv
<1>3. s \in Seq(Packet)
  BY TableEntryType DEF IInv, Packets
<1> DEFINE r == [s EXCEPT ![i - 1] = s[i], ![i] = s[i - 1]]
<1>4. r \in Packets
  <2>1. /\ Len(s) \in Nat /\ DOMAIN s = 1 .. Len(s)
        /\ i \in 1 .. Len(s) /\ i - 1 \in 1 .. Len(s)
    BY <1>3, LenProperties
  <2>2. \A k \in 1 .. Len(s) : s[k] \in Packet
    BY <1>3, ElementOfSeq
  <2>3. r \in [1 .. Len(s) -> Packet]
    BY <1>3, <2>1, <2>2
  <2> HIDE DEF r
  <2>4. Len(s) \in Nat
    BY <2>1
  <2> QED BY <2>3, <2>4, SeqDef DEF Packets
<1>5. net' = [net EXCEPT ![n][m] = r]
  BY <1>1
<1>6. IsTable(net', Packets)
  <2> HIDE DEF r
  <2> QED BY <1>4, <1>5, TableEntry DEF IInv
<1> QED BY <1>2, <1>6 DEF IInv

\* Restart() keeps the invariant.
LEMMA RestartInvariant ==
  ASSUME IInv, NEW n \in Node, Restart(n)
  PROVE  IInv'
<1>1. PICK fts \in FirstToSend, fe \in FirstExpected, env \in Environ :
        conn' = [conn EXCEPT ![n] =
                   [m \in Peer(n) |-> InitConn(fts, fe, random(Ctx(n, m, env)))]]
  BY DEF Restart
<1>2. \A m \in Peer(n) : InitConn(fts, fe, random(Ctx(n, m, env))) \in GoodConn
  BY RandomType, InitConnType
<1>3. IsTable(conn', GoodConn)
  <2>1. [m \in Peer(n) |-> InitConn(fts, fe, random(Ctx(n, m, env)))]
          \in [Peer(n) -> GoodConn]
    BY <1>2
  <2> QED BY <1>1, <2>1, TableRow DEF IInv
<1>4. IsTable(owed', Messages) /\ IsTable(told', Report)
  <2>1. /\ [m \in Peer(n) |-> {}] \in [Peer(n) -> Messages]
        /\ [m \in Peer(n) |-> "down"] \in [Peer(n) -> Report]
    BY DEF Messages, Report
  <2> QED BY <2>1, TableRow DEF Restart, IInv
<1>5. cleanupReq' \in [Node -> BOOLEAN] /\ faults' \in Nat
  BY DEF Restart, FaultHappens, IInv
<1>6. UNCHANGED <<net, accepted, refused, delivered>>
  BY DEF Restart
<1> QED BY <1>3, <1>4, <1>5, <1>6 DEF IInv

-----------------------------------------------------------------------------
\* Every step of RDP keeps the invariant.
LEMMA NextInvariant == IInv /\ [Next]_vars => IInv'
<1> SUFFICES ASSUME IInv, [Next]_vars PROVE IInv'
  OBVIOUS
<1>1. CASE \E n \in Node : Timeout(n) \/ Restart(n)
  BY <1>1, TimeoutInvariant, RestartInvariant
<1>2. ASSUME NEW n \in Node, NEW m \in Peer(n),
             \/ Rsendto(n, m) \/ Receive(n, m) \/ ReceiveUnknown(n, m)
             \/ ElapseResend(n, m) \/ ElapseClosed(n, m)
             \/ SocketError(n, m) \/ closeConnRDP(n, m) \/ RDP_updateNode(n, m)
             \/ Lose(n, m) \/ Reorder(n, m)
      PROVE  IInv'
  BY <1>2, RsendtoInvariant, ReceiveInvariant, ReceiveUnknownInvariant,
     ElapseInvariant, SocketErrorInvariant, closeConnRDPInvariant,
     updateNodeInvariant, LoseInvariant, ReorderInvariant
<1>3. CASE UNCHANGED vars
  BY <1>3 DEF vars, IInv, IsTable
<1> QED BY <1>1, <1>2, <1>3 DEF Next

\* The invariant implies what it is for.
LEMMA InvariantImplies == IInv => TypeOK /\ WindowAccounting /\ DeletedFirst
<1> SUFFICES ASSUME IInv PROVE TypeOK /\ WindowAccounting /\ DeletedFirst
  OBVIOUS
<1>1. ASSUME NEW n \in Node, NEW m \in Peer(n)
      PROVE  /\ conn[n][m] \in GoodConn /\ told[n][m] \in {"up", "down"}
             /\ accepted[n][m] \in Nat /\ owed[n][m] \subseteq Nat
             /\ refused[n][m] \subseteq Nat /\ net[n][m] \in Seq(Packet)
             /\ delivered[n][m] \in Seq(Nat)
  <2>1. /\ conn[n][m] \in GoodConn /\ told[n][m] \in Report
        /\ accepted[n][m] \in Count /\ owed[n][m] \in Messages
        /\ refused[n][m] \in Messages /\ net[n][m] \in Packets
        /\ delivered[n][m] \in Seq(Nat)
    BY TableEntryType DEF IInv
  <2> QED BY <2>1 DEF Report, Count, Messages, Packets
<1>2. TypeOK
  <2>1. \A n \in Node : \A m \in Peer(n) : conn[n][m] \in ConnInfo
    BY <1>1, ConnFields, ConnIsConnInfo
  <2> QED BY <1>1, <2>1 DEF TypeOK, IInv
<1>3. ASSUME NEW n \in Node, NEW m \in Peer(n)
      PROVE  LET c == conn[n][m]
             IN  /\ c.window \in 0..MAX_WINDOW_SIZE
                 /\ c.window + Len(c.pendList) = MAX_WINDOW_SIZE
  <2> DEFINE c == conn[n][m]
  <2>1. /\ c.window \in Nat /\ Len(c.pendList) \in Nat
        /\ c.window + Len(c.pendList) = MAX_WINDOW_SIZE
    BY <1>1, ConnFields, LenProperties
  <2> HIDE DEF c
  <2>2. c.window \in 0..MAX_WINDOW_SIZE
    BY <2>1, WindowAssumption
  <2> QED BY <2>1, <2>2 DEF c
<1>4. \A n \in Node : \A m \in Peer(n) : InFront(conn[n][m].pendList)
  BY <1>1, ConnFields
<1>5. DeletedFirst
  BY <1>4 DEF DeletedFirst, InFront
<1> QED BY <1>2, <1>3, <1>5 DEF WindowAccounting

\* Every variable of the protocol has its type, whatever the number of nodes,
\* the size of the window and the limits: every handler of rdp.c, with every
\* failure of a send and every reaction of the psid, keeps it.
THEOREM TypeCorrect == Spec => []TypeOK
<1>1. Init => IInv
  BY InitInvariant
<1>2. IInv /\ [Next]_vars => IInv'
  BY NextInvariant
<1>3. IInv => TypeOK
  BY InvariantImplies
<1> QED BY <1>1, <1>2, <1>3, PTL DEF Spec

\* The send slots of every connection are neither leaked nor handed out twice
\* by Rsendto(), doACK(), clearMsgQ() and the cleanup of handleTimeoutRDP(),
\* for every size of the window and any number of psids.
THEOREM SlotsAccounted == Spec => []WindowAccounting
<1>1. Init => IInv
  BY InitInvariant
<1>2. IInv /\ [Next]_vars => IInv'
  BY NextInvariant
<1>3. IInv => WindowAccounting
  BY InvariantImplies
<1> QED BY <1>1, <1>2, <1>3, PTL DEF Spec

\* In no state does a buffer clearMsgQ() has deleted stand behind a live one,
\* although Rsendto() adds to a queue of deleted buffers and a connection may
\* be closed in the middle of any handler.
THEOREM DeletedInFront == Spec => []DeletedFirst
<1>1. Init => IInv
  BY InitInvariant
<1>2. IInv /\ [Next]_vars => IInv'
  BY NextInvariant
<1>3. IInv => DeletedFirst
  BY InvariantImplies
<1> QED BY <1>1, <1>2, <1>3, PTL DEF Spec
=============================================================================
