---------------------------- MODULE FragmentsProof ----------------------------
(***************************************************************************)
(* Theorems about Fragments, checked by TLAPS.                             *)
(*                                                                         *)
(* What a receiver has of a message, the fragments on their way and the    *)
(* one the sender is about to send make up a line in which each element    *)
(* follows the one before or begins a message.  Faults cut a piece out of  *)
(* the line only together with what the receiver has.                      *)
(***************************************************************************)
EXTENDS Fragments, SequenceTheorems, TLAPS

\* A fragment of one of the messages of s; only the first one has number 0.
Right(s, f) ==
  /\ f \in Frag
  /\ f.msg \in DOMAIN Script[s]
  /\ f.part \in 1 .. Script[s][f.msg].frags
  /\ f.last <=> f.part = Script[s][f.msg].frags
  /\ f.num = 0 <=> f.part = 1

\* Fragment g comes right after f, or begins a message.
Follows(f, g) ==
  \/ g.part = 1
  \/ /\ g.msg = f.msg /\ g.part = f.part + 1 /\ g.num = NextNum(f.num)
     /\ ~ f.last

\* The buffer holds the first fragments of a message, but not all of them.
Holds(s, b) ==
  \/ b = NoBuf
  \/ \E m \in DOMAIN Script[s] : \E n \in 1 .. (Script[s][m].frags - 1) :
       /\ b = [data |-> Pieces(m, n), nextFrag |-> b.nextFrag]
       /\ b.nextFrag \in 1 .. (FragNums - 1)

\* Fragment g is the one the buffer waits for, or begins a message.
Continues(b, g) ==
  \/ g.part = 1
  \/ b = NoBuf
  \/ /\ b.data = Pieces(g.msg, g.part - 1)
     /\ g.num = b.nextFrag

SendOK(s) ==
  /\ send[s].num = 0 <=> send[s].part = 1
  /\ Sending(s) => send[s].part \in 1 .. Current(s).frags
  /\ ~ Sending(s) => send[s].part = 1

ChanOK(s, r) ==
  LET c == chan[s][r]
  IN  /\ \A i \in 1 .. Len(c) : Right(s, c[i])
      /\ \A i \in 1 .. Len(c) : i < Len(c) => Follows(c[i], c[i + 1])

\* What s sends next to r, if it is about to.
NextOK(s, r) ==
  LET c == chan[s][r]
  IN  Sending(s) /\ r \in Dests(s, send[s].msg)
      => IF c = << >> THEN Continues(buf[r][s], Fragment(s))
         ELSE Follows(c[Len(c)], Fragment(s))

BufOK(s, r) ==
  /\ Holds(s, buf[r][s])
  /\ chan[s][r] # << >> => Continues(buf[r][s], chan[s][r][1])
  /\ Remote(s, r) /\ buf[r][s] # NoBuf => link[Home[s]][Home[r]]

Complete(s, d) ==
  \E m \in DOMAIN Script[s] : d = Pieces(m, Script[s][m].frags)

GotOK(s, r) == \A i \in 1 .. Len(got[r][s]) : Complete(s, got[r][s][i])

IInv ==
  /\ TypeOK
  /\ \A s \in Sender : SendOK(s)
  /\ \A s \in Sender, r \in Recv :
       ChanOK(s, r) /\ NextOK(s, r) /\ BufOK(s, r) /\ GotOK(s, r)

-----------------------------------------------------------------------------
\* Number 0 is for first fragments only.
LEMMA NextNumType ==
  ASSUME NEW x \in 0 .. (FragNums - 1)
  PROVE  NextNum(x) \in 1 .. (FragNums - 1)
BY NumAssumption DEF NextNum

LEMMA ScriptType ==
  ASSUME NEW s \in Sender
  PROVE  /\ Script[s] \in Seq(FragMsg) /\ Len(Script[s]) \in Nat
         /\ DOMAIN Script[s] = 1 .. Len(Script[s])
         /\ \A m \in DOMAIN Script[s] : Script[s][m].frags \in Nat \ {0}
<1>1. Script[s] \in Seq(FragMsg)
  BY ScriptAssumption
<1>2. \A m \in DOMAIN Script[s] : Script[s][m] \in FragMsg
  BY <1>1, ElementOfSeq, LenProperties
<1> QED BY <1>1, <1>2, LenProperties DEF FragMsg

\* The fields of what s is about to send.
LEMMA SendType ==
  ASSUME TypeOK, NEW s \in Sender
  PROVE  /\ send[s].msg \in Nat \ {0} /\ send[s].part \in Nat \ {0}
         /\ send[s].num \in 0 .. (FragNums - 1)
         /\ send[s] = [msg |-> send[s].msg, part |-> send[s].part,
                       num |-> send[s].num]
         /\ Sending(s) => send[s].msg \in DOMAIN Script[s]
<1>1. send[s] \in [msg : Nat \ {0}, part : Nat \ {0}, num : 0 .. (FragNums - 1)]
  BY DEF TypeOK
<1>2. Sending(s) => send[s].msg \in DOMAIN Script[s]
  BY <1>1, ScriptType DEF Sending
<1> QED BY <1>1, <1>2

\* sendFragment() sends a fragment of the message.
LEMMA FragmentRight ==
  ASSUME TypeOK, NEW s \in Sender, SendOK(s), Sending(s)
  PROVE  Right(s, Fragment(s))
<1>1. /\ Fragment(s).msg = send[s].msg /\ Fragment(s).part = send[s].part
      /\ Fragment(s).num = send[s].num
      /\ Fragment(s).last = (send[s].part = Current(s).frags)
      /\ Fragment(s) \in Frag
  BY SendType DEF Fragment, Frag
<1>2. send[s].msg \in DOMAIN Script[s] /\ Current(s) = Script[s][send[s].msg]
  BY SendType DEF Current
<1> QED BY <1>1, <1>2 DEF Right, SendOK

-----------------------------------------------------------------------------
\* The pieces of a message.
LEMMA PiecesType ==
  ASSUME NEW m \in Nat \ {0}, NEW n \in Nat
  PROVE  Pieces(m, n) \in PieceSeq /\ Len(Pieces(m, n)) = n
BY DEF Pieces, PieceSeq

LEMMA PiecesOne ==
  ASSUME NEW m \in Nat \ {0}
  PROVE  Pieces(m, 1) = <<<<m, 1>>>>
BY DEF Pieces

LEMMA PiecesAppend ==
  ASSUME NEW m \in Nat \ {0}, NEW n \in Nat
  PROVE  Append(Pieces(m, n), <<m, n + 1>>) = Pieces(m, n + 1)
<1> DEFINE p == Pieces(m, n)
           q == Pieces(m, n + 1)
           a == Append(p, <<m, n + 1>>)
<1>1. p \in Seq((Nat \ {0}) \X (Nat \ {0})) /\ Len(p) = n
  BY PiecesType DEF PieceSeq
<1>2. q \in Seq((Nat \ {0}) \X (Nat \ {0})) /\ Len(q) = n + 1
  BY PiecesType DEF PieceSeq
<1>3. <<m, n + 1>> \in (Nat \ {0}) \X (Nat \ {0})
  OBVIOUS
<1>4. /\ a \in Seq((Nat \ {0}) \X (Nat \ {0})) /\ Len(a) = n + 1
      /\ \A i \in 1 .. n : a[i] = p[i]
      /\ a[n + 1] = <<m, n + 1>>
  <2> HIDE DEF p
  <2> QED BY <1>1, <1>3, AppendProperties
<1>5. \A i \in 1 .. (n + 1) : a[i] = q[i]
  <2>1. \A i \in 1 .. n : p[i] = <<m, i>>
    BY DEF Pieces
  <2>2. \A i \in 1 .. (n + 1) : q[i] = <<m, i>>
    BY DEF Pieces
  <2> HIDE DEF p, q, a
  <2>3. ASSUME NEW i \in 1 .. (n + 1)
        PROVE  a[i] = q[i]
    <3>1. CASE i \in 1 .. n
      BY <3>1, <1>4, <2>1, <2>2
    <3>2. CASE i = n + 1
      BY <3>2, <1>4, <2>2
    <3> QED BY <3>1, <3>2
  <2> QED BY <2>3
<1> HIDE DEF p, q, a
<1>6. a = q
  BY <1>2, <1>4, <1>5, SeqEqual
<1> QED BY <1>6 DEF a, p, q

-----------------------------------------------------------------------------
BufType == [data : PieceSeq, nextFrag : 0 .. (FragNums - 1)]

\* What recvFragMsg() adds to the buffer completes the message up to f.
LEMMA CollectPieces ==
  ASSUME NEW s \in Sender, NEW b \in BufType, NEW f,
         Right(s, f), Continues(b, f), ~ Single(f), Expected(b, f)
  PROVE  /\ Collect(b, f).data = Pieces(f.msg, f.part)
         /\ Collect(b, f).nextFrag = NextNum(f.num)
         /\ Collect(b, f) = [data |-> Pieces(f.msg, f.part),
                             nextFrag |-> NextNum(f.num)]
<1>1. /\ f.msg \in Nat \ {0} /\ f.part \in Nat \ {0}
      /\ f.num \in 0 .. (FragNums - 1) /\ (f.num = 0 <=> f.part = 1)
  BY DEF Right, Frag
<1>2. CASE f.num = 0
  <2>1. f.part = 1
    BY <1>1, <1>2
  <2>2. NextNum(f.num) = 1
    BY <1>2, NumAssumption DEF NextNum
  <2>3. <<Piece(f)>> = Pieces(f.msg, 1)
    BY <1>1, <2>1, PiecesOne DEF Piece
  <2> QED BY <1>2, <2>1, <2>2, <2>3 DEF Collect
<1>3. CASE f.num # 0
  <2>1. f.num = b.nextFrag /\ f.part # 1
    BY <1>1, <1>3 DEF Expected
  <2>2. b.data = Pieces(f.msg, f.part - 1)
    BY <1>3, <2>1 DEF Continues, NoBuf
  <2>3. Append(Pieces(f.msg, f.part - 1), <<f.msg, (f.part - 1) + 1>>)
          = Pieces(f.msg, (f.part - 1) + 1)
    <3>1. f.part - 1 \in Nat
      BY <1>1
    <3> QED BY <1>1, <3>1, PiecesAppend
  <2>4. (f.part - 1) + 1 = f.part
    BY <1>1
  <2>5. Append(b.data, Piece(f)) = Pieces(f.msg, f.part)
    BY <2>2, <2>3, <2>4 DEF Piece
  <2> QED BY <1>3, <2>1, <2>5 DEF Collect
<1> QED BY <1>2, <1>3

\* recvFragMsg() keeps the beginning of one message, waits for what follows,
\* and hands on complete messages only.
LEMMA ReceivedOK ==
  ASSUME NEW s \in Sender, NEW b \in BufType, NEW f,
         Right(s, f), Holds(s, b), Continues(b, f)
  PROVE  LET res == Received(b, f)
         IN  /\ res.buf \in BufType /\ Holds(s, res.buf)
             /\ \A g : Follows(f, g) => Continues(res.buf, g)
             /\ \/ res.out = << >>
                \/ \E d \in PieceSeq : res.out = <<d>> /\ Complete(s, d)
<1> DEFINE res == Received(b, f)
<1>1. /\ f.msg \in Nat \ {0} /\ f.part \in Nat \ {0}
      /\ f.msg \in DOMAIN Script[s] /\ f.part \in 1 .. Script[s][f.msg].frags
      /\ (f.last <=> f.part = Script[s][f.msg].frags)
      /\ Script[s][f.msg].frags \in Nat \ {0}
      /\ f.num \in 0 .. (FragNums - 1) /\ (f.num = 0 <=> f.part = 1)
  BY ScriptType DEF Right, Frag
<1>2. Pieces(f.msg, f.part) \in PieceSeq
  BY <1>1, PiecesType
<1>3. f.last => Complete(s, Pieces(f.msg, f.part))
  BY <1>1 DEF Complete
<1>4. NoBuf \in BufType /\ Holds(s, NoBuf) /\ \A g : Continues(NoBuf, g)
  BY NumAssumption, EmptySeq DEF NoBuf, BufType, PieceSeq, Holds, Continues
<1>5. CASE Single(f)
  <2>1. res = [buf |-> b, out |-> <<<<Piece(f)>>>>]
    BY <1>5 DEF Received
  <2>2. f.part = 1 /\ <<Piece(f)>> = Pieces(f.msg, 1)
    BY <1>1, <1>5, PiecesOne DEF Single, Piece
  <2>3. \A g : Follows(f, g) => Continues(b, g)
    BY <1>5 DEF Single, Follows, Continues
  <2>4. res.out = <<Pieces(f.msg, f.part)>>
    BY <2>1, <2>2
  <2> QED BY <1>2, <1>3, <1>5, <2>1, <2>3, <2>4 DEF Single
<1>6. CASE ~ Single(f) /\ ~ Expected(b, f)
  <2>1. res = [buf |-> b, out |-> << >>]
    BY <1>6 DEF Received
  <2>2. b = NoBuf
    BY <1>1, <1>6 DEF Expected, Continues
  <2> QED BY <1>4, <2>1, <2>2
<1>7. CASE ~ Single(f) /\ Expected(b, f)
  <2>1. Collect(b, f) = [data |-> Pieces(f.msg, f.part),
                         nextFrag |-> NextNum(f.num)]
    BY <1>7, CollectPieces
  <2>2. CASE f.last
    <3>1. res = [buf |-> NoBuf, out |-> <<Pieces(f.msg, f.part)>>]
      BY <1>7, <2>1, <2>2 DEF Received
    <3> QED BY <1>2, <1>3, <1>4, <2>2, <3>1
  <2>3. CASE ~ f.last
    <3>1. res = [buf |-> Collect(b, f), out |-> << >>]
      BY <1>7, <2>3 DEF Received
    <3>2. NextNum(f.num) \in 1 .. (FragNums - 1)
      BY <1>1, NextNumType
    <3>3. Collect(b, f) \in BufType
      BY <1>2, <2>1, <3>2 DEF BufType
    <3>4. Holds(s, Collect(b, f))
      BY <1>1, <2>1, <2>3, <3>2 DEF Holds
    <3>5. ASSUME NEW g, Follows(f, g)
          PROVE  Continues(Collect(b, f), g)
      <4>1. CASE g.part = 1
        BY <4>1 DEF Continues
      <4>2. CASE g.part # 1
        <5>1. g.msg = f.msg /\ g.part = f.part + 1 /\ g.num = NextNum(f.num)
          BY <3>5, <4>2 DEF Follows
        <5>2. g.part - 1 = f.part
          BY <1>1, <5>1
        <5> QED BY <2>1, <5>1, <5>2 DEF Continues
      <4> QED BY <4>1, <4>2
    <3> QED BY <3>1, <3>3, <3>4, <3>5
  <2> QED BY <2>2, <2>3
<1> QED BY <1>5, <1>6, <1>7

-----------------------------------------------------------------------------
LEMMA InitInvariant == Init => IInv
<1> SUFFICES ASSUME Init PROVE IInv
  OBVIOUS
<1> USE NumAssumption
<1>1. /\ NoBuf \in BufType /\ << >> \in Seq(Frag) /\ << >> \in Seq(PieceSeq)
      /\ Fresh(1) \in [msg : Nat \ {0}, part : Nat \ {0}, num : 0 .. (FragNums - 1)]
  BY EmptySeq DEF NoBuf, BufType, PieceSeq, Fresh
<1>2. TypeOK
  BY <1>1 DEF Init, TypeOK, BufType
<1>3. ASSUME NEW s \in Sender PROVE SendOK(s)
  <2>1. send[s].part = 1 /\ send[s].num = 0
    BY DEF Init, Fresh
  <2>2. Sending(s) => Current(s).frags \in Nat \ {0}
    BY <1>2, SendType, ScriptType DEF Current
  <2> QED BY <2>1, <2>2 DEF SendOK
<1>4. ASSUME NEW s \in Sender, NEW r \in Recv
      PROVE  ChanOK(s, r) /\ NextOK(s, r) /\ BufOK(s, r) /\ GotOK(s, r)
  <2>1. /\ chan[s][r] = << >> /\ got[r][s] = << >> /\ buf[r][s] = NoBuf
    BY DEF Init
  <2>2. Len(<< >>) = 0
    OBVIOUS
  <2> QED BY <2>1, <2>2 DEF ChanOK, NextOK, BufOK, GotOK, Holds, Continues
<1> QED BY <1>2, <1>3, <1>4 DEF IInv

\* What follows in the channel if one more fragment is appended.
LEMMA AppendedOK ==
  ASSUME TypeOK, NEW s \in Sender, NEW r \in Recv, NEW f,
         ChanOK(s, r), Right(s, f),
         chan[s][r] # << >> => Follows(chan[s][r][Len(chan[s][r])], f)
  PROVE  LET c == Append(chan[s][r], f)
         IN  /\ c \in Seq(Frag) /\ c # << >> /\ Len(c) = Len(chan[s][r]) + 1
             /\ c[Len(c)] = f
             /\ c[1] = IF chan[s][r] = << >> THEN f ELSE chan[s][r][1]
             /\ \A i \in 1 .. Len(c) : Right(s, c[i])
             /\ \A i \in 1 .. Len(c) : i < Len(c) => Follows(c[i], c[i + 1])
<1> DEFINE b == chan[s][r]
           c == Append(b, f)
<1>1. b \in Seq(Frag) /\ f \in Frag
  BY DEF TypeOK, Right
<1>2. /\ Len(b) \in Nat /\ (b = << >> <=> Len(b) = 0)
      /\ c \in Seq(Frag) /\ c # << >> /\ Len(c) = Len(b) + 1
      /\ (\A i \in 1 .. Len(b) : c[i] = b[i]) /\ c[Len(b) + 1] = f
  <2> HIDE DEF b
  <2> QED BY <1>1, AppendProperties, LenProperties, EmptySeq
<1>3. /\ \A i \in 1 .. Len(b) : Right(s, b[i])
      /\ \A i \in 1 .. Len(b) : i < Len(b) => Follows(b[i], b[i + 1])
      /\ b # << >> => Follows(b[Len(b)], f)
  BY DEF ChanOK
<1> HIDE DEF b, c
<1>4. ASSUME NEW i \in 1 .. Len(c) PROVE Right(s, c[i])
  <2>1. CASE i \in 1 .. Len(b)
    BY <1>2, <1>3, <2>1
  <2>2. CASE i = Len(b) + 1
    BY <1>2, <2>2
  <2> QED BY <1>2, <2>1, <2>2
<1>5. ASSUME NEW i \in 1 .. Len(c), i < Len(c) PROVE Follows(c[i], c[i + 1])
  <2>1. i \in 1 .. Len(b) /\ i + 1 \in 1 .. Len(c)
    BY <1>2, <1>5
  <2>2. CASE i < Len(b)
    <3>1. i + 1 \in 1 .. Len(b)
      BY <1>2, <2>2
    <3> QED BY <1>2, <1>3, <2>1, <2>2, <3>1
  <2>3. CASE i = Len(b)
    BY <1>2, <1>3, <2>1, <2>3
  <2> QED BY <1>2, <2>1, <2>2, <2>3
<1>6. c[1] = IF b = << >> THEN f ELSE b[1]
  BY <1>2
<1> QED BY <1>2, <1>4, <1>5, <1>6 DEF b, c

\* A step that does not touch a sender and its way to a receiver.
LEMMA SameNext ==
  ASSUME NEW s, NEW r, send'[s] = send[s], chan'[s][r] = chan[s][r],
         buf'[r][s] = buf[r][s], NextOK(s, r)
  PROVE  NextOK(s, r)'
<1>1. Sending(s)' = Sending(s)
  BY DEF Sending
<1>2. Current(s)' = Current(s)
  BY DEF Current
<1>3. Fragment(s)' = Fragment(s)
  BY <1>2 DEF Fragment
<1>4. Dests(s, send[s].msg)' = Dests(s, send[s].msg)
  BY DEF Dests, Remote
<1> QED BY <1>1, <1>3, <1>4 DEF NextOK

LEMMA SendFragmentKeeps ==
  ASSUME IInv, NEW s \in Sender, SendFragment(s)
  PROVE  IInv'
<1> DEFINE m == send[s].msg
           f == Fragment(s)
<1>1. /\ m \in Nat \ {0} /\ send[s].part \in Nat \ {0}
      /\ send[s].num \in 0 .. (FragNums - 1) /\ m \in DOMAIN Script[s]
      /\ Current(s) = Script[s][m] /\ Current(s).frags \in Nat \ {0}
      /\ send[s].part \in 1 .. Current(s).frags
      /\ (send[s].num = 0 <=> send[s].part = 1)
      /\ Sending(s) /\ Right(s, f)
  BY SendType, ScriptType, FragmentRight DEF IInv, SendFragment, Current, SendOK
<1>2. /\ \/ /\ send[s].part = Current(s).frags
            /\ send'[s] = [msg |-> m + 1, part |-> 1, num |-> 0]
         \/ /\ send[s].part # Current(s).frags
            /\ send'[s] = [msg |-> m, part |-> send[s].part + 1,
                           num |-> NextNum(send[s].num)]
      /\ \A t \in Sender : t # s => send'[t] = send[t]
      /\ send'[s] \in [msg : Nat \ {0}, part : Nat \ {0}, num : 0 .. (FragNums - 1)]
      /\ send' \in [Sender -> [msg : Nat \ {0}, part : Nat \ {0},
                               num : 0 .. (FragNums - 1)]]
  <2>1. send \in [Sender -> [msg : Nat \ {0}, part : Nat \ {0},
                             num : 0 .. (FragNums - 1)]]
    BY DEF IInv, TypeOK
  <2>2. send' = [send EXCEPT ![s] = AfterFragment(s)]
    BY DEF SendFragment
  <2>3. \/ /\ send[s].part = Current(s).frags
           /\ AfterFragment(s) = [msg |-> m + 1, part |-> 1, num |-> 0]
        \/ /\ send[s].part # Current(s).frags
           /\ AfterFragment(s) = [msg |-> m, part |-> send[s].part + 1,
                                  num |-> NextNum(send[s].num)]
    BY <2>1 DEF AfterFragment, Fresh
  <2>4. AfterFragment(s) \in [msg : Nat \ {0}, part : Nat \ {0},
                              num : 0 .. (FragNums - 1)]
    BY <1>1, <2>3, NextNumType, NumAssumption
  <2> QED BY <2>1, <2>2, <2>3, <2>4
<1>3. ASSUME NEW t \in Sender, NEW r \in Recv
      PROVE  chan'[t][r] = IF t = s /\ r \in Dests(s, m) THEN Append(chan[s][r], f)
                           ELSE chan[t][r]
  BY <1>3 DEF SendFragment, IInv, TypeOK
<1>4. ASSUME NEW r \in Recv, r \in Dests(s, m), chan[s][r] # << >>
      PROVE  Follows(chan[s][r][Len(chan[s][r])], f)
  BY <1>1, <1>4 DEF IInv, NextOK
<1>5. ASSUME NEW r \in Recv, r \in Dests(s, m)
      PROVE  LET c == chan'[s][r]
             IN  /\ c \in Seq(Frag) /\ c # << >>
                 /\ c[Len(c)] = f
                 /\ c[1] = IF chan[s][r] = << >> THEN f ELSE chan[s][r][1]
                 /\ \A i \in 1 .. Len(c) : Right(s, c[i])
                 /\ \A i \in 1 .. Len(c) : i < Len(c) => Follows(c[i], c[i + 1])
  <2> HIDE DEF f, m
  <2>1. /\ TypeOK /\ ChanOK(s, r) /\ Right(s, f)
        /\ chan[s][r] # << >> => Follows(chan[s][r][Len(chan[s][r])], f)
    BY <1>1, <1>4, <1>5 DEF IInv
  <2>2. chan'[s][r] = Append(chan[s][r], f)
    BY <1>3, <1>5
  <2> QED BY <2>1, <2>2, AppendedOK
<1>6. TypeOK'
  <2>1. chan' \in [Sender -> [Recv -> Seq(Frag)]]
    <3>1. ASSUME NEW t \in Sender, NEW r \in Recv PROVE chan'[t][r] \in Seq(Frag)
      <4>1. chan[t][r] \in Seq(Frag)
        BY DEF IInv, TypeOK
      <4> HIDE DEF f, m
      <4>2. CASE t = s /\ r \in Dests(s, m)
        BY <1>5, <4>2
      <4>3. CASE ~ (t = s /\ r \in Dests(s, m))
        BY <1>3, <4>1, <4>3
      <4> QED BY <4>2, <4>3
    <3>2. chan' = [t \in Sender |-> [r \in Recv |-> chan'[t][r]]]
      BY DEF SendFragment, IInv, TypeOK
    <3> QED BY <3>1, <3>2
  <2> QED BY <1>2, <2>1 DEF SendFragment, IInv, TypeOK
<1>7. ASSUME NEW t \in Sender PROVE SendOK(t)'
  <2>1. CASE t = s
    <3>1. send'[s].part = 1 \/ send'[s].part \in 1 .. Current(s).frags
      BY <1>1, <1>2
    <3>2. send'[s].num = 0 <=> send'[s].part = 1
      BY <1>1, <1>2, NextNumType
    <3>3. Sending(s)' => send'[s].part \in 1 .. Script[s][send'[s].msg].frags
      <4>1. Sending(s)' => send'[s].msg \in DOMAIN Script[s]
        BY <1>1, <1>2, ScriptType DEF Sending
      <4>2. Sending(s)' => Script[s][send'[s].msg].frags \in Nat \ {0}
        BY <4>1, ScriptType
      <4> QED BY <1>1, <1>2, <4>2
    <3>4. ~ Sending(s)' => send'[s].part = 1
      BY <1>1, <1>2 DEF Sending
    <3> QED BY <2>1, <3>2, <3>3, <3>4 DEF SendOK, Current
  <2>2. CASE t # s
    BY <1>2, <2>2 DEF IInv, SendOK, Sending, Current
  <2> QED BY <2>1, <2>2
<1>8. ASSUME NEW t \in Sender, NEW r \in Recv
      PROVE  ChanOK(t, r)' /\ NextOK(t, r)' /\ BufOK(t, r)' /\ GotOK(t, r)'
  <2>0. /\ ChanOK(t, r) /\ NextOK(t, r) /\ BufOK(t, r) /\ GotOK(t, r)
        /\ buf' = buf /\ got' = got /\ link' = link
    BY DEF IInv, SendFragment
  <2>1. CASE t = s /\ r \in Dests(s, m)
    <3>1. ChanOK(t, r)'
      BY <2>1, <1>5 DEF ChanOK
    <3>2. NextOK(t, r)'
      <4>1. CASE send'[s].part = 1
        BY <2>1, <1>5, <4>1 DEF NextOK, Follows, Fragment
      <4>2. CASE send'[s].part # 1
        <5>1. Fragment(s)'.msg = f.msg /\ Fragment(s)'.part = f.part + 1
              /\ Fragment(s)'.num = NextNum(f.num) /\ ~ f.last
          <6>1. /\ send[s].part # Current(s).frags
                /\ send'[s].msg = m /\ send'[s].part = send[s].part + 1
                /\ send'[s].num = NextNum(send[s].num)
            BY <1>2, <4>2
          <6>2. /\ f.msg = m /\ f.part = send[s].part /\ f.num = send[s].num
                /\ f.last = (send[s].part = Current(s).frags)
            BY DEF Fragment
          <6>3. /\ Fragment(s)'.msg = send'[s].msg
                /\ Fragment(s)'.part = send'[s].part
                /\ Fragment(s)'.num = send'[s].num
            BY DEF Fragment
          <6> QED BY <6>1, <6>2, <6>3
        <5>2. Follows(f, Fragment(s)')
          BY <5>1 DEF Follows
        <5> QED BY <2>1, <1>5, <5>2 DEF NextOK
      <4> QED BY <4>1, <4>2
    <3>3. BufOK(t, r)'
      <4>1. Continues(buf[r][s], chan'[s][r][1])
        BY <1>1, <1>5, <2>0, <2>1 DEF NextOK, BufOK
      <4> QED BY <2>0, <2>1, <4>1 DEF BufOK
    <3> QED BY <2>0, <3>1, <3>2, <3>3 DEF GotOK
  <2>2. CASE t = s /\ r \notin Dests(s, m)
    <3>1. chan'[t][r] = chan[t][r]
      BY <1>3, <2>2
    <3>2. NextOK(t, r)'
      <4>1. CASE send'[s].part = 1
        BY <2>2, <4>1 DEF NextOK, Follows, Continues, Fragment
      <4>2. CASE send'[s].part # 1
        <5>1. send'[s].msg = m
          BY <1>2, <4>2
        <5>2. Dests(s, send[s].msg)' = Dests(s, m)
          BY <5>1 DEF Dests, Remote
        <5> QED BY <2>2, <5>2 DEF NextOK
      <4> QED BY <4>1, <4>2
    <3> QED BY <2>0, <3>1, <3>2 DEF ChanOK, BufOK, GotOK
  <2>3. CASE t # s
    <3>1. chan'[t][r] = chan[t][r] /\ send'[t] = send[t]
      BY <1>2, <1>3, <2>3
    <3>2. NextOK(t, r)'
      BY <2>0, <3>1, SameNext
    <3> QED BY <2>0, <3>1, <3>2 DEF ChanOK, BufOK, GotOK
  <2> QED BY <2>1, <2>2, <2>3
<1> QED BY <1>6, <1>7, <1>8 DEF IInv

-----------------------------------------------------------------------------
LEMMA ReceiveKeeps ==
  ASSUME IInv, NEW s \in Sender, NEW r \in Recv, Receive(s, r)
  PROVE  IInv'
<1> DEFINE c == chan[s][r]
           b == buf[r][s]
           res == Received(b, Head(c))
<1>1. /\ c \in Seq(Frag) /\ c # << >> /\ Len(c) \in Nat \ {0}
      /\ Head(c) = c[1] /\ Tail(c) \in Seq(Frag) /\ Len(Tail(c)) = Len(c) - 1
      /\ \A i \in 1 .. Len(Tail(c)) : Tail(c)[i] = c[i + 1]
      /\ Tail(c) = << >> <=> Len(c) = 1
  <2>1. c \in Seq(Frag) /\ c # << >>
    BY DEF IInv, TypeOK, Receive
  <2> HIDE DEF c
  <2>2. /\ Len(c) \in Nat \ {0} /\ Head(c) = c[1] /\ Tail(c) \in Seq(Frag)
        /\ Len(Tail(c)) = Len(c) - 1
        /\ \A i \in 1 .. Len(Tail(c)) : Tail(c)[i] = c[i + 1]
    BY <2>1, HeadTailProperties, LenProperties, EmptySeq
  <2>3. Tail(c) = << >> <=> Len(Tail(c)) = 0
    BY <2>2, EmptySeq
  <2> QED BY <2>1, <2>2, <2>3
<1>2. /\ b \in BufType /\ Holds(s, b) /\ Right(s, c[1]) /\ Continues(b, c[1])
      /\ \A i \in 1 .. Len(c) : Right(s, c[i])
      /\ \A i \in 1 .. Len(c) : i < Len(c) => Follows(c[i], c[i + 1])
  <2>1. ChanOK(s, r) /\ BufOK(s, r)
    BY DEF IInv
  <2> QED BY <1>1, <2>1 DEF IInv, TypeOK, BufType, ChanOK, BufOK
<1>3. /\ res.buf \in BufType /\ Holds(s, res.buf)
      /\ \A g : Follows(c[1], g) => Continues(res.buf, g)
      /\ \/ res.out = << >>
         \/ \E d \in PieceSeq : res.out = <<d>> /\ Complete(s, d)
  <2> HIDE DEF b, c
  <2> QED BY <1>1, <1>2, ReceivedOK DEF res
<1>4. /\ \A p \in Recv, t \in Sender :
           /\ buf'[p][t] = IF p = r /\ t = s THEN res.buf ELSE buf[p][t]
           /\ got'[p][t] = IF p = r /\ t = s THEN got[r][s] \o res.out
                           ELSE got[p][t]
           /\ chan'[t][p] = IF p = r /\ t = s THEN Tail(c) ELSE chan[t][p]
      /\ buf' = [p \in Recv |-> [t \in Sender |-> buf'[p][t]]]
      /\ got' = [p \in Recv |-> [t \in Sender |-> got'[p][t]]]
      /\ chan' = [t \in Sender |-> [p \in Recv |-> chan'[t][p]]]
  <2> HIDE DEF Received
  <2>1. /\ buf' = [buf EXCEPT ![r][s] = res.buf]
        /\ got' = [got EXCEPT ![r][s] = @ \o res.out]
        /\ chan' = [chan EXCEPT ![s][r] = Tail(@)]
    BY DEF Receive
  <2>2. /\ buf = [p \in Recv |-> [t \in Sender |-> buf[p][t]]]
        /\ got = [p \in Recv |-> [t \in Sender |-> got[p][t]]]
        /\ chan = [t \in Sender |-> [p \in Recv |-> chan[t][p]]]
    BY DEF IInv, TypeOK
  <2> HIDE DEF res
  <2> QED BY <2>1, <2>2
<1> HIDE DEF res
<1>5. /\ got'[r][s] \in Seq(PieceSeq)
      /\ \A i \in 1 .. Len(got'[r][s]) : Complete(s, got'[r][s][i])
  <2> DEFINE g == got[r][s]
  <2>1. g \in Seq(PieceSeq) /\ Len(g) \in Nat
    BY LenProperties DEF IInv, TypeOK
  <2>2. \A i \in 1 .. Len(g) : Complete(s, g[i])
    BY DEF IInv, GotOK
  <2>3. got'[r][s] = g \o res.out
    BY <1>4
  <2> HIDE DEF g, Complete
  <2>4. CASE res.out = << >>
    <3>1. g \o << >> = g
      BY <2>1, ConcatEmptySeq
    <3> QED BY <2>1, <2>2, <2>3, <2>4, <3>1
  <2>5. CASE \E d \in PieceSeq : res.out = <<d>> /\ Complete(s, d)
    <3>1. PICK d \in PieceSeq : res.out = <<d>> /\ Complete(s, d)
      BY <2>5
    <3>2. g \o <<d>> = Append(g, d)
      BY <2>1, AppendIsConcat
    <3>3. /\ Append(g, d) \in Seq(PieceSeq) /\ Len(Append(g, d)) = Len(g) + 1
          /\ \A i \in 1 .. Len(g) : Append(g, d)[i] = g[i]
          /\ Append(g, d)[Len(g) + 1] = d
      BY <2>1, AppendProperties
    <3>4. ASSUME NEW i \in 1 .. (Len(g) + 1) PROVE Complete(s, Append(g, d)[i])
      <4>1. CASE i \in 1 .. Len(g)
        BY <2>2, <3>3, <4>1
      <4>2. CASE i = Len(g) + 1
        BY <3>1, <3>3, <4>2
      <4> QED BY <2>1, <4>1, <4>2
    <3> QED BY <2>3, <3>1, <3>2, <3>3, <3>4
  <2> QED BY <1>3, <2>4, <2>5
<1>6. TypeOK'
  <2>1. \A p \in Recv, t \in Sender :
          /\ buf'[p][t] \in BufType /\ got'[p][t] \in Seq(PieceSeq)
          /\ chan'[t][p] \in Seq(Frag)
    <3> SUFFICES ASSUME NEW p \in Recv, NEW t \in Sender
                 PROVE  /\ buf'[p][t] \in BufType /\ got'[p][t] \in Seq(PieceSeq)
                        /\ chan'[t][p] \in Seq(Frag)
      OBVIOUS
    <3>1. /\ buf[p][t] \in BufType /\ got[p][t] \in Seq(PieceSeq)
          /\ chan[t][p] \in Seq(Frag)
      BY DEF IInv, TypeOK, BufType
    <3> HIDE DEF BufType, c
    <3>2. CASE p = r /\ t = s
      BY <1>1, <1>3, <1>4, <1>5, <3>2
    <3>3. CASE ~ (p = r /\ t = s)
      BY <1>4, <3>1, <3>3
    <3> QED BY <3>2, <3>3
  <2>2. /\ buf' \in [Recv -> [Sender -> BufType]]
        /\ got' \in [Recv -> [Sender -> Seq(PieceSeq)]]
        /\ chan' \in [Sender -> [Recv -> Seq(Frag)]]
    <3> HIDE DEF BufType
    <3> QED BY <1>4, <2>1
  <2>3. UNCHANGED <<send, link, cuts, spoiled, broken>> /\ TypeOK
    BY DEF Receive, IInv
  <2> QED BY <2>2, <2>3 DEF TypeOK, BufType
<1>7. ASSUME NEW t \in Sender PROVE SendOK(t)'
  BY DEF Receive, IInv, SendOK, Sending, Current
<1>8. ASSUME NEW t \in Sender, NEW p \in Recv
      PROVE  ChanOK(t, p)' /\ NextOK(t, p)' /\ BufOK(t, p)' /\ GotOK(t, p)'
  <2>0. /\ ChanOK(t, p) /\ NextOK(t, p) /\ BufOK(t, p) /\ GotOK(t, p)
        /\ send' = send /\ link' = link
    BY DEF IInv, Receive
  <2>1. CASE t = s /\ p = r
    <3>1. /\ chan'[t][p] = Tail(c) /\ buf'[p][t] = res.buf
      BY <1>4, <2>1
    <3>2. ChanOK(t, p)'
      <4>1. \A i \in 1 .. Len(Tail(c)) : Right(s, Tail(c)[i])
        <5>1. \A i \in 1 .. Len(Tail(c)) : i + 1 \in 1 .. Len(c)
          BY <1>1
        <5> QED BY <1>1, <1>2, <5>1
      <4>2. ASSUME NEW i \in 1 .. Len(Tail(c)), i < Len(Tail(c))
            PROVE  Follows(Tail(c)[i], Tail(c)[i + 1])
        <5>1. i + 1 \in 1 .. Len(Tail(c)) /\ i + 1 \in 1 .. Len(c) /\ i + 1 < Len(c)
          BY <1>1, <4>2
        <5>2. Tail(c)[i] = c[i + 1] /\ Tail(c)[i + 1] = c[(i + 1) + 1]
          BY <1>1, <5>1
        <5> QED BY <1>2, <5>1, <5>2
      <4> HIDE DEF c
      <4> QED BY <2>1, <3>1, <4>1, <4>2 DEF ChanOK
    <3>3. NextOK(t, p)'
      <4>1. /\ Sending(s)' = Sending(s) /\ Fragment(s)' = Fragment(s)
            /\ Dests(s, send[s].msg)' = Dests(s, send[s].msg)
        BY <2>0 DEF Sending, Fragment, Current, Dests, Remote
      <4>2. Sending(s) /\ r \in Dests(s, send[s].msg)
            => Follows(c[Len(c)], Fragment(s))
        BY <1>1, <2>0, <2>1 DEF NextOK
      <4>3. CASE Len(c) = 1
        <5>1. Sending(s) /\ r \in Dests(s, send[s].msg)
              => Continues(res.buf, Fragment(s))
          BY <1>3, <4>2, <4>3
        <5>2. chan'[s][r] = << >>
          BY <1>1, <2>1, <3>1, <4>3
        <5> QED BY <2>1, <3>1, <4>1, <5>1, <5>2 DEF NextOK
      <4>4. CASE Len(c) # 1
        <5>1. Tail(c) # << >> /\ Tail(c)[Len(Tail(c))] = c[Len(c)]
          BY <1>1, <4>4
        <5> QED BY <2>1, <3>1, <4>1, <4>2, <5>1 DEF NextOK
      <4> QED BY <4>3, <4>4
    <3>4. BufOK(t, p)'
      <4>1. Tail(c) # << >> => Continues(res.buf, Tail(c)[1])
        <5>1. CASE Len(c) = 1
          BY <1>1, <5>1
        <5>2. CASE Len(c) # 1
          <6>1. /\ 1 \in 1 .. Len(c) /\ 1 < Len(c) /\ 1 \in 1 .. Len(Tail(c))
                /\ 1 + 1 = 2
            BY <1>1, <5>2
          <6>2. Follows(c[1], c[2]) /\ Tail(c)[1] = c[2]
            BY <1>1, <1>2, <6>1
          <6> QED BY <1>3, <6>2
        <5> QED BY <5>1, <5>2
      <4>2. Remote(s, r) => link[Home[s]][Home[r]]
        BY DEF Receive, Reached
      <4> QED BY <1>3, <2>0, <2>1, <3>1, <4>1, <4>2 DEF BufOK, Remote
    <3>5. GotOK(t, p)'
      BY <1>5, <2>1 DEF GotOK
    <3> QED BY <3>2, <3>3, <3>4, <3>5
  <2>2. CASE ~ (t = s /\ p = r)
    <3>1. /\ chan'[t][p] = chan[t][p] /\ buf'[p][t] = buf[p][t]
          /\ got'[p][t] = got[p][t] /\ send'[t] = send[t]
      BY <1>4, <2>0, <2>2
    <3>2. NextOK(t, p)'
      BY <2>0, <3>1, SameNext
    <3> QED BY <2>0, <3>1, <3>2 DEF ChanOK, BufOK, GotOK
  <2> QED BY <2>1, <2>2
<1> QED BY <1>6, <1>7, <1>8 DEF IInv

-----------------------------------------------------------------------------
\* A step that leaves alone what a receiver has of a sender, and how it is
\* reached.
LEMMA SamePair ==
  ASSUME NEW s, NEW r,
         ChanOK(s, r) /\ NextOK(s, r) /\ BufOK(s, r) /\ GotOK(s, r),
         send'[s] = send[s], chan'[s][r] = chan[s][r], buf'[r][s] = buf[r][s],
         got'[r][s] = got[r][s],
         Remote(s, r) /\ buf[r][s] # NoBuf => link'[Home[s]][Home[r]]
  PROVE  ChanOK(s, r)' /\ NextOK(s, r)' /\ BufOK(s, r)' /\ GotOK(s, r)'
<1>1. NextOK(s, r)'
  BY SameNext
<1>2. BufOK(s, r)'
  BY DEF BufOK, Remote
<1> QED BY <1>1, <1>2 DEF ChanOK, GotOK

\* After a fault nothing is left of what was under way, nor of its beginning.
LEMMA CutPair ==
  ASSUME NEW s, NEW r, GotOK(s, r), chan'[s][r] = << >>, buf'[r][s] = NoBuf,
         got'[r][s] = got[r][s]
  PROVE  ChanOK(s, r)' /\ NextOK(s, r)' /\ BufOK(s, r)' /\ GotOK(s, r)'
<1>1. ChanOK(s, r)'
  BY DEF ChanOK
<1>2. NextOK(s, r)'
  BY DEF NextOK, Continues
<1>3. BufOK(s, r)'
  BY DEF BufOK, Holds
<1> QED BY <1>1, <1>2, <1>3 DEF GotOK

\* PSIDHOOK_NODE_DOWN leaves no buffer for a task on a node that is lost.
LEMMA HookFrees ==
  ASSUME InPsid = Recv, NEW s \in Sender, NEW r \in Recv, BufOK(s, r), Remote(s, r)
  PROVE  nodeDownHandler(r, s) = NoBuf
BY DEF nodeDownHandler, BufOK

LEMMA HistoryType ==
  ASSUME TypeOK, NEW s \in Sender, NEW r \in Recv
  PROVE  spoiled[s][r] \cup Unfinished(s, r) \in SUBSET Nat
BY ScriptType DEF TypeOK, Unfinished, Begun

LEMMA ConnectKeeps ==
  ASSUME IInv, NEW n \in Node, NEW m \in Node, Connect(n, m)
  PROVE  IInv'
<1>1. TypeOK'
  BY DEF IInv, TypeOK, Connect
<1>2. ASSUME NEW s \in Sender PROVE SendOK(s)'
  BY DEF Connect, IInv, SendOK, Sending, Current
<1>3. ASSUME NEW s \in Sender, NEW r \in Recv
      PROVE  ChanOK(s, r)' /\ NextOK(s, r)' /\ BufOK(s, r)' /\ GotOK(s, r)'
  <2>1. ChanOK(s, r) /\ NextOK(s, r) /\ BufOK(s, r) /\ GotOK(s, r)
    BY DEF IInv
  <2>2. link[Home[s]][Home[r]] => link'[Home[s]][Home[r]]
    BY TaskAssumption DEF Connect, IInv, TypeOK
  <2>3. send' = send /\ chan' = chan /\ buf' = buf /\ got' = got
    BY DEF Connect
  <2>4. Remote(s, r) /\ buf[r][s] # NoBuf => link'[Home[s]][Home[r]]
    BY <2>1, <2>2 DEF BufOK
  <2> QED BY <2>1, <2>3, <2>4, SamePair
<1> QED BY <1>1, <1>2, <1>3 DEF IInv

LEMMA LostKeeps ==
  ASSUME InPsid = Recv, IInv, NEW n \in Node, NEW m \in Node, Lost(n, m)
  PROVE  IInv'
<1> DEFINE Across(s, r) == Remote(s, r) /\ {Home[s], Home[r]} = {n, m}
<1>1. /\ send' = send /\ got' = got /\ broken' = broken /\ cuts' = cuts + 1
      /\ link' = [link EXCEPT ![n][m] = FALSE, ![m][n] = FALSE]
      /\ chan' = [s \in Sender |-> [r \in Recv |->
                    IF Across(s, r) THEN << >> ELSE chan[s][r]]]
      /\ buf' = [r \in Recv |-> [s \in Sender |->
                   IF Across(s, r) THEN nodeDownHandler(r, s) ELSE buf[r][s]]]
      /\ spoiled' = [s \in Sender |-> [r \in Recv |->
                       IF Across(s, r) THEN spoiled[s][r] \cup Unfinished(s, r)
                       ELSE spoiled[s][r]]]
  BY DEF Lost
<1> HIDE DEF Across
<1>2. ASSUME NEW s \in Sender, NEW r \in Recv, Across(s, r)
      PROVE  nodeDownHandler(r, s) = NoBuf
  <2>1. BufOK(s, r) /\ Remote(s, r)
    BY <1>2 DEF IInv, Across
  <2> QED BY <2>1, HookFrees
<1>3. TypeOK'
  <2>1. NoBuf \in BufType /\ << >> \in Seq(Frag)
    BY NumAssumption, EmptySeq DEF NoBuf, BufType, PieceSeq
  <2>2. chan' \in [Sender -> [Recv -> Seq(Frag)]]
    BY <1>1, <2>1 DEF IInv, TypeOK
  <2>3. buf' \in [Recv -> [Sender -> BufType]]
    BY <1>1, <1>2, <2>1 DEF IInv, TypeOK, BufType
  <2>4. spoiled' \in [Sender -> [Recv -> SUBSET Nat]]
    <3>1. \A s \in Sender, r \in Recv : spoiled[s][r] \cup Unfinished(s, r) \in SUBSET Nat
      BY HistoryType DEF IInv
    <3> HIDE DEF Unfinished
    <3> QED BY <1>1, <3>1 DEF IInv, TypeOK
  <2>5. link' \in [Node -> [Node -> BOOLEAN]]
    BY <1>1 DEF IInv, TypeOK
  <2>6. cuts' \in Nat /\ send' = send /\ got' = got /\ broken' = broken
    BY <1>1 DEF IInv, TypeOK
  <2>7. TypeOK
    BY DEF IInv
  <2> HIDE <1>1
  <2> QED BY <2>2, <2>3, <2>4, <2>5, <2>6, <2>7 DEF TypeOK, BufType
<1>4. ASSUME NEW s \in Sender PROVE SendOK(s)'
  BY <1>1 DEF IInv, SendOK, Sending, Current
<1>5. ASSUME NEW s \in Sender, NEW r \in Recv
      PROVE  ChanOK(s, r)' /\ NextOK(s, r)' /\ BufOK(s, r)' /\ GotOK(s, r)'
  <2>1. ChanOK(s, r) /\ NextOK(s, r) /\ BufOK(s, r) /\ GotOK(s, r)
    BY DEF IInv
  <2>2. CASE Across(s, r)
    <3>1. chan'[s][r] = << >> /\ buf'[r][s] = NoBuf /\ got'[r][s] = got[r][s]
      BY <1>1, <1>2, <2>2
    <3> QED BY <2>1, <3>1, CutPair
  <2>3. CASE ~ Across(s, r)
    <3>1. /\ chan'[s][r] = chan[s][r] /\ buf'[r][s] = buf[r][s]
          /\ send'[s] = send[s] /\ got'[r][s] = got[r][s]
      BY <1>1, <2>3
    <3>2. ASSUME Remote(s, r), buf[r][s] # NoBuf PROVE link'[Home[s]][Home[r]]
      <4>1. ~ (Home[s] = n /\ Home[r] = m) /\ ~ (Home[s] = m /\ Home[r] = n)
        BY <2>3, <3>2 DEF Across
      <4>2. Home[s] \in Node /\ Home[r] \in Node /\ link[Home[s]][Home[r]]
        BY <2>1, <3>2, TaskAssumption DEF BufOK
      <4>3. link \in [Node -> [Node -> BOOLEAN]]
        BY DEF IInv, TypeOK
      <4>4. \A h, k \in Node : ~ (h = n /\ k = m) /\ ~ (h = m /\ k = n)
                              => link'[h][k] = link[h][k]
        BY <1>1, <4>3
      <4> QED BY <4>1, <4>2, <4>4
    <3> QED BY <2>1, <3>1, <3>2, SamePair
  <2> QED BY <2>2, <2>3
<1> QED BY <1>3, <1>4, <1>5 DEF IInv

\* Where a sender goes on after it has ended.
LEMMA EndedOK ==
  ASSUME TypeOK, NEW s \in Sender, send'[s] = Ended(s)
  PROVE  /\ send'[s].part = 1 /\ SendOK(s)'
         /\ send'[s] \in [msg : Nat \ {0}, part : Nat \ {0}, num : 0 .. (FragNums - 1)]
<1>1. /\ send[s].msg + 1 \in Nat \ {0}
      /\ send'[s] = [msg |-> send[s].msg + 1, part |-> 1, num |-> 0]
  <2>1. send[s].msg \in Nat
    BY DEF TypeOK
  <2>2. send[s].msg + 1 \in Nat \ {0}
    BY <2>1
  <2> QED BY <2>2 DEF Ended, Fresh
<1>2. Sending(s)' => Script[s][send'[s].msg].frags \in Nat \ {0}
  <2>1. Sending(s)' => send'[s].msg \in DOMAIN Script[s]
    BY <1>1, ScriptType DEF Sending
  <2> QED BY <2>1, ScriptType
<1> QED BY <1>1, <1>2, NumAssumption DEF SendOK, Current

LEMMA DieKeeps ==
  ASSUME IInv, NEW s \in Sender, Die(s)
  PROVE  IInv'
<1>1. /\ send' = [send EXCEPT ![s] = Ended(s)] /\ chan' = chan /\ buf' = buf
      /\ got' = got /\ link' = link /\ cuts' = cuts /\ spoiled' = spoiled
      /\ broken' = [broken EXCEPT ![s] = @ \cup {send[s].msg}]
  BY DEF Die
<1>2. /\ send'[s] = Ended(s)
      /\ \A t \in Sender : t # s => send'[t] = send[t]
      /\ send' = [t \in Sender |-> send'[t]]
  <2>1. send = [t \in Sender |-> send[t]]
    BY DEF IInv, TypeOK
  <2> QED BY <1>1, <2>1
<1>3. TypeOK /\ send'[s].part = 1 /\ SendOK(s)'
      /\ send'[s] \in [msg : Nat \ {0}, part : Nat \ {0}, num : 0 .. (FragNums - 1)]
  BY <1>2, EndedOK DEF IInv
<1>4. TypeOK'
  <2>1. send' \in [Sender -> [msg : Nat \ {0}, part : Nat \ {0},
                              num : 0 .. (FragNums - 1)]]
    BY <1>2, <1>3 DEF TypeOK
  <2>2. broken' \in [Sender -> SUBSET Nat]
    BY <1>1, <1>3, SendType DEF TypeOK
  <2> QED BY <1>1, <1>3, <2>1, <2>2 DEF TypeOK
<1>5. ASSUME NEW t \in Sender PROVE SendOK(t)'
  <2>1. CASE t = s
    BY <1>3, <2>1
  <2>2. CASE t # s
    BY <1>2, <2>2 DEF IInv, SendOK, Sending, Current
  <2> QED BY <2>1, <2>2
<1>6. ASSUME NEW t \in Sender, NEW r \in Recv
      PROVE  ChanOK(t, r)' /\ NextOK(t, r)' /\ BufOK(t, r)' /\ GotOK(t, r)'
  <2>1. ChanOK(t, r) /\ NextOK(t, r) /\ BufOK(t, r) /\ GotOK(t, r)
    BY DEF IInv
  <2>2. CASE t = s
    <3>1. Fragment(t)'.part = 1
      BY <1>3, <2>2 DEF Fragment
    <3>2. NextOK(t, r)'
      BY <3>1 DEF NextOK, Follows, Continues
    <3> QED BY <1>1, <2>1, <3>2 DEF ChanOK, BufOK, GotOK
  <2>3. CASE t # s
    <3>1. send'[t] = send[t]
      BY <1>2, <2>3
    <3>2. Remote(t, r) /\ buf[r][t] # NoBuf => link'[Home[t]][Home[r]]
      BY <1>1, <2>1 DEF BufOK
    <3> QED BY <1>1, <2>1, <3>1, <3>2, SamePair
  <2> QED BY <2>2, <2>3
<1> QED BY <1>4, <1>5, <1>6 DEF IInv

LEMMA RestartKeeps ==
  ASSUME InPsid = Recv, IInv, NEW n \in Node, Restart(n)
  PROVE  IInv'
<1> DEFINE Affected(s, r) == n \in {Home[s], Home[r]}
           Ends(s) == Home[s] = n /\ Sending(s) /\ send[s].part > 1
           Places == [msg : Nat \ {0}, part : Nat \ {0},
                      num : 0 .. (FragNums - 1)]
<1>1. /\ got' = got /\ cuts' = cuts + 1
      /\ send' = [s \in Sender |-> IF Ends(s) THEN Ended(s) ELSE send[s]]
      /\ broken' = [s \in Sender |->
                      IF Ends(s) THEN broken[s] \cup {send[s].msg} ELSE broken[s]]
      /\ chan' = [s \in Sender |-> [r \in Recv |->
                    IF Affected(s, r) THEN << >> ELSE chan[s][r]]]
      /\ buf' = [r \in Recv |-> [s \in Sender |->
                   IF Home[r] = n THEN NoBuf
                   ELSE IF Home[s] = n THEN nodeDownHandler(r, s)
                   ELSE buf[r][s]]]
      /\ spoiled' = [s \in Sender |-> [r \in Recv |->
                       IF Affected(s, r)
                       THEN spoiled[s][r] \cup Unfinished(s, r)
                       ELSE spoiled[s][r]]]
      /\ link' = [k \in Node |-> [m \in Node |->
                    IF n \in {k, m} THEN FALSE ELSE link[k][m]]]
  BY DEF Restart
<1> HIDE DEF Affected, Ends
<1>2. ASSUME NEW s \in Sender, NEW r \in Recv
      PROVE  buf'[r][s] = IF Affected(s, r) THEN NoBuf ELSE buf[r][s]
  <2>1. CASE Home[r] = n
    BY <1>1, <2>1 DEF Affected
  <2>2. CASE Home[r] # n /\ Home[s] = n
    <3>1. BufOK(s, r) /\ Remote(s, r)
      BY <2>2 DEF IInv, Remote
    <3>2. nodeDownHandler(r, s) = NoBuf
      BY <3>1, HookFrees
    <3> QED BY <1>1, <2>2, <3>2 DEF Affected
  <2>3. CASE Home[r] # n /\ Home[s] # n
    BY <1>1, <2>3 DEF Affected
  <2> QED BY <2>1, <2>2, <2>3
<1>3. ASSUME NEW s \in Sender
      PROVE  /\ send'[s] \in Places /\ SendOK(s)'
             /\ Home[s] # n => send'[s] = send[s]
  <2>1. CASE Ends(s)
    <3>1. send'[s] = Ended(s) /\ Home[s] = n /\ TypeOK
      BY <1>1, <2>1 DEF Ends, IInv
    <3> QED BY <3>1, EndedOK
  <2>2. CASE ~ Ends(s)
    <3>1. send'[s] = send[s] /\ SendOK(s) /\ send[s] \in Places
      BY <1>1, <2>2 DEF IInv, TypeOK
    <3> QED BY <3>1 DEF SendOK, Sending, Current
  <2> QED BY <2>1, <2>2
<1>4. TypeOK'
  <2>1. NoBuf \in BufType /\ << >> \in Seq(Frag)
    BY NumAssumption, EmptySeq DEF NoBuf, BufType, PieceSeq
  <2>2. chan' \in [Sender -> [Recv -> Seq(Frag)]]
    BY <1>1, <2>1 DEF IInv, TypeOK
  <2>3. buf' \in [Recv -> [Sender -> BufType]]
    <3>1. ASSUME NEW r \in Recv, NEW s \in Sender PROVE buf'[r][s] \in BufType
      <4>1. buf[r][s] \in BufType
        BY DEF IInv, TypeOK, BufType
      <4> HIDE DEF BufType
      <4>2. CASE Affected(s, r)
        BY <1>2, <2>1, <4>2
      <4>3. CASE ~ Affected(s, r)
        BY <1>2, <4>1, <4>3
      <4> QED BY <4>2, <4>3
    <3>2. buf' = [r \in Recv |-> [s \in Sender |-> buf'[r][s]]]
      BY <1>1
    <3> QED BY <3>1, <3>2
  <2>4. spoiled' \in [Sender -> [Recv -> SUBSET Nat]]
    <3>1. \A s \in Sender, r \in Recv : spoiled[s][r] \cup Unfinished(s, r) \in SUBSET Nat
      BY HistoryType DEF IInv
    <3> HIDE DEF Unfinished
    <3> QED BY <1>1, <3>1 DEF IInv, TypeOK
  <2>5. link' \in [Node -> [Node -> BOOLEAN]]
    BY <1>1 DEF IInv, TypeOK
  <2>6. send' \in [Sender -> Places]
    BY <1>1, <1>3
  <2>7. broken' \in [Sender -> SUBSET Nat]
    <3>1. \A s \in Sender : broken[s] \cup {send[s].msg} \in SUBSET Nat
      BY SendType DEF IInv, TypeOK
    <3> QED BY <1>1, <3>1 DEF IInv, TypeOK
  <2>8. cuts' \in Nat /\ got' \in [Recv -> [Sender -> Seq(PieceSeq)]]
    BY <1>1 DEF IInv, TypeOK
  <2> HIDE <1>1
  <2> QED BY <2>2, <2>3, <2>4, <2>5, <2>6, <2>7, <2>8 DEF TypeOK, BufType
<1>5. ASSUME NEW s \in Sender, NEW r \in Recv
      PROVE  ChanOK(s, r)' /\ NextOK(s, r)' /\ BufOK(s, r)' /\ GotOK(s, r)'
  <2>1. ChanOK(s, r) /\ NextOK(s, r) /\ BufOK(s, r) /\ GotOK(s, r)
    BY DEF IInv
  <2>2. CASE Affected(s, r)
    <3>1. chan'[s][r] = << >> /\ buf'[r][s] = NoBuf /\ got'[r][s] = got[r][s]
      BY <1>1, <1>2, <2>2
    <3> QED BY <2>1, <3>1, CutPair
  <2>3. CASE ~ Affected(s, r)
    <3>1. /\ chan'[s][r] = chan[s][r] /\ buf'[r][s] = buf[r][s]
          /\ got'[r][s] = got[r][s] /\ Home[s] # n /\ Home[r] # n
      BY <1>1, <1>2, <2>3 DEF Affected
    <3>2. send'[s] = send[s]
      BY <1>3, <3>1
    <3>3. Home[s] \in Node /\ Home[r] \in Node
      BY TaskAssumption
    <3>4. link'[Home[s]][Home[r]] = link[Home[s]][Home[r]]
      BY <1>1, <3>1, <3>3
    <3>5. Remote(s, r) /\ buf[r][s] # NoBuf => link'[Home[s]][Home[r]]
      BY <2>1, <3>4 DEF BufOK
    <3> QED BY <2>1, <3>1, <3>2, <3>5, SamePair
  <2> QED BY <2>2, <2>3
<1> QED BY <1>3, <1>4, <1>5 DEF IInv

-----------------------------------------------------------------------------
LEMMA StutterKeeps == IInv /\ UNCHANGED vars => IInv'
<1> SUFFICES ASSUME IInv, UNCHANGED vars PROVE IInv'
  OBVIOUS
<1>1. TypeOK'
  BY DEF IInv, TypeOK, vars
<1>2. ASSUME NEW s \in Sender PROVE SendOK(s)'
  BY DEF vars, IInv, SendOK, Sending, Current
<1>3. ASSUME NEW s \in Sender, NEW r \in Recv
      PROVE  ChanOK(s, r)' /\ NextOK(s, r)' /\ BufOK(s, r)' /\ GotOK(s, r)'
  <2>1. ChanOK(s, r) /\ NextOK(s, r) /\ BufOK(s, r) /\ GotOK(s, r)
    BY DEF IInv
  <2>2. /\ send' = send /\ chan' = chan /\ buf' = buf /\ got' = got /\ link' = link
    BY DEF vars
  <2>3. Remote(s, r) /\ buf[r][s] # NoBuf => link'[Home[s]][Home[r]]
    BY <2>1, <2>2 DEF BufOK
  <2> QED BY <2>1, <2>2, <2>3, SamePair
<1> QED BY <1>1, <1>2, <1>3 DEF IInv

LEMMA NextInvariant ==
  ASSUME InPsid = Recv
  PROVE  IInv /\ [Next]_vars => IInv'
<1> SUFFICES ASSUME IInv, [Next]_vars PROVE IInv'
  OBVIOUS
<1>1. ASSUME NEW s \in Sender, SendFragment(s) PROVE IInv'
  BY <1>1, SendFragmentKeeps
<1>2. ASSUME NEW s \in Sender, Die(s) PROVE IInv'
  BY <1>2, DieKeeps
<1>3. ASSUME NEW s \in Sender, NEW r \in Recv, Receive(s, r) PROVE IInv'
  BY <1>3, ReceiveKeeps
<1>4. ASSUME NEW n \in Node, NEW m \in Node, Connect(n, m) PROVE IInv'
  BY <1>4, ConnectKeeps
<1>5. ASSUME NEW n \in Node, NEW m \in Node, Lost(n, m) PROVE IInv'
  BY <1>5, LostKeeps
<1>6. ASSUME NEW n \in Node, Restart(n) PROVE IInv'
  BY <1>6, RestartKeeps
<1>7. CASE UNCHANGED vars
  BY <1>7, StutterKeeps
<1> QED BY <1>1, <1>2, <1>3, <1>4, <1>5, <1>6, <1>7 DEF Next

LEMMA InvariantImplies == IInv => TypeOK /\ Whole
<1> SUFFICES ASSUME IInv, NEW r \in Recv, NEW s \in Sender,
                    NEW i \in DOMAIN got[r][s]
             PROVE  Complete(s, got[r][s][i])
  BY DEF IInv, Whole, Complete
<1>1. GotOK(s, r) /\ got[r][s] \in Seq(PieceSeq)
  BY DEF IInv, TypeOK
<1>2. DOMAIN got[r][s] = 1 .. Len(got[r][s])
  BY <1>1, LenProperties
<1> QED BY <1>1, <1>2 DEF GotOK

\* Every variable has its type, for any tasks, messages and faults.
THEOREM TypeCorrect ==
  ASSUME InPsid = Recv
  PROVE  Spec => []TypeOK
<1>1. Init => IInv
  BY InitInvariant
<1>2. IInv /\ [Next]_vars => IInv'
  BY NextInvariant
<1>3. IInv => TypeOK
  BY InvariantImplies
<1> QED BY <1>1, <1>2, <1>3, PTL DEF Spec

\* Whatever recvFragMsg() hands to a callback within a psid is one message,
\* whole: for any number of nodes, tasks and destinations, any lengths of
\* messages, any width of the fragment numbers, and however often connections
\* are lost, psids restart and senders end in the middle of a message.
THEOREM MessagesWhole ==
  ASSUME InPsid = Recv
  PROVE  Spec => []Whole
<1>1. Init => IInv
  BY InitInvariant
<1>2. IInv /\ [Next]_vars => IInv'
  BY NextInvariant
<1>3. IInv => Whole
  BY InvariantImplies
<1> QED BY <1>1, <1>2, <1>3, PTL DEF Spec

-----------------------------------------------------------------------------
(***************************************************************************)
(* Buffers are freed.  A message that has begun to arrive but not ended    *)
(* is either still being sent or its sender has broken off.                *)
(***************************************************************************)
MsgOf(b) == b.data[1][1]

Open(s, m) == (m = send[s].msg /\ send[s].part > 1) \/ m \in broken[s]

\* A receiver gets fragments of messages to itself only.
MeantOK(s, r) ==
  LET c == chan[s][r]
  IN  /\ \A i \in 1 .. Len(c) : r \in Dests(s, c[i].msg)
      /\ buf[r][s] # NoBuf => r \in Dests(s, MsgOf(buf[r][s]))

\* What comes last in the line may go on only if its message does.
OpenOK(s, r) ==
  LET c == chan[s][r]
  IN  /\ c = << >> /\ buf[r][s] # NoBuf => Open(s, MsgOf(buf[r][s]))
      /\ c # << >> /\ ~ c[Len(c)].last => Open(s, c[Len(c)].msg)

\* What a new message cuts short in the line is a message that broke off.
ShortOK(s, r) ==
  LET c == chan[s][r]
  IN  /\ \A i \in 1 .. Len(c) :
           i < Len(c) /\ c[i + 1].part = 1 /\ ~ c[i].last => c[i].msg \in broken[s]
      /\ c # << >> /\ c[1].part = 1 /\ buf[r][s] # NoBuf
         => MsgOf(buf[r][s]) \in broken[s]

EndOK(s, r) == MeantOK(s, r) /\ OpenOK(s, r) /\ ShortOK(s, r)

JInv == IInv /\ \A s \in Sender, r \in Recv : EndOK(s, r)

LEMMA InitEnds == Init => JInv
<1> SUFFICES ASSUME Init PROVE JInv
  OBVIOUS
<1>1. ASSUME NEW s \in Sender, NEW r \in Recv PROVE EndOK(s, r)
  <2>1. chan[s][r] = << >> /\ buf[r][s] = NoBuf /\ Len(<< >>) = 0
    BY DEF Init
  <2> QED BY <2>1 DEF EndOK, MeantOK, OpenOK, ShortOK
<1> QED BY <1>1, InitInvariant DEF JInv

\* A buffer that is left is that of the fragment just received, or was left
\* alone by a message of a single fragment.
LEMMA ReceivedMsg ==
  ASSUME NEW s \in Sender, NEW b \in BufType, NEW f,
         Right(s, f), Holds(s, b), Continues(b, f)
  PROVE  LET res == Received(b, f)
         IN  \/ res.buf = NoBuf
             \/ res.buf = b /\ f.last /\ f.part = 1
             \/ MsgOf(res.buf) = f.msg /\ ~ f.last
<1> DEFINE res == Received(b, f)
<1>1. /\ f.msg \in Nat \ {0} /\ f.part \in Nat \ {0} /\ (f.num = 0 <=> f.part = 1)
  BY DEF Right, Frag
<1>2. CASE Single(f)
  <2>1. res.buf = b
    BY <1>2 DEF Received
  <2> QED BY <1>1, <1>2, <2>1 DEF Single
<1>3. CASE ~ Single(f) /\ ~ Expected(b, f)
  <2>1. res.buf = b
    BY <1>3 DEF Received
  <2>2. b = NoBuf
    BY <1>1, <1>3 DEF Expected, Continues
  <2> QED BY <2>1, <2>2
<1>4. CASE ~ Single(f) /\ Expected(b, f) /\ f.last
  BY <1>4 DEF Received
<1>5. CASE ~ Single(f) /\ Expected(b, f) /\ ~ f.last
  <2>1. res.buf = Collect(b, f)
    BY <1>5 DEF Received
  <2>2. Collect(b, f).data = Pieces(f.msg, f.part)
    BY <1>5, CollectPieces
  <2>3. Pieces(f.msg, f.part)[1][1] = f.msg
    BY <1>1 DEF Pieces
  <2> QED BY <1>5, <2>1, <2>2, <2>3 DEF MsgOf
<1> QED BY <1>2, <1>3, <1>4, <1>5

\* A step that leaves alone what a receiver has of a sender.
LEMMA SameEnd ==
  ASSUME TypeOK, NEW s \in Sender, NEW r \in Recv, EndOK(s, r),
         chan'[s][r] = chan[s][r], buf'[r][s] = buf[r][s],
         \A m : r \in Dests(s, m) /\ Open(s, m) => Open(s, m)',
         broken[s] \subseteq broken'[s]
  PROVE  EndOK(s, r)'
<1> DEFINE c == chan[s][r]
           b == buf[r][s]
<1>1. MeantOK(s, r)'
  <2>1. /\ \A i \in 1 .. Len(chan'[s][r]) : r \in Dests(s, chan'[s][r][i].msg)
        /\ buf'[r][s] # NoBuf => r \in Dests(s, MsgOf(buf'[r][s]))
    BY DEF EndOK, MeantOK
  <2> QED BY <2>1 DEF MeantOK, Dests, Remote
<1>2. OpenOK(s, r)'
  <2>1. c = << >> /\ b # NoBuf => Open(s, MsgOf(b))'
    BY DEF EndOK, MeantOK, OpenOK
  <2>2. c # << >> /\ ~ c[Len(c)].last => Open(s, c[Len(c)].msg)'
    <3>1. c # << >> => Len(c) \in 1 .. Len(c)
      <4>1. c \in Seq(Frag)
        BY DEF TypeOK
      <4> HIDE DEF c
      <4> QED BY <4>1, LenProperties, EmptySeq
    <3> QED BY <3>1 DEF EndOK, MeantOK, OpenOK, Open
  <2> QED BY <2>1, <2>2 DEF OpenOK, Open
<1>3. ShortOK(s, r)'
  BY DEF EndOK, ShortOK
<1> QED BY <1>1, <1>2, <1>3 DEF EndOK

\* After a fault nothing is left that could be cut short.
LEMMA CutEnd ==
  ASSUME NEW s, NEW r, chan'[s][r] = << >>, buf'[r][s] = NoBuf
  PROVE  EndOK(s, r)'
<1>1. Len(<< >>) = 0
  OBVIOUS
<1> QED BY <1>1 DEF EndOK, MeantOK, OpenOK, ShortOK

LEMMA SendFragmentEnds ==
  ASSUME JInv, IInv', NEW s \in Sender, SendFragment(s),
         NEW t \in Sender, NEW r \in Recv
  PROVE  EndOK(t, r)'
<1> DEFINE m == send[s].msg
           f == Fragment(s)
           c == chan[s][r]
<1>1. /\ EndOK(t, r) /\ TypeOK /\ TypeOK' /\ buf' = buf /\ broken' = broken
      /\ Sending(s) /\ SendOK(s) /\ m \in Nat \ {0}
  BY SendType DEF JInv, IInv, SendFragment
<1>2. /\ f.msg = m /\ f.part = send[s].part
      /\ f.last = (send[s].part = Current(s).frags)
  BY DEF Fragment
<1>3. /\ send'[s] = AfterFragment(s)
      /\ \A u \in Sender : u # s => send'[u] = send[u]
      /\ chan'[t][r] = IF t = s /\ r \in Dests(s, m) THEN Append(c, f)
                       ELSE chan[t][r]
  BY <1>1 DEF SendFragment, TypeOK
<1>4. ~ f.last => send'[s].msg = m /\ send'[s].part > 1
  <2>1. send[s].part \in Nat \ {0}
    BY <1>1, SendType
  <2>2. send[s] \in [msg : Nat \ {0}, part : Nat \ {0}, num : 0 .. (FragNums - 1)]
    BY <1>1 DEF TypeOK
  <2>3. ~ f.last => /\ send'[s].msg = m
                    /\ send'[s].part = send[s].part + 1
    BY <1>2, <1>3, <2>2 DEF AfterFragment
  <2> QED BY <2>1, <2>3
<1> HIDE DEF f
<1>5. CASE t = s /\ r \in Dests(s, m)
  <2> DEFINE d == Append(c, f)
             b == buf[r][s]
  <2>1. /\ c \in Seq(Frag) /\ f \in Frag /\ d \in Seq(Frag) /\ d # << >>
        /\ Len(c) \in Nat /\ (c = << >> <=> Len(c) = 0)
        /\ Len(d) = Len(c) + 1 /\ d[Len(d)] = f
        /\ \A i \in 1 .. Len(c) : d[i] = c[i]
    <3>1. c \in Seq(Frag) /\ f \in Frag
      <4>1. Right(s, f)
        BY <1>1, FragmentRight DEF f
      <4> QED BY <1>1, <4>1 DEF TypeOK, Right
    <3> HIDE DEF c
    <3> QED BY <3>1, AppendProperties, LenProperties, EmptySeq
  <2>2. /\ chan'[s][r] = d /\ buf'[r][s] = b /\ broken'[s] = broken[s]
    BY <1>1, <1>3, <1>5
  <2>3. /\ MeantOK(s, r) /\ OpenOK(s, r) /\ ShortOK(s, r)
    BY <1>1, <1>5 DEF EndOK
  <2> HIDE DEF d
  <2>4. MeantOK(s, r)'
    <3>1. ASSUME NEW i \in 1 .. Len(d) PROVE r \in Dests(s, d[i].msg)
      <4>1. CASE i \in 1 .. Len(c)
        BY <2>1, <2>3, <4>1 DEF MeantOK
      <4>2. CASE i = Len(d)
        BY <1>2, <1>5, <2>1, <4>2
      <4> QED BY <2>1, <4>1, <4>2
    <3>2. b # NoBuf => r \in Dests(s, MsgOf(b))
      BY <2>3 DEF MeantOK
    <3>3. \A x : Dests(s, x)' = Dests(s, x)
      BY DEF Dests, Remote
    <3> QED BY <2>2, <3>1, <3>2, <3>3 DEF MeantOK
  <2>5. OpenOK(s, r)'
    BY <1>2, <1>4, <2>1, <2>2 DEF OpenOK, Open
  <2>6. ShortOK(s, r)'
    <3>1. ASSUME NEW i \in 1 .. Len(d), i < Len(d), d[i + 1].part = 1, ~ d[i].last
          PROVE  d[i].msg \in broken[s]
      <4>1. i \in 1 .. Len(c) /\ d[i] = c[i]
        BY <2>1, <3>1
      <4>2. CASE i < Len(c)
        <5>1. i + 1 \in 1 .. Len(c)
          BY <2>1, <4>2
        <5> QED BY <2>1, <2>3, <3>1, <4>1, <4>2, <5>1 DEF ShortOK
      <4>3. CASE i = Len(c)
        <5>1. d[i + 1] = f /\ c # << >> /\ ~ c[Len(c)].last
          BY <2>1, <3>1, <4>1, <4>3
        <5>2. Open(s, c[Len(c)].msg) /\ ~ (send[s].part > 1)
          BY <1>2, <2>3, <3>1, <5>1 DEF OpenOK
        <5> QED BY <4>1, <4>3, <5>2 DEF Open
      <4> QED BY <2>1, <4>1, <4>2, <4>3
    <3>2. ASSUME d[1].part = 1, b # NoBuf PROVE MsgOf(b) \in broken[s]
      <4>1. CASE c = << >>
        <5>1. f.part = 1 /\ Open(s, MsgOf(b))
          BY <2>1, <2>3, <3>2, <4>1 DEF OpenOK
        <5> QED BY <1>2, <5>1 DEF Open
      <4>2. CASE c # << >>
        <5>1. d[1] = c[1]
          BY <2>1, <4>2
        <5> QED BY <2>3, <3>2, <4>2, <5>1 DEF ShortOK
      <4> QED BY <4>1, <4>2
    <3> QED BY <2>2, <3>1, <3>2 DEF ShortOK
  <2> QED BY <1>5, <2>4, <2>5, <2>6 DEF EndOK
<1>6. CASE ~ (t = s /\ r \in Dests(s, m))
  <2>1. ASSUME NEW x, r \in Dests(t, x), Open(t, x)
        PROVE  Open(t, x)'
    <3>1. CASE t = s
      <4>1. x # m
        BY <1>6, <2>1, <3>1
      <4> QED BY <1>1, <2>1, <3>1, <4>1 DEF Open
    <3>2. CASE t # s
      BY <1>1, <1>3, <2>1, <3>2 DEF Open
    <3> QED BY <3>1, <3>2
  <2> QED BY <1>1, <1>3, <1>6, <2>1, SameEnd
<1> QED BY <1>5, <1>6

LEMMA ReceiveEnds ==
  ASSUME JInv, NEW s \in Sender, NEW p \in Recv, Receive(s, p),
         NEW t \in Sender, NEW r \in Recv
  PROVE  EndOK(t, r)'
<1> DEFINE c == chan[t][r]
           b == buf[r][t]
           res == Received(b, c[1])
<1>1. /\ EndOK(t, r) /\ TypeOK /\ ChanOK(t, r) /\ BufOK(t, r)
      /\ send' = send /\ broken' = broken
  BY DEF JInv, IInv, Receive
<1>2. CASE t = s /\ r = p
  <2>1. /\ c \in Seq(Frag) /\ c # << >> /\ Len(c) \in Nat \ {0}
        /\ Head(c) = c[1] /\ Len(Tail(c)) = Len(c) - 1
        /\ \A i \in 1 .. Len(Tail(c)) : Tail(c)[i] = c[i + 1]
        /\ Tail(c) = << >> <=> Len(c) = 1
    <3>1. c \in Seq(Frag) /\ c # << >>
      BY <1>2 DEF JInv, IInv, TypeOK, Receive
    <3> HIDE DEF c
    <3>2. /\ Len(c) \in Nat \ {0} /\ Head(c) = c[1] /\ Tail(c) \in Seq(Frag)
          /\ Len(Tail(c)) = Len(c) - 1
          /\ \A i \in 1 .. Len(Tail(c)) : Tail(c)[i] = c[i + 1]
      BY <3>1, HeadTailProperties, LenProperties, EmptySeq
    <3>3. Tail(c) = << >> <=> Len(Tail(c)) = 0
      BY <3>2, EmptySeq
    <3> QED BY <3>1, <3>2, <3>3
  <2>2. chan'[t][r] = Tail(c) /\ buf'[r][t] = res.buf
    <3> HIDE DEF Received
    <3>1. /\ buf' = [buf EXCEPT ![r][t] = Received(buf[r][t], Head(chan[t][r])).buf]
          /\ chan' = [chan EXCEPT ![t][r] = Tail(@)]
      BY <1>2 DEF Receive
    <3> QED BY <1>1, <2>1, <3>1 DEF TypeOK
  <2>3. \/ res.buf = NoBuf
        \/ res.buf = b /\ c[1].last /\ c[1].part = 1
        \/ MsgOf(res.buf) = c[1].msg /\ ~ c[1].last
    <3>1. b \in BufType /\ Right(t, c[1]) /\ Holds(t, b) /\ Continues(b, c[1])
      BY <1>1, <2>1 DEF TypeOK, BufType, ChanOK, BufOK
    <3> HIDE DEF b, c
    <3> QED BY <3>1, ReceivedMsg DEF res
  <2>4. /\ MeantOK(t, r) /\ OpenOK(t, r) /\ ShortOK(t, r)
        /\ \A i \in 1 .. Len(c) : i < Len(c) => Follows(c[i], c[i + 1])
    BY <1>1 DEF EndOK, ChanOK
  <2> HIDE DEF res
  <2>5. MeantOK(t, r)'
    <3>1. ASSUME NEW i \in 1 .. Len(Tail(c)) PROVE r \in Dests(t, Tail(c)[i].msg)
      <4>1. i + 1 \in 1 .. Len(c) /\ Tail(c)[i] = c[i + 1]
        BY <2>1
      <4> QED BY <2>4, <4>1 DEF MeantOK
    <3>2. res.buf # NoBuf => r \in Dests(t, MsgOf(res.buf))
      BY <2>1, <2>3, <2>4 DEF MeantOK
    <3>3. /\ \A i \in 1 .. Len(chan'[t][r]) : r \in Dests(t, chan'[t][r][i].msg)
          /\ buf'[r][t] # NoBuf => r \in Dests(t, MsgOf(buf'[r][t]))
      BY <2>2, <3>1, <3>2
    <3> QED BY <3>3 DEF MeantOK, Dests, Remote
  <2>6. OpenOK(t, r)'
    <3>1. ASSUME Tail(c) = << >>, res.buf # NoBuf PROVE Open(t, MsgOf(res.buf))
      <4>1. Len(c) = 1
        BY <2>1, <3>1
      <4>2. CASE res.buf = b /\ c[1].part = 1
        BY <2>1, <2>4, <3>1, <4>2 DEF ShortOK, Open
      <4>3. CASE MsgOf(res.buf) = c[1].msg /\ ~ c[1].last
        BY <2>1, <2>4, <4>1, <4>3 DEF OpenOK
      <4> QED BY <2>3, <3>1, <4>2, <4>3
    <3>2. Tail(c) # << >> => Tail(c)[Len(Tail(c))] = c[Len(c)]
      BY <2>1
    <3> QED BY <1>1, <2>1, <2>2, <2>4, <3>1, <3>2 DEF OpenOK, Open
  <2>7. ShortOK(t, r)'
    <3>1. ASSUME NEW i \in 1 .. Len(Tail(c)), i < Len(Tail(c)),
                 Tail(c)[i + 1].part = 1, ~ Tail(c)[i].last
          PROVE  Tail(c)[i].msg \in broken[t]
      <4>1. /\ i + 1 \in 1 .. Len(c) /\ i + 1 < Len(c)
            /\ i + 1 \in 1 .. Len(Tail(c))
        BY <2>1, <3>1
      <4>2. Tail(c)[i] = c[i + 1] /\ Tail(c)[i + 1] = c[(i + 1) + 1]
        BY <2>1, <4>1
      <4> QED BY <2>4, <3>1, <4>1, <4>2 DEF ShortOK
    <3>2. ASSUME Tail(c) # << >>, Tail(c)[1].part = 1, res.buf # NoBuf
          PROVE  MsgOf(res.buf) \in broken[t]
      <4>1. /\ 1 \in 1 .. Len(c) /\ 1 < Len(c) /\ 1 \in 1 .. Len(Tail(c))
            /\ 1 + 1 = 2 /\ Tail(c)[1] = c[2]
        BY <2>1, <3>2
      <4>2. CASE res.buf = b /\ c[1].part = 1
        BY <2>1, <2>4, <3>2, <4>2 DEF ShortOK
      <4>3. CASE MsgOf(res.buf) = c[1].msg /\ ~ c[1].last
        BY <2>4, <3>2, <4>1, <4>3 DEF ShortOK
      <4> QED BY <2>3, <3>2, <4>2, <4>3
    <3> QED BY <1>1, <2>2, <3>1, <3>2 DEF ShortOK
  <2> QED BY <2>5, <2>6, <2>7 DEF EndOK
<1>3. CASE ~ (t = s /\ r = p)
  <2>1. chan'[t][r] = chan[t][r] /\ buf'[r][t] = buf[r][t]
    BY <1>1, <1>3 DEF Receive, TypeOK
  <2>2. \A m : Open(t, m) => Open(t, m)'
    BY <1>1 DEF Open
  <2> QED BY <1>1, <2>1, <2>2, SameEnd
<1> QED BY <1>2, <1>3

LEMMA DieEnds ==
  ASSUME JInv, NEW s \in Sender, Die(s), NEW t \in Sender, NEW r \in Recv
  PROVE  EndOK(t, r)'
<1>1. /\ EndOK(t, r) /\ TypeOK /\ chan' = chan /\ buf' = buf
      /\ send' = [send EXCEPT ![s] = Ended(s)]
      /\ broken' = [broken EXCEPT ![s] = @ \cup {send[s].msg}]
  BY DEF JInv, IInv, Die
<1>2. broken[t] \subseteq broken'[t]
  BY <1>1 DEF TypeOK
<1>3. \A m : Open(t, m) => Open(t, m)'
  <2>1. CASE t = s
    <3>1. broken'[t] = broken[t] \cup {send[t].msg}
      BY <1>1, <2>1 DEF TypeOK
    <3> QED BY <3>1 DEF Open
  <2>2. CASE t # s
    BY <1>1, <1>2, <2>2 DEF Open, TypeOK
  <2> QED BY <2>1, <2>2
<1> QED BY <1>1, <1>2, <1>3, SameEnd

LEMMA ConnectEnds ==
  ASSUME JInv, NEW n \in Node, NEW m \in Node, Connect(n, m),
         NEW t \in Sender, NEW r \in Recv
  PROVE  EndOK(t, r)'
<1>1. /\ EndOK(t, r) /\ TypeOK /\ chan' = chan /\ buf' = buf
      /\ send' = send /\ broken' = broken
  BY DEF JInv, IInv, Connect
<1>2. \A x : Open(t, x) => Open(t, x)'
  BY <1>1 DEF Open
<1> QED BY <1>1, <1>2, SameEnd

LEMMA LostEnds ==
  ASSUME InPsid = Recv, JInv, NEW n \in Node, NEW m \in Node, Lost(n, m),
         NEW t \in Sender, NEW r \in Recv
  PROVE  EndOK(t, r)'
<1> DEFINE Across == Remote(t, r) /\ {Home[t], Home[r]} = {n, m}
<1>1. /\ EndOK(t, r) /\ TypeOK /\ BufOK(t, r) /\ send' = send /\ broken' = broken
      /\ chan'[t][r] = IF Across THEN << >> ELSE chan[t][r]
      /\ buf'[r][t] = IF Across THEN nodeDownHandler(r, t) ELSE buf[r][t]
  BY DEF JInv, IInv, Lost
<1>2. CASE Across
  <2>1. chan'[t][r] = << >> /\ buf'[r][t] = NoBuf
    BY <1>1, <1>2, HookFrees
  <2> QED BY <2>1, CutEnd
<1>3. CASE ~ Across
  <2>1. \A x : Open(t, x) => Open(t, x)'
    BY <1>1 DEF Open
  <2> QED BY <1>1, <1>3, <2>1, SameEnd
<1> QED BY <1>2, <1>3

LEMMA RestartEnds ==
  ASSUME InPsid = Recv, JInv, NEW n \in Node, Restart(n),
         NEW t \in Sender, NEW r \in Recv
  PROVE  EndOK(t, r)'
<1> DEFINE Ends == Home[t] = n /\ Sending(t) /\ send[t].part > 1
<1>1. /\ EndOK(t, r) /\ TypeOK /\ BufOK(t, r)
      /\ send'[t] = IF Ends THEN Ended(t) ELSE send[t]
      /\ broken'[t] = IF Ends THEN broken[t] \cup {send[t].msg} ELSE broken[t]
      /\ chan'[t][r] = IF n \in {Home[t], Home[r]} THEN << >> ELSE chan[t][r]
      /\ buf'[r][t] = IF Home[r] = n THEN NoBuf
                      ELSE IF Home[t] = n THEN nodeDownHandler(r, t)
                      ELSE buf[r][t]
  BY DEF JInv, IInv, Restart
<1>2. CASE n \in {Home[t], Home[r]}
  <2>1. buf'[r][t] = NoBuf
    <3>1. CASE Home[r] = n
      BY <1>1, <3>1
    <3>2. CASE Home[r] # n
      <4>1. Remote(t, r) /\ Home[t] = n
        BY <1>2, <3>2 DEF Remote
      <4> QED BY <1>1, <3>2, <4>1, HookFrees
    <3> QED BY <3>1, <3>2
  <2> QED BY <1>1, <1>2, <2>1, CutEnd
<1>3. CASE n \notin {Home[t], Home[r]}
  <2>1. /\ chan'[t][r] = chan[t][r] /\ buf'[r][t] = buf[r][t]
        /\ send'[t] = send[t] /\ broken'[t] = broken[t]
    BY <1>1, <1>3
  <2>2. \A x : Open(t, x) => Open(t, x)'
    BY <2>1 DEF Open
  <2> QED BY <1>1, <2>1, <2>2, SameEnd
<1> QED BY <1>2, <1>3

LEMMA NextEnds ==
  ASSUME InPsid = Recv
  PROVE  JInv /\ [Next]_vars => JInv'
<1> SUFFICES ASSUME JInv, [Next]_vars PROVE JInv'
  OBVIOUS
<1>1. IInv'
  BY NextInvariant DEF JInv
<1> SUFFICES ASSUME NEW t \in Sender, NEW r \in Recv PROVE EndOK(t, r)'
  BY <1>1 DEF JInv
<1>2. ASSUME NEW s \in Sender, SendFragment(s) PROVE EndOK(t, r)'
  BY <1>1, <1>2, SendFragmentEnds
<1>3. ASSUME NEW s \in Sender, Die(s) PROVE EndOK(t, r)'
  BY <1>3, DieEnds
<1>4. ASSUME NEW s \in Sender, NEW p \in Recv, Receive(s, p) PROVE EndOK(t, r)'
  BY <1>4, ReceiveEnds
<1>5. ASSUME NEW n \in Node, NEW m \in Node, Connect(n, m) PROVE EndOK(t, r)'
  BY <1>5, ConnectEnds
<1>6. ASSUME NEW n \in Node, NEW m \in Node, Lost(n, m) PROVE EndOK(t, r)'
  BY <1>6, LostEnds
<1>7. ASSUME NEW n \in Node, Restart(n) PROVE EndOK(t, r)'
  BY <1>7, RestartEnds
<1>8. CASE UNCHANGED vars
  <2>1. /\ EndOK(t, r) /\ TypeOK /\ chan' = chan /\ buf' = buf
        /\ send' = send /\ broken' = broken
    BY <1>8 DEF JInv, IInv, vars
  <2>2. \A x : Open(t, x) => Open(t, x)'
    BY <2>1 DEF Open
  <2> QED BY <2>1, <2>2, SameEnd
<1> QED BY <1>2, <1>3, <1>4, <1>5, <1>6, <1>7, <1>8 DEF Next

LEMMA EndsImply == JInv => BuffersFreed
BY DEF JInv, EndOK, OpenOK, Open, MsgOf, BuffersFreed

\* A recvBuf that is left while nothing is under way belongs to a message that
\* is still being sent or whose sender has ended in the middle of it.
THEOREM BuffersAreFreed ==
  ASSUME InPsid = Recv
  PROVE  Spec => []BuffersFreed
<1>1. Init => JInv
  BY InitEnds
<1>2. JInv /\ [Next]_vars => JInv'
  BY NextEnds
<1>3. JInv => BuffersFreed
  BY EndsImply
<1> QED BY <1>1, <1>2, <1>3, PTL DEF Spec

-----------------------------------------------------------------------------
(***************************************************************************)
(* What is sent in fragments arrives once and in order.                    *)
(*                                                                         *)
(* What the callback has got, what the buffer holds, the fragments on      *)
(* their way and the one about to be sent are in the order in which the    *)
(* sender composed them.  As long as no fault struck a message, all of it  *)
(* that has been sent is in the buffer or on its way; so whenever a        *)
(* fragment is dropped or a buffer overwritten, the message was given up.  *)
(***************************************************************************)

\* f precedes g in what a sender composes; both are places in its messages.
Before(f, g) == f.msg < g.msg \/ (f.msg = g.msg /\ f.part < g.part)

Place(m, k) == [msg |-> m, part |-> k]

\* The fragments c, and behind them the place x where the sender stands.
ChanSorted(c, x) ==
  \A i \in 1 .. Len(c) :
    /\ Before(c[i], x)
    /\ \A j \in 1 .. Len(c) : i < j => Before(c[i], c[j])

\* The buffer b is ahead of them.
BufSorted(b, c, x) ==
  \A m, k \in Nat \ {0} : b.data = Pieces(m, k) =>
    /\ Before(Place(m, k), x)
    /\ \A i \in 1 .. Len(c) : Before(Place(m, k), c[i])

\* So are the messages g the callback has got.
GotSorted(g, c, x) ==
  \A i \in 1 .. Len(g) :
    /\ g[i][1][1] < x.msg
    /\ \A j \in 1 .. Len(c) : g[i][1][1] < c[j].msg
    /\ \A j \in 1 .. Len(g) : i < j => g[i][1][1] < g[j][1][1]

Sorted(c, x, b, g) == ChanSorted(c, x) /\ BufSorted(b, c, x) /\ GotSorted(g, c, x)

\* The number of fragments of message m that s, at place x, has sent.
Sent(s, m, x) ==
  IF m < x.msg THEN Script[s][m].frags ELSE IF m = x.msg THEN x.part - 1 ELSE 0

\* Part p of message m is on its way, or in the buffer.
Present(c, b, m, p) ==
  \/ \E i \in 1 .. Len(c) : c[i].msg = m /\ c[i].part = p
  \/ \E k \in Nat \ {0} : p <= k /\ b.data = Pieces(m, k)

Has(g, m) == \E i \in 1 .. Len(g) : g[i][1][1] = m

\* Of a message that no fault has struck nothing is missing.
Complies(s, r, c, x, b, g, gone) ==
  \A m \in DOMAIN Script[s] :
    (r \in Dests(s, m) /\ m \notin gone /\ ~ Has(g, m))
    => \A p \in 1 .. Sent(s, m, x) : Present(c, b, m, p)

LineOK(s, r) ==
  /\ Sorted(chan[s][r], send[s], buf[r][s], got[r][s])
  /\ Complies(s, r, chan[s][r], send[s], buf[r][s], got[r][s],
              spoiled[s][r] \cup broken[s])

DInv == IInv /\ \A s \in Sender, r \in Recv : LineOK(s, r)

-----------------------------------------------------------------------------
(* The order of places.                                                    *)

\* A place in what a sender composes.
Somewhere(f) == f.msg \in Nat \ {0} /\ f.part \in Nat \ {0}

LEMMA BeforeTransitive ==
  ASSUME NEW f, NEW g, NEW h, Somewhere(f), Somewhere(g), Somewhere(h),
         Before(f, g), Before(g, h)
  PROVE  Before(f, h)
BY DEF Before, Somewhere

\* The pieces of a message tell which ones they are.
LEMMA PiecesDiffer ==
  ASSUME NEW m \in Nat \ {0}, NEW k \in Nat \ {0}
  PROVE  /\ Pieces(m, k)[1][1] = m
         /\ Pieces(m, k) # NoBuf.data
         /\ \A n, l \in Nat \ {0} : Pieces(m, k) = Pieces(n, l) => m = n /\ k = l
<1>1. ASSUME NEW n \in Nat \ {0}, NEW l \in Nat \ {0}
      PROVE  Pieces(n, l)[1] = <<n, 1>> /\ Len(Pieces(n, l)) = l
  <2>1. 1 \in 1 .. l
    OBVIOUS
  <2>2. Pieces(n, l)[1] = <<n, 1>>
    BY <2>1 DEF Pieces
  <2> QED BY <2>2, PiecesType
<1>2. Len(NoBuf.data) = 0
  BY DEF NoBuf
<1>3. \A n, l \in Nat \ {0} : Pieces(n, l)[1][1] = n
  BY <1>1
<1> QED BY <1>1, <1>2, <1>3

\* What the lemmas below use of a sender and a receiver.
PairFacts(s, r) ==
  /\ chan[s][r] \in Seq(Frag) /\ Len(chan[s][r]) \in Nat
  /\ got[r][s] \in Seq(PieceSeq) /\ Len(got[r][s]) \in Nat
  /\ DOMAIN got[r][s] = 1 .. Len(got[r][s])
  /\ buf[r][s] \in BufType
  /\ Somewhere(send[s]) /\ send[s].msg \in Nat /\ send[s].part \in Nat
  /\ \A i \in 1 .. Len(chan[s][r]) :
       Right(s, chan[s][r][i]) /\ Somewhere(chan[s][r][i])
  /\ send[s].msg \in DOMAIN Script[s]
       => send[s].part \in 1 .. Script[s][send[s].msg].frags
  /\ \A i \in 1 .. Len(got[r][s]) : Complete(s, got[r][s][i])

LEMMA PairType ==
  ASSUME IInv, NEW s \in Sender, NEW r \in Recv
  PROVE  PairFacts(s, r)
<1>1. TypeOK /\ SendOK(s) /\ ChanOK(s, r) /\ BufOK(s, r) /\ GotOK(s, r)
  BY DEF IInv
<1>2. /\ chan[s][r] \in Seq(Frag) /\ got[r][s] \in Seq(PieceSeq)
      /\ buf[r][s] \in BufType
  BY <1>1 DEF TypeOK, BufType
<1>3. /\ Len(chan[s][r]) \in Nat /\ Len(got[r][s]) \in Nat
      /\ DOMAIN got[r][s] = 1 .. Len(got[r][s])
  BY <1>2, LenProperties
<1>4. Somewhere(send[s]) /\ send[s].msg \in Nat /\ send[s].part \in Nat
  BY <1>1, SendType DEF Somewhere
<1>5. \A i \in 1 .. Len(chan[s][r]) :
        Right(s, chan[s][r][i]) /\ Somewhere(chan[s][r][i])
  BY <1>1 DEF ChanOK, Right, Frag, Somewhere
<1>6. send[s].msg \in DOMAIN Script[s]
        => send[s].part \in 1 .. Script[s][send[s].msg].frags
  BY <1>1, <1>4, ScriptType DEF SendOK, Sending, Current
<1> QED BY <1>1, <1>2, <1>3, <1>4, <1>5, <1>6 DEF PairFacts, GotOK

LEMMA SentType ==
  ASSUME NEW s \in Sender, NEW m \in DOMAIN Script[s], NEW x, Somewhere(x)
  PROVE  Sent(s, m, x) \in Nat /\ m \in Nat \ {0}
<1>1. m \in Nat \ {0} /\ Script[s][m].frags \in Nat \ {0}
  BY ScriptType
<1> QED BY <1>1 DEF Sent, Somewhere

-----------------------------------------------------------------------------
(* A sender goes on.                                                       *)

\* The place of the sender moves on, nothing is sent to this receiver.
LEMMA SortedMoves ==
  ASSUME NEW s \in Sender, NEW r \in Recv, PairFacts(s, r), LineOK(s, r),
         NEW y, Somewhere(y), Before(send[s], y)
  PROVE  Sorted(chan[s][r], y, buf[r][s], got[r][s])
<1> DEFINE c == chan[s][r]
           x == send[s]
           b == buf[r][s]
           g == got[r][s]
<1>1. /\ ChanSorted(c, x) /\ BufSorted(b, c, x) /\ GotSorted(g, c, x)
      /\ Somewhere(x) /\ \A i \in 1 .. Len(c) : Somewhere(c[i])
  BY DEF LineOK, Sorted, PairFacts
<1>2. GotSorted(g, c, y)
  <2>1. x.msg \in Nat /\ y.msg \in Nat /\ x.msg <= y.msg
    BY <1>1 DEF Before, Somewhere
  <2>2. ASSUME NEW i \in 1 .. Len(g) PROVE g[i][1][1] < y.msg
    <3>1. PICK m \in DOMAIN Script[s] : g[i] = Pieces(m, Script[s][m].frags)
      BY DEF PairFacts, Complete
    <3>2. g[i][1][1] = m /\ m \in Nat
      <4>1. m \in Nat \ {0} /\ Script[s][m].frags \in Nat \ {0}
        BY ScriptType
      <4>2. Pieces(m, Script[s][m].frags)[1][1] = m
        BY <4>1, PiecesDiffer
      <4> HIDE DEF g
      <4> QED BY <3>1, <4>1, <4>2
    <3>3. g[i][1][1] < x.msg
      BY <1>1 DEF GotSorted
    <3> QED BY <2>1, <3>2, <3>3
  <2> QED BY <1>1, <2>2 DEF GotSorted
<1>3. \A m, k \in Nat \ {0} : Somewhere(Place(m, k))
  BY DEF Place, Somewhere
<1> HIDE DEF c, x, b, g
<1>4. ChanSorted(c, y)
  BY <1>1, BeforeTransitive DEF ChanSorted, x
<1>5. BufSorted(b, c, y)
  BY <1>1, <1>3, BeforeTransitive DEF BufSorted, x
<1> QED BY <1>2, <1>4, <1>5 DEF Sorted, c, b, g

\* A fragment f is sent to this receiver.
LEMMA SortedAppends ==
  ASSUME NEW s \in Sender, NEW r \in Recv, PairFacts(s, r), LineOK(s, r),
         NEW y, Somewhere(y), Before(send[s], y),
         NEW f \in Frag, f.msg = send[s].msg, f.part = send[s].part
  PROVE  Sorted(Append(chan[s][r], f), y, buf[r][s], got[r][s])
<1> DEFINE c == chan[s][r]
           x == send[s]
           b == buf[r][s]
           g == got[r][s]
           d == Append(c, f)
<1>1. Sorted(c, x, b, g) /\ Sorted(c, y, b, g)
  BY SortedMoves DEF LineOK
<1>2. /\ Len(d) = Len(c) + 1 /\ Len(c) \in Nat /\ d[Len(c) + 1] = f
      /\ \A i \in 1 .. Len(c) : d[i] = c[i]
  BY AppendProperties DEF PairFacts
<1>3. \A h : Before(h, x) <=> Before(h, f)
  BY DEF Before
<1>4. Before(f, y)
  BY DEF Before
<1> HIDE DEF c, x, b, g, d
<1>5. ASSUME NEW i \in 1 .. Len(d)
      PROVE  i \in 1 .. Len(c) \/ (i = Len(c) + 1 /\ d[i] = f)
  BY <1>2
<1>6. ChanSorted(d, y)
  <2>1. ChanSorted(c, x) /\ ChanSorted(c, y)
    BY <1>1 DEF Sorted
  <2>2. \A i \in 1 .. Len(d) : Before(d[i], y)
    BY <1>2, <1>4, <1>5, <2>1 DEF ChanSorted
  <2>3. ASSUME NEW i \in 1 .. Len(d), NEW j \in 1 .. Len(d), i < j
        PROVE  Before(d[i], d[j])
    <3>1. i \in 1 .. Len(c)
      BY <1>2, <2>3
    <3>2. CASE j \in 1 .. Len(c)
      BY <1>2, <2>1, <2>3, <3>1, <3>2 DEF ChanSorted
    <3>3. CASE d[j] = f
      BY <1>2, <1>3, <2>1, <3>1, <3>3 DEF ChanSorted
    <3> QED BY <1>5, <3>2, <3>3
  <2> QED BY <2>2, <2>3 DEF ChanSorted
<1>7. BufSorted(b, d, y)
  <2>1. BufSorted(b, c, x) /\ BufSorted(b, c, y)
    BY <1>1 DEF Sorted
  <2> QED BY <1>2, <1>3, <1>5, <2>1 DEF BufSorted
<1>8. GotSorted(g, d, y)
  <2>1. GotSorted(g, c, x) /\ GotSorted(g, c, y)
    BY <1>1 DEF Sorted
  <2>2. x.msg = f.msg
    BY DEF x
  <2> QED BY <1>2, <1>5, <2>1, <2>2 DEF GotSorted
<1>9. Sorted(d, y, b, g)
  BY <1>6, <1>7, <1>8 DEF Sorted
<1> QED BY <1>9 DEF d, c, b, g

-----------------------------------------------------------------------------
(* Of a message that no fault has struck nothing is missing.               *)

\* The next place after x: the next part, or the next message.
Steps(x, y) ==
  \/ y.msg = x.msg /\ y.part = x.part + 1
  \/ y.msg = x.msg + 1 /\ y.part = 1

LEMMA StepsBefore ==
  ASSUME NEW x, NEW y, Somewhere(x), Steps(x, y)
  PROVE  Somewhere(y) /\ Before(x, y)
BY DEF Somewhere, Steps, Before

LEMMA SentSteps ==
  ASSUME NEW s \in Sender, NEW m \in DOMAIN Script[s],
         NEW x, NEW y, Somewhere(x), Steps(x, y)
  PROVE  /\ m # x.msg => Sent(s, m, y) = Sent(s, m, x)
         /\ m = x.msg => Sent(s, m, x) = x.part - 1
         /\ m = x.msg /\ y.msg = x.msg => Sent(s, m, y) = x.part
         /\ m = x.msg /\ y.msg # x.msg => Sent(s, m, y) = Script[s][m].frags
<1>1. m \in Nat /\ x.msg \in Nat /\ x.part \in Nat
  BY ScriptType DEF Somewhere
<1> QED BY <1>1 DEF Sent, Steps

\* The sender goes on, without a fragment for this receiver.
LEMMA CompliesMoves ==
  ASSUME NEW s \in Sender, NEW r \in Recv, PairFacts(s, r), LineOK(s, r),
         NEW y, Steps(send[s], y), NEW gone,
         spoiled[s][r] \cup broken[s] \subseteq gone,
         r \notin Dests(s, send[s].msg) \/ send[s].msg \in gone
  PROVE  Complies(s, r, chan[s][r], y, buf[r][s], got[r][s], gone)
<1> DEFINE c == chan[s][r]
           b == buf[r][s]
           g == got[r][s]
<1>1. Complies(s, r, c, send[s], b, g, spoiled[s][r] \cup broken[s])
  BY DEF LineOK
<1> SUFFICES ASSUME NEW m \in DOMAIN Script[s],
                    r \in Dests(s, m), m \notin gone, ~ Has(g, m),
                    NEW p \in 1 .. Sent(s, m, y)
             PROVE  Present(c, b, m, p)
  BY DEF Complies
<1>2. m # send[s].msg
  OBVIOUS
<1>3. Sent(s, m, y) = Sent(s, m, send[s])
  BY <1>2, SentSteps DEF PairFacts
<1> QED BY <1>1, <1>3 DEF Complies

\* The fragment f for this receiver is the next one of its message.
LEMMA CompliesAppends ==
  ASSUME NEW s \in Sender, NEW r \in Recv, PairFacts(s, r), LineOK(s, r),
         NEW y, Steps(send[s], y),
         y.msg # send[s].msg => send[s].part = Script[s][send[s].msg].frags,
         NEW f \in Frag, f.msg = send[s].msg, f.part = send[s].part
  PROVE  Complies(s, r, Append(chan[s][r], f), y, buf[r][s], got[r][s],
                  spoiled[s][r] \cup broken[s])
<1> DEFINE c == chan[s][r]
           b == buf[r][s]
           g == got[r][s]
           d == Append(c, f)
           gone == spoiled[s][r] \cup broken[s]
<1>1. Complies(s, r, c, send[s], b, g, gone)
  BY DEF LineOK
<1>2. /\ Len(d) = Len(c) + 1 /\ Len(c) \in Nat /\ d[Len(c) + 1] = f
      /\ \A i \in 1 .. Len(c) : d[i] = c[i]
  BY AppendProperties DEF PairFacts
<1> SUFFICES ASSUME NEW m \in DOMAIN Script[s],
                    r \in Dests(s, m), m \notin gone, ~ Has(g, m),
                    NEW p \in 1 .. Sent(s, m, y)
             PROVE  Present(d, b, m, p)
  BY DEF Complies
<1> HIDE DEF d
<1>3. p \in 1 .. Sent(s, m, send[s]) \/ (m = f.msg /\ p = f.part)
  <2>1. CASE m # send[s].msg
    BY <2>1, SentSteps DEF PairFacts
  <2>2. CASE m = send[s].msg
    <3>1. /\ Sent(s, m, send[s]) = send[s].part - 1 /\ Sent(s, m, y) = send[s].part
          /\ send[s].part \in Nat
      BY <2>2, SentSteps DEF PairFacts, Somewhere
    <3> QED BY <2>2, <3>1
  <2> QED BY <2>1, <2>2
<1>4. CASE p \in 1 .. Sent(s, m, send[s])
  <2>1. Present(c, b, m, p)
    BY <1>1, <1>4 DEF Complies
  <2>2. \A i \in 1 .. Len(c) : i \in 1 .. Len(d)
    BY <1>2
  <2> HIDE DEF c, b
  <2> QED BY <1>2, <2>1, <2>2 DEF Present
<1>5. CASE m = f.msg /\ p = f.part
  <2>1. Len(c) + 1 \in 1 .. Len(d)
    BY <1>2
  <2> HIDE DEF c, b
  <2> QED BY <1>2, <1>5, <2>1 DEF Present
<1> QED BY <1>3, <1>4, <1>5

LEMMA SameLine ==
  ASSUME NEW s, NEW r, LineOK(s, r), send'[s] = send[s],
         chan'[s][r] = chan[s][r], buf'[r][s] = buf[r][s],
         got'[r][s] = got[r][s], spoiled'[s][r] = spoiled[s][r],
         broken'[s] = broken[s]
  PROVE  LineOK(s, r)'
BY DEF LineOK, Complies, Dests, Remote

\* What a step makes of the line.
LEMMA LineBecomes ==
  ASSUME NEW s, NEW r, NEW c, NEW x, NEW b, NEW g, NEW gone,
         chan'[s][r] = c, send'[s] = x, buf'[r][s] = b, got'[r][s] = g,
         spoiled'[s][r] \cup broken'[s] = gone,
         Sorted(c, x, b, g), Complies(s, r, c, x, b, g, gone)
  PROVE  LineOK(s, r)'
BY DEF LineOK

LEMMA SendFragmentLine ==
  ASSUME DInv, NEW s \in Sender, SendFragment(s), NEW t \in Sender, NEW r \in Recv
  PROVE  LineOK(t, r)'
<1> DEFINE m == send[s].msg
           f == Fragment(s)
           x == send[s]
           y == AfterFragment(s)
<1>1. /\ LineOK(t, r) /\ LineOK(s, r) /\ PairFacts(s, r) /\ IInv /\ TypeOK
      /\ SendOK(s) /\ Sending(s)
  BY PairType DEF DInv, IInv, SendFragment
<1>2. /\ send'[s] = y /\ (t # s => send'[t] = send[t])
      /\ buf' = buf /\ got' = got /\ spoiled' = spoiled /\ broken' = broken
      /\ chan'[s][r] = IF r \in Dests(s, m) THEN Append(chan[s][r], f)
                       ELSE chan[s][r]
      /\ t # s => chan'[t][r] = chan[t][r]
  BY <1>1 DEF SendFragment, TypeOK
<1>3. /\ Steps(x, y) /\ Somewhere(x)
      /\ y.msg # x.msg => x.part = Script[s][x.msg].frags
  <2>1. /\ x.msg \in Nat \ {0} /\ x.part \in Nat \ {0}
        /\ x = [msg |-> x.msg, part |-> x.part, num |-> x.num]
    BY <1>1, SendType
  <2>2. CASE x.part = Current(s).frags
    BY <2>1, <2>2 DEF AfterFragment, Fresh, Steps, Current, Somewhere
  <2>3. CASE x.part # Current(s).frags
    <3>1. y.msg = x.msg /\ y.part = x.part + 1
      BY <2>1, <2>3 DEF AfterFragment
    <3> QED BY <2>1, <3>1 DEF Steps, Somewhere
  <2> QED BY <2>2, <2>3
<1>4. Somewhere(y) /\ Before(x, y)
  BY <1>3, StepsBefore
<1>5. f \in Frag /\ f.msg = x.msg /\ f.part = x.part
  BY <1>1, FragmentRight DEF Right, Fragment
<1> HIDE DEF y, f
<1>6. CASE t = s /\ r \in Dests(s, m)
  <2>1. Sorted(Append(chan[s][r], f), y, buf[r][s], got[r][s])
    BY <1>1, <1>4, <1>5, SortedAppends
  <2>2. Complies(s, r, Append(chan[s][r], f), y, buf[r][s], got[r][s],
                 spoiled[s][r] \cup broken[s])
    BY <1>1, <1>3, <1>5, CompliesAppends
  <2>3. /\ send'[s] = y /\ chan'[s][r] = Append(chan[s][r], f)
        /\ buf'[r][s] = buf[r][s] /\ got'[r][s] = got[r][s]
        /\ spoiled'[s][r] \cup broken'[s] = spoiled[s][r] \cup broken[s]
    BY <1>2, <1>6
  <2> QED BY <1>6, <2>1, <2>2, <2>3, LineBecomes
<1>7. CASE t = s /\ r \notin Dests(s, m)
  <2>1. Sorted(chan[s][r], y, buf[r][s], got[r][s])
    BY <1>1, <1>4, SortedMoves
  <2>2. Complies(s, r, chan[s][r], y, buf[r][s], got[r][s],
                 spoiled[s][r] \cup broken[s])
    BY <1>1, <1>3, <1>7, CompliesMoves
  <2>3. /\ send'[s] = y /\ chan'[s][r] = chan[s][r]
        /\ buf'[r][s] = buf[r][s] /\ got'[r][s] = got[r][s]
        /\ spoiled'[s][r] \cup broken'[s] = spoiled[s][r] \cup broken[s]
    BY <1>2, <1>7
  <2> QED BY <1>7, <2>1, <2>2, <2>3, LineBecomes
<1>8. CASE t # s
  BY <1>1, <1>2, <1>8, SameLine
<1> QED BY <1>6, <1>7, <1>8

\* A sender that ends in the middle of a message.
LEMMA EndedLine ==
  ASSUME IInv, NEW s \in Sender, NEW r \in Recv, LineOK(s, r),
         send'[s] = Ended(s), chan'[s][r] = chan[s][r], buf'[r][s] = buf[r][s],
         got'[r][s] = got[r][s], spoiled'[s][r] = spoiled[s][r],
         broken'[s] = broken[s] \cup {send[s].msg}
  PROVE  LineOK(s, r)'
<1> DEFINE y == Ended(s)
           gone == spoiled[s][r] \cup (broken[s] \cup {send[s].msg})
<1>1. PairFacts(s, r)
  BY PairType
<1>2. Steps(send[s], y)
  BY DEF Ended, Fresh, Steps
<1>3. Somewhere(y) /\ Before(send[s], y)
  BY <1>1, <1>2, StepsBefore DEF PairFacts
<1> HIDE DEF y
<1>4. Sorted(chan[s][r], y, buf[r][s], got[r][s])
  BY <1>1, <1>3, SortedMoves
<1>5. Complies(s, r, chan[s][r], y, buf[r][s], got[r][s], gone)
  BY <1>1, <1>2, CompliesMoves
<1> QED BY <1>4, <1>5 DEF LineOK, Complies, Dests, Remote, y

LEMMA DieLine ==
  ASSUME DInv, NEW s \in Sender, Die(s), NEW t \in Sender, NEW r \in Recv
  PROVE  LineOK(t, r)'
<1>1. IInv /\ TypeOK /\ LineOK(t, r)
  BY DEF DInv, IInv
<1>2. /\ chan' = chan /\ buf' = buf /\ got' = got /\ spoiled' = spoiled
      /\ send' = [send EXCEPT ![s] = Ended(s)]
      /\ broken' = [broken EXCEPT ![s] = @ \cup {send[s].msg}]
  BY DEF Die
<1>3. CASE t = s
  <2>1. send'[s] = Ended(s) /\ broken'[s] = broken[s] \cup {send[s].msg}
    BY <1>1, <1>2 DEF TypeOK
  <2> QED BY <1>1, <1>2, <1>3, <2>1, EndedLine
<1>4. CASE t # s
  <2>1. send'[t] = send[t] /\ broken'[t] = broken[t]
    BY <1>1, <1>2, <1>4 DEF TypeOK
  <2> QED BY <1>1, <1>2, <2>1, SameLine
<1> QED BY <1>3, <1>4

-----------------------------------------------------------------------------
(* A fragment is received.                                                 *)

\* recvFragMsg() drops a fragment, hands over a message of a single one,
\* completes a message, or keeps the fragment.
Dropped(b, f, res) ==
  /\ f.part # 1 /\ ~ Expected(b, f) /\ res.buf = b /\ res.out = << >>

Alone(b, f, res) ==
  f.part = 1 /\ f.last /\ res.buf = b /\ res.out = <<Pieces(f.msg, f.part)>>

Completed(b, f, res) ==
  /\ b.data = Pieces(f.msg, f.part - 1) /\ f.part # 1 /\ f.last
  /\ res.buf = NoBuf /\ res.out = <<Pieces(f.msg, f.part)>>

Stored(b, f, res) ==
  /\ f.part = 1 \/ b.data = Pieces(f.msg, f.part - 1)
  /\ ~ f.last /\ res.buf.data = Pieces(f.msg, f.part) /\ res.out = << >>

LEMMA ReceivedCases ==
  ASSUME NEW s \in Sender, NEW b \in BufType, NEW f,
         Right(s, f), Continues(b, f)
  PROVE  LET res == Received(b, f)
         IN  \/ Dropped(b, f, res) \/ Alone(b, f, res)
             \/ Completed(b, f, res) \/ Stored(b, f, res)
<1> DEFINE res == Received(b, f)
<1>1. /\ f.msg \in Nat \ {0} /\ f.part \in Nat \ {0} /\ f.last \in BOOLEAN
      /\ f.num \in 0 .. (FragNums - 1) /\ (f.num = 0 <=> f.part = 1)
  BY DEF Right, Frag
<1>2. CASE Single(f)
  <2>1. f.part = 1 /\ f.last
    BY <1>1, <1>2 DEF Single
  <2>2. res = [buf |-> b, out |-> <<<<Piece(f)>>>>]
    BY <1>2 DEF Received
  <2>3. <<Piece(f)>> = Pieces(f.msg, f.part)
    BY <1>1, <2>1, PiecesOne DEF Piece
  <2> QED BY <2>1, <2>2, <2>3 DEF Alone
<1>3. CASE ~ Single(f) /\ ~ Expected(b, f)
  <2>1. res = [buf |-> b, out |-> << >>]
    BY <1>3 DEF Received
  <2>2. f.part # 1
    BY <1>1, <1>3 DEF Expected
  <2> QED BY <1>3, <2>1, <2>2 DEF Dropped
<1>4. CASE ~ Single(f) /\ Expected(b, f)
  <2>1. res = IF f.last THEN [buf |-> NoBuf, out |-> <<Collect(b, f).data>>]
              ELSE [buf |-> Collect(b, f), out |-> << >>]
    BY <1>4 DEF Received
  <2>2. Collect(b, f).data = Pieces(f.msg, f.part)
    BY <1>4, CollectPieces
  <2>3. f.part # 1 => b.data = Pieces(f.msg, f.part - 1)
    BY <1>1, <1>4 DEF Continues, Expected, NoBuf
  <2>4. CASE f.last
    <3>1. f.part # 1
      BY <1>1, <1>4, <2>4 DEF Single
    <3> QED BY <2>1, <2>2, <2>3, <2>4, <3>1 DEF Completed
  <2>5. CASE ~ f.last
    <3>1. res = [buf |-> Collect(b, f), out |-> << >>]
      BY <2>1, <2>5
    <3>2. res.buf.data = Pieces(f.msg, f.part) /\ res.out = << >>
      BY <2>2, <3>1
    <3>3. Stored(b, f, res)
      <4> HIDE DEF res
      <4> QED BY <2>3, <2>5, <3>2 DEF Stored
    <3> QED BY <3>3
  <2> QED BY <2>4, <2>5
<1> QED BY <1>2, <1>3, <1>4

\* A message that is handed over is the next one.
LEMMA OutSorted ==
  ASSUME NEW g \in Seq(PieceSeq), NEW c, NEW x, GotSorted(g, c, x),
         NEW f \in Frag, f.msg < x.msg,
         \A i \in 1 .. Len(g) : g[i][1][1] < f.msg,
         \A j \in 1 .. Len(c) : f.msg < c[j].msg
  PROVE  LET h == g \o <<Pieces(f.msg, f.part)>>
         IN  /\ GotSorted(h, c, x) /\ Has(h, f.msg)
             /\ \A m : Has(g, m) => Has(h, m)
<1> DEFINE d == Pieces(f.msg, f.part)
           h == g \o <<d>>
<1>1. f.msg \in Nat \ {0} /\ f.part \in Nat \ {0}
  BY DEF Frag
<1>2. d \in PieceSeq /\ d[1][1] = f.msg
  BY <1>1, PiecesType, PiecesDiffer
<1> HIDE DEF d
<1>3. h = Append(g, d)
  BY <1>2, AppendIsConcat
<1>4. /\ Len(g) \in Nat /\ Len(h) = Len(g) + 1 /\ h[Len(g) + 1] = d
      /\ \A i \in 1 .. Len(g) : h[i] = g[i]
  BY <1>2, <1>3, AppendProperties
<1> HIDE DEF h
<1>5. ASSUME NEW i \in 1 .. Len(h)
      PROVE  i \in 1 .. Len(g) \/ i = Len(g) + 1
  BY <1>4
<1>6. ASSUME NEW i \in 1 .. Len(h)
      PROVE  /\ h[i][1][1] < x.msg
             /\ \A j \in 1 .. Len(c) : h[i][1][1] < c[j].msg
  <2>1. CASE i \in 1 .. Len(g)
    BY <1>4, <2>1 DEF GotSorted
  <2>2. CASE i = Len(g) + 1
    BY <1>2, <1>4, <2>2
  <2> QED BY <1>5, <2>1, <2>2
<1>7. ASSUME NEW i \in 1 .. Len(h), NEW j \in 1 .. Len(h), i < j
      PROVE  h[i][1][1] < h[j][1][1]
  <2>1. i \in 1 .. Len(g)
    BY <1>4, <1>7
  <2>2. CASE j \in 1 .. Len(g)
    BY <1>4, <1>7, <2>1, <2>2 DEF GotSorted
  <2>3. CASE j = Len(g) + 1
    BY <1>2, <1>4, <2>1, <2>3
  <2> QED BY <1>5, <2>2, <2>3
<1>8. GotSorted(h, c, x)
  BY <1>6, <1>7 DEF GotSorted
<1>9. Len(g) + 1 \in 1 .. Len(h) /\ \A i \in 1 .. Len(g) : i \in 1 .. Len(h)
  BY <1>4
<1>10. Has(h, f.msg)
  BY <1>2, <1>4, <1>9 DEF Has
<1>11. ASSUME NEW m, Has(g, m) PROVE Has(h, m)
  BY <1>4, <1>9, <1>11 DEF Has
<1> QED BY <1>8, <1>10, <1>11 DEF h, d

\* What has been received, and what is left of c behind its first fragment.
LEMMA TailFacts ==
  ASSUME NEW c \in Seq(Frag), c # << >>
  PROVE  /\ Head(c) = c[1] /\ Len(c) \in Nat \ {0}
         /\ Len(Tail(c)) = Len(c) - 1 /\ 1 \in 1 .. Len(c)
         /\ \A i \in 1 .. Len(Tail(c)) :
              /\ Tail(c)[i] = c[i + 1] /\ i + 1 \in 1 .. Len(c) /\ 1 < i + 1
         /\ \A j \in 1 .. Len(c) :
              j # 1 => j - 1 \in 1 .. Len(Tail(c)) /\ Tail(c)[j - 1] = c[j]
<1>1. Len(c) \in Nat /\ Len(c) # 0
  BY LenProperties, EmptySeq
<1>2. /\ Head(c) = c[1] /\ Len(Tail(c)) = Len(c) - 1
      /\ \A i \in 1 .. Len(Tail(c)) : Tail(c)[i] = c[i + 1]
  BY HeadTailProperties
<1>3. ASSUME NEW j \in 1 .. Len(c), j # 1
      PROVE  j - 1 \in 1 .. Len(Tail(c)) /\ Tail(c)[j - 1] = c[j]
  <2>1. j - 1 \in 1 .. Len(Tail(c)) /\ (j - 1) + 1 = j
    BY <1>1, <1>2, <1>3
  <2>2. Tail(c)[j - 1] = c[(j - 1) + 1]
    BY <1>2, <2>1
  <2> QED BY <2>1, <2>2
<1> QED BY <1>1, <1>2, <1>3

\* The fragment at the front is of a message that has been composed, and is
\* ahead of all others if it is the last of its message.
LEMMA HeadSorted ==
  ASSUME NEW s \in Sender, NEW r \in Recv, PairFacts(s, r), LineOK(s, r),
         chan[s][r] # << >>
  PROVE  LET c == chan[s][r]
         IN  /\ ChanSorted(Tail(c), send[s])
             /\ \A j \in 1 .. Len(Tail(c)) : Before(c[1], Tail(c)[j])
             /\ GotSorted(got[r][s], Tail(c), send[s])
             /\ BufSorted(buf[r][s], Tail(c), send[s])
             /\ c[1].last => /\ c[1].msg < send[s].msg
                             /\ \A j \in 1 .. Len(Tail(c)) : c[1].msg < Tail(c)[j].msg
<1> DEFINE c == chan[s][r]
           x == send[s]
           d == Tail(c)
<1>1. /\ ChanSorted(c, x) /\ BufSorted(buf[r][s], c, x)
      /\ GotSorted(got[r][s], c, x)
  BY DEF LineOK, Sorted
<1>2. c \in Seq(Frag)
  BY DEF PairFacts
<1>3. /\ \A i \in 1 .. Len(c) : Right(s, c[i]) /\ Somewhere(c[i])
      /\ Somewhere(x)
      /\ x.msg \in DOMAIN Script[s] => x.part \in 1 .. Script[s][x.msg].frags
  BY DEF PairFacts
<1>4. /\ Len(c) \in Nat \ {0} /\ Len(d) = Len(c) - 1 /\ 1 \in 1 .. Len(c)
      /\ \A i \in 1 .. Len(d) : d[i] = c[i + 1] /\ i + 1 \in 1 .. Len(c) /\ 1 < i + 1
  BY <1>2, TailFacts
<1> HIDE DEF c, x, d
<1>5. \A j \in 1 .. Len(d) : Before(c[1], d[j])
  BY <1>1, <1>4 DEF ChanSorted
<1>6. ChanSorted(d, x)
  <2>1. \A i \in 1 .. Len(d) : Before(d[i], x)
    BY <1>1, <1>4 DEF ChanSorted
  <2>2. ASSUME NEW i \in 1 .. Len(d), NEW j \in 1 .. Len(d), i < j
        PROVE  Before(d[i], d[j])
    <3>1. i + 1 < j + 1
      BY <2>2
    <3> QED BY <1>1, <1>4, <3>1 DEF ChanSorted
  <2> QED BY <2>1, <2>2 DEF ChanSorted
<1>7. GotSorted(got[r][s], d, x)
  BY <1>1, <1>4 DEF GotSorted
<1>8. BufSorted(buf[r][s], d, x)
  BY <1>1, <1>4 DEF BufSorted
<1>9. ASSUME c[1].last
      PROVE  c[1].msg < x.msg /\ \A j \in 1 .. Len(d) : c[1].msg < d[j].msg
  <2>1. /\ c[1].msg \in DOMAIN Script[s] /\ c[1].part = Script[s][c[1].msg].frags
        /\ Script[s][c[1].msg].frags \in Nat \ {0} /\ c[1].msg \in Nat \ {0}
    BY <1>3, <1>4, <1>9, ScriptType DEF Right
  <2>2. c[1].msg < x.msg
    BY <1>1, <1>3, <1>4, <2>1 DEF ChanSorted, Before
  <2>3. ASSUME NEW j \in 1 .. Len(d) PROVE c[1].msg < d[j].msg
    <3>1. Right(s, d[j])
      BY <1>3, <1>4
    <3>2. Before(c[1], d[j])
      BY <1>5
    <3>3. d[j].msg = c[1].msg => d[j].part \in 1 .. c[1].part
      BY <2>1, <3>1 DEF Right
    <3> QED BY <2>1, <3>2, <3>3 DEF Before
  <2> QED BY <2>2, <2>3
<1> QED BY <1>5, <1>6, <1>7, <1>8, <1>9 DEF c, x, d

LEMMA ReceiveSorted ==
  ASSUME NEW s \in Sender, NEW r \in Recv, PairFacts(s, r), LineOK(s, r),
         chan[s][r] # << >>, Continues(buf[r][s], chan[s][r][1])
  PROVE  LET f == chan[s][r][1]
             res == Received(buf[r][s], f)
             h == got[r][s] \o res.out
         IN  /\ Sorted(Tail(chan[s][r]), send[s], res.buf, h)
             /\ \A m : Has(got[r][s], m) => Has(h, m)
             /\ res.out # << >> => Has(h, f.msg)
<1> DEFINE c == chan[s][r]
           d == Tail(c)
           f == c[1]
           b == buf[r][s]
           g == got[r][s]
           x == send[s]
           res == Received(b, f)
           h == g \o res.out
<1>1. /\ ChanSorted(c, x) /\ GotSorted(g, c, x)
  BY DEF LineOK, Sorted
<1>2. /\ c \in Seq(Frag) /\ g \in Seq(PieceSeq) /\ b \in BufType
      /\ \A i \in 1 .. Len(c) : Right(s, c[i])
  BY DEF PairFacts
<1>3. 1 \in 1 .. Len(c)
  BY <1>2, TailFacts
<1>4. /\ ChanSorted(d, x) /\ GotSorted(g, d, x) /\ BufSorted(b, d, x)
      /\ \A j \in 1 .. Len(d) : Before(f, d[j])
      /\ f.last => f.msg < x.msg /\ \A j \in 1 .. Len(d) : f.msg < d[j].msg
  BY HeadSorted
<1>5. Right(s, f) /\ f \in Frag /\ f.msg \in Nat \ {0} /\ f.part \in Nat \ {0}
  BY <1>2, <1>3 DEF Right, Frag
<1>6. Before(f, x) /\ \A i \in 1 .. Len(g) : g[i][1][1] < f.msg
  BY <1>1, <1>3 DEF ChanSorted, GotSorted
<1>7. Dropped(b, f, res) \/ Alone(b, f, res) \/ Completed(b, f, res) \/ Stored(b, f, res)
  BY <1>2, <1>5, ReceivedCases
<1> HIDE DEF c, d, f, b, g, x, res
<1>8. BufSorted(res.buf, d, x)
  <2>1. CASE res.buf = b
    BY <1>4, <2>1
  <2>2. CASE res.buf = NoBuf
    BY <2>2, PiecesDiffer DEF BufSorted
  <2>3. CASE res.buf.data = Pieces(f.msg, f.part)
    <3> SUFFICES ASSUME NEW m \in Nat \ {0}, NEW k \in Nat \ {0},
                        res.buf.data = Pieces(m, k)
                 PROVE  /\ Before(Place(m, k), x)
                        /\ \A i \in 1 .. Len(d) : Before(Place(m, k), d[i])
      BY DEF BufSorted
    <3>1. m = f.msg /\ k = f.part
      <4>1. Pieces(m, k) = Pieces(f.msg, f.part)
        BY <2>3
      <4>2. \A n, l \in Nat \ {0} : Pieces(m, k) = Pieces(n, l) => m = n /\ k = l
        BY PiecesDiffer
      <4> QED BY <1>5, <4>1, <4>2
    <3> QED BY <1>4, <1>6, <3>1 DEF Before, Place
  <2> QED BY <1>7, <2>1, <2>2, <2>3 DEF Dropped, Alone, Completed, Stored
<1>9. /\ GotSorted(h, d, x) /\ \A m : Has(g, m) => Has(h, m)
      /\ res.out # << >> => Has(h, f.msg)
  <2>1. CASE res.out = << >>
    <3>1. h = g
      BY <1>2, <2>1, ConcatEmptySeq
    <3> HIDE DEF h
    <3> QED BY <1>4, <2>1, <3>1
  <2>2. CASE f.last /\ res.out = <<Pieces(f.msg, f.part)>>
    <3> HIDE DEF Has, GotSorted
    <3> QED BY <1>2, <1>4, <1>5, <1>6, <2>2, OutSorted
  <2> QED BY <1>7, <2>1, <2>2 DEF Dropped, Alone, Completed, Stored
<1>10. Sorted(d, x, res.buf, h)
  BY <1>4, <1>8, <1>9 DEF Sorted
<1> HIDE DEF h
<1>11. /\ Sorted(d, x, res.buf, h)
       /\ \A m : Has(g, m) => Has(h, m)
       /\ res.out # << >> => Has(h, f.msg)
  BY <1>9, <1>10
<1> QED BY <1>11 DEF c, d, f, b, g, x, res, h

\* A buffer holds part of a message only.
LEMMA HoldsPart ==
  ASSUME NEW s \in Sender, NEW b, Holds(s, b), NEW m \in Nat \ {0},
         NEW k \in Nat \ {0}, b.data = Pieces(m, k)
  PROVE  k < Script[s][m].frags
<1>1. b # NoBuf
  BY PiecesDiffer
<1>2. PICK n \in DOMAIN Script[s] : \E l \in 1 .. (Script[s][n].frags - 1) :
        b.data = Pieces(n, l)
  BY <1>1 DEF Holds
<1>3. PICK l \in 1 .. (Script[s][n].frags - 1) : b.data = Pieces(n, l)
  BY <1>2
<1>4. n \in Nat \ {0} /\ l \in Nat \ {0} /\ Script[s][n].frags \in Nat \ {0}
  BY ScriptType
<1>5. \A i, j \in Nat \ {0} : Pieces(m, k) = Pieces(i, j) => m = i /\ k = j
  BY PiecesDiffer
<1>6. m = n /\ k = l
  BY <1>3, <1>4, <1>5
<1> QED BY <1>3, <1>4, <1>6

\* A fragment is dropped only if its message has been given up, and so is
\* what a buffer holds that is overwritten.
LEMMA ReceiveComplies ==
  ASSUME NEW s \in Sender, NEW r \in Recv, PairFacts(s, r), LineOK(s, r),
         Holds(s, buf[r][s]),
         chan[s][r] # << >>, Continues(buf[r][s], chan[s][r][1])
  PROVE  LET f == chan[s][r][1]
             res == Received(buf[r][s], f)
         IN  Complies(s, r, Tail(chan[s][r]), send[s], res.buf,
                      got[r][s] \o res.out, spoiled[s][r] \cup broken[s])
<1> DEFINE c == chan[s][r]
           d == Tail(c)
           f == c[1]
           b == buf[r][s]
           g == got[r][s]
           x == send[s]
           res == Received(b, f)
           h == g \o res.out
           gone == spoiled[s][r] \cup broken[s]
<1>1. /\ ChanSorted(c, x) /\ BufSorted(b, c, x) /\ Complies(s, r, c, x, b, g, gone)
  BY DEF LineOK, Sorted
<1>2. /\ c \in Seq(Frag) /\ c # << >> /\ b \in BufType
      /\ \A i \in 1 .. Len(c) : Right(s, c[i]) /\ Somewhere(c[i])
      /\ Somewhere(x) /\ Holds(s, b) /\ Continues(b, f)
  BY DEF PairFacts
<1>3. /\ 1 \in 1 .. Len(c)
      /\ \A j \in 1 .. Len(c) :
              j # 1 => j - 1 \in 1 .. Len(d) /\ d[j - 1] = c[j]
  BY <1>2, TailFacts
<1>4. \A m : Has(h, m) \/ (~ Has(g, m) /\ (res.out # << >> => m # f.msg))
  BY <1>2, ReceiveSorted
<1>5. /\ Right(s, f) /\ f.msg \in Nat \ {0} /\ f.part \in Nat \ {0}
      /\ f.part \in 1 .. Script[s][f.msg].frags
  BY <1>2, <1>3 DEF Right, Frag
<1>6. Dropped(b, f, res) \/ Alone(b, f, res) \/ Completed(b, f, res) \/ Stored(b, f, res)
  BY <1>2, <1>5, ReceivedCases
<1>7. \A j \in 1 .. Len(c) : j # 1 => Before(f, c[j])
  BY <1>1, <1>3 DEF ChanSorted
<1> HIDE DEF c, d, f, b, g, x, res, h, gone
<1>8. ASSUME NEW m \in DOMAIN Script[s],
             r \in Dests(s, m), m \notin gone, ~ Has(h, m),
             NEW p \in 1 .. Sent(s, m, x)
      PROVE  Present(d, res.buf, m, p)
  <2>1. /\ m \in Nat \ {0} /\ Sent(s, m, x) \in Nat /\ p \in Nat \ {0}
        /\ Script[s][m].frags \in Nat \ {0}
    BY <1>2, SentType, ScriptType
  <2>2. \A q \in 1 .. Sent(s, m, x) : Present(c, b, m, q)
    BY <1>1, <1>4, <1>8 DEF Complies
  <2>3. res.out # << >> => m # f.msg
    BY <1>4, <1>8
  <2>4. ~ (res.out # << >> /\ m = f.msg)
    BY <2>3
  \* In the buffer is not more than has been received.
  <2>5. ASSUME NEW k \in Nat \ {0}, b.data = Pieces(m, k)
        PROVE  /\ m < f.msg \/ (m = f.msg /\ k < f.part)
               /\ k < Script[s][m].frags
    <3>1. Before(Place(m, k), f)
      BY <1>1, <1>3, <2>1, <2>5 DEF BufSorted, f
    <3>2. k < Script[s][m].frags
      BY <1>2, <2>1, <2>5, HoldsPart
    <3> QED BY <3>1, <3>2 DEF Before, Place
  <2>6. CASE \E i \in 1 .. Len(c) : c[i].msg = m /\ c[i].part = p
    <3>1. PICK i \in 1 .. Len(c) : c[i].msg = m /\ c[i].part = p
      BY <2>6
    <3>2. CASE i # 1
      BY <1>3, <3>1, <3>2 DEF Present
    <3>3. CASE i = 1
      <4>1. m = f.msg /\ p = f.part
        BY <3>1, <3>3 DEF f
      <4>2. ~ Alone(b, f, res) /\ ~ Completed(b, f, res)
        <5>1. <<Pieces(f.msg, f.part)>> # << >>
          OBVIOUS
        <5> QED BY <2>4, <4>1, <5>1 DEF Alone, Completed
      <4>3. CASE Stored(b, f, res)
        BY <2>1, <4>1, <4>3 DEF Stored, Present
      <4>4. CASE Dropped(b, f, res)
        <5>1. p - 1 \in 1 .. Sent(s, m, x)
          BY <1>5, <2>1, <4>1, <4>4 DEF Dropped
        <5>2. Present(c, b, m, p - 1)
          BY <2>2, <5>1
        <5>3. ASSUME NEW j \in 1 .. Len(c)
              PROVE  ~ (c[j].msg = m /\ c[j].part = p - 1)
          <6>1. CASE j = 1
            BY <1>5, <4>1, <6>1 DEF f
          <6>2. CASE j # 1
            BY <1>7, <2>1, <4>1, <6>2 DEF Before
          <6> QED BY <6>1, <6>2
        <5>4. PICK k \in Nat \ {0} : p - 1 <= k /\ b.data = Pieces(m, k)
          BY <5>2, <5>3 DEF Present
        <5>5. b # NoBuf
          BY <2>1, <5>4, PiecesDiffer
        <5>6. f.part # 1 /\ ~ Expected(b, f)
          BY <4>4 DEF Dropped
        <5>7. f.num = b.nextFrag
          BY <1>2, <5>5, <5>6 DEF Continues
        <5> QED BY <5>6, <5>7 DEF Expected
      <4> QED BY <1>6, <4>2, <4>3, <4>4
    <3> QED BY <3>2, <3>3
  <2>7. CASE \E k \in Nat \ {0} : p <= k /\ b.data = Pieces(m, k)
    <3>1. PICK k \in Nat \ {0} : p <= k /\ b.data = Pieces(m, k)
      BY <2>7
    <3>2. CASE res.buf = b
      BY <3>1, <3>2 DEF Present
    <3>3. CASE f.part # 1 /\ b.data = Pieces(f.msg, f.part - 1)
      <4>1. f.part - 1 \in Nat \ {0}
        BY <1>5, <3>3
      <4>2. m = f.msg /\ k = f.part - 1
        <5>1. Pieces(m, k) = Pieces(f.msg, f.part - 1)
          BY <3>1, <3>3
        <5> QED BY <1>5, <2>1, <4>1, <5>1, PiecesDiffer
      <4>3. ~ Completed(b, f, res) /\ ~ Alone(b, f, res)
        <5>1. <<Pieces(f.msg, f.part)>> # << >>
          OBVIOUS
        <5> QED BY <2>4, <4>2, <5>1 DEF Alone, Completed
      <4>4. CASE Stored(b, f, res)
        <5>1. p <= f.part
          BY <1>5, <2>1, <3>1, <4>2
        <5> QED BY <1>5, <4>2, <4>4, <5>1 DEF Stored, Present
      <4>5. CASE Dropped(b, f, res)
        BY <3>1, <4>5 DEF Present, Dropped
      <4> QED BY <1>6, <4>3, <4>4, <4>5
    <3>4. CASE f.part = 1
      <4>1. m < f.msg /\ k < Script[s][m].frags
        BY <2>5, <3>1, <3>4
      <4>2. Before(f, x)
        BY <1>1, <1>3 DEF ChanSorted, f
      <4>3. Sent(s, m, x) = Script[s][m].frags
        BY <1>2, <1>5, <2>1, <4>1, <4>2 DEF Before, Sent, Somewhere
      <4>4. Present(c, b, m, Script[s][m].frags)
        BY <2>1, <2>2, <4>3
      <4>5. ASSUME NEW j \in 1 .. Len(c)
            PROVE  c[j].msg # m
        <5>1. CASE j = 1
          BY <1>5, <2>1, <4>1, <5>1 DEF f
        <5>2. CASE j # 1
          BY <1>2, <1>5, <1>7, <2>1, <4>1, <5>2 DEF Before, Somewhere
        <5> QED BY <5>1, <5>2
      <4>6. PICK l \in Nat \ {0} : Script[s][m].frags <= l /\ b.data = Pieces(m, l)
        BY <4>4, <4>5 DEF Present
      <4> QED BY <2>1, <2>5, <4>6
    <3> QED BY <1>6, <3>2, <3>3, <3>4 DEF Dropped, Alone, Completed, Stored
  <2>8. Present(c, b, m, p)
    BY <2>2
  <2> QED BY <2>6, <2>7, <2>8 DEF Present
<1>9. Complies(s, r, d, x, res.buf, h, gone)
  BY <1>8 DEF Complies
<1> QED BY <1>9 DEF c, d, f, b, g, x, res, h, gone

LEMMA ReceiveLine ==
  ASSUME DInv, NEW s \in Sender, NEW p \in Recv, Receive(s, p),
         NEW t \in Sender, NEW r \in Recv
  PROVE  LineOK(t, r)'
<1> DEFINE c == chan[s][p]
           res == Received(buf[p][s], c[1])
           h == got[p][s] \o res.out
<1>1. /\ IInv /\ TypeOK /\ LineOK(t, r) /\ PairFacts(s, p) /\ LineOK(s, p)
      /\ ChanOK(s, p) /\ BufOK(s, p) /\ c # << >>
  BY PairType DEF DInv, IInv, Receive
<1>2. Head(c) = c[1]
  BY <1>1, TailFacts DEF PairFacts
<1>3. Holds(s, buf[p][s]) /\ Continues(buf[p][s], c[1])
  BY <1>1 DEF BufOK
<1>4. /\ send' = send /\ spoiled' = spoiled /\ broken' = broken
      /\ buf' = [buf EXCEPT ![p][s] = res.buf]
      /\ got' = [got EXCEPT ![p][s] = @ \o res.out]
      /\ chan' = [chan EXCEPT ![s][p] = Tail(@)]
  <2> HIDE DEF Received
  <2> QED BY <1>2 DEF Receive
<1>5. /\ Sorted(Tail(c), send[s], res.buf, h)
      /\ Complies(s, p, Tail(c), send[s], res.buf, h, spoiled[s][p] \cup broken[s])
  <2> HIDE DEF Received
  <2> QED BY <1>1, <1>3, ReceiveSorted, ReceiveComplies
<1> HIDE DEF res
<1>6. /\ chan'[t][r] = IF t = s /\ r = p THEN Tail(c) ELSE chan[t][r]
      /\ buf'[r][t] = IF t = s /\ r = p THEN res.buf ELSE buf[r][t]
      /\ got'[r][t] = IF t = s /\ r = p THEN h ELSE got[r][t]
  BY <1>1, <1>4 DEF TypeOK
<1> HIDE DEF c, h
<1>7. CASE t = s /\ r = p
  <2>1. /\ chan'[s][p] = Tail(c) /\ buf'[p][s] = res.buf /\ got'[p][s] = h
        /\ send'[s] = send[s]
        /\ spoiled'[s][p] \cup broken'[s] = spoiled[s][p] \cup broken[s]
    BY <1>4, <1>6, <1>7
  <2> QED BY <1>5, <1>7, <2>1, LineBecomes
<1>8. CASE ~ (t = s /\ r = p)
  BY <1>1, <1>4, <1>6, <1>8, SameLine
<1> QED BY <1>7, <1>8

-----------------------------------------------------------------------------
(* Faults.                                                                 *)

\* What a fault leaves behind: nothing under way, and messages counted as
\* spoiled unless they were handed over or their sender has ended.
LEMMA CutLine ==
  ASSUME IInv, NEW s \in Sender, NEW r \in Recv, LineOK(s, r),
         chan'[s][r] = << >>, buf'[r][s] = NoBuf, got'[r][s] = got[r][s],
         spoiled'[s][r] = spoiled[s][r] \cup Unfinished(s, r),
         \/ send'[s] = send[s] /\ broken'[s] = broken[s]
         \/ /\ send'[s] = Ended(s)
            /\ broken'[s] = broken[s] \cup {send[s].msg}
  PROVE  LineOK(s, r)'
<1> DEFINE x == send[s]
           y == send'[s]
           g == got[r][s]
           gone == spoiled'[s][r] \cup broken'[s]
<1>1. /\ PairFacts(s, r) /\ GotSorted(g, chan[s][r], x) /\ Somewhere(x)
      /\ x.msg \in Nat /\ x.part \in Nat
  BY PairType DEF LineOK, Sorted, PairFacts
<1>2. y = x \/ (Steps(x, y) /\ y.msg = x.msg + 1 /\ x.msg \in gone)
  BY DEF Ended, Fresh, Steps
<1>3. GotSorted(g, << >>, y)
  <2>1. Len(<< >>) = 0
    OBVIOUS
  <2>2. GotSorted(g, chan[s][r], y)
    <3>1. CASE y = x
      BY <1>1, <3>1
    <3>2. CASE Steps(x, y)
      <4>1. Somewhere(y) /\ Before(x, y)
        BY <1>1, <3>2, StepsBefore
      <4> HIDE DEF y
      <4> QED BY <1>1, <4>1, SortedMoves DEF Sorted
    <3> QED BY <1>2, <3>1, <3>2
  <2> QED BY <2>1, <2>2 DEF GotSorted
<1>4. BufSorted(NoBuf, << >>, y)
  BY PiecesDiffer DEF BufSorted
<1>5. ChanSorted(<< >>, y)
  <2>1. Len(<< >>) = 0
    OBVIOUS
  <2> QED BY <2>1 DEF ChanSorted
<1>6. Complies(s, r, << >>, y, NoBuf, g, gone)
  <2> SUFFICES ASSUME NEW m \in DOMAIN Script[s],
                      r \in Dests(s, m), m \notin gone, ~ Has(g, m),
                      NEW p \in 1 .. Sent(s, m, y)
               PROVE  FALSE
    BY DEF Complies
  <2>1. m \in Nat \ {0} /\ Sent(s, m, x) \in Nat
    BY <1>1, SentType
  <2>2. m \notin Handed(r, s)
    <3>1. \A i \in DOMAIN g : i \in 1 .. Len(g)
      BY <1>1 DEF PairFacts
    <3> QED BY <3>1 DEF Handed, Has
  <2>3. m \notin Begun(s)
    BY <2>2 DEF Unfinished
  <2>4. x.msg <= m /\ (m = x.msg => x.part = 1)
    BY <1>1, <2>1, <2>3 DEF Begun, Somewhere
  <2>5. Sent(s, m, x) = 0
    BY <1>1, <2>1, <2>4 DEF Sent
  <2>6. Sent(s, m, y) = 0
    <3>1. CASE y = x
      BY <2>5, <3>1
    <3>2. CASE Steps(x, y) /\ x.msg \in gone
      <4>1. m # x.msg
        BY <3>2
      <4> HIDE DEF x, y
      <4> QED BY <1>1, <2>5, <3>2, <4>1, SentSteps
    <3> QED BY <1>2, <3>1, <3>2
  <2> QED BY <2>6
<1>7. Sorted(<< >>, y, NoBuf, g)
  BY <1>3, <1>4, <1>5 DEF Sorted
<1> QED BY <1>6, <1>7 DEF LineOK

LEMMA LostLine ==
  ASSUME InPsid = Recv, DInv, NEW n \in Node, NEW m \in Node, Lost(n, m),
         NEW t \in Sender, NEW r \in Recv
  PROVE  LineOK(t, r)'
<1> DEFINE Across == Remote(t, r) /\ {Home[t], Home[r]} = {n, m}
<1>1. /\ IInv /\ LineOK(t, r) /\ BufOK(t, r)
  BY DEF DInv, IInv
<1>2. /\ send' = send /\ got' = got /\ broken' = broken
      /\ chan'[t][r] = IF Across THEN << >> ELSE chan[t][r]
      /\ buf'[r][t] = IF Across THEN nodeDownHandler(r, t) ELSE buf[r][t]
      /\ spoiled'[t][r] = IF Across THEN spoiled[t][r] \cup Unfinished(t, r)
                          ELSE spoiled[t][r]
  BY DEF Lost
<1>3. CASE Across
  <2>1. nodeDownHandler(r, t) = NoBuf
    BY <1>1, <1>3, HookFrees
  <2> QED BY <1>1, <1>2, <1>3, <2>1, CutLine
<1>4. CASE ~ Across
  BY <1>1, <1>2, <1>4, SameLine
<1> QED BY <1>3, <1>4

LEMMA RestartLine ==
  ASSUME InPsid = Recv, DInv, NEW n \in Node, Restart(n),
         NEW t \in Sender, NEW r \in Recv
  PROVE  LineOK(t, r)'
<1> DEFINE Affected == n \in {Home[t], Home[r]}
           Ends == Home[t] = n /\ Sending(t) /\ send[t].part > 1
<1>1. /\ IInv /\ LineOK(t, r) /\ BufOK(t, r)
  BY DEF DInv, IInv
<1>2. /\ got' = got
      /\ send'[t] = IF Ends THEN Ended(t) ELSE send[t]
      /\ broken'[t] = IF Ends THEN broken[t] \cup {send[t].msg} ELSE broken[t]
      /\ chan'[t][r] = IF Affected THEN << >> ELSE chan[t][r]
      /\ buf'[r][t] = IF Home[r] = n THEN NoBuf
                      ELSE IF Home[t] = n THEN nodeDownHandler(r, t)
                      ELSE buf[r][t]
      /\ spoiled'[t][r] = IF Affected THEN spoiled[t][r] \cup Unfinished(t, r)
                          ELSE spoiled[t][r]
  BY DEF Restart
<1>3. CASE Affected
  <2>1. buf'[r][t] = NoBuf
    <3>1. CASE Home[r] = n
      BY <1>2, <3>1
    <3>2. CASE Home[r] # n
      <4>1. Home[t] = n /\ Remote(t, r)
        BY <1>3, <3>2 DEF Remote
      <4>2. nodeDownHandler(r, t) = NoBuf
        BY <1>1, <4>1, HookFrees
      <4> QED BY <1>2, <3>2, <4>1, <4>2
    <3> QED BY <3>1, <3>2
  <2> QED BY <1>1, <1>2, <1>3, <2>1, CutLine
<1>4. CASE ~ Affected
  BY <1>1, <1>2, <1>4, SameLine
<1> QED BY <1>3, <1>4

-----------------------------------------------------------------------------
(* The theorem.                                                            *)

LEMMA InitLine == Init => DInv
<1> SUFFICES ASSUME Init, NEW s \in Sender, NEW r \in Recv PROVE LineOK(s, r)
  BY InitInvariant DEF DInv
<1>1. /\ chan[s][r] = << >> /\ buf[r][s] = NoBuf /\ got[r][s] = << >>
      /\ send[s] = Fresh(1) /\ Len(<< >>) = 0
  BY DEF Init
<1>2. Sorted(<< >>, send[s], NoBuf, << >>)
  BY <1>1, PiecesDiffer DEF Sorted, ChanSorted, BufSorted, GotSorted
<1>3. \A m \in DOMAIN Script[s] : Sent(s, m, send[s]) = 0
  BY <1>1, ScriptType DEF Sent, Fresh
<1>4. Complies(s, r, << >>, send[s], NoBuf, << >>, spoiled[s][r] \cup broken[s])
  BY <1>3 DEF Complies
<1> QED BY <1>1, <1>2, <1>4 DEF LineOK

LEMMA NextLine ==
  ASSUME InPsid = Recv
  PROVE  DInv /\ [Next]_vars => DInv'
<1> SUFFICES ASSUME DInv, [Next]_vars, NEW t \in Sender, NEW r \in Recv
             PROVE  LineOK(t, r)'
  BY NextInvariant DEF DInv
<1>1. ASSUME NEW s \in Sender, SendFragment(s) \/ Die(s) PROVE LineOK(t, r)'
  BY <1>1, SendFragmentLine, DieLine
<1>2. ASSUME NEW s \in Sender, NEW p \in Recv, Receive(s, p) PROVE LineOK(t, r)'
  BY <1>2, ReceiveLine
<1>3. ASSUME NEW n \in Node, NEW m \in Node, Connect(n, m) PROVE LineOK(t, r)'
  BY <1>3, SameLine DEF Connect, DInv
<1>4. ASSUME NEW n \in Node, NEW m \in Node, Lost(n, m) PROVE LineOK(t, r)'
  BY <1>4, LostLine
<1>5. ASSUME NEW n \in Node, Restart(n) PROVE LineOK(t, r)'
  BY <1>5, RestartLine
<1>6. CASE UNCHANGED vars
  BY <1>6, SameLine DEF vars, DInv
<1> QED BY <1>1, <1>2, <1>3, <1>4, <1>5, <1>6 DEF Next

\* sendFragment() sends to each of the destinations set: a message has at most
\* one on the sender's own node.
AllReached ==
  \A s \in Sender : \A m \in DOMAIN Script[s] : \A r \in Recv :
    IsDest(s, m, r) => r \in Dests(s, m)

LEMMA LineImplies == AllReached /\ DInv => Delivered
<1> SUFFICES ASSUME AllReached, DInv, NEW s \in Sender, NEW r \in Recv
             PROVE  /\ \A i, j \in DOMAIN got[r][s] :
                         i < j => got[r][s][i][1][1] < got[r][s][j][1][1]
                    /\ \A m \in Begun(s) \ broken[s] :
                         m < send[s].msg /\ IsDest(s, m, r)
                         => m \in Handed(r, s) \cup spoiled[s][r] \/ UnderWay(s, r, m)
  BY DEF Delivered
<1>1. PairFacts(s, r) /\ LineOK(s, r) /\ Holds(s, buf[r][s])
  BY PairType DEF DInv, IInv, BufOK
<1>2. \A i, j \in DOMAIN got[r][s] :
        i < j => got[r][s][i][1][1] < got[r][s][j][1][1]
  BY <1>1 DEF LineOK, Sorted, GotSorted, PairFacts
<1>3. ASSUME NEW m \in Begun(s) \ broken[s], m < send[s].msg, IsDest(s, m, r),
             m \notin Handed(r, s) \cup spoiled[s][r]
      PROVE  UnderWay(s, r, m)
  <2>1. m \in DOMAIN Script[s] /\ r \in Dests(s, m)
    BY <1>3 DEF Begun, AllReached
  <2>2. ~ Has(got[r][s], m)
    BY <1>1, <1>3 DEF PairFacts, Handed, Has
  <2>3. m \in Nat \ {0} /\ Script[s][m].frags \in Nat \ {0}
    BY <2>1, ScriptType
  <2>4. Script[s][m].frags \in 1 .. Sent(s, m, send[s])
    BY <1>3, <2>3 DEF Sent
  <2>5. Present(chan[s][r], buf[r][s], m, Script[s][m].frags)
    BY <1>1, <1>3, <2>1, <2>2, <2>4 DEF LineOK, Complies
  <2>6. ASSUME NEW k \in Nat \ {0}, buf[r][s].data = Pieces(m, k)
        PROVE  k < Script[s][m].frags
    BY <1>1, <2>3, <2>6, HoldsPart
  <2>7. \E i \in 1 .. Len(chan[s][r]) : chan[s][r][i].msg = m
    BY <2>3, <2>5, <2>6 DEF Present
  <2> QED BY <1>1, <2>7, LenProperties DEF UnderWay, PairFacts
<1> QED BY <1>2, <1>3

\* A message that is sent to the end arrives once, in order and whole, unless
\* the connection was lost meanwhile or its sender ended: no fragment of it is
\* thrown away, whatever recvFragMsg() has missed of others, for any number of
\* connections lost, psids restarted and senders ended.
THEOREM MessagesArrive ==
  ASSUME InPsid = Recv, AllReached
  PROVE  Spec => []Delivered
<1>1. Init => DInv
  BY InitLine
<1>2. DInv /\ [Next]_vars => DInv'
  BY NextLine
<1>3. DInv => Delivered
  BY LineImplies
<1> QED BY <1>1, <1>2, <1>3, PTL DEF Spec

=============================================================================
