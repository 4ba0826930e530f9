-------------------------- MODULE FlowControlProof --------------------------
(***************************************************************************)
(* Theorems about FlowControl, checked by TLAPS.                           *)
(*                                                                         *)
(* A handler works on a context of its psid.  What it does to the rows of  *)
(* messages -- those that wait for a client, and those on their way to     *)
(* another psid -- is made of two kinds of steps: it leaves each row as it *)
(* is or empties it (Quiet), or it adds a message to the end of one        *)
(* (Posts).  Every operator is shown to keep a set of good contexts that   *)
(* no such step leaves (Steady).                                           *)
(***************************************************************************)
EXTENDS FlowControl, FiniteSetTheorems, SequenceTheorems, WellFoundedInduction,
        TLAPS

-----------------------------------------------------------------------------
(***************************************************************************)
(* Good contexts                                                           *)
(***************************************************************************)

\* A message has a sender, unless it is a SENDCONT for a client that has gone.
Post == {x \in Message : x.type = "CONT" \/ x.from \in Sender}

\* What RDP carries from n to m, and what is written to client t.
Mail(n, m) == {x \in Post : /\ getID(x.to) = m
                            /\ x.type = "MSG" => getID(x.from) = n}
Letters(t) == {x \in Post : x.to = t}

\* A task that is not managed is not connected.
TaskEntry == {e \in [managed : BOOLEAN, fd : Fd \cup {NoFd}, activeStops : Int,
                     enabled : BOOLEAN] : e.managed \/ e.fd = NoFd}
Client == [tid : Task \cup {NoTask}, flush : BOOLEAN, pendingACKs : Int,
           msgs : Seq(Post), stops : SUBSET Sender]
Socket == [data : Seq(Post), closed : BOOLEAN]
LinkEntry == [pend : Seq(Post), got : Nat]

Context(n) ==
  [n : {n}, task : [Task -> TaskEntry], client : [Fd -> Client],
   sock : [Fd -> Socket], buf : [Peers(n) -> Seq(Post)],
   link : [Peers(n) -> LinkEntry], up : [Node -> BOOLEAN],
   result : {"sent", "blocked", "dropped"}]

\* What is on its way to m is within the window.
Carried(c, m) ==
  /\ c.link[m].pend \in Seq(Mail(c.n, m)) /\ c.buf[m] \in Seq(Mail(c.n, m))
  /\ c.link[m].got <= Len(c.link[m].pend)
  /\ Len(c.link[m].pend) <= Window[c.n]

\* Messages are stored only if the window is full.
Filled(c, m) == c.buf[m] # << >> => Len(c.link[m].pend) = Window[c.n]

\* A file descriptor and its client belong to each other, and what waits there
\* is for this client.
Served(c, f) ==
  LET t == c.client[f].tid
  IN  /\ t # NoTask => Home[t] = c.n /\ c.task[t].fd = f
      /\ c.sock[f].data \in Seq(Letters(t)) /\ c.client[f].msgs \in Seq(Letters(t))
      /\ Len(c.sock[f].data) <= SockCap
      /\ c.sock[f].closed => c.sock[f].data = << >>

Registered(c, t) ==
  Home[t] = c.n /\ c.task[t].fd # NoFd => c.client[c.task[t].fd].tid = t

\* All of a good context but that messages are stored only if the window to m
\* is full.
Nearly(n, m) ==
  {c \in Context(n) :
     /\ \A p \in Peers(n) : Carried(c, p) /\ (p # m => Filled(c, p))
     /\ \A f \in Fd : Served(c, f)
     /\ \A t \in Task : Registered(c, t)}

Good(n) ==
  {c \in Context(n) :
     /\ \A p \in Peers(n) : Carried(c, p) /\ Filled(c, p)
     /\ \A f \in Fd : Served(c, f)
     /\ \A t \in Task : Registered(c, t)}

-----------------------------------------------------------------------------
(***************************************************************************)
(* Rows of messages                                                        *)
(***************************************************************************)

\* The messages of p behind the first g, followed by those of b.
Joined(p, g, b) ==
  [i \in 1..(Len(p) - g + Len(b)) |->
     IF i + g <= Len(p) THEN p[i + g] ELSE b[i + g - Len(p)]]

\* What waits for the local client r, and what is on its way to m.
Inbox(c, r) ==
  IF c.task[r].fd = NoFd THEN << >>
  ELSE Joined(c.sock[c.task[r].fd].data, 0, c.client[c.task[r].fd].msgs)

Outbox(c, m) == Joined(c.link[m].pend, c.link[m].got, c.buf[m])

Local(n) == {t \in Task : Home[t] = n}

\* Each row is kept or emptied; no client connects or goes.
Quiet(n, h, g) ==
  /\ \A t \in Task : g.task[t].fd = h.task[t].fd
  /\ \A r \in Local(n) : Inbox(g, r) = Inbox(h, r) \/ Inbox(g, r) = << >>
  /\ \A m \in Peers(n) : Outbox(g, m) = Outbox(h, m) \/ Outbox(g, m) = << >>

\* A message is added to its row.
Posts(n, h, g, x) ==
  /\ \A t \in Task : g.task[t].fd = h.task[t].fd
  /\ \A r \in Local(n) :
       Inbox(g, r) = IF r = x.to THEN Append(Inbox(h, r), x) ELSE Inbox(h, r)
  /\ \A m \in Peers(n) :
       Outbox(g, m) = IF m = getID(x.to) THEN Append(Outbox(h, m), x)
                      ELSE Outbox(h, m)

\* A set of good contexts that a handler leaves only by the message it is about.
Steady(n, S) ==
  /\ S \subseteq Good(n)
  /\ \A h \in S, g \in Good(n) : Quiet(n, h, g) => g \in S
  /\ \A h \in S, g \in Good(n), x \in Post :
       x.type # "MSG" /\ Posts(n, h, g, x) => g \in S

-----------------------------------------------------------------------------
(***************************************************************************)
(* The order of messages                                                   *)
(***************************************************************************)

\* What s has sent to r is in order in the row p, behind all of L and before
\* all of U.
Within(p, s, r, L, U) ==
  \A i \in Sent(p, s, r) :
    /\ \A k \in L : k < p[i].num
    /\ \A k \in U : p[i].num < k
    /\ \A j \in Sent(p, s, r) : i < j => p[i].num < p[j].num

Nums(p, s, r) == {p[i].num : i \in Sent(p, s, r)}

\* What is on its way from the node of s to that of r.
Coming(s, r) ==
  IF getID(s) = Home[r] THEN << >> ELSE Underway(getID(s), Home[r])

InStride ==
  \A s \in Sender, r \in Task :
    /\ \A k \in seen[r][s] : k <= sent[s]
    /\ Within(Waiting(r), s, r, seen[r][s],
              Nums(Coming(s, r), s, r) \cup {sent[s] + 1})
    /\ Within(Coming(s, r), s, r, seen[r][s], {sent[s] + 1})

Shapes ==
  /\ client = [n \in Node |-> client[n]] /\ sock = [n \in Node |-> sock[n]]
  /\ buf = [n \in Node |-> buf[n]] /\ link = [n \in Node |-> link[n]]
  /\ up = [n \in Node |-> up[n]]

Histories ==
  /\ lost \in Nat /\ sent \in [Sender -> Nat]
  /\ seen \in [Task -> [Sender -> SUBSET Nat]] /\ told \in [Task -> SUBSET Nat]

IInv ==
  /\ \A n \in Node : Ctx(n) \in Good(n)
  /\ Shapes /\ Histories /\ InStride

-----------------------------------------------------------------------------
(***************************************************************************)
(* Facts about rows                                                        *)
(***************************************************************************)

LEMMA JoinedFields ==
  ASSUME NEW p \in Seq(Post), NEW b \in Seq(Post), NEW g \in 0..Len(p)
  PROVE  /\ Len(p) \in Nat /\ Len(b) \in Nat
         /\ Joined(p, g, b) \in Seq(Post)
         /\ Len(Joined(p, g, b)) = Len(p) - g + Len(b)
         /\ \A i \in 1..(Len(p) - g + Len(b)) :
              Joined(p, g, b)[i] = IF i + g <= Len(p) THEN p[i + g]
                                   ELSE b[i + g - Len(p)]
<1> DEFINE n == Len(p) - g + Len(b)
           q == Joined(p, g, b)
<1>1. /\ Len(p) \in Nat /\ Len(b) \in Nat /\ n \in Nat
      /\ \A i \in 1..Len(p) : p[i] \in Post
      /\ \A i \in 1..Len(b) : b[i] \in Post
  BY LenProperties, ElementOfSeq
<1>2. ASSUME NEW i \in 1..n
      PROVE  (IF i + g <= Len(p) THEN p[i + g] ELSE b[i + g - Len(p)]) \in Post
  <2>1. CASE i + g <= Len(p)
    <3>1. i + g \in 1..Len(p)
      BY <1>1, <2>1
    <3> QED BY <1>1, <2>1, <3>1
  <2>2. CASE ~(i + g <= Len(p))
    <3>1. i + g - Len(p) \in 1..Len(b)
      BY <1>1, <2>2
    <3> QED BY <1>1, <2>2, <3>1
  <2> QED BY <2>1, <2>2
<1>3. q = [i \in 1..n |-> IF i + g <= Len(p) THEN p[i + g]
                          ELSE b[i + g - Len(p)]]
  BY DEF Joined
<1>4. \A i \in 1..n : q[i] = IF i + g <= Len(p) THEN p[i + g]
                             ELSE b[i + g - Len(p)]
  BY <1>3
<1>5. q \in [1..n -> Post]
  BY <1>2, <1>3
<1> HIDE DEF q, n
<1>6. q \in Seq(Post) /\ Len(q) = n
  <2>1. q \in Seq(Post)
    <3>1. q \in UNION {[1..k -> Post] : k \in Nat}
      BY <1>1, <1>5, Zenon
    <3> QED BY <3>1, SeqDef, Zenon
  <2>2. DOMAIN q = 1..n /\ DOMAIN q = 1..Len(q) /\ Len(q) \in Nat
    BY <1>5, <2>1, LenProperties
  <2> QED BY <1>1, <2>1, <2>2
<1> QED BY <1>1, <1>4, <1>6 DEF q, n

\* Two rows of the same length with the same elements are the same.
LEMMA RowEqual ==
  ASSUME NEW p \in Seq(Post), NEW q \in Seq(Post), Len(p) = Len(q),
         \A i \in 1..Len(p) : p[i] = q[i]
  PROVE  p = q
  BY SeqEqual

LEMMA SuffixFields ==
  ASSUME NEW M, NEW p \in Seq(M), NEW k \in 0..Len(p)
  PROVE  /\ Len(p) \in Nat
         /\ SubSeq(p, k + 1, Len(p)) \in Seq(M)
         /\ Len(SubSeq(p, k + 1, Len(p))) = Len(p) - k
         /\ \A i \in 1..(Len(p) - k) : SubSeq(p, k + 1, Len(p))[i] = p[i + k]
<1>1. Len(p) \in Nat /\ \A i \in 1..Len(p) : p[i] \in M
  BY LenProperties, ElementOfSeq
<1>2. \A i \in (k + 1)..Len(p) : p[i] \in M
  BY <1>1
<1>3. k + 1 \in Int /\ Len(p) \in Int
  BY <1>1
<1> DEFINE q == SubSeq(p, k + 1, Len(p))
<1>4. /\ q \in Seq(M) /\ Len(q) = IF k + 1 <= Len(p) THEN Len(p) - (k + 1) + 1 ELSE 0
      /\ \A i \in 1..(Len(p) - (k + 1) + 1) : q[i] = p[(k + 1) + i - 1]
  BY <1>2, <1>3, SubSeqProperties
<1> HIDE DEF q
<1>5. /\ q \in Seq(M) /\ Len(q) = Len(p) - k
      /\ \A i \in 1..(Len(p) - k) : q[i] = p[i + k]
  BY <1>1, <1>4
<1> QED BY <1>1, <1>5 DEF q

LEMMA PrefixFields ==
  ASSUME NEW M, NEW p \in Seq(M), NEW k \in 0..Len(p)
  PROVE  /\ SubSeq(p, 1, k) \in Seq(M) /\ Len(SubSeq(p, 1, k)) = k
         /\ \A i \in 1..k : SubSeq(p, 1, k)[i] = p[i]
<1>1. Len(p) \in Nat /\ \A i \in 1..Len(p) : p[i] \in M
  BY LenProperties, ElementOfSeq
<1>2. k \in Int /\ 1 \in Int /\ \A i \in 1..k : p[i] \in M
  BY <1>1
<1> DEFINE q == SubSeq(p, 1, k)
<1>4. /\ q \in Seq(M) /\ Len(q) = IF 1 <= k THEN k - 1 + 1 ELSE 0
      /\ \A i \in 1..(k - 1 + 1) : q[i] = p[1 + i - 1]
  BY <1>2, SubSeqProperties
<1> HIDE DEF q
<1>5. q \in Seq(M) /\ Len(q) = k /\ \A i \in 1..k : q[i] = p[i]
  BY <1>1, <1>4
<1> QED BY <1>5 DEF q

\* The first k messages stored move on to what is sent.
LEMMA JoinedMoved ==
  ASSUME NEW M, M \subseteq Post, NEW p \in Seq(M), NEW b \in Seq(M),
         NEW g \in 0..Len(p), NEW k \in 0..Len(b)
  PROVE  LET q == p \o SubSeq(b, 1, k)
             d == SubSeq(b, k + 1, Len(b))
         IN  /\ q \in Seq(M) /\ d \in Seq(M)
             /\ Len(q) = Len(p) + k /\ Len(d) = Len(b) - k
             /\ Joined(q, g, d) = Joined(p, g, b)
<1> DEFINE a == SubSeq(b, 1, k)
           d == SubSeq(b, k + 1, Len(b))
           q == p \o a
<1>1. /\ a \in Seq(M) /\ Len(a) = k /\ \A i \in 1..k : a[i] = b[i]
      /\ d \in Seq(M) /\ Len(d) = Len(b) - k /\ Len(b) \in Nat
      /\ \A i \in 1..(Len(b) - k) : d[i] = b[i + k]
  BY PrefixFields, SuffixFields
<1> HIDE DEF a, d
<1>2. /\ Len(p) \in Nat /\ q \in Seq(M) /\ Len(q) = Len(p) + k
      /\ \A i \in 1..(Len(p) + k) :
           q[i] = IF i <= Len(p) THEN p[i] ELSE a[i - Len(p)]
  BY <1>1, ConcatProperties, LenProperties
<1>3. /\ p \in Seq(Post) /\ b \in Seq(Post) /\ q \in Seq(Post) /\ d \in Seq(Post)
  BY <1>1, <1>2, SeqMonotonic
<1> HIDE DEF q
<1> DEFINE v == Joined(q, g, d)
           w == Joined(p, g, b)
           n == Len(p) - g + Len(b)
<1>4. g \in 0..Len(q) /\ n = Len(q) - g + Len(d) /\ n \in Nat
  BY <1>1, <1>2
<1>5. /\ w \in Seq(Post) /\ Len(w) = n
      /\ \A i \in 1..n : w[i] = IF i + g <= Len(p) THEN p[i + g]
                                ELSE b[i + g - Len(p)]
  BY <1>3, JoinedFields
<1>6. /\ v \in Seq(Post) /\ Len(v) = Len(q) - g + Len(d)
      /\ \A i \in 1..(Len(q) - g + Len(d)) :
           v[i] = IF i + g <= Len(q) THEN q[i + g] ELSE d[i + g - Len(q)]
  BY <1>3, <1>4, JoinedFields
<1> HIDE DEF v, w, n
<1>7. ASSUME NEW i \in 1..n PROVE v[i] = w[i]
  <2>1. v[i] = IF i + g <= Len(p) + k THEN q[i + g] ELSE d[i + g - (Len(p) + k)]
    BY <1>2, <1>4, <1>6
  <2>2. CASE i + g <= Len(p)
    <3>1. i + g \in 1..(Len(p) + k)
      BY <1>2, <1>4, <2>2
    <3> QED BY <1>2, <1>5, <2>1, <2>2, <3>1
  <2>3. CASE ~(i + g <= Len(p)) /\ i + g <= Len(p) + k
    <3>1. i + g \in 1..(Len(p) + k) /\ i + g - Len(p) \in 1..k
      BY <1>2, <1>4, <2>3
    <3> QED BY <1>1, <1>2, <1>5, <2>1, <2>3, <3>1
  <2>4. CASE ~(i + g <= Len(p) + k)
    <3>1. /\ i + g - (Len(p) + k) \in 1..(Len(b) - k)
          /\ i + g - (Len(p) + k) + k = i + g - Len(p) /\ ~(i + g <= Len(p))
      BY <1>1, <1>2, <1>4, <2>4 DEF n
    <3> QED BY <1>1, <1>5, <2>1, <2>4, <3>1
  <2> QED BY <2>2, <2>3, <2>4
<1>8. v = w
  BY <1>4, <1>5, <1>6, <1>7, RowEqual
<1> QED BY <1>1, <1>2, <1>8 DEF v, w, q, d, a

LEMMA AppendFields ==
  ASSUME NEW M, NEW p \in Seq(M), NEW x \in M
  PROVE  /\ Append(p, x) \in Seq(M) /\ Len(Append(p, x)) = Len(p) + 1
         /\ Append(p, x)[Len(p) + 1] = x
         /\ \A i \in 1..Len(p) : Append(p, x)[i] = p[i]
  BY AppendProperties

\* A message is stored.
LEMMA JoinedStored ==
  ASSUME NEW p \in Seq(Post), NEW b \in Seq(Post), NEW g \in 0..Len(p),
         NEW x \in Post
  PROVE  Joined(p, g, Append(b, x)) = Append(Joined(p, g, b), x)
<1> DEFINE d == Append(b, x)
           v == Joined(p, g, d)
           w == Joined(p, g, b)
           z == Append(w, x)
           n == Len(p) - g + Len(b)
<1>1. /\ d \in Seq(Post) /\ Len(d) = Len(b) + 1 /\ d[Len(b) + 1] = x
      /\ \A i \in 1..Len(b) : d[i] = b[i]
  BY AppendFields
<1> HIDE DEF d
<1>2. /\ Len(p) \in Nat /\ Len(b) \in Nat /\ w \in Seq(Post) /\ Len(w) = n
      /\ \A i \in 1..n : w[i] = IF i + g <= Len(p) THEN p[i + g]
                                ELSE b[i + g - Len(p)]
  BY JoinedFields
<1>3. /\ v \in Seq(Post) /\ Len(v) = Len(p) - g + Len(d)
      /\ \A i \in 1..(Len(p) - g + Len(d)) :
           v[i] = IF i + g <= Len(p) THEN p[i + g] ELSE d[i + g - Len(p)]
  BY <1>1, JoinedFields
<1> HIDE DEF v, w
<1>4. /\ z \in Seq(Post) /\ Len(z) = Len(w) + 1 /\ z[Len(w) + 1] = x
      /\ \A i \in 1..Len(w) : z[i] = w[i]
  BY <1>2, AppendFields
<1> HIDE DEF z
<1>5. n \in Nat /\ Len(v) = n + 1 /\ Len(z) = n + 1
  BY <1>1, <1>2, <1>3, <1>4
<1>6. ASSUME NEW i \in 1..(n + 1) PROVE v[i] = z[i]
  <2>1. v[i] = IF i + g <= Len(p) THEN p[i + g] ELSE d[i + g - Len(p)]
    <3>1. n + 1 = Len(p) - g + Len(d)
      BY <1>1, <1>2
    <3> HIDE DEF n
    <3> QED BY <1>3, <3>1
  <2>2. CASE i = n + 1
    <3>1. ~(i + g <= Len(p)) /\ i + g - Len(p) = Len(b) + 1
      BY <1>2, <2>2
    <3> QED BY <1>1, <1>2, <1>4, <2>1, <2>2, <3>1
  <2>3. CASE i \in 1..n
    <3>1. z[i] = w[i]
      BY <1>2, <1>4, <2>3
    <3>2. ~(i + g <= Len(p)) => i + g - Len(p) \in 1..Len(b)
      BY <1>2, <2>3
    <3> HIDE DEF n
    <3> QED BY <1>1, <1>2, <2>1, <2>3, <3>1, <3>2
  <2> QED BY <1>5, <2>2, <2>3
<1>7. v = z
  BY <1>3, <1>4, <1>5, <1>6, RowEqual
<1> QED BY <1>7 DEF v, w, z, d

\* A message is sent at once.
LEMMA JoinedSent ==
  ASSUME NEW p \in Seq(Post), NEW g \in 0..Len(p), NEW x \in Post
  PROVE  Joined(Append(p, x), g, << >>) = Append(Joined(p, g, << >>), x)
<1> DEFINE e == << >>
           q == Append(p, x)
           v == Joined(q, g, e)
           w == Joined(p, g, e)
           z == Append(w, x)
<1>1. /\ q \in Seq(Post) /\ Len(q) = Len(p) + 1 /\ q[Len(p) + 1] = x
      /\ \A i \in 1..Len(p) : q[i] = p[i]
      /\ e \in Seq(Post) /\ Len(e) = 0
  BY AppendFields, EmptySeq
<1> HIDE DEF q, e
<1>2. /\ Len(p) \in Nat /\ w \in Seq(Post) /\ Len(w) = Len(p) - g + Len(e)
      /\ \A i \in 1..(Len(p) - g + Len(e)) :
           w[i] = IF i + g <= Len(p) THEN p[i + g] ELSE e[i + g - Len(p)]
  BY <1>1, JoinedFields
<1>3. g \in 0..Len(q)
  BY <1>1, <1>2
<1>4. /\ v \in Seq(Post) /\ Len(v) = Len(q) - g + Len(e)
      /\ \A i \in 1..(Len(q) - g + Len(e)) :
           v[i] = IF i + g <= Len(q) THEN q[i + g] ELSE e[i + g - Len(q)]
  BY <1>1, <1>3, JoinedFields
<1> HIDE DEF v, w
<1>a. w \in Seq(Post)
  BY <1>2
<1>5. /\ z \in Seq(Post) /\ Len(z) = Len(w) + 1 /\ z[Len(w) + 1] = x
      /\ \A i \in 1..Len(w) : z[i] = w[i]
  BY <1>a, AppendFields
<1> HIDE DEF z
<1>6. ASSUME NEW i \in 1..Len(z) PROVE v[i] = z[i]
  <2>1. i \in 1..(Len(p) - g + 1) /\ i + g <= Len(p) + 1 /\ i + g \in 1..(Len(p) + 1)
    BY <1>1, <1>2, <1>5
  <2>2. v[i] = q[i + g]
    BY <1>1, <1>2, <1>4, <2>1
  <2>3. CASE i = Len(p) - g + 1
    <3>1. i + g = Len(p) + 1 /\ i = Len(w) + 1
      BY <1>1, <1>2, <2>3
    <3> QED BY <1>1, <1>5, <2>2, <3>1
  <2>4. CASE i \in 1..(Len(p) - g)
    <3>1. /\ i + g \in 1..Len(p) /\ i \in 1..Len(w) /\ i + g <= Len(p)
          /\ i \in 1..(Len(p) - g + Len(e))
      BY <1>1, <1>2, <2>4
    <3> QED BY <1>1, <1>2, <1>5, <2>2, <3>1
  <2>5. i = Len(p) - g + 1 \/ i \in 1..(Len(p) - g)
    <3>1. Len(p) \in Nat
      BY <1>2
    <3> QED BY <2>1, <3>1
  <2> QED BY <2>3, <2>4, <2>5
<1>7. v = z
  <2>1. Len(v) = Len(z)
    BY <1>1, <1>2, <1>4, <1>5
  <2>2. \A i \in 1..Len(v) : v[i] = z[i]
    BY <1>6, <2>1
  <2> QED BY <1>4, <1>5, <2>1, <2>2, RowEqual
<1> QED BY <1>7 DEF v, w, z, q, e

\* Messages are acknowledged.
LEMMA JoinedAcked ==
  ASSUME NEW p \in Seq(Post), NEW b \in Seq(Post), NEW g \in 0..Len(p),
         NEW k \in 0..g
  PROVE  Joined(SubSeq(p, k + 1, Len(p)), g - k, b) = Joined(p, g, b)
<1> DEFINE q == SubSeq(p, k + 1, Len(p))
           v == Joined(q, g - k, b)
           w == Joined(p, g, b)
           n == Len(p) - g + Len(b)
<1>1. /\ Len(p) \in Nat /\ Len(b) \in Nat /\ w \in Seq(Post) /\ Len(w) = n
      /\ \A i \in 1..n : w[i] = IF i + g <= Len(p) THEN p[i + g]
                                ELSE b[i + g - Len(p)]
  BY JoinedFields
<1>2. k \in 0..Len(p)
  BY <1>1
<1>3. /\ q \in Seq(Post) /\ Len(q) = Len(p) - k
      /\ \A i \in 1..(Len(p) - k) : q[i] = p[i + k]
  BY <1>2, SuffixFields
<1> HIDE DEF q
<1>4. g - k \in 0..Len(q) /\ Len(q) - (g - k) + Len(b) = n
  BY <1>1, <1>3
<1>5. /\ v \in Seq(Post) /\ Len(v) = Len(q) - (g - k) + Len(b)
      /\ \A i \in 1..(Len(q) - (g - k) + Len(b)) :
           v[i] = IF i + (g - k) <= Len(q) THEN q[i + (g - k)]
                  ELSE b[i + (g - k) - Len(q)]
  BY <1>3, <1>4, JoinedFields
<1> HIDE DEF v, w
<1>6. ASSUME NEW i \in 1..n PROVE v[i] = w[i]
  <2>1. v[i] = IF i + (g - k) <= Len(q) THEN q[i + (g - k)]
               ELSE b[i + (g - k) - Len(q)]
    BY <1>4, <1>5
  <2>2. CASE i + g <= Len(p)
    <3>1. /\ i + (g - k) \in 1..(Len(p) - k) /\ i + (g - k) + k = i + g
          /\ i + (g - k) <= Len(q)
      BY <1>1, <1>3, <2>2
    <3> HIDE DEF n
    <3> QED BY <1>1, <1>3, <2>1, <2>2, <3>1
  <2>3. CASE ~(i + g <= Len(p))
    <3>1. /\ ~(i + (g - k) <= Len(q))
          /\ i + (g - k) - Len(q) = i + g - Len(p)
      BY <1>1, <1>3, <2>3
    <3> HIDE DEF n
    <3> QED BY <1>1, <2>1, <2>3, <3>1
  <2> QED BY <2>2, <2>3
<1>7. v = w
  BY <1>1, <1>4, <1>5, <1>6, RowEqual
<1> QED BY <1>7 DEF v, w, q

\* The first message is taken.
LEMMA JoinedNext ==
  ASSUME NEW p \in Seq(Post), NEW b \in Seq(Post), NEW g \in 0..Len(p),
         g < Len(p)
  PROVE  /\ g + 1 \in 0..Len(p)
         /\ Len(Joined(p, g, b)) = Len(Joined(p, g + 1, b)) + 1
         /\ Joined(p, g, b)[1] = p[g + 1]
         /\ \A i \in 1..Len(Joined(p, g + 1, b)) :
              Joined(p, g + 1, b)[i] = Joined(p, g, b)[i + 1]
<1> DEFINE v == Joined(p, g + 1, b)
           w == Joined(p, g, b)
<1>1. /\ Len(p) \in Nat /\ Len(b) \in Nat
      /\ Len(w) = Len(p) - g + Len(b)
      /\ \A i \in 1..(Len(p) - g + Len(b)) :
           w[i] = IF i + g <= Len(p) THEN p[i + g] ELSE b[i + g - Len(p)]
  BY JoinedFields
<1>2. g + 1 \in 0..Len(p)
  BY <1>1
<1>3. /\ Len(v) = Len(p) - (g + 1) + Len(b)
      /\ \A i \in 1..(Len(p) - (g + 1) + Len(b)) :
           v[i] = IF i + (g + 1) <= Len(p) THEN p[i + (g + 1)]
                  ELSE b[i + (g + 1) - Len(p)]
  BY <1>2, JoinedFields
<1> HIDE DEF v, w
<1>4. Len(w) = Len(v) + 1 /\ w[1] = p[g + 1]
  <2>1. 1 \in 1..(Len(p) - g + Len(b)) /\ 1 + g <= Len(p) /\ 1 + g = g + 1
    BY <1>1
  <2> QED BY <1>1, <1>3, <2>1
<1>5. ASSUME NEW i \in 1..Len(v) PROVE v[i] = w[i + 1]
  <2>1. /\ i + 1 \in 1..(Len(p) - g + Len(b)) /\ i + 1 + g = i + (g + 1)
        /\ i \in 1..(Len(p) - (g + 1) + Len(b))
    BY <1>1, <1>3
  <2> QED BY <1>1, <1>3, <2>1
<1> QED BY <1>2, <1>4, <1>5 DEF v, w

\* A row as the properties see it.
LEMMA JoinedIs ==
  ASSUME NEW p \in Seq(Post), NEW b \in Seq(Post), NEW g \in 0..Len(p)
  PROVE  SubSeq(p, g + 1, Len(p)) \o b = Joined(p, g, b)
<1> DEFINE a == SubSeq(p, g + 1, Len(p))
           v == a \o b
           w == Joined(p, g, b)
<1>1. /\ a \in Seq(Post) /\ Len(a) = Len(p) - g
      /\ \A i \in 1..(Len(p) - g) : a[i] = p[i + g]
  BY SuffixFields
<1>2. /\ Len(p) \in Nat /\ Len(b) \in Nat /\ w \in Seq(Post)
      /\ Len(w) = Len(p) - g + Len(b)
      /\ \A i \in 1..(Len(p) - g + Len(b)) :
           w[i] = IF i + g <= Len(p) THEN p[i + g] ELSE b[i + g - Len(p)]
  BY JoinedFields
<1> HIDE DEF a, w
<1>3. /\ v \in Seq(Post) /\ Len(v) = Len(a) + Len(b)
      /\ \A i \in 1..(Len(a) + Len(b)) :
           v[i] = IF i <= Len(a) THEN a[i] ELSE b[i - Len(a)]
  BY <1>1, ConcatProperties
<1> HIDE DEF v
<1>4. ASSUME NEW i \in 1..Len(w) PROVE v[i] = w[i]
  <2>1. CASE i + g <= Len(p)
    <3>1. i \in 1..(Len(p) - g) /\ i <= Len(a) /\ i \in 1..(Len(a) + Len(b))
      BY <1>1, <1>2, <2>1
    <3> QED BY <1>1, <1>2, <1>3, <2>1, <3>1
  <2>2. CASE ~(i + g <= Len(p))
    <3>1. /\ ~(i <= Len(a)) /\ i \in 1..(Len(a) + Len(b))
          /\ i - Len(a) = i + g - Len(p)
      BY <1>1, <1>2, <2>2
    <3> QED BY <1>1, <1>2, <1>3, <2>2, <3>1
  <2> QED BY <2>1, <2>2
<1>5. Len(v) = Len(w)
  BY <1>1, <1>2, <1>3
<1>6. v = w
  BY <1>2, <1>3, <1>4, <1>5, RowEqual
<1> QED BY <1>6 DEF v, w, a

-----------------------------------------------------------------------------
(***************************************************************************)
(* Loops                                                                   *)
(***************************************************************************)

LEMMA LeastNumber ==
  ASSUME NEW T, T \subseteq Nat, T # {}
  PROVE  \E x \in T : \A y \in T : x <= y
<1>1. \E x \in T : \A y \in T : ~ (<<y, x>> \in OpToRel(<, Nat))
  BY NatLessThanWellFounded, WFMin
<1>2. \A a, b \in Nat : <<a, b>> \in OpToRel(<, Nat) <=> a < b
  BY Zenon DEF OpToRel
<1>3. \E x \in T : \A y \in T : ~ (y < x)
  BY <1>1, <1>2, Zenon
<1>4. \A x, y \in Nat : ~ (y < x) => x <= y
  OBVIOUS
<1> QED BY <1>3, <1>4, Zenon

\* What each turn of a loop keeps, the loop keeps.
LEMMA LoopKeeps ==
  ASSUME NEW S, NEW a, NEW n \in Nat, a[0] \in S,
         \A k \in 1..n : a[k - 1] \in S => a[k] \in S
  PROVE  \A k \in 0..n : a[k] \in S
<1> DEFINE T == {k \in 0..n : a[k] \notin S}
<1>1. SUFFICES ASSUME T # {} PROVE FALSE
  OBVIOUS
<1>2. PICK x \in T : \A y \in T : x <= y
  <2>1. T \subseteq Nat
    OBVIOUS
  <2> HIDE DEF T
  <2> QED BY <1>1, <2>1, LeastNumber
<1>3. x \in 1..n /\ x - 1 \in 0..n /\ ~(x <= x - 1)
  BY <1>2
<1>4. x - 1 \notin T
  BY <1>2, <1>3
<1> QED BY <1>2, <1>3, <1>4

\* The values of the variables of a loop that calls F for each element of s.
Turns(a, n, c, s, F) ==
  a = [k \in 0..n |-> IF k = 0 THEN c ELSE F[<<a[k - 1], s[k]>>]]

LEMMA LoopEnds ==
  ASSUME NEW S, NEW M, NEW F \in [S \X M -> S], NEW c \in S, NEW s \in Seq(M)
  PROVE  \E a : Turns(a, Len(s), c, s, F) /\ \A k \in 0..Len(s) : a[k] \in S
<1> DEFINE Runs(n, a) == Turns(a, n, c, s, F) /\ \A k \in 0..n : a[k] \in S
           T == {n \in 0..Len(s) : ~ \E a : Runs(n, a)}
<1>0. Len(s) \in Nat /\ \A i \in 1..Len(s) : s[i] \in M
  BY LenProperties, ElementOfSeq
<1>1. SUFFICES ASSUME T # {} PROVE FALSE
  BY <1>0
<1>2. PICK n \in T : \A y \in T : n <= y
  <2>1. T \subseteq Nat
    BY <1>0
  <2> HIDE DEF T
  <2> QED BY <1>1, <2>1, LeastNumber
<1>3. CASE n = 0
  <2> DEFINE a == [k \in 0..0 |-> c]
  <2>1. \A k \in 0..0 : a[k] = c /\ k = 0
    OBVIOUS
  <2>2. a = [k \in 0..0 |-> IF k = 0 THEN c ELSE F[<<a[k - 1], s[k]>>]]
    OBVIOUS
  <2> HIDE DEF a
  <2>3. Runs(0, a)
    BY <2>1, <2>2 DEF Turns
  <2> QED BY <1>2, <1>3, <2>3
<1>4. CASE n # 0
  <2>1. n - 1 \in 0..Len(s) /\ n \in 1..Len(s) /\ ~(n <= n - 1) /\ n \in Nat
    BY <1>0, <1>2, <1>4
  <2>2. PICK a : Runs(n - 1, a)
    BY <1>2, <2>1
  <2> DEFINE b == [k \in 0..n |-> IF k = n THEN F[<<a[n - 1], s[n]>>] ELSE a[k]]
  <2>3. /\ b[n] = F[<<a[n - 1], s[n]>>]
        /\ \A k \in 0..(n - 1) : b[k] = a[k]
        /\ b = [k \in 0..n |-> b[k]]
    BY <2>1
  <2> HIDE DEF b
  <2>4. a[n - 1] \in S /\ s[n] \in M /\ \A k \in 0..(n - 1) : a[k] \in S
    BY <1>0, <2>1, <2>2
  <2>5. b[n] \in S
    BY <2>3, <2>4
  <2>6. ASSUME NEW k \in 0..n
        PROVE  /\ b[k] = IF k = 0 THEN c ELSE F[<<b[k - 1], s[k]>>]
               /\ b[k] \in S
    <3>1. CASE k = n
      <4>1. n - 1 \in 0..(n - 1) /\ n # 0
        BY <1>4, <2>1
      <4> QED BY <2>3, <2>5, <3>1, <4>1
    <3>2. CASE k # n
      <4>1. k \in 0..(n - 1) /\ (k # 0 => k - 1 \in 0..(n - 1))
        BY <2>1, <3>2
      <4>2. a[k] = IF k = 0 THEN c ELSE F[<<a[k - 1], s[k]>>]
        BY <2>2, <4>1 DEF Turns
      <4> QED BY <2>3, <2>4, <4>1, <4>2
    <3> QED BY <3>1, <3>2
  <2>7. Runs(n, b)
    BY <2>3, <2>6 DEF Turns
  <2> QED BY <1>2, <2>7
<1> QED BY <1>3, <1>4

\* Each loop of the handlers keeps what its body keeps.
LEMMA EachContinue ==
  ASSUME NEW S, NEW M, NEW c \in S, NEW s \in Seq(M),
         \A d \in S, x \in M : Continue(d, x) \in S
  PROVE  ForEach(Continue, c, s) \in S
<1> DEFINE F == [z \in S \X M |-> Continue(z[1], z[2])]
           after[k \in 0..Len(s)] == IF k = 0 THEN c
                                     ELSE Continue(after[k - 1], s[k])
<1>1. F \in [S \X M -> S] /\ \A d \in S, x \in M : F[<<d, x>>] = Continue(d, x)
  OBVIOUS
<1>2. Len(s) \in Nat /\ \A i \in 1..Len(s) : s[i] \in M
  BY LenProperties, ElementOfSeq
<1> HIDE DEF F
<1>3. PICK a : Turns(a, Len(s), c, s, F) /\ \A k \in 0..Len(s) : a[k] \in S
  BY <1>1, LoopEnds
<1>4. a = [k \in 0..Len(s) |-> IF k = 0 THEN c ELSE Continue(a[k - 1], s[k])]
  <2>1. \A k \in 0..Len(s) : k # 0 => F[<<a[k - 1], s[k]>>] = Continue(a[k - 1], s[k])
    <3>1. \A k \in 0..Len(s) : k # 0 => k - 1 \in 0..Len(s) /\ k \in 1..Len(s)
      BY <1>2
    <3> QED BY <1>1, <1>2, <1>3, <3>1
  <2> QED BY <1>3, <2>1 DEF Turns
<1>5. after = [k \in 0..Len(s) |-> IF k = 0 THEN c
                                   ELSE Continue(after[k - 1], s[k])]
  BY <1>4, Zenon
<1>6. ForEach(Continue, c, s) = after[Len(s)]
  BY Zenon DEF ForEach
<1> HIDE DEF after
<1>7. after[0] = c /\ \A k \in 1..Len(s) : after[k] = Continue(after[k - 1], s[k])
  BY <1>2, <1>5
<1>8. \A k \in 0..Len(s) : after[k] \in S
  <2>1. \A k \in 1..Len(s) : after[k - 1] \in S => after[k] \in S
    BY <1>2, <1>7
  <2> QED BY <1>2, <1>7, <2>1, LoopKeeps
<1> QED BY <1>2, <1>6, <1>8

LEMMA EachDropped ==
  ASSUME NEW S, NEW M, NEW c \in S, NEW s \in Seq(M),
         \A d \in S, x \in M : dropMsg(d, x) \in S
  PROVE  ForEach(dropMsg, c, s) \in S
<1> DEFINE F == [z \in S \X M |-> dropMsg(z[1], z[2])]
           after[k \in 0..Len(s)] == IF k = 0 THEN c
                                     ELSE dropMsg(after[k - 1], s[k])
<1>1. F \in [S \X M -> S] /\ \A d \in S, x \in M : F[<<d, x>>] = dropMsg(d, x)
  OBVIOUS
<1>2. Len(s) \in Nat /\ \A i \in 1..Len(s) : s[i] \in M
  BY LenProperties, ElementOfSeq
<1> HIDE DEF F
<1>3. PICK a : Turns(a, Len(s), c, s, F) /\ \A k \in 0..Len(s) : a[k] \in S
  BY <1>1, LoopEnds
<1>4. a = [k \in 0..Len(s) |-> IF k = 0 THEN c ELSE dropMsg(a[k - 1], s[k])]
  <2>1. \A k \in 0..Len(s) : k # 0 => F[<<a[k - 1], s[k]>>] = dropMsg(a[k - 1], s[k])
    <3>1. \A k \in 0..Len(s) : k # 0 => k - 1 \in 0..Len(s) /\ k \in 1..Len(s)
      BY <1>2
    <3> QED BY <1>1, <1>2, <1>3, <3>1
  <2> QED BY <1>3, <2>1 DEF Turns
<1>5. after = [k \in 0..Len(s) |-> IF k = 0 THEN c
                                   ELSE dropMsg(after[k - 1], s[k])]
  BY <1>4, Zenon
<1>6. ForEach(dropMsg, c, s) = after[Len(s)]
  BY Zenon DEF ForEach
<1> HIDE DEF after
<1>7. after[0] = c /\ \A k \in 1..Len(s) : after[k] = dropMsg(after[k - 1], s[k])
  BY <1>2, <1>5
<1>8. \A k \in 0..Len(s) : after[k] \in S
  <2>1. \A k \in 1..Len(s) : after[k - 1] \in S => after[k] \in S
    BY <1>2, <1>7
  <2> QED BY <1>2, <1>7, <2>1, LoopKeeps
<1> QED BY <1>2, <1>6, <1>8

LEMMA EachGivenBack ==
  ASSUME NEW S, NEW M, NEW c \in S, NEW s \in Seq(M),
         \A d \in S, x \in M : GiveBack(d, x) \in S
  PROVE  ForEach(GiveBack, c, s) \in S
<1> DEFINE F == [z \in S \X M |-> GiveBack(z[1], z[2])]
           after[k \in 0..Len(s)] == IF k = 0 THEN c
                                     ELSE GiveBack(after[k - 1], s[k])
<1>1. F \in [S \X M -> S] /\ \A d \in S, x \in M : F[<<d, x>>] = GiveBack(d, x)
  OBVIOUS
<1>2. Len(s) \in Nat /\ \A i \in 1..Len(s) : s[i] \in M
  BY LenProperties, ElementOfSeq
<1> HIDE DEF F
<1>3. PICK a : Turns(a, Len(s), c, s, F) /\ \A k \in 0..Len(s) : a[k] \in S
  BY <1>1, LoopEnds
<1>4. a = [k \in 0..Len(s) |-> IF k = 0 THEN c ELSE GiveBack(a[k - 1], s[k])]
  <2>1. \A k \in 0..Len(s) : k # 0 => F[<<a[k - 1], s[k]>>] = GiveBack(a[k - 1], s[k])
    <3>1. \A k \in 0..Len(s) : k # 0 => k - 1 \in 0..Len(s) /\ k \in 1..Len(s)
      BY <1>2
    <3> QED BY <1>1, <1>2, <1>3, <3>1
  <2> QED BY <1>3, <2>1 DEF Turns
<1>5. after = [k \in 0..Len(s) |-> IF k = 0 THEN c
                                   ELSE GiveBack(after[k - 1], s[k])]
  BY <1>4, Zenon
<1>6. ForEach(GiveBack, c, s) = after[Len(s)]
  BY Zenon DEF ForEach
<1> HIDE DEF after
<1>7. after[0] = c /\ \A k \in 1..Len(s) : after[k] = GiveBack(after[k - 1], s[k])
  BY <1>2, <1>5
<1>8. \A k \in 0..Len(s) : after[k] \in S
  <2>1. \A k \in 1..Len(s) : after[k - 1] \in S => after[k] \in S
    BY <1>2, <1>7
  <2> QED BY <1>2, <1>7, <2>1, LoopKeeps
<1> QED BY <1>2, <1>6, <1>8

\* The loop of sendContMsgs().
EachCont(tid, c, s) ==
  LET after[k \in 0..Len(s)] ==
        IF k = 0 THEN c ELSE contIfUp(after[k - 1], tid, s[k])
  IN  after[Len(s)]

LEMMA EachIfUp ==
  ASSUME NEW tid, NEW S, NEW M, NEW c \in S, NEW s \in Seq(M),
         \A d \in S, x \in M : contIfUp(d, tid, x) \in S
  PROVE  EachCont(tid, c, s) \in S
<1> DEFINE F == [z \in S \X M |-> contIfUp(z[1], tid, z[2])]
           after[k \in 0..Len(s)] == IF k = 0 THEN c
                                     ELSE contIfUp(after[k - 1], tid, s[k])
<1>1. F \in [S \X M -> S] /\ \A d \in S, x \in M : F[<<d, x>>] = contIfUp(d, tid, x)
  OBVIOUS
<1>2. Len(s) \in Nat /\ \A i \in 1..Len(s) : s[i] \in M
  BY LenProperties, ElementOfSeq
<1> HIDE DEF F
<1>3. PICK a : Turns(a, Len(s), c, s, F) /\ \A k \in 0..Len(s) : a[k] \in S
  BY <1>1, LoopEnds
<1>4. a = [k \in 0..Len(s) |-> IF k = 0 THEN c ELSE contIfUp(a[k - 1], tid, s[k])]
  <2>1. \A k \in 0..Len(s) : k # 0 => F[<<a[k - 1], s[k]>>] = contIfUp(a[k - 1], tid, s[k])
    <3>1. \A k \in 0..Len(s) : k # 0 => k - 1 \in 0..Len(s) /\ k \in 1..Len(s)
      BY <1>2
    <3> QED BY <1>1, <1>2, <1>3, <3>1
  <2> QED BY <1>3, <2>1 DEF Turns
<1>5. after = [k \in 0..Len(s) |-> IF k = 0 THEN c
                                   ELSE contIfUp(after[k - 1], tid, s[k])]
  BY <1>4, Zenon
<1> HIDE DEF after
<1>7. after[0] = c /\ \A k \in 1..Len(s) : after[k] = contIfUp(after[k - 1], tid, s[k])
  BY <1>2, <1>5
<1>8. \A k \in 0..Len(s) : after[k] \in S
  <2>1. \A k \in 1..Len(s) : after[k - 1] \in S => after[k] \in S
    BY <1>2, <1>7
  <2> QED BY <1>2, <1>7, <2>1, LoopKeeps
<1>9. after[Len(s)] \in S
  BY <1>2, <1>8
<1> QED BY <1>9, Zenon DEF EachCont, after

-----------------------------------------------------------------------------
(***************************************************************************)
(* What becomes of a good context                                          *)
(***************************************************************************)

LEMMA ContextFields ==
  ASSUME NEW n \in Node, NEW h \in Context(n)
  PROVE  /\ h.n = n /\ h.task \in [Task -> TaskEntry]
         /\ h.client \in [Fd -> Client] /\ h.sock \in [Fd -> Socket]
         /\ h.buf \in [Peers(n) -> Seq(Post)]
         /\ h.link \in [Peers(n) -> LinkEntry]
         /\ h.up \in [Node -> BOOLEAN]
         /\ h.result \in {"sent", "blocked", "dropped"}
  BY DEF Context

LEMMA EntryFields ==
  /\ \A e \in TaskEntry : /\ e.managed \in BOOLEAN /\ e.fd \in Fd \cup {NoFd}
                          /\ e.managed \/ e.fd = NoFd
                          /\ e.activeStops \in Int /\ e.enabled \in BOOLEAN
  /\ \A e \in Client : /\ e.tid \in Task \cup {NoTask} /\ e.flush \in BOOLEAN
                       /\ e.pendingACKs \in Int /\ e.msgs \in Seq(Post)
                       /\ e.stops \subseteq Sender
  /\ \A e \in Socket : e.data \in Seq(Post) /\ e.closed \in BOOLEAN
  /\ \A e \in LinkEntry : e.pend \in Seq(Post) /\ e.got \in Nat
  BY DEF TaskEntry, Client, Socket, LinkEntry

LEMMA Constants ==
  /\ \A n \in Node : Window[n] \in Nat /\ Window[n] > 0
  /\ SockCap \in Nat /\ SockCap > 0 /\ NoFd \notin Fd
  /\ NoTask \notin Task /\ NoTask \notin Sender
  /\ \A n \in Node : n \notin Task
  /\ \A t \in Task : t \notin Node /\ Home[t] \in Node
  BY CapAssumption, FdAssumption, PlaceAssumption DEF NoFd, NoTask, Sender

\* An entry of the table of tasks changes, except for its file descriptor.
LEMMA TaskTouched ==
  ASSUME NEW n \in Node, NEW h \in Good(n), NEW g \in Context(n),
         g.client = h.client, g.sock = h.sock, g.buf = h.buf, g.link = h.link,
         \A t \in Task : g.task[t].fd = h.task[t].fd
  PROVE  g \in Good(n) /\ Quiet(n, h, g)
<1>1. h \in Context(n) /\ h.n = n /\ g.n = n
  BY ContextFields DEF Good
<1>2. \A p \in Peers(n) : Carried(g, p) /\ Filled(g, p)
  BY <1>1 DEF Good, Carried, Filled
<1>3. \A f \in Fd : Served(g, f)
  <2> SUFFICES ASSUME NEW f \in Fd PROVE Served(g, f)
    OBVIOUS
  <2>1. h.client[f].tid # NoTask => h.client[f].tid \in Task
    BY <1>1, ContextFields, EntryFields
  <2>2. Served(h, f)
    BY DEF Good
  <2> QED BY <1>1, <2>1, <2>2 DEF Served
<1>4. \A t \in Task : Registered(g, t)
  BY <1>1 DEF Good, Registered
<1>5. \A r \in Local(n) : Inbox(g, r) = Inbox(h, r)
  BY DEF Inbox, Local
<1>6. \A m \in Peers(n) : Outbox(g, m) = Outbox(h, m)
  BY DEF Outbox
<1> QED BY <1>2, <1>3, <1>4, <1>5, <1>6 DEF Good, Quiet

\* What is on its way to m changes.
LEMMA LinkTouched ==
  ASSUME NEW n \in Node, NEW m \in Peers(n), NEW h \in Nearly(n, m),
         NEW g \in Context(n),
         g.client = h.client, g.sock = h.sock, g.task = h.task,
         \A p \in Peers(n) : p # m => g.link[p] = h.link[p] /\ g.buf[p] = h.buf[p],
         Carried(g, m), Filled(g, m)
  PROVE  /\ g \in Good(n)
         /\ \A r \in Local(n) : Inbox(g, r) = Inbox(h, r)
         /\ \A p \in Peers(n) : p # m => Outbox(g, p) = Outbox(h, p)
<1>1. h \in Context(n) /\ h.n = n /\ g.n = n
  BY ContextFields DEF Nearly
<1>2. \A p \in Peers(n) : Carried(g, p) /\ Filled(g, p)
  <2> SUFFICES ASSUME NEW p \in Peers(n), p # m PROVE Carried(g, p) /\ Filled(g, p)
    OBVIOUS
  <2>1. Carried(h, p) /\ Filled(h, p)
    BY DEF Nearly
  <2> QED BY <1>1, <2>1 DEF Carried, Filled
<1>3. \A f \in Fd : Served(g, f)
  BY <1>1 DEF Nearly, Served
<1>4. \A t \in Task : Registered(g, t)
  BY <1>1 DEF Nearly, Registered
<1>5. \A r \in Local(n) : Inbox(g, r) = Inbox(h, r)
  BY DEF Inbox
<1>6. \A p \in Peers(n) : p # m => Outbox(g, p) = Outbox(h, p)
  BY DEF Outbox
<1> QED BY <1>2, <1>3, <1>4, <1>5, <1>6 DEF Good

\* What belongs to the file descriptor f changes, except for whose it is.
LEMMA ClientTouched ==
  ASSUME NEW n \in Node, NEW f \in Fd, NEW h \in Good(n), NEW g \in Context(n),
         g.link = h.link, g.buf = h.buf,
         \A t \in Task : g.task[t].fd = h.task[t].fd,
         \A e \in Fd : e # f => /\ g.sock[e] = h.sock[e]
                                /\ g.client[e].tid = h.client[e].tid
                                /\ g.client[e].msgs = h.client[e].msgs,
         g.client[f].tid = h.client[f].tid,
         g.sock[f].data \in Seq(Letters(h.client[f].tid)),
         g.client[f].msgs \in Seq(Letters(h.client[f].tid)),
         Len(g.sock[f].data) <= SockCap,
         g.sock[f].closed => g.sock[f].data = << >>
  PROVE  /\ g \in Good(n)
         /\ \A r \in Local(n) : r # h.client[f].tid => Inbox(g, r) = Inbox(h, r)
         /\ \A r \in Local(n) :
              r = h.client[f].tid =>
                /\ Inbox(g, r) = Joined(g.sock[f].data, 0, g.client[f].msgs)
                /\ Inbox(h, r) = Joined(h.sock[f].data, 0, h.client[f].msgs)
         /\ \A m \in Peers(n) : Outbox(g, m) = Outbox(h, m)
<1>1. h \in Context(n) /\ h.n = n /\ g.n = n
  BY ContextFields DEF Good
<1>2. \A p \in Peers(n) : Carried(g, p) /\ Filled(g, p)
  BY <1>1 DEF Good, Carried, Filled
<1>3. \A e \in Fd : /\ h.client[e].tid \in Task \cup {NoTask} /\ Served(h, e)
                    /\ g.client[e].tid = h.client[e].tid
  BY <1>1, ContextFields, EntryFields DEF Good
<1>4. \A e \in Fd : Served(g, e)
  <2> SUFFICES ASSUME NEW e \in Fd PROVE Served(g, e)
    OBVIOUS
  <2>1. h.client[e].tid # NoTask => Home[h.client[e].tid] = n /\ g.task[h.client[e].tid].fd = e
    BY <1>1, <1>3 DEF Served
  <2> QED BY <1>1, <1>3, <2>1 DEF Served
<1>5. \A t \in Task : h.task[t].fd \in Fd \cup {NoFd} /\ Registered(h, t)
  BY <1>1, ContextFields, EntryFields DEF Good
<1>6. \A t \in Task : Registered(g, t)
  BY <1>1, <1>3, <1>5 DEF Registered
<1>7. ASSUME NEW r \in Local(n), r # h.client[f].tid
      PROVE  Inbox(g, r) = Inbox(h, r)
  BY <1>1, <1>5, <1>7 DEF Registered, Local, Inbox
<1>8. ASSUME NEW r \in Local(n), r = h.client[f].tid
      PROVE  /\ Inbox(g, r) = Joined(g.sock[f].data, 0, g.client[f].msgs)
             /\ Inbox(h, r) = Joined(h.sock[f].data, 0, h.client[f].msgs)
  <2>1. h.task[r].fd = f /\ g.task[r].fd = f /\ f # NoFd
    BY <1>1, <1>3, <1>8, Constants DEF Served, Local
  <2> QED BY <2>1 DEF Inbox
<1>9. \A m \in Peers(n) : Outbox(g, m) = Outbox(h, m)
  BY DEF Outbox
<1>10. g \in Good(n)
  BY <1>2, <1>4, <1>6 DEF Good
<1> QED BY <1>7, <1>8, <1>9, <1>10

-----------------------------------------------------------------------------
(***************************************************************************)
(* Sending by RDP                                                          *)
(***************************************************************************)

LEMMA SteadyKeeps ==
  ASSUME NEW n \in Node, NEW S, Steady(n, S), NEW h \in S
  PROVE  /\ h \in Good(n) /\ h \in Context(n)
         /\ \A g \in Good(n) : Quiet(n, h, g) => g \in S
         /\ \A g \in Good(n), x \in Post :
              x.type # "MSG" /\ Posts(n, h, g, x) => g \in S
  BY DEF Steady, Good

LEMMA TaskSet ==
  ASSUME NEW n \in Node, NEW h \in Context(n), NEW t \in Task, NEW e \in TaskEntry
  PROVE  LET g == [h EXCEPT !.task[t] = e]
         IN  /\ g \in Context(n) /\ g.task[t] = e
             /\ \A u \in Task : u # t => g.task[u] = h.task[u]
             /\ g.client = h.client /\ g.sock = h.sock /\ g.buf = h.buf
             /\ g.link = h.link /\ g.up = h.up
  BY DEF Context

\* An entry of the table of tasks changes in a steady set.
LEMMA TaskSteady ==
  ASSUME NEW n \in Node, NEW S, Steady(n, S), NEW h \in S, NEW t \in Task,
         NEW e \in TaskEntry, e.fd = h.task[t].fd
  PROVE  [h EXCEPT !.task[t] = e] \in S
<1> DEFINE g == [h EXCEPT !.task[t] = e]
<1>1. h \in Good(n) /\ h \in Context(n)
  BY SteadyKeeps
<1>2. /\ g \in Context(n) /\ g.client = h.client /\ g.sock = h.sock
      /\ g.buf = h.buf /\ g.link = h.link
      /\ \A u \in Task : g.task[u].fd = h.task[u].fd
  BY <1>1, TaskSet
<1> HIDE DEF g
<1>3. g \in Good(n) /\ Quiet(n, h, g)
  BY <1>1, <1>2, TaskTouched
<1>4. g \in S
  BY <1>3, SteadyKeeps
<1> QED BY <1>4 DEF g

LEMMA SENDCONTSteady ==
  ASSUME NEW n \in Node, NEW S, Steady(n, S), NEW h \in S, NEW t
  PROVE  msg_SENDCONT(h, t) \in S
<1>1. CASE ~Connected(h, t)
  BY <1>1 DEF msg_SENDCONT
<1>2. CASE Connected(h, t)
  <2> DEFINE a == h.task[t]
             v == a.activeStops - 1
             w == a.enabled \/ a.activeStops = 1
             e == [a EXCEPT !.activeStops = v, !.enabled = w]
  <2>1. t \in Task /\ a \in TaskEntry
    BY <1>2, SteadyKeeps, ContextFields DEF Connected, hasPID
  <2>2. msg_SENDCONT(h, t) = [h EXCEPT !.task[t] = e]
    <3>1. msg_SENDCONT(h, t) = [h EXCEPT !.task[t].activeStops = v,
                                         !.task[t].enabled = w]
      BY <1>2, Zenon DEF msg_SENDCONT
    <3> HIDE DEF v, w
    <3>2. h \in Context(n)
      BY SteadyKeeps
    <3> QED BY <2>1, <3>1, <3>2 DEF Context
  <2>3. v \in Int /\ w \in BOOLEAN
    BY <2>1, EntryFields
  <2> HIDE DEF v, w
  <2>4. e \in TaskEntry /\ e.fd = h.task[t].fd
    BY <2>1, <2>3 DEF TaskEntry
  <2> HIDE DEF e
  <2> QED BY <2>1, <2>2, <2>4, TaskSteady
<1> QED BY <1>1, <1>2

LEMMA ContinueSteady ==
  ASSUME NEW n \in Node, NEW S, Steady(n, S), NEW h \in S, NEW x
  PROVE  Continue(h, x) \in S
  BY SENDCONTSteady DEF Continue

LEMMA ContinueEach ==
  ASSUME NEW n \in Node, NEW S, Steady(n, S), NEW h \in S, NEW M, NEW s \in Seq(M)
  PROVE  ForEach(Continue, h, s) \in S
<1>1. \A d \in S, x \in M : Continue(d, x) \in S
  BY ContinueSteady
<1> QED BY <1>1, EachContinue

\* The queues of messages to m are set.
SetLink(h, m, p, b) == [h EXCEPT !.buf[m] = b, !.link[m].pend = p]

LEMMA LinkSet ==
  ASSUME NEW n \in Node, NEW m \in Peers(n), NEW h \in Context(n),
         NEW p \in Seq(Post), NEW b \in Seq(Post)
  PROVE  LET g == SetLink(h, m, p, b)
         IN  /\ g \in Context(n) /\ g.n = n
             /\ g.buf[m] = b /\ g.link[m].pend = p /\ g.link[m].got = h.link[m].got
             /\ \A k \in Peers(n) : k # m => /\ g.link[k] = h.link[k]
                                            /\ g.buf[k] = h.buf[k]
             /\ g.client = h.client /\ g.sock = h.sock /\ g.task = h.task
<1> DEFINE g == SetLink(h, m, p, b)
<1>1. h.link[m] \in LinkEntry
  BY ContextFields
<1>2. [h.link[m] EXCEPT !.pend = p] \in LinkEntry
  BY <1>1 DEF LinkEntry
<1>3. /\ g.buf = [h.buf EXCEPT ![m] = b]
      /\ g.link = [h.link EXCEPT ![m] = [h.link[m] EXCEPT !.pend = p]]
      /\ g.client = h.client /\ g.sock = h.sock /\ g.task = h.task
      /\ g.up = h.up /\ g.n = h.n /\ g.result = h.result
      /\ g = [h EXCEPT !.buf[m] = b, !.link[m].pend = p]
  BY DEF Context, SetLink
<1> HIDE DEF g
<1>4. /\ g.buf \in [Peers(n) -> Seq(Post)] /\ g.link \in [Peers(n) -> LinkEntry]
  BY <1>2, <1>3, ContextFields
<1>5. g \in Context(n)
  BY <1>3, <1>4 DEF Context
<1>6. /\ g.buf[m] = b /\ g.link[m].pend = p /\ g.link[m].got = h.link[m].got
      /\ \A k \in Peers(n) : k # m => /\ g.link[k] = h.link[k]
                                      /\ g.buf[k] = h.buf[k]
  BY <1>1, <1>3, ContextFields DEF LinkEntry
<1>7. g.n = n
  BY <1>3, ContextFields
<1> QED BY <1>3, <1>5, <1>6, <1>7 DEF g

\* flushRDPMsgs() restores what a window just opened has disturbed.
LEMMA FlushesWindow ==
  ASSUME NEW n \in Node, NEW m \in Peers(n), NEW h \in Nearly(n, m)
  PROVE  LET k == Least(Window[h.n] - Len(h.link[m].pend), Len(h.buf[m]))
             g == [h EXCEPT !.buf[m] = SubSeq(@, k + 1, Len(@)),
                            !.link[m].pend = @ \o SubSeq(h.buf[m], 1, k)]
         IN  /\ g \in Good(n) /\ Quiet(n, h, g) /\ k \in 0..Len(h.buf[m])
             /\ \A p \in Peers(n) : Outbox(g, p) = Outbox(h, p)
             /\ \A r \in Local(n) : Inbox(g, r) = Inbox(h, r)
<1> DEFINE p == h.link[m].pend
           b == h.buf[m]
           k == Least(Window[h.n] - Len(p), Len(b))
           q == p \o SubSeq(b, 1, k)
           d == SubSeq(b, k + 1, Len(b))
           g == SetLink(h, m, q, d)
<1>1. h \in Context(n) /\ h.n = n
  BY ContextFields DEF Nearly
<1>2. /\ p \in Seq(Mail(n, m)) /\ b \in Seq(Mail(n, m)) /\ h.link[m].got <= Len(p)
      /\ Len(p) <= Window[n]
  BY <1>1 DEF Nearly, Carried
<1>3. Mail(n, m) \subseteq Post
  BY DEF Mail
<1>4. /\ p \in Seq(Post) /\ b \in Seq(Post) /\ h.link[m].got \in 0..Len(p)
      /\ Len(p) \in Nat /\ Len(b) \in Nat
  <2>1. h.link[m].got \in Nat /\ Len(p) \in Nat /\ Len(b) \in Nat
    BY <1>1, <1>2, ContextFields, EntryFields, LenProperties
  <2> QED BY <1>2, <1>3, <2>1, SeqMonotonic
<1>5. /\ k \in 0..Len(b)
      /\ k = Len(b) \/ Len(p) + k = Window[n]
      /\ Len(p) + k <= Window[n]
  <2>1. Window[n] \in Nat
    BY Constants
  <2> HIDE DEF p, b
  <2> QED BY <1>1, <1>2, <1>4, <2>1 DEF Least
<1> HIDE DEF k
<1>6. /\ q \in Seq(Mail(n, m)) /\ d \in Seq(Mail(n, m))
      /\ Len(q) = Len(p) + k /\ Len(d) = Len(b) - k
      /\ Joined(q, h.link[m].got, d) = Joined(p, h.link[m].got, b)
  <2> DEFINE j == h.link[m].got
  <2>1. j \in 0..Len(p)
    BY <1>4
  <2> HIDE DEF p, b, j
  <2>2. /\ q \in Seq(Mail(n, m)) /\ d \in Seq(Mail(n, m))
        /\ Len(q) = Len(p) + k /\ Len(d) = Len(b) - k
        /\ Joined(q, j, d) = Joined(p, j, b)
    BY <1>2, <1>3, <1>5, <2>1, JoinedMoved
  <2> QED BY <2>2 DEF j
<1>7. q \in Seq(Post) /\ d \in Seq(Post)
  BY <1>3, <1>6, SeqMonotonic
<1> HIDE DEF q, d
<1>8. /\ g \in Context(n) /\ g.n = n
      /\ g.buf[m] = d /\ g.link[m].pend = q /\ g.link[m].got = h.link[m].got
      /\ \A e \in Peers(n) : e # m => g.link[e] = h.link[e] /\ g.buf[e] = h.buf[e]
      /\ g.client = h.client /\ g.sock = h.sock /\ g.task = h.task
  <2> HIDE DEF p, b
  <2> QED BY <1>1, <1>7, LinkSet
<1> HIDE DEF g
<1>9. Carried(g, m) /\ Filled(g, m)
  <2>1. d # << >> => Len(d) # 0
    BY <1>7, EmptySeq
  <2>2. Len(q) <= Window[n] /\ h.link[m].got <= Len(q)
    BY <1>4, <1>5, <1>6
  <2>3. d # << >> => Len(q) = Window[n]
    BY <1>4, <1>5, <1>6, <2>1
  <2> QED BY <1>6, <1>8, <2>2, <2>3 DEF Carried, Filled
<1>10. /\ g \in Good(n)
       /\ \A r \in Local(n) : Inbox(g, r) = Inbox(h, r)
       /\ \A e \in Peers(n) : e # m => Outbox(g, e) = Outbox(h, e)
  BY <1>8, <1>9, LinkTouched
<1>11. Outbox(g, m) = Outbox(h, m)
  BY <1>6, <1>8 DEF Outbox, p, b
<1>12. Quiet(n, h, g)
  BY <1>8, <1>10, <1>11 DEF Quiet
<1> QED BY <1>5, <1>10, <1>11, <1>12, Zenon DEF SetLink, g, q, d, k, p, b

\* A message for m is sent or stored.
LinkGrows(n, m, h, g, x) ==
  /\ g.client = h.client /\ g.sock = h.sock /\ g.task = h.task
  /\ \A p \in Peers(n) : p # m => g.link[p] = h.link[p] /\ g.buf[p] = h.buf[p]
  /\ g.link[m].got = h.link[m].got
  /\ \/ /\ h.buf[m] = << >> /\ g.buf[m] = << >>
        /\ Len(h.link[m].pend) < Window[n]
        /\ g.link[m].pend = Append(h.link[m].pend, x)
     \/ /\ Len(h.link[m].pend) = Window[n]
        /\ g.link[m].pend = h.link[m].pend
        /\ g.buf[m] = Append(h.buf[m], x)

LEMMA LinkPosts ==
  ASSUME NEW n \in Node, NEW m \in Peers(n), NEW h \in Good(n),
         NEW g \in Context(n), NEW x \in Mail(n, m),
         LinkGrows(n, m, h, g, x)
  PROVE  g \in Good(n) /\ Posts(n, h, g, x)
<1> DEFINE p == h.link[m].pend
           b == h.buf[m]
           k == h.link[m].got
<1>1. h \in Context(n) /\ h.n = n /\ g.n = n /\ h \in Nearly(n, m)
  BY ContextFields DEF Good, Nearly
<1>2. /\ p \in Seq(Mail(n, m)) /\ b \in Seq(Mail(n, m)) /\ k <= Len(p) /\ Len(p) <= Window[n]
  BY <1>1 DEF Good, Carried
<1>3. Mail(n, m) \subseteq Post /\ x \in Post
  BY DEF Mail
<1>4. /\ p \in Seq(Post) /\ b \in Seq(Post) /\ k \in 0..Len(p)
      /\ Len(p) \in Nat /\ Window[n] \in Nat
  <2>1. k \in Nat /\ Len(p) \in Nat
    BY <1>1, <1>2, ContextFields, EntryFields, LenProperties
  <2> QED BY <1>2, <1>3, <2>1, SeqMonotonic, Constants
<1>5. /\ Carried(g, m) /\ Filled(g, m)
      /\ Outbox(g, m) = Append(Outbox(h, m), x)
  <2>1. CASE /\ b = << >> /\ g.buf[m] = << >> /\ Len(p) < Window[n]
             /\ g.link[m].pend = Append(p, x)
    <3> DEFINE q == Append(p, x)
    <3>1. q \in Seq(Mail(n, m)) /\ Len(q) = Len(p) + 1
      BY <1>2, AppendFields
    <3>2. Joined(q, k, << >>) = Append(Joined(p, k, << >>), x)
      BY <1>3, <1>4, JoinedSent
    <3> HIDE DEF q
    <3>3. k <= Len(q) /\ Len(q) <= Window[n]
      BY <1>4, <2>1, <3>1
    <3>4. Carried(g, m) /\ Filled(g, m)
      BY <1>1, <1>2, <2>1, <3>1, <3>3 DEF LinkGrows, Carried, Filled, q
    <3> QED BY <2>1, <3>2, <3>4 DEF LinkGrows, Outbox, q
  <2>2. CASE /\ Len(p) = Window[n] /\ g.link[m].pend = p
             /\ g.buf[m] = Append(b, x)
    <3> DEFINE d == Append(b, x)
    <3>1. d \in Seq(Mail(n, m))
      BY <1>2, AppendFields
    <3>2. Joined(p, k, d) = Append(Joined(p, k, b), x)
      BY <1>3, <1>4, JoinedStored
    <3> HIDE DEF d
    <3>3. Carried(g, m) /\ Filled(g, m)
      BY <1>1, <1>2, <2>2, <3>1 DEF LinkGrows, Carried, Filled, d
    <3> QED BY <2>2, <3>2, <3>3 DEF LinkGrows, Outbox, d
  <2> QED BY <2>1, <2>2 DEF LinkGrows
<1> HIDE DEF p, b, k
<1>6. /\ g \in Good(n)
      /\ \A r \in Local(n) : Inbox(g, r) = Inbox(h, r)
      /\ \A e \in Peers(n) : e # m => Outbox(g, e) = Outbox(h, e)
  BY <1>1, <1>5, LinkTouched DEF LinkGrows
<1>7. getID(x.to) = m /\ x.to \notin Local(n)
  <2>1. getID(x.to) = m /\ m # n
    BY DEF Mail, Peers
  <2>2. \A r \in Local(n) : getID(r) = n
    BY Constants DEF Local, getID
  <2> QED BY <2>1, <2>2
<1>8. Posts(n, h, g, x)
  BY <1>5, <1>6, <1>7 DEF Posts, LinkGrows
<1> QED BY <1>6, <1>8

\* A message x leads from the steady set S to the steady set T.
Carries(n, S, T, x) ==
  /\ Steady(n, S) /\ Steady(n, T) /\ S \subseteq T
  /\ \A h \in S, g \in Good(n) : Posts(n, h, g, x) => g \in T

LEMMA OtherCarried ==
  ASSUME NEW n \in Node, NEW S, Steady(n, S), NEW x \in Post, x.type # "MSG"
  PROVE  Carries(n, S, S, x)
  BY DEF Carries, Steady

LEMMA FlushSteady ==
  ASSUME NEW n \in Node, NEW m \in Peers(n), NEW S, Steady(n, S),
         NEW h \in Nearly(n, m), \A g \in Good(n) : Quiet(n, h, g) => g \in S
  PROVE  flushRDPMsgs(h, m) \in S
<1> DEFINE k == Least(Window[h.n] - Len(h.link[m].pend), Len(h.buf[m]))
           g == [h EXCEPT !.buf[m] = SubSeq(@, k + 1, Len(@)),
                          !.link[m].pend = @ \o SubSeq(h.buf[m], 1, k)]
           s == SubSeq(h.buf[m], 1, k)
<1>1. g \in Good(n) /\ Quiet(n, h, g) /\ k \in 0..Len(h.buf[m])
  BY FlushesWindow
<1>2. h.buf[m] \in Seq(Post)
  BY ContextFields DEF Nearly
<1>3. flushRDPMsgs(h, m) = ForEach(Continue, g, s)
  BY Zenon DEF flushRDPMsgs
<1> HIDE DEF k
<1>4. s \in Seq(Post)
  BY <1>1, <1>2, PrefixFields
<1> HIDE DEF g, s
<1>5. g \in S
  BY <1>1
<1> QED BY <1>3, <1>4, <1>5, ContinueEach

LEMMA GoodNearly ==
  ASSUME NEW n \in Node, NEW m \in Peers(n), NEW S, Steady(n, S), NEW h \in S
  PROVE  flushRDPMsgs(h, m) \in S
<1>1. h \in Nearly(n, m) /\ \A g \in Good(n) : Quiet(n, h, g) => g \in S
  BY SteadyKeeps DEF Good, Nearly
<1> QED BY <1>1, FlushSteady

LEMMA StoreCarried ==
  ASSUME NEW n \in Node, NEW m \in Peers(n), NEW x \in Mail(n, m), NEW S, NEW T,
         Carries(n, S, T, x), NEW h \in S
  PROVE  /\ sendOrStore(h, m, x) \in T
         /\ sendOrStore(h, m, x).result \in {"sent", "blocked"}
<1>1. h \in Good(n) /\ h \in Context(n) /\ h.n = n
  BY SteadyKeeps, ContextFields DEF Carries
<1>2. x \in Post /\ h.link[m] \in LinkEntry
  BY <1>1, ContextFields DEF Mail
<1>3. h.link[m].pend \in Seq(Post) /\ h.buf[m] \in Seq(Post)
  BY <1>1, <1>2, EntryFields, ContextFields
<1>4. CASE h.buf[m] = << >> /\ hasRoom(h, m)
  <2> DEFINE q == Append(h.link[m].pend, x)
             g == [h EXCEPT !.link[m].pend = q, !.result = "sent"]
  <2>1. q \in Seq(Post)
    BY <1>2, <1>3, AppendFields
  <2>2. sendOrStore(h, m, x) = g
    BY <1>4, Zenon DEF sendOrStore
  <2> HIDE DEF q
  <2>3. [h.link[m] EXCEPT !.pend = q] \in LinkEntry
    BY <1>2, <2>1 DEF LinkEntry
  <2>4. /\ g.link = [h.link EXCEPT ![m] = [h.link[m] EXCEPT !.pend = q]]
        /\ g.client = h.client /\ g.sock = h.sock /\ g.task = h.task
        /\ g.up = h.up /\ g.n = h.n /\ g.buf = h.buf /\ g.result = "sent"
        /\ g = [h EXCEPT !.link[m].pend = q, !.result = "sent"]
    BY <1>1 DEF Context
  <2> HIDE DEF g
  <2>5. g.link \in [Peers(n) -> LinkEntry]
    BY <1>1, <2>3, <2>4, ContextFields
  <2>6. g \in Context(n)
    BY <1>1, <2>4, <2>5 DEF Context
  <2>7. /\ g.link[m].pend = q /\ g.link[m].got = h.link[m].got
        /\ \A p \in Peers(n) : p # m => g.link[p] = h.link[p] /\ g.buf[p] = h.buf[p]
    BY <1>1, <1>2, <2>4, ContextFields DEF LinkEntry
  <2>8. h.buf[m] = << >> /\ g.buf[m] = << >> /\ Len(h.link[m].pend) < Window[n]
    BY <1>1, <1>4, <2>4 DEF hasRoom
  <2>9. g \in Good(n) /\ Posts(n, h, g, x)
    <3>1. LinkGrows(n, m, h, g, x)
      BY <2>4, <2>7, <2>8 DEF LinkGrows, q
    <3> QED BY <1>1, <2>6, <3>1, LinkPosts
  <2> QED BY <2>2, <2>4, <2>9 DEF Carries
<1>5. CASE ~(h.buf[m] = << >> /\ hasRoom(h, m))
  <2> DEFINE d == Append(h.buf[m], x)
             g == [h EXCEPT !.buf[m] = d, !.result = "blocked"]
  <2>1. d \in Seq(Post)
    BY <1>2, <1>3, AppendFields
  <2>2. sendOrStore(h, m, x) = g
    BY <1>5, Zenon DEF sendOrStore
  <2> HIDE DEF d
  <2>4. /\ g.buf = [h.buf EXCEPT ![m] = d]
        /\ g.client = h.client /\ g.sock = h.sock /\ g.task = h.task
        /\ g.up = h.up /\ g.n = h.n /\ g.link = h.link /\ g.result = "blocked"
        /\ g = [h EXCEPT !.buf[m] = d, !.result = "blocked"]
    BY <1>1 DEF Context
  <2> HIDE DEF g
  <2>5. g.buf \in [Peers(n) -> Seq(Post)]
    BY <1>1, <2>1, <2>4, ContextFields
  <2>6. g \in Context(n)
    BY <1>1, <2>4, <2>5 DEF Context
  <2>7. /\ g.buf[m] = d
        /\ \A p \in Peers(n) : p # m => g.link[p] = h.link[p] /\ g.buf[p] = h.buf[p]
    BY <1>1, <2>4, ContextFields
  <2>8. Len(h.link[m].pend) = Window[n]
    <3>1. Carried(h, m) /\ Filled(h, m)
      BY <1>1 DEF Good
    <3>2. Len(h.link[m].pend) \in Nat /\ Window[n] \in Nat
      BY <1>3, LenProperties, Constants
    <3> QED BY <1>1, <1>5, <3>1, <3>2 DEF Carried, Filled, hasRoom
  <2>9. g \in Good(n) /\ Posts(n, h, g, x)
    <3>1. LinkGrows(n, m, h, g, x)
      BY <2>4, <2>7, <2>8 DEF LinkGrows, d
    <3> QED BY <1>1, <2>6, <3>1, LinkPosts
  <2> QED BY <2>2, <2>4, <2>9 DEF Carries
<1> QED BY <1>4, <1>5

LEMMA RDPCarried ==
  ASSUME NEW n \in Node, NEW x \in Post, getID(x.to) \in Peers(n), NEW S, NEW T,
         x.type = "MSG" => getID(x.from) = n, Carries(n, S, T, x), NEW h \in S
  PROVE  sendRDP(h, x) \in T /\ sendRDP(h, x).result \in {"sent", "blocked"}
<1> DEFINE m == getID(x.to)
           g == IF h.buf[m] = << >> THEN h ELSE flushRDPMsgs(h, m)
<1>1. x \in Mail(n, m) /\ m \in Peers(n)
  BY DEF Mail
<1>2. sendRDP(h, x) = sendOrStore(g, m, x)
  BY DEF sendRDP
<1> HIDE DEF m
<1>3. g \in S
  BY <1>1, GoodNearly DEF Carries
<1> HIDE DEF g
<1> QED BY <1>1, <1>2, <1>3, StoreCarried

-----------------------------------------------------------------------------
(***************************************************************************)
(* Stops and continuations                                                 *)
(***************************************************************************)

LEMMA Place ==
  /\ Sender = Task \cup Node
  /\ \A x \in Sender : getID(x) \in Node
  /\ \A x \in Task : getID(x) = Home[x] /\ hasPID(x) /\ x \in Sender
  /\ \A n \in Node : getID(n) = n /\ ~hasPID(n) /\ n \in Sender
  BY Constants DEF Sender, getID, hasPID

\* Neither whose a file descriptor is nor what waits there changes.
Noticed(h, g) ==
  /\ g.link = h.link /\ g.buf = h.buf /\ g.sock = h.sock
  /\ \A t \in Task : g.task[t].fd = h.task[t].fd
  /\ \A e \in Fd : /\ g.client[e].tid = h.client[e].tid
                   /\ g.client[e].msgs = h.client[e].msgs

LEMMA NoticedSteady ==
  ASSUME NEW n \in Node, NEW S, Steady(n, S), NEW h \in S, NEW g \in Context(n),
         Noticed(h, g)
  PROVE  g \in S
<1>1. h \in Good(n) /\ h \in Context(n) /\ h.n = n /\ g.n = n
  BY SteadyKeeps, ContextFields
<1>2. \A p \in Peers(n) : Carried(g, p) /\ Filled(g, p)
  BY <1>1 DEF Good, Carried, Filled, Noticed
<1>3. \A f \in Fd : Served(g, f)
  <2> SUFFICES ASSUME NEW f \in Fd PROVE Served(g, f)
    OBVIOUS
  <2>1. h.client[f].tid # NoTask => h.client[f].tid \in Task
    BY <1>1, ContextFields, EntryFields
  <2>2. Served(h, f)
    BY <1>1 DEF Good
  <2> QED BY <1>1, <2>1, <2>2 DEF Served, Noticed
<1>4. \A t \in Task : Registered(g, t)
  <2> SUFFICES ASSUME NEW t \in Task PROVE Registered(g, t)
    OBVIOUS
  <2>1. Registered(h, t) /\ h.task[t].fd \in Fd \cup {NoFd}
    BY <1>1, ContextFields, EntryFields DEF Good
  <2> QED BY <1>1, <2>1 DEF Registered, Noticed
<1>5. ASSUME NEW r \in Local(n) PROVE Inbox(g, r) = Inbox(h, r)
  <2>1. r \in Task /\ h.task[r].fd \in Fd \cup {NoFd}
    BY <1>1, ContextFields, EntryFields DEF Local
  <2> QED BY <2>1 DEF Inbox, Noticed
<1>6. \A m \in Peers(n) : Outbox(g, m) = Outbox(h, m)
  BY DEF Outbox, Noticed
<1>7. g \in Good(n)
  BY <1>2, <1>3, <1>4 DEF Good
<1>8. Quiet(n, h, g)
  BY <1>5, <1>6 DEF Quiet, Noticed
<1> QED BY <1>7, <1>8, SteadyKeeps

LEMMA sendContSteady ==
  ASSUME NEW n \in Node, NEW S, Steady(n, S), NEW h \in S,
         NEW from \in Sender \cup {NoTask}, NEW to \in Task
  PROVE  sendCont(h, from, to) \in S
<1> DEFINE x == Msg("CONT", from, to, FALSE, 0)
<1>1. h.n = n
  BY SteadyKeeps, ContextFields
<1>2. CASE getID(to) = n
  BY <1>1, <1>2, SENDCONTSteady DEF sendCont
<1>3. CASE getID(to) # n
  <2>1. x \in Post /\ x.type = "CONT" /\ x.to = to
    <3>1. to \in Sender
      BY Place
    <3> QED BY <3>1 DEF Msg, Post, Message
  <2>2. sendCont(h, from, to) = sendRDP(h, x)
    BY <1>1, <1>3 DEF sendCont
  <2> HIDE DEF x
  <2>3. getID(x.to) \in Peers(n)
    BY <1>3, <2>1, Place DEF Peers
  <2>4. Carries(n, S, S, x)
    BY <2>1, OtherCarried
  <2> QED BY <2>1, <2>2, <2>3, <2>4, RDPCarried
<1> QED BY <1>2, <1>3

LEMMA SetAsSeq ==
  ASSUME NEW Q, IsFiniteSet(Q)
  PROVE  SetToSeq(Q) \in Seq(Q)
<1>1. Cardinality(Q) \in Nat /\ ExistsBijection(1..Cardinality(Q), Q)
  BY FS_CardinalityType
<1>2. \E f \in [1..Cardinality(Q) -> Q] : IsInjective(f)
  BY <1>1 DEF ExistsBijection, Bijection, Injection, IsInjective
<1>3. SetToSeq(Q) \in [1..Cardinality(Q) -> Q]
  BY <1>2, Zenon DEF SetToSeq
<1>4. SetToSeq(Q) \in UNION {[1..k -> Q] : k \in Nat}
  BY <1>1, <1>3, Zenon
<1> QED BY <1>4, SeqDef, Zenon

LEMMA sendContMsgsSteady ==
  ASSUME NEW n \in Node, NEW S, Steady(n, S), NEW h \in S, NEW f \in Fd,
         NEW tid \in Sender \cup {NoTask}
  PROVE  sendContMsgs(h, f, tid) \in S
<1> DEFINE g == [h EXCEPT !.client[f].stops = {}]
           Q == h.client[f].stops
<1>1. h \in Context(n)
  BY SteadyKeeps
<1>2. h.client[f] \in Client /\ Q \subseteq Sender
  BY <1>1, ContextFields, EntryFields
<1>3. [h.client[f] EXCEPT !.stops = {}] \in Client
  BY <1>2 DEF Client
<1>4. /\ g.client = [h.client EXCEPT ![f] = [h.client[f] EXCEPT !.stops = {}]]
      /\ g.task = h.task /\ g.sock = h.sock /\ g.buf = h.buf /\ g.link = h.link
      /\ g.up = h.up /\ g.n = h.n /\ g.result = h.result
      /\ g = [h EXCEPT !.client[f].stops = {}]
  BY <1>1 DEF Context
<1>5. sendContMsgs(h, f, tid) = EachCont(tid, g, SetToSeq(Q))
  BY Zenon DEF sendContMsgs, ForEach, EachCont
<1> HIDE DEF g
<1>6. g.client \in [Fd -> Client] /\ Noticed(h, g)
  BY <1>1, <1>2, <1>3, <1>4, ContextFields DEF Noticed, Client
<1>7. g \in Context(n)
  BY <1>1, <1>4, <1>6 DEF Context
<1>8. g \in S
  BY <1>6, <1>7, NoticedSteady
<1>9. SetToSeq(Q) \in Seq(Sender)
  <2>1. IsFiniteSet(Sender)
    BY PlaceAssumption, FS_Union, Place
  <2>2. IsFiniteSet(Q)
    BY <1>2, <2>1, FS_Subset
  <2> HIDE DEF Q
  <2> QED BY <1>2, <2>2, SetAsSeq, SeqMonotonic
<1>10. \A d \in S, x \in Sender : contIfUp(d, tid, x) \in S
  BY sendContSteady DEF contIfUp, hasPID
<1> QED BY <1>5, <1>8, <1>9, <1>10, EachIfUp

\* An entry of clients[] changes, except for its row.
LEMMA ClientSteady ==
  ASSUME NEW n \in Node, NEW S, Steady(n, S), NEW h \in S, NEW f \in Fd,
         NEW e \in Client, e.tid = h.client[f].tid, e.msgs = h.client[f].msgs
  PROVE  [h EXCEPT !.client[f] = e] \in S
<1> DEFINE g == [h EXCEPT !.client[f] = e]
<1>1. h \in Context(n)
  BY SteadyKeeps
<1>2. /\ g.client = [h.client EXCEPT ![f] = e]
      /\ g.task = h.task /\ g.sock = h.sock /\ g.buf = h.buf /\ g.link = h.link
      /\ g.up = h.up /\ g.n = h.n /\ g.result = h.result
      /\ g = [h EXCEPT !.client[f] = e]
  BY <1>1 DEF Context
<1> HIDE DEF g
<1>3. g.client \in [Fd -> Client] /\ Noticed(h, g)
  BY <1>1, <1>2, ContextFields DEF Noticed
<1>4. g \in Context(n)
  BY <1>1, <1>2, <1>3 DEF Context
<1>5. g \in S
  BY <1>3, <1>4, NoticedSteady
<1> QED BY <1>5 DEF g

LEMMA liftStopsSteady ==
  ASSUME NEW n \in Node, NEW S, Steady(n, S), NEW h \in S, NEW f \in Fd
  PROVE  liftStops(h, f) \in S
<1>1. h.client[f].tid \in Sender \cup {NoTask}
  BY SteadyKeeps, ContextFields, EntryFields DEF Sender
<1> QED BY <1>1, sendContMsgsSteady DEF liftStops

LEMMA releaseACKSteady ==
  ASSUME NEW n \in Node, NEW S, Steady(n, S), NEW h \in S, NEW f \in Fd
  PROVE  releaseACK(h, f) \in S
<1> DEFINE a == h.client[f]
           v == a.pendingACKs - 1
           e == [a EXCEPT !.pendingACKs = v]
           g == [h EXCEPT !.client[f] = e]
<1>1. h \in Context(n) /\ a \in Client
  BY SteadyKeeps, ContextFields
<1>2. v \in Int
  BY <1>1, EntryFields
<1>3. releaseACK(h, f) = liftStops(g, f)
  BY <1>1 DEF releaseACK, Context
<1> HIDE DEF v
<1>4. e \in Client /\ e.tid = a.tid /\ e.msgs = a.msgs
  BY <1>1, <1>2 DEF Client
<1> HIDE DEF e
<1>5. g \in S
  BY <1>4, ClientSteady
<1> HIDE DEF g
<1> QED BY <1>3, <1>5, liftStopsSteady

LEMMA SENDSTOPACKSteady ==
  ASSUME NEW n \in Node, NEW S, Steady(n, S), NEW h \in S, NEW t
  PROVE  msg_SENDSTOPACK(h, t) \in S
<1>1. CASE ~Connected(h, t)
  BY <1>1 DEF msg_SENDSTOPACK
<1>2. CASE Connected(h, t)
  <2>1. t \in Task /\ h.task[t].fd \in Fd
    BY <1>2, SteadyKeeps, ContextFields, EntryFields DEF Connected, hasPID
  <2> QED BY <1>2, <2>1, releaseACKSteady DEF msg_SENDSTOPACK
<1> QED BY <1>1, <1>2

LEMMA sendAckSteady ==
  ASSUME NEW n \in Node, NEW S, Steady(n, S), NEW h \in S,
         NEW from \in Sender, NEW to \in Sender
  PROVE  sendAck(h, from, to) \in S
<1> DEFINE x == Msg("ACK", from, to, FALSE, 0)
<1>1. h.n = n
  BY SteadyKeeps, ContextFields
<1>2. CASE getID(to) = n
  BY <1>1, <1>2, SENDSTOPACKSteady DEF sendAck
<1>3. CASE getID(to) # n
  <2>1. x \in Post /\ x.type = "ACK" /\ x.to = to
    BY DEF Msg, Post, Message
  <2>2. sendAck(h, from, to) = sendRDP(h, x)
    BY <1>1, <1>3 DEF sendAck
  <2> HIDE DEF x
  <2>3. getID(x.to) \in Peers(n)
    BY <1>3, <2>1, Place DEF Peers
  <2>4. Carries(n, S, S, x)
    BY <2>1, OtherCarried
  <2> QED BY <2>1, <2>2, <2>3, <2>4, RDPCarried
<1> QED BY <1>2, <1>3

LEMMA SENDSTOPSteady ==
  ASSUME NEW n \in Node, NEW S, Steady(n, S), NEW h \in S, NEW x \in Post,
         x.from \in Sender
  PROVE  msg_SENDSTOP(h, x) \in S
<1> DEFINE t == x.to
           a == h.task[t]
           v == a.activeStops + 1
           w == a.enabled /\ a.activeStops # 0
           e == [a EXCEPT !.activeStops = v, !.enabled = w]
           g == IF ~Connected(h, t) THEN h ELSE [h EXCEPT !.task[t] = e]
<1>1. h \in Context(n)
  BY SteadyKeeps
<1>2. msg_SENDSTOP(h, x) = IF hasPID(t) /\ h.task[t].managed /\ x.ack
                           THEN sendAck(g, t, x.from) ELSE g
  <2>1. Connected(h, t) =>
          [h EXCEPT !.task[t].activeStops = @ + 1,
                    !.task[t].enabled = @ /\ h.task[t].activeStops # 0]
            = [h EXCEPT !.task[t] = e]
    <3>1. Connected(h, t) =>
            [h EXCEPT !.task[t].activeStops = @ + 1,
                      !.task[t].enabled = @ /\ h.task[t].activeStops # 0]
              = [h EXCEPT !.task[t].activeStops = v, !.task[t].enabled = w]
      BY Zenon
    <3> HIDE DEF v, w
    <3>2. Connected(h, t) =>
            [h EXCEPT !.task[t].activeStops = v, !.task[t].enabled = w]
              = [h EXCEPT !.task[t] = e]
      BY <1>1 DEF Context, Connected, hasPID
    <3> QED BY <3>1, <3>2, Zenon
  <2> DEFINE q == IF ~Connected(h, t) THEN h
                  ELSE [h EXCEPT !.task[t].activeStops = @ + 1,
                                 !.task[t].enabled =
                                   @ /\ h.task[t].activeStops # 0]
  <2>2. msg_SENDSTOP(h, x) = IF hasPID(t) /\ h.task[t].managed /\ x.ack
                             THEN sendAck(q, t, x.from) ELSE q
    BY Zenon DEF msg_SENDSTOP
  <2>3. q = g
    <3> HIDE DEF e
    <3> QED BY <2>1
  <2> HIDE DEF q, g
  <2> QED BY <2>2, <2>3
<1>3. g \in S
  <2> SUFFICES ASSUME Connected(h, t) PROVE [h EXCEPT !.task[t] = e] \in S
    OBVIOUS
  <2>1. t \in Task /\ a \in TaskEntry
    BY <1>1, ContextFields DEF Connected, hasPID
  <2>2. v \in Int /\ w \in BOOLEAN
    BY <2>1, EntryFields
  <2> HIDE DEF v, w
  <2>3. e \in TaskEntry /\ e.fd = a.fd
    BY <2>1, <2>2 DEF TaskEntry
  <2> HIDE DEF e, t
  <2> QED BY <2>1, <2>3, TaskSteady
<1>4. t \in Sender
  BY DEF Post, Message
<1> HIDE DEF g, t
<1>5. sendAck(g, t, x.from) \in S
  BY <1>3, <1>4, sendAckSteady
<1> QED BY <1>2, <1>3, <1>5

LEMMA sendStopSteady ==
  ASSUME NEW n \in Node, NEW S, Steady(n, S), NEW h \in S,
         NEW from \in Sender, NEW to \in Sender, NEW ack \in BOOLEAN
  PROVE  sendStop(h, from, to, ack) \in S
<1> DEFINE x == Msg("STOP", from, to, ack, 0)
<1>1. h.n = n
  BY SteadyKeeps, ContextFields
<1>2. x \in Post /\ x.type = "STOP" /\ x.to = to /\ x.from = from
  BY DEF Msg, Post, Message
<1>3. sendStop(h, from, to, ack)
        = IF getID(to) = n THEN msg_SENDSTOP(h, x) ELSE sendRDP(h, x)
  BY <1>1 DEF sendStop
<1> HIDE DEF x
<1>4. CASE getID(to) = n
  BY <1>2, <1>3, <1>4, SENDSTOPSteady
<1>5. CASE getID(to) # n
  <2>1. getID(x.to) \in Peers(n)
    BY <1>2, <1>5, Place DEF Peers
  <2>2. Carries(n, S, S, x)
    BY <1>2, OtherCarried
  <2> QED BY <1>2, <1>3, <1>5, <2>1, <2>2, RDPCarried
<1> QED BY <1>4, <1>5

-----------------------------------------------------------------------------
(***************************************************************************)
(* Writing to a client                                                     *)
(***************************************************************************)

\* The rows of messages to the client of f are set.
SetClient(h, f, d, b) == [h EXCEPT !.client[f].msgs = b, !.sock[f].data = d]

LEMMA ClientSet ==
  ASSUME NEW n \in Node, NEW f \in Fd, NEW h \in Context(n),
         NEW d \in Seq(Post), NEW b \in Seq(Post)
  PROVE  LET g == SetClient(h, f, d, b)
         IN  /\ g \in Context(n)
             /\ g.link = h.link /\ g.buf = h.buf /\ g.task = h.task
             /\ \A e \in Fd : e # f => /\ g.sock[e] = h.sock[e]
                                    /\ g.client[e] = h.client[e]
             /\ g.client[f].tid = h.client[f].tid
             /\ g.client[f].stops = h.client[f].stops
             /\ g.client[f].pendingACKs = h.client[f].pendingACKs
             /\ g.client[f].msgs = b
             /\ g.sock[f].data = d /\ g.sock[f].closed = h.sock[f].closed
<1> DEFINE g == SetClient(h, f, d, b)
<1>1. h.client[f] \in Client /\ h.sock[f] \in Socket
  BY ContextFields
<1>2. /\ [h.client[f] EXCEPT !.msgs = b] \in Client
      /\ [h.sock[f] EXCEPT !.data = d] \in Socket
  BY <1>1 DEF Client, Socket
<1>3. /\ g.client = [h.client EXCEPT ![f] = [h.client[f] EXCEPT !.msgs = b]]
      /\ g.sock = [h.sock EXCEPT ![f] = [h.sock[f] EXCEPT !.data = d]]
      /\ g.link = h.link /\ g.buf = h.buf /\ g.task = h.task
      /\ g.up = h.up /\ g.n = h.n /\ g.result = h.result
      /\ g = [h EXCEPT !.client[f].msgs = b, !.sock[f].data = d]
  BY DEF Context, SetClient
<1> HIDE DEF g
<1>4. /\ g.client \in [Fd -> Client] /\ g.sock \in [Fd -> Socket]
  BY <1>2, <1>3, ContextFields
<1>5. g \in Context(n)
  BY <1>3, <1>4 DEF Context
<1>6. /\ \A e \in Fd : e # f => /\ g.sock[e] = h.sock[e]
                             /\ g.client[e] = h.client[e]
      /\ g.client[f] = [h.client[f] EXCEPT !.msgs = b]
      /\ g.sock[f] = [h.sock[f] EXCEPT !.data = d]
  BY <1>3, ContextFields
<1>7. /\ g.client[f].tid = h.client[f].tid
      /\ g.client[f].stops = h.client[f].stops
      /\ g.client[f].pendingACKs = h.client[f].pendingACKs
      /\ g.client[f].msgs = b
      /\ g.sock[f].data = d /\ g.sock[f].closed = h.sock[f].closed
  BY <1>1, <1>6 DEF Client, Socket
<1> QED BY <1>3, <1>5, <1>6, <1>7 DEF g

\* What waits for the client of f is for this client.
LEMMA Waits ==
  ASSUME NEW n \in Node, NEW h \in Good(n), NEW f \in Fd
  PROVE  /\ h.sock[f].data \in Seq(Letters(h.client[f].tid))
         /\ h.client[f].msgs \in Seq(Letters(h.client[f].tid))
         /\ h.sock[f].data \in Seq(Post) /\ h.client[f].msgs \in Seq(Post)
         /\ Len(h.sock[f].data) \in 0..SockCap /\ Len(h.client[f].msgs) \in Nat
         /\ h.sock[f].closed => h.sock[f].data = << >>
         /\ h.client[f].tid \in Task \cup {NoTask}
         /\ h.client[f].tid = NoTask =>
              h.sock[f].data = << >> /\ h.client[f].msgs = << >>
<1>1. h \in Context(n) /\ Served(h, f) /\ SockCap \in Nat
  BY Constants DEF Good
<1>2. h.client[f] \in Client /\ h.sock[f] \in Socket
  BY <1>1, ContextFields
<1>3. /\ h.sock[f].data \in Seq(Letters(h.client[f].tid))
      /\ h.client[f].msgs \in Seq(Letters(h.client[f].tid))
      /\ Len(h.sock[f].data) <= SockCap
      /\ h.sock[f].closed => h.sock[f].data = << >>
  BY <1>1 DEF Served
<1>4. /\ h.sock[f].data \in Seq(Post) /\ h.client[f].msgs \in Seq(Post)
      /\ h.client[f].tid \in Task \cup {NoTask}
  BY <1>2, EntryFields
<1>5. Len(h.sock[f].data) \in Nat /\ Len(h.client[f].msgs) \in Nat
  BY <1>4, LenProperties
<1>6. ASSUME h.client[f].tid = NoTask
      PROVE  h.sock[f].data = << >> /\ h.client[f].msgs = << >>
  <2>1. Letters(NoTask) = {}
    BY Constants DEF Letters, Post, Message
  <2>2. \A p \in Seq({}) : p = << >>
    BY EmptySeq
  <2> QED BY <1>3, <1>6, <2>1, <2>2
<1>7. Len(h.sock[f].data) \in 0..SockCap
  BY <1>1, <1>3, <1>5
<1> QED BY <1>3, <1>4, <1>5, <1>6, <1>7

LEMMA flushClientSteady ==
  ASSUME NEW n \in Node, NEW S, Steady(n, S), NEW h \in S, NEW f \in Fd
  PROVE  flushClientMsgs(h, f) \in S
<1> DEFINE p == h.sock[f].data
           b == h.client[f].msgs
           t == h.client[f].tid
           k == Least(SockCap - Len(p), Len(b))
           a == SubSeq(b, 1, k)
           q == p \o a
           d == SubSeq(b, k + 1, Len(b))
           g == SetClient(h, f, q, d)
<1>1. h \in Context(n) /\ h \in Good(n)
  BY SteadyKeeps
<1>2. /\ p \in Seq(Letters(t)) /\ b \in Seq(Letters(t))
      /\ p \in Seq(Post) /\ b \in Seq(Post)
      /\ Len(p) \in 0..SockCap /\ Len(b) \in Nat
      /\ h.sock[f].closed => p = << >>
      /\ t \in Task \cup {NoTask} /\ (t = NoTask => b = << >>)
  BY <1>1, Waits
<1>3. CASE h.client[f].flush
  BY <1>3 DEF flushClientMsgs
<1>4. CASE ~h.client[f].flush /\ h.sock[f].closed /\ b # << >>
  <2> DEFINE e == [h EXCEPT !.client[f].flush = TRUE, !.task[t].enabled = TRUE]
  <2>1. flushClientMsgs(h, f) = e
    BY <1>4, Zenon DEF flushClientMsgs
  <2>2. t \in Task
    BY <1>2, <1>4
  <2>3. h.client[f] \in Client /\ h.task[t] \in TaskEntry
    BY <1>1, <2>2, ContextFields
  <2>4. /\ [h.client[f] EXCEPT !.flush = TRUE] \in Client
        /\ [h.task[t] EXCEPT !.enabled = TRUE] \in TaskEntry
    BY <2>3 DEF Client, TaskEntry
  <2> HIDE DEF t
  <2>5. /\ e.client = [h.client EXCEPT ![f] = [h.client[f] EXCEPT !.flush = TRUE]]
        /\ e.task = [h.task EXCEPT ![t] = [h.task[t] EXCEPT !.enabled = TRUE]]
        /\ e.sock = h.sock /\ e.link = h.link /\ e.buf = h.buf
        /\ e.up = h.up /\ e.n = h.n /\ e.result = h.result
        /\ e = [h EXCEPT !.client[f].flush = TRUE, !.task[t].enabled = TRUE]
    BY <1>1 DEF Context
  <2> HIDE DEF e
  <2>6. e.client \in [Fd -> Client] /\ e.task \in [Task -> TaskEntry]
    <3>1. h.client \in [Fd -> Client] /\ h.task \in [Task -> TaskEntry]
      BY <1>1, ContextFields
    <3>2. e.client \in [Fd -> Client]
      BY <2>4, <2>5, <3>1
    <3>3. e.task \in [Task -> TaskEntry]
      BY <2>2, <2>4, <2>5, <3>1
    <3> QED BY <3>2, <3>3
  <2>7. e \in Context(n)
    BY <1>1, <2>5, <2>6 DEF Context
  <2>8. /\ \A u \in Task : e.task[u].fd = h.task[u].fd
        /\ \A i \in Fd : /\ e.client[i].tid = h.client[i].tid
                         /\ e.client[i].msgs = h.client[i].msgs
    BY <1>1, <2>2, <2>3, <2>5, ContextFields DEF Client, TaskEntry
  <2>9. Noticed(h, e)
    BY <2>5, <2>8 DEF Noticed
  <2> QED BY <2>1, <2>7, <2>9, NoticedSteady
<1>5. CASE ~h.client[f].flush /\ ~(h.sock[f].closed /\ b # << >>)
  <2>1. flushClientMsgs(h, f) = liftStops(g, f)
    <3>1. flushClientMsgs(h, f)
            = liftStops([h EXCEPT !.client[f].msgs = SubSeq(@, k + 1, Len(@)),
                                  !.sock[f].data = @ \o SubSeq(b, 1, k)], f)
      BY <1>5, Zenon DEF flushClientMsgs
    <3>2. [h EXCEPT !.client[f].msgs = SubSeq(@, k + 1, Len(@)),
                    !.sock[f].data = @ \o SubSeq(b, 1, k)] = g
      BY Zenon DEF SetClient
    <3> QED BY <3>1, <3>2
  <2>2. /\ k \in 0..Len(b) /\ Len(p) + k <= SockCap
    <3>1. SockCap \in Nat
      BY Constants
    <3> HIDE DEF p, b
    <3> QED BY <1>2, <3>1 DEF Least
  <2>3. h.sock[f].closed => b = << >> /\ p = << >>
    BY <1>2, <1>5
  <2> HIDE DEF k
  <2>4. /\ q \in Seq(Letters(t)) /\ d \in Seq(Letters(t))
        /\ q \in Seq(Post) /\ d \in Seq(Post)
        /\ Len(q) <= SockCap
        /\ Joined(q, 0, d) = Joined(p, 0, b)
    <3>1. Letters(t) \subseteq Post
      BY DEF Letters
    <3>2. 0 \in 0..Len(p)
      BY <1>2
    <3> HIDE DEF p, b, t
    <3>3. /\ q \in Seq(Letters(t)) /\ d \in Seq(Letters(t))
          /\ Len(q) = Len(p) + k /\ Joined(q, 0, d) = Joined(p, 0, b)
      BY <1>2, <2>2, <3>1, <3>2, JoinedMoved
    <3> HIDE DEF q, d
    <3> QED BY <2>2, <3>1, <3>3, SeqMonotonic
  <2>5. h.sock[f].closed => q = << >>
    <3>1. Len(<< >>) = 0 /\ << >> \in Seq(Post)
      BY EmptySeq
    <3>2. h.sock[f].closed => k = 0
      BY <2>2, <2>3, <3>1
    <3>3. SubSeq(b, 1, 0) = << >>
      <4>1. SubSeq(b, 1, 0) \in Seq(Post) /\ Len(SubSeq(b, 1, 0)) = 0
        <5>1. 0 \in 0..Len(b)
          BY <1>2
        <5> HIDE DEF b
        <5> QED BY <1>2, <5>1, PrefixFields
      <4> HIDE DEF b
      <4> QED BY <4>1, EmptySeq
    <3>4. << >> \o << >> = << >>
      BY ConcatProperties, EmptySeq, <3>1
    <3> HIDE DEF p, b
    <3> QED BY <2>3, <3>2, <3>3, <3>4
  <2> HIDE DEF q, d
  <2>6. /\ g \in Context(n)
        /\ g.link = h.link /\ g.buf = h.buf /\ g.task = h.task
        /\ \A e \in Fd : e # f => /\ g.sock[e] = h.sock[e]
                               /\ g.client[e] = h.client[e]
        /\ g.client[f].tid = h.client[f].tid /\ g.client[f].msgs = d
        /\ g.sock[f].data = q /\ g.sock[f].closed = h.sock[f].closed
    <3> HIDE DEF p, b, t
    <3> QED BY <1>1, <2>4, ClientSet
  <2> HIDE DEF g
  <2>7. /\ g \in Good(n)
        /\ \A r \in Local(n) : r # t => Inbox(g, r) = Inbox(h, r)
        /\ \A r \in Local(n) :
             r = t => /\ Inbox(g, r) = Joined(g.sock[f].data, 0, g.client[f].msgs)
                      /\ Inbox(h, r) = Joined(h.sock[f].data, 0, h.client[f].msgs)
        /\ \A m \in Peers(n) : Outbox(g, m) = Outbox(h, m)
    <3> HIDE DEF p, b
    <3> QED BY <1>1, <2>4, <2>5, <2>6, ClientTouched
  <2>8. Quiet(n, h, g)
    <3>1. \A r \in Local(n) : Inbox(g, r) = Inbox(h, r)
      BY <2>4, <2>6, <2>7
    <3> QED BY <2>6, <2>7, <3>1 DEF Quiet
  <2>9. g \in S
    BY <2>7, <2>8, SteadyKeeps
  <2> QED BY <2>1, <2>9, liftStopsSteady
<1> QED BY <1>3, <1>4, <1>5

\* A message for the client of f is written or stored.
ClientGrows(h, g, f, x) ==
  /\ g.link = h.link /\ g.buf = h.buf /\ g.task = h.task
  /\ \A e \in Fd : e # f => g.sock[e] = h.sock[e] /\ g.client[e] = h.client[e]
  /\ g.client[f].tid = h.client[f].tid
  /\ g.sock[f].closed = h.sock[f].closed
  /\ \/ /\ h.client[f].msgs = << >> /\ g.client[f].msgs = << >>
        /\ ~h.sock[f].closed /\ Len(h.sock[f].data) < SockCap
        /\ g.sock[f].data = Append(h.sock[f].data, x)
     \/ /\ g.sock[f].data = h.sock[f].data
        /\ g.client[f].msgs = Append(h.client[f].msgs, x)

LEMMA ClientPosts ==
  ASSUME NEW n \in Node, NEW f \in Fd, NEW h \in Good(n), NEW g \in Context(n),
         NEW x \in Post, x.to \in Local(n), h.client[f].tid = x.to,
         ClientGrows(h, g, f, x)
  PROVE  g \in Good(n) /\ Posts(n, h, g, x)
<1> DEFINE p == h.sock[f].data
           b == h.client[f].msgs
           t == x.to
<1>1. /\ p \in Seq(Letters(t)) /\ b \in Seq(Letters(t))
      /\ p \in Seq(Post) /\ b \in Seq(Post) /\ 0 \in 0..Len(p)
      /\ Len(p) \in 0..SockCap /\ (h.sock[f].closed => p = << >>)
  <2>1. Len(p) \in 0..SockCap /\ SockCap \in Nat
    BY Waits, Constants
  <2>2. 0 \in 0..Len(p)
    BY <2>1
  <2> QED BY <2>1, <2>2, Waits
<1>2. x \in Letters(t)
  BY DEF Letters
<1>3. /\ g.sock[f].data \in Seq(Letters(t)) /\ g.client[f].msgs \in Seq(Letters(t))
      /\ Len(g.sock[f].data) <= SockCap
      /\ g.sock[f].closed => g.sock[f].data = << >>
      /\ Joined(g.sock[f].data, 0, g.client[f].msgs) = Append(Joined(p, 0, b), x)
  <2>1. CASE /\ b = << >> /\ g.client[f].msgs = << >>
             /\ ~h.sock[f].closed /\ Len(p) < SockCap
             /\ g.sock[f].data = Append(p, x)
    <3> DEFINE q == Append(p, x)
    <3>1. q \in Seq(Letters(t)) /\ Len(q) = Len(p) + 1
      BY <1>1, <1>2, AppendFields
    <3>2. Joined(q, 0, << >>) = Append(Joined(p, 0, << >>), x)
      BY <1>1, JoinedSent
    <3>3. Len(q) <= SockCap
      <4>1. SockCap \in Nat
        BY Constants
      <4> HIDE DEF q, p
      <4> QED BY <1>1, <2>1, <3>1, <4>1
    <3>4. g.sock[f].data = q
      BY <2>1
    <3> HIDE DEF q, p
    <3> QED BY <1>1, <2>1, <3>1, <3>2, <3>3, <3>4 DEF ClientGrows
  <2>2. CASE g.sock[f].data = p /\ g.client[f].msgs = Append(b, x)
    <3> DEFINE d == Append(b, x)
    <3>1. d \in Seq(Letters(t))
      BY <1>1, <1>2, AppendFields
    <3>2. Joined(p, 0, d) = Append(Joined(p, 0, b), x)
      BY <1>1, JoinedStored
    <3>3. g.client[f].msgs = d /\ Len(p) <= SockCap
      BY <1>1, <2>2
    <3> HIDE DEF d, p
    <3> QED BY <1>1, <2>2, <3>1, <3>2, <3>3 DEF ClientGrows
  <2> QED BY <2>1, <2>2 DEF ClientGrows
<1>4. /\ g \in Good(n)
      /\ \A r \in Local(n) : r # t => Inbox(g, r) = Inbox(h, r)
      /\ \A r \in Local(n) :
           r = t => /\ Inbox(g, r) = Joined(g.sock[f].data, 0, g.client[f].msgs)
                    /\ Inbox(h, r) = Joined(h.sock[f].data, 0, h.client[f].msgs)
      /\ \A m \in Peers(n) : Outbox(g, m) = Outbox(h, m)
  <2> HIDE DEF p, b, t
  <2>1. h.client[f].tid = t
    BY DEF t
  <2> QED BY <1>3, <2>1, ClientTouched DEF ClientGrows
<1>5. \A m \in Peers(n) : m # getID(t)
  BY Constants DEF Local, Peers, getID
<1>6. \A r \in Local(n) :
        Inbox(g, r) = IF r = t THEN Append(Inbox(h, r), x) ELSE Inbox(h, r)
  BY <1>3, <1>4
<1>7. Posts(n, h, g, x)
  BY <1>4, <1>5, <1>6 DEF Posts, ClientGrows
<1> QED BY <1>4, <1>7

LEMMA WriteCarried ==
  ASSUME NEW n \in Node, NEW x \in Post, x.from \in Sender, x.to \in Local(n),
         NEW S, NEW T, Carries(n, S, T, x), NEW h \in S, NEW f \in Fd,
         h.task[x.to].fd = f
  PROVE  writeOrStore(h, f, x) \in T
<1> DEFINE t == x.to
           p == h.sock[f].data
           b == h.client[f].msgs
<1>1. h \in Good(n) /\ h \in Context(n) /\ h \in T /\ Steady(n, T) /\ t \in Task
  BY SteadyKeeps DEF Carries, Local
<1>2. h.client[f] \in Client /\ h.sock[f] \in Socket /\ h.task[t] \in TaskEntry
  BY <1>1, ContextFields
<1>3. h.client[f].tid = t
  BY <1>1, Constants, ContextFields DEF Good, Registered, Local
<1>4. p \in Seq(Post) /\ b \in Seq(Post)
  BY <1>1, Waits
<1>5. CASE b = << >> /\ h.sock[f].closed
  <2> DEFINE g == [h EXCEPT !.task[t].enabled = TRUE, !.result = "dropped"]
  <2>1. writeOrStore(h, f, x) = g
    BY <1>5, Zenon DEF writeOrStore
  <2>2. [h.task[t] EXCEPT !.enabled = TRUE] \in TaskEntry
    BY <1>2 DEF TaskEntry
  <2> HIDE DEF t
  <2>3. /\ g.task = [h.task EXCEPT ![t] = [h.task[t] EXCEPT !.enabled = TRUE]]
        /\ g.client = h.client /\ g.sock = h.sock /\ g.link = h.link
        /\ g.buf = h.buf /\ g.up = h.up /\ g.n = h.n /\ g.result = "dropped"
        /\ g = [h EXCEPT !.task[t].enabled = TRUE, !.result = "dropped"]
    BY <1>1 DEF Context
  <2> HIDE DEF g
  <2>4. g.task \in [Task -> TaskEntry]
    BY <1>1, <2>2, <2>3, ContextFields
  <2>5. g \in Context(n)
    BY <1>1, <2>3, <2>4 DEF Context
  <2>6. \A u \in Task : g.task[u].fd = h.task[u].fd
    BY <1>1, <1>2, <2>3, ContextFields DEF TaskEntry
  <2>7. Noticed(h, g)
    BY <2>3, <2>6 DEF Noticed
  <2> QED BY <1>1, <2>1, <2>5, <2>7, NoticedSteady
<1>6. CASE b = << >> /\ ~h.sock[f].closed /\ Len(p) < SockCap
  <2> DEFINE q == Append(p, x)
             e == [h.sock[f] EXCEPT !.data = q]
             g == [h EXCEPT !.sock[f].data = q, !.result = "sent"]
  <2>1. writeOrStore(h, f, x) = g
    BY <1>6, Zenon DEF writeOrStore
  <2>2. q \in Seq(Post)
    BY <1>4, AppendFields
  <2> HIDE DEF q
  <2>3. e \in Socket /\ e.data = q /\ e.closed = h.sock[f].closed
    BY <1>2, <2>2 DEF Socket
  <2>4. /\ g.sock = [h.sock EXCEPT ![f] = e]
        /\ g.client = h.client /\ g.task = h.task /\ g.link = h.link
        /\ g.buf = h.buf /\ g.up = h.up /\ g.n = h.n /\ g.result = "sent"
        /\ g = [h EXCEPT !.sock[f].data = q, !.result = "sent"]
    BY <1>1 DEF Context
  <2> HIDE DEF g, e
  <2>5. g.sock \in [Fd -> Socket]
    BY <1>1, <2>3, <2>4, ContextFields
  <2>6. g \in Context(n)
    BY <1>1, <2>4, <2>5 DEF Context
  <2>7. g.sock[f] = e /\ \A i \in Fd : i # f => g.sock[i] = h.sock[i]
    BY <1>1, <2>4, ContextFields
  <2>8. ClientGrows(h, g, f, x)
    BY <1>6, <2>3, <2>4, <2>7 DEF ClientGrows, q
  <2>9. Posts(n, h, g, x) /\ g \in Good(n)
    BY <1>1, <1>3, <2>6, <2>8, ClientPosts
  <2> QED BY <2>1, <2>9 DEF Carries
<1>7. CASE ~(b = << >> /\ (h.sock[f].closed \/ Len(p) < SockCap))
  <2> DEFINE d == Append(b, x)
             v == h.client[f].stops \cup {x.from}
             w == h.client[f].pendingACKs + 1
             e == IF x.from \in h.client[f].stops
                  THEN [h.client[f] EXCEPT !.msgs = d]
                  ELSE [h.client[f] EXCEPT !.msgs = d, !.stops = v,
                                           !.pendingACKs = w]
             u == IF x.from \in h.client[f].stops THEN "sent" ELSE "blocked"
             g == [h EXCEPT !.client[f] = e, !.result = u]
  <2>1. writeOrStore(h, f, x) = g
    <3>1. writeOrStore(h, f, x)
            = IF x.from \in h.client[f].stops
              THEN [[h EXCEPT !.client[f].msgs = Append(@, x)]
                      EXCEPT !.result = "sent"]
              ELSE [[h EXCEPT !.client[f].msgs = Append(@, x)]
                      EXCEPT !.client[f].stops = @ \cup {x.from},
                             !.client[f].pendingACKs = @ + 1,
                             !.result = "blocked"]
      BY <1>7, Zenon DEF writeOrStore
    <3>2. [[h EXCEPT !.client[f].msgs = Append(@, x)] EXCEPT !.result = "sent"]
            = [h EXCEPT !.client[f] = [h.client[f] EXCEPT !.msgs = d],
                        !.result = "sent"]
      <4> HIDE DEF d
      <4>1. [h EXCEPT !.client[f].msgs = d]
              = [h EXCEPT !.client[f] = [h.client[f] EXCEPT !.msgs = d]]
        BY <1>1 DEF Context
      <4>2. [h EXCEPT !.client[f].msgs = Append(@, x)]
              = [h EXCEPT !.client[f].msgs = d]
        BY Zenon DEF d
      <4> QED BY <1>1, <4>1, <4>2 DEF Context
    <3>3. [[h EXCEPT !.client[f].msgs = Append(@, x)]
             EXCEPT !.client[f].stops = @ \cup {x.from},
                    !.client[f].pendingACKs = @ + 1, !.result = "blocked"]
            = [h EXCEPT !.client[f] = [h.client[f] EXCEPT !.msgs = d,
                                          !.stops = v, !.pendingACKs = w],
                        !.result = "blocked"]
      <4> DEFINE r == [h EXCEPT !.client[f] = [h.client[f] EXCEPT !.msgs = d]]
      <4>1. [h EXCEPT !.client[f].msgs = Append(@, x)] = r
        BY <1>1 DEF Context
      <4>2. /\ r.client = [h.client EXCEPT ![f] = [h.client[f] EXCEPT !.msgs = d]]
            /\ r.client[f].stops = h.client[f].stops
            /\ r.client[f].pendingACKs = h.client[f].pendingACKs
        <5> HIDE DEF d
        <5> QED BY <1>1, <1>2 DEF Context, Client
      <4>3. [r EXCEPT !.client[f].stops = @ \cup {x.from},
                      !.client[f].pendingACKs = @ + 1, !.result = "blocked"]
              = [r EXCEPT !.client[f].stops = v, !.client[f].pendingACKs = w,
                          !.result = "blocked"]
        <5> HIDE DEF r
        <5> QED BY <4>2
      <4> HIDE DEF v, w, d
      <4>4. [r EXCEPT !.client[f].stops = v, !.client[f].pendingACKs = w,
                      !.result = "blocked"]
              = [h EXCEPT !.client[f] = [h.client[f] EXCEPT !.msgs = d,
                                           !.stops = v, !.pendingACKs = w],
                          !.result = "blocked"]
        <5> DEFINE z == [h.client[f] EXCEPT !.msgs = d]
                   k == [h.client[f] EXCEPT !.msgs = d, !.stops = v,
                                            !.pendingACKs = w]
        <5>1. d \in Seq(Post)
          BY <1>4, AppendFields DEF d
        <5>2. z \in Client /\ k = [z EXCEPT !.stops = v, !.pendingACKs = w]
          BY <1>2, <5>1 DEF Client
        <5> HIDE DEF z, k
        <5>3. /\ r.client = [h.client EXCEPT ![f] = z] /\ r.client[f] = z
              /\ r \in Context(n)
          BY <1>1, <5>2 DEF Context, z
        <5>4. [r EXCEPT !.client[f] = k, !.result = "blocked"]
                = [h EXCEPT !.client[f] = k, !.result = "blocked"]
          BY <1>1 DEF Context
        <5> HIDE DEF r
        <5>5. [r EXCEPT !.client[f].stops = v, !.client[f].pendingACKs = w,
                        !.result = "blocked"]
                = [r EXCEPT !.client[f] = k, !.result = "blocked"]
          <6> DEFINE i == [z EXCEPT !.stops = v]
                     j == [r EXCEPT !.client[f] = i]
          <6>1. k = [i EXCEPT !.pendingACKs = w]
            BY <5>2
          <6>2. [r EXCEPT !.client[f].stops = v] = j
            BY <5>3
          <6> HIDE DEF i
          <6>3. j.client[f] = i
            BY <5>3 DEF Context
          <6>4. [j EXCEPT !.client[f] = k, !.result = "blocked"]
                  = [r EXCEPT !.client[f] = k, !.result = "blocked"]
            BY <5>3 DEF Context
          <6> HIDE DEF j
          <6>5. [j EXCEPT !.client[f].pendingACKs = w, !.result = "blocked"]
                  = [j EXCEPT !.client[f] = k, !.result = "blocked"]
            BY <6>1, <6>3
          <6>6. [r EXCEPT !.client[f].stops = v, !.client[f].pendingACKs = w,
                          !.result = "blocked"]
                  = [[r EXCEPT !.client[f].stops = v]
                       EXCEPT !.client[f].pendingACKs = w, !.result = "blocked"]
            BY <5>3 DEF Context
          <6> QED BY <6>2, <6>4, <6>5, <6>6
        <5> QED BY <5>4, <5>5 DEF k
      <4> DEFINE y == [h EXCEPT !.client[f].msgs = Append(@, x)]
      <4>5. y = r
        BY <4>1 DEF d
      <4> HIDE DEF y, r
      <4>6. [y EXCEPT !.client[f].stops = @ \cup {x.from},
                      !.client[f].pendingACKs = @ + 1, !.result = "blocked"]
              = [r EXCEPT !.client[f].stops = @ \cup {x.from},
                          !.client[f].pendingACKs = @ + 1, !.result = "blocked"]
        BY <4>5
      <4> QED BY <4>3, <4>4, <4>6 DEF y
    <3> HIDE DEF v, w, d
    <3> QED BY <3>1, <3>2, <3>3
  <2>2. d \in Seq(Post)
    BY <1>4, AppendFields
  <2>3. v \subseteq Sender /\ w \in Int
    BY <1>2, EntryFields
  <2> HIDE DEF d, v, w
  <2>4. /\ e \in Client /\ e.tid = h.client[f].tid /\ e.msgs = d
        /\ u \in {"sent", "blocked", "dropped"}
    BY <1>2, <2>2, <2>3 DEF Client
  <2>5. /\ g.client = [h.client EXCEPT ![f] = e]
        /\ g.sock = h.sock /\ g.task = h.task /\ g.link = h.link
        /\ g.buf = h.buf /\ g.up = h.up /\ g.n = h.n /\ g.result = u
        /\ g = [h EXCEPT !.client[f] = e, !.result = u]
    <3> HIDE DEF e, u
    <3> QED BY <1>1 DEF Context
  <2> HIDE DEF g, e, u
  <2>6. g.client \in [Fd -> Client]
    BY <1>1, <2>4, <2>5, ContextFields
  <2>7. g \in Context(n)
    BY <1>1, <2>4, <2>5, <2>6 DEF Context
  <2>8. g.client[f] = e /\ \A i \in Fd : i # f => g.client[i] = h.client[i]
    BY <1>1, <2>5, ContextFields
  <2>9. ClientGrows(h, g, f, x)
    BY <2>4, <2>5, <2>8 DEF ClientGrows, d
  <2>10. Posts(n, h, g, x) /\ g \in Good(n)
    BY <1>1, <1>3, <2>7, <2>9, ClientPosts
  <2> QED BY <2>1, <2>10 DEF Carries
<1> QED BY <1>5, <1>6, <1>7

\* The contexts of S in which the same clients are connected as in h.
Pinned(S, h) == {d \in S : \A t \in Task : d.task[t].fd = h.task[t].fd}

LEMMA PinnedSteady ==
  ASSUME NEW n \in Node, NEW S, Steady(n, S), NEW h \in S
  PROVE  Steady(n, Pinned(S, h)) /\ h \in Pinned(S, h)
<1>1. Pinned(S, h) \subseteq Good(n) /\ h \in Pinned(S, h)
  BY DEF Steady, Pinned
<1>2. ASSUME NEW d \in Pinned(S, h), NEW g \in Good(n), Quiet(n, d, g)
      PROVE  g \in Pinned(S, h)
  <2>1. g \in S
    BY <1>2 DEF Steady, Pinned
  <2> QED BY <1>2, <2>1 DEF Quiet, Pinned
<1>3. ASSUME NEW d \in Pinned(S, h), NEW g \in Good(n), NEW x \in Post,
             x.type # "MSG", Posts(n, d, g, x)
      PROVE  g \in Pinned(S, h)
  <2>1. g \in S
    BY <1>3 DEF Steady, Pinned
  <2> QED BY <1>3, <2>1 DEF Posts, Pinned
<1> QED BY <1>1, <1>2, <1>3 DEF Steady

LEMMA PSIDclientCarried ==
  ASSUME NEW n \in Node, NEW x \in Post, x.from \in Sender, x.to \in Sender,
         getID(x.to) = n, NEW S, NEW T, Carries(n, S, T, x), NEW h \in S
  PROVE  PSIDclient_send(h, x) \in T
<1> DEFINE f == h.task[x.to].fd
           g == IF h.client[f].msgs = << >> THEN h ELSE flushClientMsgs(h, f)
<1>1. h \in Context(n) /\ h \in T /\ Steady(n, T) /\ Steady(n, S)
  BY SteadyKeeps DEF Carries
<1>2. CASE ~Connected(h, x.to)
  <2> DEFINE e == [h EXCEPT !.result = "dropped"]
  <2>1. e \in Context(n) /\ Noticed(h, e)
    BY <1>1 DEF Context, Noticed
  <2>2. PSIDclient_send(h, x) = e
    BY <1>2, Zenon DEF PSIDclient_send
  <2> HIDE DEF e
  <2> QED BY <1>1, <2>1, <2>2, NoticedSteady
<1>3. CASE Connected(h, x.to)
  <2>1. x.to \in Task /\ f \in Fd /\ x.to \in Local(n)
    BY <1>1, <1>3, ContextFields, EntryFields, Place
       DEF Connected, hasPID, Local
  <2>2. PSIDclient_send(h, x) = writeOrStore(g, f, x)
    BY <1>3, Zenon DEF PSIDclient_send
  <2>3. Steady(n, Pinned(S, h)) /\ h \in Pinned(S, h)
    BY <1>1, PinnedSteady
  <2>4. g \in Pinned(S, h)
    <3> HIDE DEF f
    <3> QED BY <2>1, <2>3, flushClientSteady
  <2>5. g \in S /\ g.task[x.to].fd = f
    BY <2>1, <2>4 DEF Pinned
  <2> HIDE DEF g, f
  <2> QED BY <2>1, <2>2, <2>5, WriteCarried
<1> QED BY <1>2, <1>3

-----------------------------------------------------------------------------
(***************************************************************************)
(* Forwarding and dropping                                                 *)
(***************************************************************************)

LEMMA PostFields ==
  ASSUME NEW x \in Post
  PROVE  /\ x.type \in {"MSG", "ERR", "STOP", "ACK", "CONT"}
         /\ x.to \in Sender /\ x.from \in Sender \cup {NoTask} /\ x.num \in Nat
         /\ x.type # "CONT" => x.from \in Sender
         /\ x.ack \in BOOLEAN
  BY DEF Post, Message

LEMMA ForwardCarried ==
  ASSUME NEW n \in Node, NEW x \in Post, x.type # "CONT",
         getID(x.to) = n \/ (x.type = "MSG" => getID(x.from) = n),
         NEW S, NEW T, Carries(n, S, T, x), NEW h \in S
  PROVE  Forward(h, x) \in T
<1> DEFINE here == getID(x.to) = n
           d == IF here THEN PSIDclient_send(h, x) ELSE sendRDP(h, x)
           e == sendStop(d, x.to, x.from, here)
           g == [e EXCEPT !.result = "blocked"]
<1>1. h.n = n /\ Steady(n, T) /\ x.from \in Sender /\ x.to \in Sender
  BY SteadyKeeps, ContextFields, PostFields DEF Carries
<1>2. Forward(h, x) = IF d.result # "blocked" THEN d ELSE g
  BY <1>1, Zenon DEF Forward, stopIfStored
<1>3. d \in T
  <2>1. CASE here
    BY <1>1, <2>1, PSIDclientCarried
  <2>2. CASE ~here
    <3>1. getID(x.to) \in Peers(n)
      BY <1>1, <2>2, Place DEF Peers
    <3> QED BY <2>2, <3>1, RDPCarried
  <2> QED BY <2>1, <2>2
<1>4. here \in BOOLEAN
  OBVIOUS
<1> HIDE DEF d, here
<1>5. e \in T
  BY <1>1, <1>3, <1>4, sendStopSteady
<1> HIDE DEF e
<1>6. e \in Context(n)
  BY <1>1, <1>5, SteadyKeeps
<1>7. g \in Context(n) /\ Noticed(e, g)
  BY <1>6 DEF Context, Noticed
<1> HIDE DEF g
<1>8. g \in T
  BY <1>1, <1>5, <1>7, NoticedSteady
<1> QED BY <1>2, <1>3, <1>8

LEMMA dropMsgSteady ==
  ASSUME NEW n \in Node, NEW S, Steady(n, S), NEW h \in S, NEW x \in Post
  PROVE  dropMsg(h, x) \in S
<1>1. CASE ~(x.type = "MSG" /\ hasPID(x.from))
  BY <1>1 DEF dropMsg
<1>2. CASE x.type = "MSG" /\ hasPID(x.from)
  <2> DEFINE y == Msg("ERR", x.to, x.from, FALSE, x.num)
  <2>1. y \in Post /\ y.type = "ERR"
    BY <1>2, PostFields DEF Msg, Post, Message
  <2>2. dropMsg(h, x) = Forward(h, y)
    BY <1>2 DEF dropMsg
  <2> HIDE DEF y
  <2>3. Carries(n, S, S, y)
    BY <2>1, OtherCarried
  <2> QED BY <2>1, <2>2, <2>3, ForwardCarried
<1> QED BY <1>1, <1>2

LEMMA sendMsgCarried ==
  ASSUME NEW n \in Node, NEW x \in Post, x.type # "CONT",
         getID(x.to) = n \/ (x.type = "MSG" => getID(x.from) = n),
         NEW S, NEW T, Carries(n, S, T, x), NEW h \in S
  PROVE  sendMsg(h, x) \in T
<1> DEFINE g == Forward(h, x)
<1>1. g \in T /\ Steady(n, T)
  BY ForwardCarried DEF Carries
<1>2. sendMsg(h, x) = IF g.result = "dropped" THEN dropMsg(g, x) ELSE g
  BY DEF sendMsg, dropIfRefused
<1> HIDE DEF g
<1> QED BY <1>1, <1>2, dropMsgSteady

LEMMA handleMsgCarried ==
  ASSUME NEW n \in Node, NEW x \in Post, getID(x.to) = n,
         NEW S, NEW T, Carries(n, S, T, x), NEW h \in S
  PROVE  handleMsg(h, x) \in T
<1>1. h \in T /\ Steady(n, T)
  BY DEF Carries
<1>2. CASE x.type \in {"MSG", "ERR"}
  <2>1. handleMsg(h, x) = sendMsg(h, x)
    BY <1>2 DEF handleMsg
  <2> QED BY <1>2, <2>1, sendMsgCarried
<1>3. CASE x.type = "STOP"
  <2>1. handleMsg(h, x) = msg_SENDSTOP(h, x)
    BY <1>3 DEF handleMsg
  <2> QED BY <1>1, <1>3, <2>1, PostFields, SENDSTOPSteady
<1>4. CASE x.type = "ACK"
  <2>1. handleMsg(h, x) = msg_SENDSTOPACK(h, x.to)
    BY <1>4 DEF handleMsg
  <2> QED BY <1>1, <2>1, SENDSTOPACKSteady
<1>5. CASE x.type = "CONT"
  <2>1. handleMsg(h, x) = msg_SENDCONT(h, x.to)
    BY <1>5 DEF handleMsg
  <2> QED BY <1>1, <2>1, SENDCONTSteady
<1> QED BY <1>2, <1>3, <1>4, <1>5, PostFields

LEMMA GiveBackSteady ==
  ASSUME NEW n \in Node, NEW S, Steady(n, S), NEW h \in S, NEW x \in Post
  PROVE  GiveBack(h, x) \in S
  BY ContinueSteady, dropMsgSteady DEF GiveBack

LEMMA GiveBackEach ==
  ASSUME NEW n \in Node, NEW S, Steady(n, S), NEW h \in S, NEW s \in Seq(Post)
  PROVE  ForEach(GiveBack, h, s) \in S
<1>1. \A d \in S, x \in Post : GiveBack(d, x) \in S
  BY GiveBackSteady
<1> QED BY <1>1, EachGivenBack

LEMMA dropMsgEach ==
  ASSUME NEW n \in Node, NEW S, Steady(n, S), NEW h \in S, NEW s \in Seq(Post)
  PROVE  ForEach(dropMsg, h, s) \in S
<1>1. \A d \in S, x \in Post : dropMsg(d, x) \in S
  BY dropMsgSteady
<1> QED BY <1>1, EachDropped

-----------------------------------------------------------------------------
(***************************************************************************)
(* A client goes                                                           *)
(***************************************************************************)

\* Client t has left nothing behind.
Leaves(n, h, g, t) ==
  /\ g.task[t].fd = NoFd /\ \A u \in Task : u # t => g.task[u].fd = h.task[u].fd
  /\ \A r \in Local(n) :
       Inbox(g, r) = IF r = t THEN << >> ELSE Inbox(h, r)
  /\ \A m \in Peers(n) : Outbox(g, m) = Outbox(h, m)

LEMMA Unregistered ==
  ASSUME NEW n \in Node, NEW h \in Good(n), NEW t \in Local(n), NEW f \in Fd,
         h.task[t].fd = f, h.sock[f].closed
  PROVE  LET g == [h EXCEPT !.client[f] = [@ EXCEPT !.tid = NoTask, !.msgs = << >>],
                            !.task[t].fd = NoFd]
         IN  g \in Good(n) /\ Leaves(n, h, g, t)
<1> DEFINE g == [h EXCEPT !.client[f] = [@ EXCEPT !.tid = NoTask, !.msgs = << >>],
                          !.task[t].fd = NoFd]
           e == [h.client[f] EXCEPT !.tid = NoTask, !.msgs = << >>]
           a == [h.task[t] EXCEPT !.fd = NoFd]
<1>1. h \in Context(n) /\ h.n = n /\ t \in Task /\ Home[t] = n
  BY ContextFields DEF Good, Local
<1>2. h.client[f] \in Client /\ h.task[t] \in TaskEntry /\ h.client \in [Fd -> Client]
      /\ h.task \in [Task -> TaskEntry]
  BY <1>1, ContextFields
<1>3. << >> \in Seq(Post) /\ Len(<< >>) = 0
  BY EmptySeq
<1>4. e \in Client /\ e.tid = NoTask /\ e.msgs = << >>
  BY <1>2, <1>3 DEF Client
<1>5. a \in TaskEntry /\ a.fd = NoFd
  BY <1>2 DEF TaskEntry
<1>6. /\ g.client = [h.client EXCEPT ![f] = e] /\ g.task = [h.task EXCEPT ![t] = a]
      /\ g.sock = h.sock /\ g.link = h.link /\ g.buf = h.buf
      /\ g.up = h.up /\ g.n = h.n /\ g.result = h.result
      /\ g \in [n : {n}, task : {g.task}, client : {g.client}, sock : {g.sock},
                buf : {g.buf}, link : {g.link}, up : {g.up}, result : {g.result}]
  BY <1>1 DEF Context
<1> HIDE DEF g, e, a
<1>7. g.client \in [Fd -> Client] /\ g.task \in [Task -> TaskEntry]
  <2>1. g.client \in [Fd -> Client]
    BY <1>2, <1>4, <1>6
  <2>2. g.task \in [Task -> TaskEntry]
    BY <1>1, <1>2, <1>5, <1>6
  <2> QED BY <2>1, <2>2
<1>8. g \in Context(n) /\ g.n = n
  BY <1>1, <1>6, <1>7 DEF Context
<1>9. /\ g.client[f].tid = NoTask /\ g.client[f].msgs = << >>
      /\ \A i \in Fd : i # f => g.client[i] = h.client[i]
      /\ g.task[t].fd = NoFd
      /\ \A u \in Task : u # t => g.task[u].fd = h.task[u].fd
  <2>1. /\ g.client[f] = e /\ \A i \in Fd : i # f => g.client[i] = h.client[i]
    BY <1>2, <1>6
  <2>2. /\ g.task[t] = a /\ \A u \in Task : u # t => g.task[u] = h.task[u]
    BY <1>1, <1>2, <1>6
  <2> QED BY <1>4, <1>5, <2>1, <2>2
<1>10. h.client[f].tid = t
  BY <1>1, Constants DEF Good, Registered
<1>11. h.sock[f].data = << >> /\ SockCap \in Nat
  BY Waits, Constants
<1>12. \A p \in Peers(n) : Carried(g, p) /\ Filled(g, p)
  BY <1>1, <1>6, <1>8 DEF Good, Carried, Filled
<1>13. \A i \in Fd : Served(g, i)
  <2> SUFFICES ASSUME NEW i \in Fd PROVE Served(g, i)
    OBVIOUS
  <2>1. CASE i = f
    <3>1. << >> \in Seq(Letters(NoTask))
      BY EmptySeq
    <3>2. g.sock[f].data = << >> /\ g.client[f].msgs = << >> /\ g.client[f].tid = NoTask
      BY <1>6, <1>9, <1>11
    <3>3. Len(g.sock[f].data) <= SockCap
      BY <1>3, <1>11, <3>2
    <3>4. /\ g.sock[f].data \in Seq(Letters(NoTask))
          /\ g.client[f].msgs \in Seq(Letters(NoTask))
      BY <3>1, <3>2
    <3> QED BY <2>1, <3>2, <3>3, <3>4 DEF Served
  <2>2. CASE i # f
    <3>1. Served(h, i) /\ h.client[i].tid \in Task \cup {NoTask}
      BY Waits DEF Good
    <3>2. h.client[i].tid # t
      BY <1>1, <2>2, <3>1, Constants DEF Served
    <3> QED BY <1>1, <1>6, <1>8, <1>9, <2>2, <3>1, <3>2 DEF Served
  <2> QED BY <2>1, <2>2
<1>14. \A u \in Task : u # t /\ Home[u] = n => h.task[u].fd # f
  BY <1>1, <1>10, Constants DEF Good, Registered
<1>15. \A u \in Task : Registered(g, u)
  <2> SUFFICES ASSUME NEW u \in Task, Home[u] = n, g.task[u].fd # NoFd
               PROVE  g.client[g.task[u].fd].tid = u
    BY <1>8 DEF Registered
  <2>1. u # t /\ g.task[u].fd = h.task[u].fd /\ h.task[u].fd # f
    BY <1>9, <1>14
  <2>2. h.task[u].fd \in Fd /\ h.client[h.task[u].fd].tid = u
    <3>1. h.task[u].fd \in Fd \cup {NoFd} /\ Registered(h, u)
      BY <1>2, EntryFields DEF Good
    <3> QED BY <1>1, <2>1, <3>1 DEF Registered
  <2> QED BY <1>9, <2>1, <2>2
<1>16. ASSUME NEW r \in Local(n)
       PROVE  Inbox(g, r) = IF r = t THEN << >> ELSE Inbox(h, r)
  <2>1. CASE r = t
    BY <1>9, <2>1 DEF Inbox
  <2>2. CASE r # t
    <3>1. r \in Task /\ Home[r] = n /\ h.task[r].fd \in Fd \cup {NoFd}
      BY <1>2, EntryFields DEF Local
    <3>2. g.task[r].fd = h.task[r].fd /\ h.task[r].fd # f
      BY <1>9, <1>14, <2>2, <3>1
    <3> QED BY <1>6, <1>9, <2>2, <3>1, <3>2 DEF Inbox
  <2> QED BY <2>1, <2>2
<1>17. \A m \in Peers(n) : Outbox(g, m) = Outbox(h, m)
  BY <1>6 DEF Outbox
<1>18. g \in Good(n)
  BY <1>8, <1>12, <1>13, <1>15 DEF Good
<1>19. Leaves(n, h, g, t)
  BY <1>9, <1>16, <1>17 DEF Leaves
<1> QED BY <1>18, <1>19 DEF g

LEMMA SocketReset ==
  ASSUME NEW n \in Node, NEW h \in Good(n), NEW f \in Fd,
         h.client[f].tid = NoTask
  PROVE  LET g == [h EXCEPT !.sock[f] = [data |-> << >>, closed |-> FALSE]]
         IN  g \in Good(n) /\ Quiet(n, h, g) /\ g.task = h.task
<1> DEFINE e == [data |-> << >>, closed |-> FALSE]
           g == [h EXCEPT !.sock[f] = e]
<1>1. << >> \in Seq(Post) /\ Len(<< >>) = 0 /\ << >> \in Seq(Letters(NoTask))
  BY EmptySeq
<1>2. e \in Socket /\ e.data = << >> /\ e.closed = FALSE
  BY <1>1 DEF Socket
<1> HIDE DEF e
<1>3. h \in Context(n)
  BY DEF Good
<1>4. /\ g.sock = [h.sock EXCEPT ![f] = e]
      /\ g.client = h.client /\ g.task = h.task /\ g.link = h.link
      /\ g.buf = h.buf /\ g.up = h.up /\ g.n = h.n /\ g.result = h.result
      /\ g = [h EXCEPT !.sock[f] = e]
  BY <1>3 DEF Context
<1> HIDE DEF g
<1>5. /\ g.sock \in [Fd -> Socket] /\ g.sock[f] = e
      /\ \A i \in Fd : i # f => g.sock[i] = h.sock[i]
  BY <1>2, <1>3, <1>4, ContextFields
<1>6. g \in Context(n)
  BY <1>3, <1>4, <1>5 DEF Context
<1>7. h.client[f].msgs = << >>
  BY Waits
<1>8. /\ g.sock[f].data \in Seq(Letters(h.client[f].tid))
      /\ g.client[f].msgs \in Seq(Letters(h.client[f].tid))
      /\ ~g.sock[f].closed
  BY <1>1, <1>2, <1>4, <1>5, <1>7
<1>9. Len(g.sock[f].data) <= SockCap
  BY <1>1, <1>2, <1>5, Constants
<1>10. /\ g \in Good(n)
       /\ \A i \in Local(n) : i # h.client[f].tid => Inbox(g, i) = Inbox(h, i)
       /\ \A m \in Peers(n) : Outbox(g, m) = Outbox(h, m)
  <2>1. /\ g.link = h.link /\ g.buf = h.buf
        /\ \A i \in Task : g.task[i].fd = h.task[i].fd
        /\ \A i \in Fd : i # f => /\ g.sock[i] = h.sock[i]
                               /\ g.client[i].tid = h.client[i].tid
                               /\ g.client[i].msgs = h.client[i].msgs
        /\ g.client[f].tid = h.client[f].tid
    BY <1>4, <1>5
  <2> QED BY <1>6, <1>8, <1>9, <2>1, ClientTouched
<1>11. \A i \in Local(n) : i # NoTask
  BY Constants DEF Local
<1>12. Quiet(n, h, g)
  BY <1>4, <1>10, <1>11 DEF Quiet
<1> QED BY <1>4, <1>10, <1>12 DEF g, e

LEMMA closeSteady ==
  ASSUME NEW n \in Node, NEW S, Steady(n, S), NEW h \in Good(n),
         NEW t \in Local(n), NEW f \in Fd,
         h.task[t].fd = f, h.sock[f].closed,
         \A g \in Good(n) : Leaves(n, h, g, t) => g \in S
  PROVE  /\ closeConnection(h, f) \in S
         /\ closeConnection(h, f).task[t].fd = NoFd
         /\ \A u \in Task :
              u # t => closeConnection(h, f).task[u].fd = h.task[u].fd
<1> DEFINE q == [h EXCEPT !.client[f] = [@ EXCEPT !.tid = NoTask, !.msgs = << >>],
                          !.task[t].fd = NoFd]
           s == h.client[f].msgs
           d == ForEach(dropMsg, q, s)
           r == sendContMsgs(d, f, NoTask)
           e == [data |-> << >>, closed |-> FALSE]
           g == [r EXCEPT !.sock[f] = e]
           P == Pinned(S, q)
<1>1. h \in Context(n) /\ t \in Task /\ Home[t] = n /\ h.n = n
  BY ContextFields DEF Good, Local
<1>2. h.client[f].tid = t /\ s \in Seq(Post)
  BY <1>1, Constants, Waits DEF Good, Registered
<1>3. q \in Good(n) /\ Leaves(n, h, q, t)
  BY Unregistered
<1>4. closeConnection(h, f) = g
  BY <1>2 DEF closeConnection
<1> HIDE DEF q
<1>5. Steady(n, P) /\ q \in P
  BY <1>3, PinnedSteady
<1> HIDE DEF P
<1>6. d \in P
  BY <1>2, <1>5, dropMsgEach
<1> HIDE DEF d
<1>7. r \in P
  BY <1>5, <1>6, sendContMsgsSteady
<1> HIDE DEF r
<1>8. r \in Good(n) /\ r \in Context(n) /\ r.n = n
  BY <1>5, <1>7, SteadyKeeps, ContextFields
<1>9. /\ r.task[t].fd = NoFd
      /\ \A u \in Task : u # t => r.task[u].fd = h.task[u].fd
  BY <1>1, <1>3, <1>7 DEF P, Pinned, Leaves
<1>10. r.client[f].tid = NoTask
  <2> DEFINE u == r.client[f].tid
  <2>1. SUFFICES ASSUME u # NoTask PROVE FALSE
    OBVIOUS
  <2>2. u \in Task /\ Served(r, f)
    BY <1>8, <2>1, Waits DEF Good
  <2>3. Home[u] = n /\ r.task[u].fd = f
    BY <1>8, <2>1, <2>2 DEF Served
  <2>4. u # t /\ h.task[u].fd = f
    BY <1>9, <2>2, <2>3, Constants
  <2> HIDE DEF u
  <2>5. h.client[f].tid = u
    BY <1>1, <2>2, <2>3, <2>4, Constants DEF Good, Registered
  <2> QED BY <1>2, <2>4, <2>5
<1>11. g \in Good(n) /\ Quiet(n, r, g) /\ g.task = r.task
  BY <1>8, <1>10, SocketReset
<1> HIDE DEF g
<1>12. g \in P
  BY <1>5, <1>7, <1>11, SteadyKeeps
<1>13. g \in S
  BY <1>12 DEF P, Pinned
<1> QED BY <1>4, <1>9, <1>11, <1>13

-----------------------------------------------------------------------------
(***************************************************************************)
(* Rows in order                                                           *)
(***************************************************************************)

LEMMA SentFields ==
  ASSUME NEW p \in Seq(Post), NEW s, NEW r
  PROVE  \A i : i \in Sent(p, s, r)
                  <=> /\ i \in 1..Len(p) /\ p[i].type = "MSG"
                      /\ p[i].from = s /\ p[i].to = r
  BY LenProperties DEF Sent

LEMMA WithinEmpty ==
  ASSUME NEW s, NEW r, NEW L, NEW U
  PROVE  Within(<< >>, s, r, L, U) /\ Nums(<< >>, s, r) = {}
<1>1. << >> \in Seq(Post) /\ Len(<< >>) = 0
  BY EmptySeq
<1> DEFINE e == << >>
<1>2. e \in Seq(Post) /\ Len(e) = 0
  BY <1>1
<1> HIDE DEF e
<1>3. Sent(e, s, r) = {}
  <2>1. \A i : i \in Sent(e, s, r) => i \in 1..Len(e)
    BY <1>2, SentFields
  <2>2. 1..Len(e) = {}
    BY <1>2
  <2> QED BY <2>1, <2>2
<1>4. Within(e, s, r, L, U) /\ Nums(e, s, r) = {}
  BY <1>3 DEF Within, Nums
<1> QED BY <1>4 DEF e

\* Later messages may come only later.
LEMMA WithinWeaker ==
  ASSUME NEW p \in Seq(Post), NEW s, NEW r, NEW L, NEW U \in SUBSET Nat,
         NEW V \in SUBSET Nat, Within(p, s, r, L, U),
         \A v \in V : \E u \in U : u <= v
  PROVE  Within(p, s, r, L, V)
<1>1. \A i \in Sent(p, s, r) : p[i].num \in Nat
  BY SentFields, ElementOfSeq, PostFields
<1>2. ASSUME NEW i \in Sent(p, s, r), NEW v \in V PROVE p[i].num < v
  <2>1. PICK u \in U : u <= v
    OBVIOUS
  <2>2. p[i].num < u
    BY DEF Within
  <2> QED BY <1>1, <2>1, <2>2
<1> QED BY <1>2 DEF Within

\* A message of another sender or to another client.
LEMMA WithinOther ==
  ASSUME NEW p \in Seq(Post), NEW s, NEW r, NEW L, NEW U, Within(p, s, r, L, U),
         NEW x \in Post, ~(x.type = "MSG" /\ x.from = s /\ x.to = r)
  PROVE  Within(Append(p, x), s, r, L, U)
<1> DEFINE q == Append(p, x)
<1>1. /\ q \in Seq(Post) /\ Len(q) = Len(p) + 1 /\ q[Len(p) + 1] = x
      /\ Len(p) \in Nat /\ \A i \in 1..Len(p) : q[i] = p[i]
  BY AppendFields, LenProperties
<1> HIDE DEF q
<1>2. Sent(q, s, r) = Sent(p, s, r)
  <2>1. ASSUME NEW i PROVE i \in Sent(q, s, r) <=> i \in Sent(p, s, r)
    <3>1. i \in 1..(Len(p) + 1) <=> i \in 1..Len(p) \/ i = Len(p) + 1
      BY <1>1
    <3>2. Len(p) + 1 \notin 1..Len(p)
      BY <1>1
    <3> QED BY <1>1, <3>1, <3>2, SentFields
  <2> QED BY <2>1
<1>3. \A i \in Sent(p, s, r) : q[i] = p[i]
  BY <1>1, SentFields
<1>4. Within(q, s, r, L, U)
  BY <1>2, <1>3 DEF Within
<1> QED BY <1>4 DEF q

\* The next message.
LEMMA WithinNext ==
  ASSUME NEW p \in Seq(Post), NEW s, NEW r, NEW L, NEW U, NEW V,
         Within(p, s, r, L, U), NEW x \in Post,
         x.num \in U, \A k \in L : k < x.num, \A k \in V : x.num < k,
         U \subseteq Nat, V \subseteq Nat
  PROVE  Within(Append(p, x), s, r, L, V)
<1> DEFINE q == Append(p, x)
<1>1. /\ q \in Seq(Post) /\ Len(q) = Len(p) + 1 /\ q[Len(p) + 1] = x
      /\ Len(p) \in Nat /\ \A i \in 1..Len(p) : q[i] = p[i]
  BY AppendFields, LenProperties
<1> HIDE DEF q
<1>2. ASSUME NEW i \in Sent(q, s, r)
      PROVE  /\ i \in 1..(Len(p) + 1) /\ i \in Nat
             /\ i = Len(p) + 1 => q[i] = x
             /\ i # Len(p) + 1 => i \in Sent(p, s, r) /\ q[i] = p[i]
  <2>1. i \in 1..(Len(p) + 1)
    BY <1>1, SentFields
  <2>2. i # Len(p) + 1 => i \in 1..Len(p)
    BY <1>1, <2>1
  <2> QED BY <1>1, <2>1, <2>2, SentFields
<1>3. \A i \in Sent(p, s, r) : p[i].num \in Nat /\ p[i].num < x.num
  BY SentFields, ElementOfSeq, PostFields DEF Within
<1>4. x.num \in Nat
  OBVIOUS
<1>5. ASSUME NEW i \in Sent(q, s, r)
      PROVE  /\ \A k \in L : k < q[i].num
             /\ \A k \in V : q[i].num < k
             /\ \A j \in Sent(q, s, r) : i < j => q[i].num < q[j].num
  <2>1. CASE i = Len(p) + 1
    <3>1. ASSUME NEW j \in Sent(q, s, r) PROVE ~(i < j)
      BY <1>1, <1>2, <2>1
    <3> QED BY <1>2, <2>1, <3>1
  <2>2. CASE i # Len(p) + 1
    <3>1. i \in Sent(p, s, r) /\ q[i] = p[i]
      BY <1>2, <2>2
    <3>2. \A k \in V : q[i].num < k
      <4> SUFFICES ASSUME NEW k \in V PROVE q[i].num < k
        OBVIOUS
      <4>1. p[i].num \in Nat /\ p[i].num < x.num /\ x.num < k /\ k \in Nat
        BY <1>3, <3>1
      <4> QED BY <1>4, <3>1, <4>1
    <3>3. \A j \in Sent(q, s, r) : i < j => q[i].num < q[j].num
      <4> SUFFICES ASSUME NEW j \in Sent(q, s, r), i < j
                   PROVE  q[i].num < q[j].num
        OBVIOUS
      <4>1. CASE j = Len(p) + 1
        BY <1>2, <1>3, <3>1, <4>1
      <4>2. CASE j # Len(p) + 1
        <5>1. j \in Sent(p, s, r) /\ q[j] = p[j]
          BY <1>2, <4>2
        <5> QED BY <3>1, <5>1 DEF Within
      <4> QED BY <4>1, <4>2
    <3> QED BY <3>1, <3>2, <3>3 DEF Within
  <2> QED BY <2>1, <2>2
<1>6. Within(q, s, r, L, V)
  BY <1>5 DEF Within
<1> QED BY <1>6 DEF q

\* The first message is taken.
LEMMA WithinRest ==
  ASSUME NEW p \in Seq(Post), NEW q \in Seq(Post), NEW s, NEW r, NEW L, NEW U,
         Within(p, s, r, L, U), Len(p) = Len(q) + 1,
         \A i \in 1..Len(q) : q[i] = p[i + 1]
  PROVE  /\ Within(q, s, r, L, U)
         /\ Nums(q, s, r) \subseteq Nums(p, s, r)
         /\ 1 \in Sent(p, s, r) =>
              /\ \A k \in Nums(q, s, r) : p[1].num < k
              /\ p[1].num \in Nums(p, s, r)
              /\ Within(q, s, r, L \cup {p[1].num}, U)
<1>1. Len(q) \in Nat /\ Len(p) \in Nat
  BY LenProperties
<1>2. ASSUME NEW i \in Sent(q, s, r)
      PROVE  /\ i \in Nat /\ i + 1 \in Sent(p, s, r) /\ q[i] = p[i + 1] /\ 1 < i + 1
  <2>1. i \in 1..Len(q)
    BY SentFields
  <2>2. i \in Nat /\ i + 1 \in 1..Len(p) /\ 1 < i + 1
    BY <1>1, <2>1
  <2> QED BY <2>1, <2>2, SentFields
<1>3. Within(q, s, r, L, U)
  <2> SUFFICES ASSUME NEW i \in Sent(q, s, r)
               PROVE  /\ \A k \in L : k < q[i].num
                      /\ \A k \in U : q[i].num < k
                      /\ \A j \in Sent(q, s, r) : i < j => q[i].num < q[j].num
    BY DEF Within
  <2>1. \A j \in Sent(q, s, r) : i < j => i + 1 < j + 1
    BY <1>2
  <2> QED BY <1>2, <2>1 DEF Within
<1>4. Nums(q, s, r) \subseteq Nums(p, s, r)
  BY <1>2 DEF Nums
<1>5. ASSUME 1 \in Sent(p, s, r)
      PROVE  /\ \A k \in Nums(q, s, r) : p[1].num < k
             /\ p[1].num \in Nums(p, s, r)
             /\ Within(q, s, r, L \cup {p[1].num}, U)
  <2>1. \A i \in Sent(q, s, r) : p[1].num < q[i].num
    BY <1>2, <1>5 DEF Within
  <2>2. \A k \in Nums(q, s, r) : p[1].num < k
    BY <2>1 DEF Nums
  <2>3. p[1].num \in Nums(p, s, r)
    BY <1>5 DEF Nums
  <2> QED BY <1>3, <2>1, <2>2, <2>3 DEF Within
<1> QED BY <1>3, <1>4, <1>5

\* The row of what waits for r, or is on its way to it, at n.
Row(n, c, r) == IF Home[r] = n THEN Inbox(c, r) ELSE Outbox(c, Home[r])

Pair == Sender \X Task

\* The contexts in which what s has sent to r is in order, behind L[<<s, r>>] and
\* before U[<<s, r>>], for all <<s, r>> of P.
Ordered(n, P, L, U) ==
  {c \in Good(n) :
     \A z \in P : Within(Row(n, c, z[2]), z[1], z[2], L[z], U[z])}

LEMMA RowTyped ==
  ASSUME NEW n \in Node, NEW h \in Good(n)
  PROVE  /\ \A r \in Local(n) : Inbox(h, r) \in Seq(Post)
         /\ \A m \in Peers(n) : Outbox(h, m) \in Seq(Post)
         /\ \A r \in Task : Row(n, h, r) \in Seq(Post)
<1>1. h \in Context(n) /\ h.n = n
  BY ContextFields DEF Good
<1>2. ASSUME NEW r \in Local(n) PROVE Inbox(h, r) \in Seq(Post)
  <2>1. CASE h.task[r].fd = NoFd
    BY <2>1, EmptySeq DEF Inbox
  <2>2. CASE h.task[r].fd # NoFd
    <3> DEFINE f == h.task[r].fd
    <3>1. f \in Fd
      BY <1>1, <2>2, ContextFields, EntryFields DEF Local
    <3> HIDE DEF f
    <3> DEFINE p == h.sock[f].data
               b == h.client[f].msgs
    <3>2. p \in Seq(Post) /\ b \in Seq(Post) /\ 0 \in 0..Len(p)
      <4>1. p \in Seq(Post) /\ b \in Seq(Post)
        BY <3>1, Waits
      <4>2. Len(p) \in Nat
        BY <4>1, LenProperties
      <4> QED BY <4>1, <4>2
    <3>3. Inbox(h, r) = Joined(p, 0, b)
      BY <2>2 DEF Inbox, f
    <3> HIDE DEF p, b
    <3> QED BY <3>2, <3>3, JoinedFields
  <2> QED BY <2>1, <2>2
<1>3. ASSUME NEW m \in Peers(n) PROVE Outbox(h, m) \in Seq(Post)
  <2> DEFINE p == h.link[m].pend
             b == h.buf[m]
             k == h.link[m].got
  <2>1. p \in Seq(Post) /\ b \in Seq(Post) /\ k \in Nat /\ k <= Len(p)
    BY <1>1, ContextFields, EntryFields DEF Good, Carried
  <2>2. Outbox(h, m) = Joined(p, k, b)
    BY DEF Outbox
  <2> HIDE DEF p, b, k
  <2>3. k \in 0..Len(p)
    BY <2>1, LenProperties
  <2> QED BY <2>1, <2>2, <2>3, JoinedFields
<1>4. ASSUME NEW r \in Task PROVE Row(n, h, r) \in Seq(Post)
  <2>1. Home[r] = n => r \in Local(n)
    BY DEF Local
  <2>2. Home[r] # n => Home[r] \in Peers(n)
    BY Constants DEF Peers
  <2> QED BY <1>2, <1>3, <2>1, <2>2 DEF Row
<1> QED BY <1>2, <1>3, <1>4

LEMMA RowQuiet ==
  ASSUME NEW n \in Node, NEW h, NEW g, Quiet(n, h, g), NEW r \in Task
  PROVE  Row(n, g, r) = Row(n, h, r) \/ Row(n, g, r) = << >>
  BY Constants DEF Quiet, Row, Local, Peers

LEMMA RowPosts ==
  ASSUME NEW n \in Node, NEW h, NEW g, NEW x, Posts(n, h, g, x), NEW r \in Task
  PROVE  \/ Row(n, g, r) = Row(n, h, r) /\ x.to # r
         \/ Row(n, g, r) = Append(Row(n, h, r), x)
<1>1. CASE Home[r] = n
  <2>1. r \in Local(n)
    BY <1>1 DEF Local
  <2> QED BY <1>1, <2>1 DEF Posts, Row
<1>2. CASE Home[r] # n
  <2>1. Home[r] \in Peers(n) /\ getID(r) = Home[r]
    BY <1>2, Constants DEF Peers, getID
  <2> QED BY <1>2, <2>1 DEF Posts, Row
<1> QED BY <1>1, <1>2

\* A message leads to a context in which the next one may follow.
LEMMA OrderedPosts ==
  ASSUME NEW n \in Node, NEW P \in SUBSET Pair, NEW L, NEW U \in [P -> SUBSET Nat],
         NEW V \in [P -> SUBSET Nat], NEW x \in Post,
         \A z \in P : \A v \in V[z] : \E u \in U[z] : u <= v,
         \A z \in P : x.type = "MSG" /\ z = <<x.from, x.to>> =>
           /\ x.num \in U[z] /\ \A k \in L[z] : k < x.num
           /\ \A k \in V[z] : x.num < k,
         NEW h \in Ordered(n, P, L, U), NEW g \in Good(n), Posts(n, h, g, x)
  PROVE  g \in Ordered(n, P, L, V)
<1> SUFFICES ASSUME NEW z \in P
             PROVE  Within(Row(n, g, z[2]), z[1], z[2], L[z], V[z])
  BY DEF Ordered
<1> DEFINE s == z[1]
           r == z[2]
           p == Row(n, h, r)
<1>1. s \in Sender /\ r \in Task /\ z = <<s, r>> /\ h \in Good(n)
  BY DEF Pair, Ordered
<1>2. p \in Seq(Post) /\ Within(p, s, r, L[z], U[z])
  BY <1>1, RowTyped DEF Ordered
<1>3. U[z] \in SUBSET Nat /\ V[z] \in SUBSET Nat
  OBVIOUS
<1> HIDE DEF s, r, p
<1> DEFINE A == L[z]
           B == U[z]
           C == V[z]
<1>4. \A v \in C : \E u \in B : u <= v
  OBVIOUS
<1>5. x.type = "MSG" /\ x.from = s /\ x.to = r =>
        /\ x.num \in B /\ \A k \in A : k < x.num
        /\ \A k \in C : x.num < k
  BY <1>1
<1>6. p \in Seq(Post) /\ Within(p, s, r, A, B) /\ B \in SUBSET Nat /\ C \in SUBSET Nat
  BY <1>2, <1>3
<1> HIDE DEF A, B, C
<1>7. Within(p, s, r, A, C)
  BY <1>4, <1>6, WithinWeaker
<1>8. x.to # r \/ Row(n, g, r) = Append(p, x)
  BY <1>1, RowPosts DEF p
<1>9. Row(n, g, r) = p \/ Row(n, g, r) = Append(p, x)
  BY <1>1, RowPosts DEF p
<1>10. Within(Append(p, x), s, r, A, C) \/ Row(n, g, r) = p
  <2>1. CASE x.type = "MSG" /\ x.from = s /\ x.to = r
    BY <1>5, <1>6, <2>1, WithinNext
  <2>2. CASE ~(x.type = "MSG" /\ x.from = s /\ x.to = r)
    BY <1>6, <1>7, <2>2, WithinOther
  <2> QED BY <2>1, <2>2
<1>11. Within(Row(n, g, r), s, r, A, C)
  BY <1>7, <1>9, <1>10
<1> QED BY <1>11 DEF A, C, s, r

LEMMA OrderedSteady ==
  ASSUME NEW n \in Node, NEW P \in SUBSET Pair, NEW L, NEW U \in [P -> SUBSET Nat]
  PROVE  Steady(n, Ordered(n, P, L, U))
<1>1. Ordered(n, P, L, U) \subseteq Good(n)
  BY DEF Ordered
<1>2. ASSUME NEW h \in Ordered(n, P, L, U), NEW g \in Good(n), Quiet(n, h, g)
      PROVE  g \in Ordered(n, P, L, U)
  <2> SUFFICES ASSUME NEW z \in P
               PROVE  Within(Row(n, g, z[2]), z[1], z[2], L[z], U[z])
    BY DEF Ordered
  <2>1. z[2] \in Task
    BY DEF Pair
  <2>2. Row(n, g, z[2]) = Row(n, h, z[2]) \/ Row(n, g, z[2]) = << >>
    BY <1>2, <2>1, RowQuiet
  <2>3. Within(Row(n, h, z[2]), z[1], z[2], L[z], U[z])
    BY DEF Ordered
  <2> QED BY <2>2, <2>3, WithinEmpty
<1>3. ASSUME NEW h \in Ordered(n, P, L, U), NEW g \in Good(n), NEW x \in Post,
             x.type # "MSG", Posts(n, h, g, x)
      PROVE  g \in Ordered(n, P, L, U)
  <2>1. \A z \in P : \A v \in U[z] : \E u \in U[z] : u <= v
    OBVIOUS
  <2> QED BY <1>3, <2>1, OrderedPosts
<1> QED BY <1>1, <1>2, <1>3 DEF Steady

LEMMA OrderedCarries ==
  ASSUME NEW n \in Node, NEW P \in SUBSET Pair, NEW L, NEW U \in [P -> SUBSET Nat],
         NEW V \in [P -> SUBSET Nat], NEW x \in Post,
         \A z \in P : \A v \in V[z] : \E u \in U[z] : u <= v,
         \A z \in P : x.type = "MSG" /\ z = <<x.from, x.to>> =>
           /\ x.num \in U[z] /\ \A k \in L[z] : k < x.num
           /\ \A k \in V[z] : x.num < k
  PROVE  Carries(n, Ordered(n, P, L, U), Ordered(n, P, L, V), x)
<1>1. Steady(n, Ordered(n, P, L, U)) /\ Steady(n, Ordered(n, P, L, V))
  BY OrderedSteady
<1>2. Ordered(n, P, L, U) \subseteq Ordered(n, P, L, V)
  <2> SUFFICES ASSUME NEW h \in Ordered(n, P, L, U), NEW z \in P
               PROVE  Within(Row(n, h, z[2]), z[1], z[2], L[z], V[z])
    BY DEF Ordered
  <2> DEFINE p == Row(n, h, z[2])
             A == L[z]
             B == U[z]
             C == V[z]
  <2>1. z[2] \in Task /\ h \in Good(n) /\ Within(p, z[1], z[2], A, B)
    BY DEF Pair, Ordered
  <2>2. p \in Seq(Post)
    BY <2>1, RowTyped
  <2>3. B \in SUBSET Nat /\ C \in SUBSET Nat /\ \A v \in C : \E u \in B : u <= v
    OBVIOUS
  <2> HIDE DEF p, A, B, C
  <2>4. Within(p, z[1], z[2], A, C)
    BY <2>1, <2>2, <2>3, WithinWeaker
  <2> QED BY <2>4 DEF p, A, C
<1>3. \A h \in Ordered(n, P, L, U), g \in Good(n) :
        Posts(n, h, g, x) => g \in Ordered(n, P, L, V)
  BY OrderedPosts
<1> QED BY <1>1, <1>2, <1>3 DEF Carries

-----------------------------------------------------------------------------
(***************************************************************************)
(* Handlers as steps of the system                                         *)
(***************************************************************************)

LEMMA InboxIs ==
  ASSUME NEW n \in Node, NEW h \in Good(n), NEW r \in Local(n)
  PROVE  Inbox(h, r) = IF h.task[r].fd = NoFd THEN << >>
                       ELSE h.sock[h.task[r].fd].data
                              \o h.client[h.task[r].fd].msgs
<1>1. CASE h.task[r].fd = NoFd
  BY <1>1 DEF Inbox
<1>2. CASE h.task[r].fd # NoFd
  <2> DEFINE f == h.task[r].fd
             p == h.sock[f].data
             b == h.client[f].msgs
  <2>1. h \in Context(n)
    BY DEF Good
  <2>2. f \in Fd
    BY <1>2, <2>1, ContextFields, EntryFields DEF Local
  <2>3. Inbox(h, r) = Joined(p, 0, b)
    BY <1>2 DEF Inbox
  <2> HIDE DEF f
  <2>4. p \in Seq(Post) /\ b \in Seq(Post)
    BY <2>2, Waits
  <2> HIDE DEF p, b
  <2>5. Len(p) \in Nat /\ 0 \in 0..Len(p)
    <3>1. Len(p) \in Nat
      BY <2>4, LenProperties
    <3> QED BY <3>1
  <2>6. SubSeq(p, 0 + 1, Len(p)) = p
    <3> DEFINE q == SubSeq(p, 0 + 1, Len(p))
    <3>1. /\ q \in Seq(Post) /\ Len(q) = Len(p) - 0
          /\ \A i \in 1..(Len(p) - 0) : q[i] = p[i + 0]
      BY <2>4, <2>5, SuffixFields
    <3> HIDE DEF q
    <3>2. Len(q) = Len(p) /\ \A i \in 1..Len(p) : q[i] = p[i]
      BY <2>5, <3>1
    <3>3. q = p
      BY <2>4, <3>1, <3>2, RowEqual
    <3> QED BY <3>3 DEF q
  <2>7. SubSeq(p, 0 + 1, Len(p)) \o b = Joined(p, 0, b)
    BY <2>4, <2>5, JoinedIs
  <2>8. Inbox(h, r) = p \o b
    BY <2>3, <2>6, <2>7 DEF p, b
  <2> QED BY <1>2, <2>8 DEF p, b, f
<1> QED BY <1>1, <1>2

LEMMA OutboxIs ==
  ASSUME NEW n \in Node, NEW h \in Good(n), NEW m \in Peers(n)
  PROVE  Outbox(h, m) = SubSeq(h.link[m].pend, h.link[m].got + 1,
                               Len(h.link[m].pend)) \o h.buf[m]
<1> DEFINE p == h.link[m].pend
           b == h.buf[m]
           k == h.link[m].got
<1>1. p \in Seq(Post) /\ b \in Seq(Post) /\ k \in Nat /\ k <= Len(p)
  <2>1. h \in Context(n)
    BY DEF Good
  <2> QED BY <2>1, ContextFields, EntryFields DEF Good, Carried
<1>2. Outbox(h, m) = Joined(p, k, b)
  BY DEF Outbox
<1> HIDE DEF p, b, k
<1>3. k \in 0..Len(p)
  BY <1>1, LenProperties
<1>4. SubSeq(p, k + 1, Len(p)) \o b = Joined(p, k, b)
  BY <1>1, <1>3, JoinedIs
<1> QED BY <1>2, <1>4 DEF p, b, k

\* The rows of the properties are those of the contexts.
AllGood == \A n \in Node : Ctx(n) \in Good(n)

SameRows ==
  /\ \A r \in Task : Waiting(r) = Inbox(Ctx(Home[r]), r)
  /\ \A s \in Sender, r \in Task :
       Coming(s, r) = IF getID(s) = Home[r] THEN << >>
                      ELSE Outbox(Ctx(getID(s)), Home[r])

LEMMA RowsAre == AllGood => SameRows
<1> SUFFICES ASSUME AllGood PROVE SameRows
  OBVIOUS
<1>1. ASSUME NEW r \in Task PROVE Waiting(r) = Inbox(Ctx(Home[r]), r)
  <2>1. Home[r] \in Node /\ r \in Local(Home[r]) /\ Ctx(Home[r]) \in Good(Home[r])
    BY Constants DEF Local, AllGood
  <2>2. Inbox(Ctx(Home[r]), r)
          = IF Ctx(Home[r]).task[r].fd = NoFd THEN << >>
            ELSE Ctx(Home[r]).sock[Ctx(Home[r]).task[r].fd].data
                   \o Ctx(Home[r]).client[Ctx(Home[r]).task[r].fd].msgs
    BY <2>1, InboxIs
  <2> QED BY <2>2, Zenon DEF Waiting, Ctx
<1>2. ASSUME NEW s \in Sender, NEW r \in Task, getID(s) # Home[r]
      PROVE  Coming(s, r) = Outbox(Ctx(getID(s)), Home[r])
  <2>1. /\ getID(s) \in Node /\ Ctx(getID(s)) \in Good(getID(s))
        /\ Home[r] \in Peers(getID(s))
    BY <1>2, Place, Constants DEF Peers, AllGood
  <2> DEFINE n == getID(s)
             m == Home[r]
  <2>2. Outbox(Ctx(n), m) = SubSeq(Ctx(n).link[m].pend, Ctx(n).link[m].got + 1,
                                   Len(Ctx(n).link[m].pend)) \o Ctx(n).buf[m]
    <3> HIDE DEF n, m
    <3> QED BY <2>1, OutboxIs DEF n, m
  <2>3. Coming(s, r) = Underway(n, m)
    BY <1>2 DEF Coming
  <2> HIDE DEF n, m
  <2>4. Coming(s, r) = Outbox(Ctx(n), m)
    BY <2>2, <2>3 DEF Underway, Ctx
  <2> QED BY <2>4 DEF n, m
<1> QED BY <1>1, <1>2 DEF Coming, SameRows

LEMMA RowsAreNext == AllGood' => SameRows'
  BY RowsAre, PTL

\* What psid p has is as good after a step of n as it was.
LEMMA ElsewhereGood ==
  ASSUME NEW p \in Node, NEW h \in Good(p), NEW g \in Context(p),
         g.client = h.client, g.sock = h.sock, g.buf = h.buf,
         \A q \in Peers(p) : /\ g.link[q].pend = h.link[q].pend
                             /\ g.link[q].got <= Len(h.link[q].pend),
         \A t \in Local(p) : g.task[t].fd = h.task[t].fd
  PROVE  g \in Good(p)
<1>1. h \in Context(p) /\ h.n = p /\ g.n = p
  BY ContextFields DEF Good
<1>2. \A q \in Peers(p) : Carried(g, q) /\ Filled(g, q)
  BY <1>1 DEF Good, Carried, Filled
<1>3. \A f \in Fd : Served(g, f)
  <2> SUFFICES ASSUME NEW f \in Fd PROVE Served(g, f)
    OBVIOUS
  <2>1. Served(h, f) /\ h.client[f].tid \in Task \cup {NoTask}
    BY Waits DEF Good
  <2> QED BY <1>1, <2>1 DEF Served, Local
<1>4. \A t \in Task : Registered(g, t)
  BY <1>1 DEF Good, Registered, Local
<1> QED BY <1>2, <1>3, <1>4 DEF Good

\* A handler of n ends in context c; it may have taken a message from a
\* peer's queue.
Stepped(n, c) ==
  /\ task' = c.task
  /\ client' = [client EXCEPT ![n] = c.client]
  /\ sock' = [sock EXCEPT ![n] = c.sock]
  /\ buf' = [buf EXCEPT ![n] = c.buf]
  /\ link' = [p \in Node |-> link'[p]] /\ link'[n] = c.link
  /\ \A p \in Node : p # n =>
       /\ link'[p] \in [Peers(p) -> LinkEntry]
       /\ \A q \in Peers(p) :
            /\ link'[p][q].pend = link[p][q].pend
            /\ link'[p][q].got <= Len(link[p][q].pend)
            /\ q # n => link'[p][q] = link[p][q]
  /\ up' = [p \in Node |-> up'[p]] /\ \A p \in Node : up'[p] \in [Node -> BOOLEAN]

\* The clients of other psids stay connected, or not.
KeepsOthers(n, c) == \A t \in Task : Home[t] # n => c.task[t].fd = task[t].fd

LEMMA SteppedGood ==
  ASSUME NEW n \in Node, NEW c \in Good(n), AllGood, Shapes,
         KeepsOthers(n, c), Stepped(n, c)
  PROVE  AllGood' /\ Shapes'
<1>1. c \in Context(n) /\ c.n = n
  BY ContextFields DEF Good
<1>2. /\ client'[n] = c.client /\ sock'[n] = c.sock /\ buf'[n] = c.buf
      /\ \A p \in Node : p # n => /\ client'[p] = client[p] /\ sock'[p] = sock[p]
                                  /\ buf'[p] = buf[p]
      /\ Shapes'
  BY DEF Stepped, Shapes
<1>3. ASSUME NEW p \in Node PROVE Ctx(p)' \in Good(p)
  <2> DEFINE g == Ctx(p)'
  <2>1. /\ g.n = p /\ g.task = c.task /\ g.client = client'[p] /\ g.sock = sock'[p]
        /\ g.buf = buf'[p] /\ g.link = link'[p] /\ g.up = up'[p]
        /\ g.result = "sent"
        /\ g = [n |-> p, task |-> c.task, client |-> client'[p],
                sock |-> sock'[p], buf |-> buf'[p], link |-> link'[p],
                up |-> up'[p], result |-> "sent"]
    BY DEF Ctx, Stepped
  <2>2. c.task \in [Task -> TaskEntry] /\ up'[p] \in [Node -> BOOLEAN]
    BY <1>1, ContextFields DEF Stepped
  <2> HIDE DEF g
  <2>3. CASE p = n
    <3>1. /\ client'[p] = c.client /\ sock'[p] = c.sock /\ buf'[p] = c.buf
          /\ link'[p] = c.link
      BY <1>2, <2>3 DEF Stepped
    <3>2. g \in Context(p)
      <4>1. /\ c.client \in [Fd -> Client] /\ c.sock \in [Fd -> Socket]
            /\ c.buf \in [Peers(p) -> Seq(Post)] /\ c.link \in [Peers(p) -> LinkEntry]
        BY <1>1, <2>3, ContextFields
      <4> QED BY <2>1, <2>2, <3>1, <4>1 DEF Context
    <3>3. \A q \in Peers(p) : c.link[q].got <= Len(c.link[q].pend)
      BY <2>3 DEF Good, Carried
    <3>4. /\ c \in Good(p) /\ g.client = c.client /\ g.sock = c.sock
          /\ g.buf = c.buf
          /\ \A q \in Peers(p) : /\ g.link[q].pend = c.link[q].pend
                                /\ g.link[q].got <= Len(c.link[q].pend)
          /\ \A t \in Local(p) : g.task[t].fd = c.task[t].fd
      BY <2>1, <2>3, <3>1, <3>3
    <3>5. g \in Good(p)
      BY <3>2, <3>4, ElsewhereGood
    <3> QED BY <3>5 DEF g
  <2>4. CASE p # n
    <3> DEFINE h == Ctx(p)
    <3>1. h \in Good(p) /\ h \in Context(p)
      BY DEF AllGood, Good
    <3>2. /\ h.client = client[p] /\ h.sock = sock[p] /\ h.buf = buf[p]
          /\ h.link = link[p] /\ h.task = task
      BY DEF Ctx
    <3> HIDE DEF h
    <3>3. /\ g.client = h.client /\ g.sock = h.sock /\ g.buf = h.buf
          /\ g.link \in [Peers(p) -> LinkEntry]
      BY <1>2, <2>1, <2>4, <3>2 DEF Stepped
    <3>4. g \in Context(p)
      <4>1. /\ h.client \in [Fd -> Client] /\ h.sock \in [Fd -> Socket]
            /\ h.buf \in [Peers(p) -> Seq(Post)]
        BY <3>1, ContextFields
      <4> QED BY <2>1, <2>2, <3>3, <4>1 DEF Context
    <3>5. \A q \in Peers(p) : /\ g.link[q].pend = h.link[q].pend
                              /\ g.link[q].got <= Len(h.link[q].pend)
      BY <2>1, <2>4, <3>2 DEF Stepped
    <3>6. \A t \in Local(p) : g.task[t].fd = h.task[t].fd
      BY <2>1, <2>4, <3>2 DEF KeepsOthers, Local
    <3>7. g.client = h.client /\ g.sock = h.sock /\ g.buf = h.buf
      BY <3>3
    <3>8. g \in Good(p)
      BY <3>1, <3>4, <3>5, <3>6, <3>7, ElsewhereGood
    <3> QED BY <3>8 DEF g
  <2> QED BY <2>3, <2>4 DEF g
<1> QED BY <1>2, <1>3 DEF AllGood

\* The rows after a handler of n has ended.
LEMMA SteppedRows ==
  ASSUME NEW n \in Node, NEW c \in Good(n), AllGood, Shapes,
         KeepsOthers(n, c), Stepped(n, c)
  PROVE  /\ \A r \in Task :
              Waiting(r)' = IF Home[r] = n THEN Inbox(c, r) ELSE Waiting(r)
         /\ \A s \in Sender, r \in Task :
              Home[r] # n =>
                Coming(s, r)' = IF getID(s) = n THEN Outbox(c, Home[r])
                                ELSE Coming(s, r)
<1>1. AllGood' /\ Shapes' /\ SameRows /\ SameRows'
  BY SteppedGood, RowsAre, RowsAreNext
<1>2. /\ client'[n] = c.client /\ sock'[n] = c.sock /\ buf'[n] = c.buf
      /\ link'[n] = c.link
      /\ \A p \in Node : p # n => /\ client'[p] = client[p] /\ sock'[p] = sock[p]
                                  /\ buf'[p] = buf[p]
  BY DEF Stepped, Shapes
<1>3. \A p \in Node :
        /\ Ctx(p)'.task = c.task /\ Ctx(p)'.client = client'[p]
        /\ Ctx(p)'.sock = sock'[p] /\ Ctx(p)'.buf = buf'[p]
        /\ Ctx(p)'.link = link'[p]
        /\ Ctx(p).task = task /\ Ctx(p).client = client[p]
        /\ Ctx(p).sock = sock[p] /\ Ctx(p).buf = buf[p]
        /\ Ctx(p).link = link[p]
  BY DEF Ctx, Stepped
<1>4. ASSUME NEW r \in Task
      PROVE  Waiting(r)' = IF Home[r] = n THEN Inbox(c, r) ELSE Waiting(r)
  <2>1. /\ Waiting(r)' = Inbox(Ctx(Home[r])', r)
        /\ Waiting(r) = Inbox(Ctx(Home[r]), r)
        /\ Home[r] \in Node
    BY <1>1, Constants DEF SameRows
  <2>2. CASE Home[r] = n
    <3>1. Inbox(Ctx(n)', r) = Inbox(c, r)
      BY <1>2, <1>3 DEF Inbox
    <3> QED BY <2>1, <2>2, <3>1
  <2>3. CASE Home[r] # n
    <3>1. c.task[r].fd = task[r].fd
      BY <2>3 DEF KeepsOthers
    <3>2. Inbox(Ctx(Home[r])', r) = Inbox(Ctx(Home[r]), r)
      BY <1>2, <1>3, <2>1, <2>3, <3>1 DEF Inbox
    <3> QED BY <2>1, <2>3, <3>2
  <2> QED BY <2>2, <2>3
<1>5. ASSUME NEW s \in Sender, NEW r \in Task, Home[r] # n
      PROVE  Coming(s, r)' = IF getID(s) = n THEN Outbox(c, Home[r])
                             ELSE Coming(s, r)
  <2>1. /\ Coming(s, r)' = IF getID(s) = Home[r] THEN << >>
                           ELSE Outbox(Ctx(getID(s))', Home[r])
        /\ Coming(s, r) = IF getID(s) = Home[r] THEN << >>
                          ELSE Outbox(Ctx(getID(s)), Home[r])
    BY <1>1 DEF SameRows
  <2>2. getID(s) \in Node /\ Home[r] \in Node
    BY Place, Constants
  <2>3. CASE getID(s) = n
    <3>1. Outbox(Ctx(n)', Home[r]) = Outbox(c, Home[r])
      BY <1>2, <1>3 DEF Outbox
    <3> QED BY <1>5, <2>1, <2>3, <3>1
  <2>4. CASE getID(s) # n /\ getID(s) # Home[r]
    <3> DEFINE p == getID(s)
               q == Home[r]
    <3>1. p \in Node /\ p # n /\ q \in Peers(p) /\ q # n
      BY <1>5, <2>2, <2>4 DEF Peers
    <3> HIDE DEF p, q
    <3>2. link'[p][q] = link[p][q] /\ buf'[p] = buf[p]
      BY <1>2, <3>1 DEF Stepped
    <3>3. Outbox(Ctx(p)', q) = Outbox(Ctx(p), q)
      BY <1>3, <3>1, <3>2 DEF Outbox
    <3> QED BY <2>1, <2>4, <3>3 DEF p, q
  <2>5. CASE getID(s) # n /\ getID(s) = Home[r]
    BY <2>1, <2>5
  <2> QED BY <2>3, <2>4, <2>5
<1> QED BY <1>4, <1>5

-----------------------------------------------------------------------------
(***************************************************************************)
(* The order of messages over a step                                       *)
(***************************************************************************)

\* The rows n has to do with, what is before them and what comes after them.
Pass(n) == {z \in Pair : Home[z[2]] = n \/ getID(z[1]) = n}

Low(n) ==
  [z \in Pair |->
     seen[z[2]][z[1]] \cup (IF Home[z[2]] = n THEN {}
                            ELSE Nums(Waiting(z[2]), z[1], z[2]))]

\* The messages to come when next[s] is the number of the next one of s.
Later(n, next) ==
  [z \in Pass(n) |->
     {next[z[1]]} \cup (IF Home[z[2]] = n
                        THEN Nums(Coming(z[1], z[2]), z[1], z[2]) ELSE {})]

Upcoming == [s \in Sender |-> sent[s] + 1]

LEMMA NumsTyped ==
  ASSUME NEW p \in Seq(Post), NEW s, NEW r
  PROVE  Nums(p, s, r) \subseteq Nat
<1>1. \A i \in Sent(p, s, r) : p[i].num \in Nat
  BY SentFields, ElementOfSeq, PostFields
<1> QED BY <1>1 DEF Nums

LEMMA RowsTyped ==
  ASSUME AllGood
  PROVE  \A s \in Sender, r \in Task :
           Waiting(r) \in Seq(Post) /\ Coming(s, r) \in Seq(Post)
<1>1. SameRows
  BY RowsAre
<1>2. ASSUME NEW s \in Sender, NEW r \in Task
      PROVE  Waiting(r) \in Seq(Post) /\ Coming(s, r) \in Seq(Post)
  <2>1. /\ Home[r] \in Node /\ getID(s) \in Node /\ r \in Local(Home[r])
        /\ Ctx(Home[r]) \in Good(Home[r]) /\ Ctx(getID(s)) \in Good(getID(s))
        /\ getID(s) # Home[r] => Home[r] \in Peers(getID(s))
    BY Constants, Place DEF AllGood, Local, Peers
  <2>2. Waiting(r) \in Seq(Post)
    BY <1>1, <2>1, RowTyped DEF SameRows
  <2>3. CASE getID(s) = Home[r]
    BY <1>1, <2>2, <2>3, EmptySeq DEF SameRows
  <2>4. CASE getID(s) # Home[r]
    <3>1. Coming(s, r) = Outbox(Ctx(getID(s)), Home[r])
      BY <1>1, <2>4 DEF SameRows
    <3> QED BY <2>1, <2>2, <2>4, <3>1, RowTyped
  <2> QED BY <2>3, <2>4
<1> QED BY <1>2

LEMMA LaterTyped ==
  ASSUME AllGood, NEW n \in Node, NEW next \in [Sender -> Nat]
  PROVE  Later(n, next) \in [Pass(n) -> SUBSET Nat] /\ Pass(n) \in SUBSET Pair
<1>1. Pass(n) \in SUBSET Pair
  BY DEF Pass
<1>2. ASSUME NEW z \in Pass(n)
      PROVE  {next[z[1]]} \cup (IF Home[z[2]] = n
                                THEN Nums(Coming(z[1], z[2]), z[1], z[2])
                                ELSE {}) \in SUBSET Nat
  <2>1. z[1] \in Sender /\ z[2] \in Task
    BY <1>1 DEF Pair
  <2>2. Coming(z[1], z[2]) \in Seq(Post)
    BY <2>1, RowsTyped
  <2>3. Nums(Coming(z[1], z[2]), z[1], z[2]) \subseteq Nat
    BY <2>2, NumsTyped
  <2> QED BY <2>1, <2>3
<1> QED BY <1>1, <1>2 DEF Later

\* The context a handler starts from.
LEMMA BeginsOrdered ==
  ASSUME IInv, NEW n \in Node
  PROVE  /\ Ctx(n) \in Ordered(n, Pass(n), Low(n), Later(n, Upcoming))
         /\ Upcoming \in [Sender -> Nat]
         /\ \A z \in Pass(n) : \A k \in Low(n)[z] : k < Upcoming[z[1]]
<1>1. /\ AllGood /\ SameRows /\ Ctx(n) \in Good(n) /\ InStride /\ Histories
  BY RowsAre DEF IInv, AllGood
<1>2. Upcoming \in [Sender -> Nat]
  BY <1>1 DEF Upcoming, Histories
<1>3. ASSUME NEW z \in Pass(n)
      PROVE  /\ Within(Row(n, Ctx(n), z[2]), z[1], z[2], Low(n)[z],
                       Later(n, Upcoming)[z])
             /\ \A k \in Low(n)[z] : k < Upcoming[z[1]]
  <2> DEFINE s == z[1]
             r == z[2]
  <2>1. s \in Sender /\ r \in Task /\ z \in Pair /\ (Home[r] = n \/ getID(s) = n)
    BY DEF Pass, Pair
  <2>2. /\ Low(n)[z] = seen[r][s] \cup (IF Home[r] = n THEN {}
                                        ELSE Nums(Waiting(r), s, r))
        /\ Later(n, Upcoming)[z]
             = {Upcoming[s]} \cup (IF Home[r] = n THEN Nums(Coming(s, r), s, r)
                                   ELSE {})
        /\ Upcoming[s] = sent[s] + 1
    BY <2>1 DEF Low, Later, Upcoming
  <2> HIDE DEF s, r
  <2>3. /\ \A k \in seen[r][s] : k <= sent[s]
        /\ seen[r][s] \subseteq Nat /\ sent[s] \in Nat
        /\ Within(Waiting(r), s, r, seen[r][s],
                  Nums(Coming(s, r), s, r) \cup {sent[s] + 1})
        /\ Within(Coming(s, r), s, r, seen[r][s], {sent[s] + 1})
        /\ Waiting(r) \in Seq(Post) /\ Coming(s, r) \in Seq(Post)
    BY <1>1, <2>1, RowsTyped DEF InStride, Histories
  <2>4. \A k \in Nums(Waiting(r), s, r) : k < sent[s] + 1
    BY <2>3 DEF Within, Nums
  <2>5. \A k \in Low(n)[z] : k < Upcoming[s]
    BY <2>2, <2>3, <2>4
  <2>6. Within(Row(n, Ctx(n), r), s, r, Low(n)[z], Later(n, Upcoming)[z])
    <3>1. CASE Home[r] = n
      <4>1. Row(n, Ctx(n), r) = Waiting(r)
        BY <1>1, <2>1, <3>1 DEF Row, SameRows
      <4>2. /\ Low(n)[z] = seen[r][s]
            /\ Later(n, Upcoming)[z] = Nums(Coming(s, r), s, r) \cup {sent[s] + 1}
        BY <2>2, <3>1
      <4> QED BY <2>3, <4>1, <4>2
    <3>2. CASE Home[r] # n
      <4>1. Row(n, Ctx(n), r) = Coming(s, r)
        BY <1>1, <2>1, <3>2 DEF Row, SameRows
      <4>2. /\ Low(n)[z] = seen[r][s] \cup Nums(Waiting(r), s, r)
            /\ Later(n, Upcoming)[z] = {sent[s] + 1}
        BY <2>2, <3>2
      <4>3. \A i \in Sent(Coming(s, r), s, r) :
              \A k \in Nums(Waiting(r), s, r) : k < Coming(s, r)[i].num
        BY <2>3 DEF Within, Nums
      <4> QED BY <2>3, <4>1, <4>2, <4>3 DEF Within
    <3> QED BY <3>1, <3>2
  <2> QED BY <2>5, <2>6 DEF s, r
<1> QED BY <1>1, <1>2, <1>3 DEF Ordered

LEMMA WithinLess ==
  ASSUME NEW p, NEW s, NEW r, NEW L, NEW U, NEW K, NEW V, Within(p, s, r, L, U),
         K \subseteq L, V \subseteq U
  PROVE  Within(p, s, r, K, V)
  BY DEF Within

\* What a handler of n that ends in an ordered context leaves behind.
LEMMA EndsOrdered ==
  ASSUME IInv, NEW n \in Node, NEW V, NEW c \in Ordered(n, Pass(n), Low(n), V),
         KeepsOthers(n, c), Stepped(n, c), seen' = seen, Histories',
         \A s \in Sender : /\ sent[s] <= sent'[s]
                           /\ getID(s) # n => sent'[s] = sent[s],
         \A z \in Pass(n) :
           /\ sent'[z[1]] + 1 \in V[z]
           /\ Home[z[2]] = n => Nums(Coming(z[1], z[2])', z[1], z[2]) \subseteq V[z],
         \A s \in Sender, r \in Task :
           Home[r] = n => Within(Coming(s, r)', s, r, seen[r][s], {sent'[s] + 1})
  PROVE  IInv'
<1>1. /\ AllGood /\ Shapes /\ Histories /\ InStride /\ c \in Good(n)
  BY DEF IInv, AllGood, Ordered
<1>2. AllGood' /\ Shapes'
  BY <1>1, SteppedGood
<1>3. /\ \A r \in Task :
           Waiting(r)' = IF Home[r] = n THEN Inbox(c, r) ELSE Waiting(r)
      /\ \A s \in Sender, r \in Task :
           Home[r] # n =>
             Coming(s, r)' = IF getID(s) = n THEN Outbox(c, Home[r])
                             ELSE Coming(s, r)
  BY <1>1, SteppedRows
<1>4. ASSUME NEW s \in Sender, NEW r \in Task
      PROVE  /\ \A k \in seen'[r][s] : k <= sent'[s]
             /\ Within(Waiting(r)', s, r, seen'[r][s],
                       Nums(Coming(s, r)', s, r) \cup {sent'[s] + 1})
             /\ Within(Coming(s, r)', s, r, seen'[r][s], {sent'[s] + 1})
  <2> DEFINE z == <<s, r>>
             W == Waiting(r)
             C == Coming(s, r)
             X == Coming(s, r)'
  <2>1. /\ \A k \in seen[r][s] : k <= sent[s]
        /\ seen[r][s] \subseteq Nat /\ sent[s] \in Nat /\ sent'[s] \in Nat
        /\ sent[s] <= sent'[s]
        /\ Within(W, s, r, seen[r][s], Nums(C, s, r) \cup {sent[s] + 1})
        /\ Within(C, s, r, seen[r][s], {sent[s] + 1})
        /\ W \in Seq(Post) /\ C \in Seq(Post)
    BY <1>1, RowsTyped DEF InStride, Histories
  <2>2. \A k \in seen[r][s] : k <= sent'[s]
    BY <2>1
  <2>3. z \in Pair /\ z[1] = s /\ z[2] = r
    BY DEF Pair
  <2>4. CASE Home[r] = n
    <3>1. z \in Pass(n) /\ Low(n)[z] = seen[r][s]
      BY <2>3, <2>4 DEF Pass, Low
    <3>2. Waiting(r)' = Row(n, c, r)
      BY <1>3, <2>4 DEF Row
    <3>3. Within(Row(n, c, r), s, r, Low(n)[z], V[z])
      BY <2>3, <3>1 DEF Ordered
    <3>4. Nums(X, s, r) \cup {sent'[s] + 1} \subseteq V[z]
      BY <2>3, <2>4, <3>1
    <3>5. Within(Waiting(r)', s, r, seen[r][s], Nums(X, s, r) \cup {sent'[s] + 1})
      <4> HIDE DEF z, X
      <4> QED BY <3>1, <3>2, <3>3, <3>4, WithinLess
    <3> QED BY <2>2, <2>4, <3>5
  <2>5. CASE Home[r] # n /\ getID(s) = n
    <3>1. z \in Pass(n) /\ Low(n)[z] = seen[r][s] \cup Nums(W, s, r)
      BY <2>3, <2>5 DEF Pass, Low
    <3>2. X = Row(n, c, r) /\ Waiting(r)' = W
      BY <1>3, <2>5 DEF Row
    <3>3. Within(Row(n, c, r), s, r, Low(n)[z], V[z])
      BY <2>3, <3>1 DEF Ordered
    <3>4. {sent'[s] + 1} \subseteq V[z]
      BY <2>3, <3>1
    <3> HIDE DEF z, X, W, C
    <3>5. Within(X, s, r, seen[r][s] \cup Nums(W, s, r), {sent'[s] + 1})
      BY <3>1, <3>2, <3>3, <3>4, WithinLess
    <3>6. \A i \in Sent(W, s, r) : \A k \in Nums(X, s, r) : W[i].num < k
      BY <3>5 DEF Within, Nums
    <3>7. \A i \in Sent(W, s, r) : W[i].num \in Nat /\ W[i].num < sent[s] + 1
      <4>1. \A i \in Sent(W, s, r) : W[i].num \in Nat
        BY <2>1, SentFields, ElementOfSeq, PostFields
      <4> QED BY <2>1, <4>1 DEF Within
    <3>8. \A i \in Sent(W, s, r) : W[i].num < sent'[s] + 1
      BY <2>1, <3>7
    <3>9. Within(W, s, r, seen[r][s], Nums(X, s, r) \cup {sent'[s] + 1})
      BY <2>1, <3>6, <3>8 DEF Within
    <3>10. Within(X, s, r, seen[r][s], {sent'[s] + 1})
      BY <3>5 DEF Within
    <3> QED BY <2>2, <3>2, <3>9, <3>10 DEF X, W
  <2>6. CASE Home[r] # n /\ getID(s) # n
    <3>1. Waiting(r)' = W /\ X = C /\ sent'[s] = sent[s]
      BY <1>3, <2>6
    <3> QED BY <2>1, <3>1
  <2> QED BY <2>4, <2>5, <2>6
<1>5. InStride'
  BY <1>4 DEF InStride
<1>6. \A p \in Node : Ctx(p)' \in Good(p)
  BY <1>2 DEF AllGood
<1> QED BY <1>2, <1>5, <1>6 DEF IInv

LEMMA FinishSteps ==
  ASSUME NEW n \in Node, NEW c \in Good(n), AllGood, Shapes, Finish(c),
         KeepsOthers(n, c)
  PROVE  /\ Stepped(n, c)
         /\ \A s \in Sender, r \in Task :
              getID(s) # n \/ Home[r] = n => Coming(s, r)' = Coming(s, r)
<1>1. c.n = n /\ c \in Context(n)
  BY ContextFields DEF Good
<1>2. /\ client' = [client EXCEPT ![n] = c.client] /\ sock' = [sock EXCEPT ![n] = c.sock]
      /\ buf' = [buf EXCEPT ![n] = c.buf] /\ link' = [link EXCEPT ![n] = c.link]
      /\ up' = [up EXCEPT ![n] = c.up] /\ task' = c.task
  BY <1>1 DEF Finish
<1>3. /\ link' = [p \in Node |-> link'[p]] /\ link'[n] = c.link
      /\ up' = [p \in Node |-> up'[p]] /\ up'[n] = c.up
      /\ \A p \in Node : p # n => /\ link'[p] = link[p] /\ buf'[p] = buf[p]
                                  /\ up'[p] = up[p]
  BY <1>2 DEF Shapes
<1>4. \A p \in Node : up'[p] \in [Node -> BOOLEAN]
  <2>1. \A p \in Node : Ctx(p).up = up[p] /\ Ctx(p) \in Context(p)
    BY DEF Ctx, AllGood, Good
  <2>2. \A p \in Node : up[p] \in [Node -> BOOLEAN]
    BY <2>1, ContextFields
  <2> QED BY <1>1, <1>3, <2>2, ContextFields
<1>5. ASSUME NEW p \in Node, p # n
      PROVE  /\ link'[p] \in [Peers(p) -> LinkEntry]
             /\ \A q \in Peers(p) : link[p][q].got <= Len(link[p][q].pend)
  <2>1. Ctx(p).link = link[p] /\ Ctx(p) \in Context(p) /\ Ctx(p) \in Good(p)
    BY DEF Ctx, AllGood, Good
  <2>2. link[p] \in [Peers(p) -> LinkEntry]
    BY <2>1, ContextFields
  <2>3. \A q \in Peers(p) : Carried(Ctx(p), q)
    BY <2>1 DEF Good
  <2> QED BY <1>3, <1>5, <2>1, <2>2, <2>3 DEF Carried
<1>6. Stepped(n, c)
  BY <1>2, <1>3, <1>4, <1>5 DEF Stepped
<1>7. ASSUME NEW s \in Sender, NEW r \in Task, getID(s) # n \/ Home[r] = n
      PROVE  Coming(s, r)' = Coming(s, r)
  <2>1. CASE getID(s) = Home[r]
    BY <2>1 DEF Coming
  <2>2. CASE getID(s) # Home[r]
    <3> DEFINE p == getID(s)
               q == Home[r]
    <3>1. p \in Node /\ p # n
      BY <1>7, <2>2, Place
    <3>2. Coming(s, r) = Underway(p, q) /\ Coming(s, r)' = Underway(p, q)'
      BY <2>2 DEF Coming
    <3> HIDE DEF p, q
    <3>3. link'[p] = link[p] /\ buf'[p] = buf[p]
      BY <1>3, <3>1
    <3>4. Underway(p, q)' = Underway(p, q)
      BY <3>3 DEF Underway
    <3> QED BY <3>2, <3>4
  <2> QED BY <2>1, <2>2
<1> QED BY <1>6, <1>7

\* A handler of n in which the messages numbered next[s] - 1 have been taken over.
LEMMA FinishKeeps ==
  ASSUME IInv, NEW n \in Node, NEW next \in [Sender -> Nat],
         NEW c \in Ordered(n, Pass(n), Low(n), Later(n, next)),
         KeepsOthers(n, c), Finish(c), seen' = seen, Histories',
         \A s \in Sender : /\ sent[s] <= sent'[s] /\ sent'[s] + 1 = next[s]
                           /\ getID(s) # n => sent'[s] = sent[s]
  PROVE  IInv'
<1>1. /\ AllGood /\ Shapes /\ Histories /\ InStride /\ c \in Good(n)
  BY DEF IInv, AllGood, Ordered
<1>2. /\ Stepped(n, c)
      /\ \A s \in Sender, r \in Task :
           getID(s) # n \/ Home[r] = n => Coming(s, r)' = Coming(s, r)
  BY <1>1, FinishSteps
<1>3. ASSUME NEW z \in Pass(n)
      PROVE  /\ sent'[z[1]] + 1 \in Later(n, next)[z]
             /\ Home[z[2]] = n => Nums(Coming(z[1], z[2])', z[1], z[2])
                                    \subseteq Later(n, next)[z]
  <2>1. z[1] \in Sender /\ z[2] \in Task
    BY DEF Pass, Pair
  <2>2. Later(n, next)[z]
          = {next[z[1]]} \cup (IF Home[z[2]] = n
                               THEN Nums(Coming(z[1], z[2]), z[1], z[2]) ELSE {})
    BY DEF Later
  <2>3. sent'[z[1]] + 1 = next[z[1]]
    BY <2>1
  <2>4. Home[z[2]] = n => Coming(z[1], z[2])' = Coming(z[1], z[2])
    BY <1>2, <2>1
  <2> QED BY <2>2, <2>3, <2>4
<1>4. ASSUME NEW s \in Sender, NEW r \in Task, Home[r] = n
      PROVE  Within(Coming(s, r)', s, r, seen[r][s], {sent'[s] + 1})
  <2>1. Coming(s, r)' = Coming(s, r)
    BY <1>2, <1>4
  <2>2. CASE getID(s) = n
    BY <1>4, <2>1, <2>2, WithinEmpty DEF Coming
  <2>3. CASE getID(s) # n
    BY <1>1, <2>1, <2>3 DEF InStride
  <2> QED BY <2>2, <2>3
<1>5. \A s \in Sender : /\ sent[s] <= sent'[s]
                        /\ getID(s) # n => sent'[s] = sent[s]
  OBVIOUS
<1> QED BY <1>2, <1>3, <1>4, <1>5, EndsOrdered

\* A handler of n that takes over no message.
LEMMA PlainKeeps ==
  ASSUME IInv, NEW n \in Node,
         NEW c \in Ordered(n, Pass(n), Low(n), Later(n, Upcoming)),
         KeepsOthers(n, c), Finish(c), sent' = sent, seen' = seen, told' = told,
         lost' \in Nat
  PROVE  IInv'
<1>1. Histories
  BY DEF IInv
<1>2. Histories' /\ \A s \in Sender : sent[s] \in Nat
  BY <1>1 DEF Histories
<1>3. \A s \in Sender : /\ sent[s] <= sent'[s] /\ sent'[s] + 1 = Upcoming[s]
                        /\ getID(s) # n => sent'[s] = sent[s]
  BY <1>2 DEF Upcoming
<1>4. Upcoming \in [Sender -> Nat]
  BY BeginsOrdered
<1> QED BY <1>2, <1>3, <1>4, FinishKeeps

-----------------------------------------------------------------------------
(***************************************************************************)
(* Handlers                                                                *)
(***************************************************************************)

LEMMA PinnedCarries ==
  ASSUME NEW n \in Node, NEW S, NEW T, NEW x, Carries(n, S, T, x), NEW h \in S
  PROVE  Carries(n, Pinned(S, h), Pinned(T, h), x) /\ h \in Pinned(S, h)
<1>1. Steady(n, S) /\ Steady(n, T) /\ S \subseteq T /\ h \in T
  BY DEF Carries
<1>2. Steady(n, Pinned(S, h)) /\ Steady(n, Pinned(T, h)) /\ h \in Pinned(S, h)
  BY <1>1, PinnedSteady
<1>3. \A d \in Pinned(S, h), g \in Good(n) : Posts(n, d, g, x) => g \in Pinned(T, h)
  BY DEF Pinned, Posts, Carries
<1> QED BY <1>1, <1>2, <1>3 DEF Carries, Pinned

\* The contexts a handler of n may end in when next has the numbers to come.
Kept(n, next) ==
  Pinned(Ordered(n, Pass(n), Low(n), Later(n, next)), Ctx(n))

LEMMA KeptBegins ==
  ASSUME IInv, NEW n \in Node
  PROVE  /\ Ctx(n) \in Kept(n, Upcoming) /\ Steady(n, Kept(n, Upcoming))
         /\ Upcoming \in [Sender -> Nat]
<1>1. AllGood
  BY DEF IInv, AllGood
<1>2. /\ Ctx(n) \in Ordered(n, Pass(n), Low(n), Later(n, Upcoming))
      /\ Upcoming \in [Sender -> Nat]
  BY BeginsOrdered
<1>3. Later(n, Upcoming) \in [Pass(n) -> SUBSET Nat] /\ Pass(n) \in SUBSET Pair
  BY <1>1, <1>2, LaterTyped
<1>4. Steady(n, Ordered(n, Pass(n), Low(n), Later(n, Upcoming)))
  BY <1>3, OrderedSteady
<1> QED BY <1>2, <1>4, PinnedSteady DEF Kept

LEMMA KeptEnds ==
  ASSUME NEW n \in Node, NEW next, NEW c \in Kept(n, next)
  PROVE  /\ c \in Ordered(n, Pass(n), Low(n), Later(n, next))
         /\ KeepsOthers(n, c) /\ c \in Good(n)
  BY DEF Kept, Pinned, KeepsOthers, Ctx, Ordered

\* sendMsg() of the next message of one of n's own senders.
LEMMA SendKept ==
  ASSUME IInv, NEW n \in Node, NEW x \in Post, x.type = "MSG", x.from \in Sender,
         getID(x.from) = n, x.num = sent[x.from] + 1
  PROVE  LET next == [Upcoming EXCEPT ![x.from] = @ + 1]
         IN  next \in [Sender -> Nat] /\ sendMsg(Ctx(n), x) \in Kept(n, next)
<1> DEFINE next == [Upcoming EXCEPT ![x.from] = @ + 1]
           P == Pass(n)
           L == Low(n)
           U == Later(n, Upcoming)
           V == Later(n, next)
<1>1. /\ AllGood /\ Ctx(n) \in Ordered(n, P, L, U)
      /\ Upcoming \in [Sender -> Nat]
      /\ \A z \in P : \A k \in L[z] : k < Upcoming[z[1]]
  BY BeginsOrdered DEF IInv, AllGood
<1>2. /\ next \in [Sender -> Nat] /\ Upcoming[x.from] = x.num
      /\ next[x.from] = x.num + 1 /\ x.num \in Nat
      /\ \A s \in Sender : Upcoming[s] <= next[s]
  BY <1>1, PostFields DEF Upcoming
<1> HIDE DEF next
<1>3. U \in [P -> SUBSET Nat] /\ V \in [P -> SUBSET Nat] /\ P \in SUBSET Pair
  BY <1>1, <1>2, LaterTyped
<1>4. ASSUME NEW z \in P
      PROVE  /\ z[1] \in Sender /\ z[2] \in Task
             /\ U[z] = {Upcoming[z[1]]}
                         \cup (IF Home[z[2]] = n
                               THEN Nums(Coming(z[1], z[2]), z[1], z[2]) ELSE {})
             /\ V[z] = {next[z[1]]}
                         \cup (IF Home[z[2]] = n
                               THEN Nums(Coming(z[1], z[2]), z[1], z[2]) ELSE {})
  BY DEF Later, Pass, Pair
<1>5. ASSUME NEW z \in P, NEW v \in V[z] PROVE \E u \in U[z] : u <= v
  <2>1. v \in Nat
    BY <1>3
  <2>2. CASE v = next[z[1]]
    BY <1>2, <1>4, <2>2
  <2>3. CASE v # next[z[1]]
    BY <1>4, <2>1, <2>3
  <2> QED BY <2>2, <2>3
<1>6. ASSUME NEW z \in P, z = <<x.from, x.to>>
      PROVE  /\ x.num \in U[z] /\ \A k \in L[z] : k < x.num
             /\ \A k \in V[z] : x.num < k
  <2>1. z[1] = x.from /\ z[2] = x.to
    BY <1>6
  <2>2. Home[z[2]] = n => Nums(Coming(z[1], z[2]), z[1], z[2]) = {}
    BY <2>1, WithinEmpty DEF Coming
  <2>3. V[z] = {x.num + 1}
    BY <1>2, <1>4, <2>1, <2>2
  <2> QED BY <1>1, <1>2, <1>4, <2>1, <2>3
<1> HIDE DEF P, L, U, V
<1>7. Carries(n, Ordered(n, P, L, U), Ordered(n, P, L, V), x)
  BY <1>3, <1>5, <1>6, OrderedCarries
<1> DEFINE S == Pinned(Ordered(n, P, L, U), Ctx(n))
           T == Pinned(Ordered(n, P, L, V), Ctx(n))
<1>8. Carries(n, S, T, x) /\ Ctx(n) \in S
  BY <1>1, <1>7, PinnedCarries DEF P, L, U
<1> HIDE DEF S, T
<1>9. sendMsg(Ctx(n), x) \in T
  BY <1>8, sendMsgCarried
<1> QED BY <1>2, <1>9 DEF T, P, L, V, Kept, next

LEMMA TakenKeeps ==
  ASSUME IInv, NEW n \in Node, NEW x \in Post, x.type = "MSG", x.from \in Sender,
         getID(x.from) = n, x.num = sent[x.from] + 1,
         Finish(sendMsg(Ctx(n), x)), sent' = [sent EXCEPT ![x.from] = @ + 1],
         UNCHANGED <<lost, seen, told>>
  PROVE  IInv'
<1> DEFINE next == [Upcoming EXCEPT ![x.from] = @ + 1]
           c == sendMsg(Ctx(n), x)
<1>1. next \in [Sender -> Nat] /\ c \in Kept(n, next)
  BY SendKept
<1>2. Histories /\ sent \in [Sender -> Nat]
  BY DEF IInv, Histories
<1>3. Histories'
  BY <1>2 DEF Histories
<1>4. \A s \in Sender : /\ sent[s] <= sent'[s] /\ sent'[s] + 1 = next[s]
                        /\ getID(s) # n => sent'[s] = sent[s]
  BY <1>2 DEF Upcoming
<1> HIDE DEF next, c
<1>5. /\ c \in Ordered(n, Pass(n), Low(n), Later(n, next))
      /\ KeepsOthers(n, c)
  BY <1>1, KeptEnds
<1>6. Finish(c) /\ seen' = seen
  BY DEF c
<1> QED BY <1>1, <1>3, <1>4, <1>5, <1>6, FinishKeeps

LEMMA SubmitKeeps ==
  ASSUME IInv, NEW t \in Task, Submit(t)
  PROVE  IInv'
<1>1. PICK r \in Dest[t] :
        Finish(sendMsg(Ctx(Home[t]), Msg("MSG", t, r, FALSE, sent[t] + 1)))
  BY DEF Submit
<1> DEFINE x == Msg("MSG", t, r, FALSE, sent[t] + 1)
<1>2. t \in Sender /\ r \in Sender /\ getID(t) = Home[t] /\ Home[t] \in Node
  BY Place, Constants, PlaceAssumption
<1>3. sent[t] + 1 \in Nat
  BY <1>2 DEF IInv, Histories
<1>4. /\ x \in Post /\ x.type = "MSG" /\ x.from = t /\ x.num = sent[t] + 1
  <2> DEFINE k == sent[t] + 1
  <2>1. k \in Nat
    BY <1>3
  <2> HIDE DEF k
  <2>2. x = Msg("MSG", t, r, FALSE, k)
    BY DEF k
  <2> HIDE DEF x
  <2>3. /\ x \in Post /\ x.type = "MSG" /\ x.from = t /\ x.num = k
    BY <1>2, <2>1, <2>2 DEF Msg, Post, Message
  <2> QED BY <2>3 DEF k
<1>5. Finish(sendMsg(Ctx(Home[t]), x))
  BY <1>1
<1>6. sent' = [sent EXCEPT ![t] = @ + 1] /\ UNCHANGED <<lost, seen, told>>
  BY DEF Submit
<1> HIDE DEF x
<1> QED BY <1>2, <1>4, <1>5, <1>6, TakenKeeps

LEMMA AnswerKeeps ==
  ASSUME IInv, NEW n \in Node, Answer(n)
  PROVE  IInv'
<1>1. PICK r \in Dest[n] :
        Finish(sendMsg(Ctx(n), Msg("MSG", n, r, FALSE, sent[n] + 1)))
  BY DEF Answer
<1> DEFINE x == Msg("MSG", n, r, FALSE, sent[n] + 1)
<1>2. n \in Sender /\ r \in Sender /\ getID(n) = n
  BY Place, PlaceAssumption
<1>3. sent[n] + 1 \in Nat
  BY <1>2 DEF IInv, Histories
<1>4. /\ x \in Post /\ x.type = "MSG" /\ x.from = n /\ x.num = sent[n] + 1
  <2> DEFINE k == sent[n] + 1
  <2>1. k \in Nat
    BY <1>3
  <2> HIDE DEF k
  <2>2. x = Msg("MSG", n, r, FALSE, k)
    BY DEF k
  <2> HIDE DEF x
  <2>3. /\ x \in Post /\ x.type = "MSG" /\ x.from = n /\ x.num = k
    BY <1>2, <2>1, <2>2 DEF Msg, Post, Message
  <2> QED BY <2>3 DEF k
<1>5. Finish(sendMsg(Ctx(n), x))
  BY <1>1
<1>6. sent' = [sent EXCEPT ![n] = @ + 1] /\ UNCHANGED <<lost, seen, told>>
  BY DEF Answer
<1> HIDE DEF x
<1> QED BY <1>2, <1>4, <1>5, <1>6, TakenKeeps

\* A handler of n that ends in one of the contexts of Kept.
LEMMA KeptKeeps ==
  ASSUME IInv, NEW n \in Node, NEW c \in Kept(n, Upcoming), Finish(c),
         sent' = sent, seen' = seen, told' = told, lost' \in Nat
  PROVE  IInv'
  BY KeptEnds, PlainKeeps

LEMMA FlushKeeps ==
  ASSUME IInv, NEW n \in Node, NEW f \in Fd, Flush(n, f)
  PROVE  IInv'
<1>1. flushClientMsgs(Ctx(n), f) \in Kept(n, Upcoming)
  BY KeptBegins, flushClientSteady
<1>2. lost \in Nat
  BY DEF IInv, Histories
<1> QED BY <1>1, <1>2, KeptKeeps DEF Flush

LEMMA AckedKeeps ==
  ASSUME IInv, NEW n \in Node, NEW m \in Peers(n), Acked(n, m)
  PROVE  IInv'
<1> DEFINE h == Ctx(n)
           l == link[n][m]
<1>1. PICK k \in 1..l.got :
        LET g == [h EXCEPT !.link[m] = [pend |-> SubSeq(l.pend, k + 1, Len(l.pend)),
                                        got |-> l.got - k]]
        IN  Finish(IF hasRoom(h, m) THEN g ELSE flushRDPMsgs(g, m))
  BY DEF Acked
<1> DEFINE e == [pend |-> SubSeq(l.pend, k + 1, Len(l.pend)), got |-> l.got - k]
           g == [h EXCEPT !.link[m] = e]
<1>2. /\ h \in Good(n) /\ h \in Context(n) /\ h.link[m] = l /\ h.n = n
      /\ h \in Kept(n, Upcoming) /\ Steady(n, Kept(n, Upcoming))
  <2>1. h \in Good(n)
    BY DEF IInv
  <2>2. h \in Context(n)
    BY <2>1 DEF Good
  <2>3. h.link[m] = l /\ h.n = n
    BY DEF Ctx
  <2> QED BY <2>1, <2>2, <2>3, KeptBegins
<1>3. Finish(IF hasRoom(h, m) THEN g ELSE flushRDPMsgs(g, m))
  BY <1>1
<1> HIDE DEF h
<1>4. /\ h.link \in [Peers(n) -> LinkEntry] /\ h.buf \in [Peers(n) -> Seq(Post)]
      /\ h.link[m].pend \in Seq(Mail(n, m)) /\ h.buf[m] \in Seq(Mail(n, m))
      /\ h.link[m].got <= Len(h.link[m].pend) /\ h.link[m].got \in Nat
      /\ Len(h.link[m].pend) <= Window[n] /\ Filled(h, m) /\ m \in Node
  <2>1. Carried(h, m) /\ Filled(h, m)
    BY <1>2 DEF Good
  <2>2. h.link \in [Peers(n) -> LinkEntry] /\ h.buf \in [Peers(n) -> Seq(Post)]
    BY <1>2, ContextFields
  <2>3. h.link[m].got \in Nat
    BY <2>2, EntryFields
  <2> QED BY <1>2, <2>1, <2>2, <2>3 DEF Carried, Peers
<1> DEFINE p == h.link[m].pend
           j == h.link[m].got
           b == h.buf[m]
<1>5. /\ p \in Seq(Post) /\ b \in Seq(Post) /\ Len(p) \in Nat /\ j \in 0..Len(p)
      /\ k \in 1..j /\ k \in 0..Len(p) /\ k \in 0..j /\ p = l.pend /\ j = l.got
  <2>1. p \in Seq(Post) /\ b \in Seq(Post) /\ p = l.pend /\ j = l.got
    BY <1>2, <1>4, EntryFields
  <2> HIDE DEF l, p, j, b
  <2>2. Len(p) \in Nat
    BY <2>1, LenProperties
  <2> QED BY <1>4, <2>1, <2>2 DEF p, j
<1>6. /\ e.pend \in Seq(Mail(n, m)) /\ Len(e.pend) = Len(p) - k
      /\ e.got = j - k /\ e.pend = SubSeq(p, k + 1, Len(p))
      /\ Joined(e.pend, e.got, b) = Joined(p, j, b) /\ e \in LinkEntry
  <2>1. e.pend = SubSeq(p, k + 1, Len(p)) /\ e.got = j - k
    BY <1>5
  <2>2. SubSeq(p, k + 1, Len(p)) \in Seq(Mail(n, m))
        /\ Len(SubSeq(p, k + 1, Len(p))) = Len(p) - k
    BY <1>4, <1>5, SuffixFields
  <2>3. Joined(SubSeq(p, k + 1, Len(p)), j - k, b) = Joined(p, j, b)
    BY <1>5, JoinedAcked
  <2>4. SubSeq(p, k + 1, Len(p)) \in Seq(Post)
    BY <1>5, SuffixFields
  <2>5. j - k \in Nat
    BY <1>5
  <2> HIDE DEF l, p, j, b
  <2> QED BY <2>1, <2>2, <2>3, <2>4, <2>5 DEF LinkEntry
<1> HIDE DEF l, e, p, j, b
<1>7. /\ g \in Context(n) /\ g.link[m] = e /\ g.buf = h.buf /\ g.n = n
      /\ \A q \in Peers(n) : q # m => g.link[q] = h.link[q]
      /\ g.client = h.client /\ g.sock = h.sock /\ g.task = h.task
  BY <1>2, <1>4, <1>6 DEF Context
<1> HIDE DEF g
<1>8. Carried(g, m)
  <2>1. Len(e.pend) <= Window[n] /\ e.got <= Len(e.pend)
    <3>1. Window[n] \in Nat /\ Len(p) <= Window[n]
      BY <1>4, Constants DEF p
    <3> QED BY <1>5, <1>6, <3>1
  <2>2. g.link[m].pend \in Seq(Mail(g.n, m)) /\ g.buf[m] \in Seq(Mail(g.n, m))
    BY <1>4, <1>6, <1>7
  <2> QED BY <1>7, <2>1, <2>2 DEF Carried
<1>9. /\ Outbox(g, m) = Outbox(h, m)
      /\ \A q \in Peers(n) : q # m => Outbox(g, q) = Outbox(h, q)
  BY <1>6, <1>7 DEF Outbox, p, j, b
<1>10. \A r \in Local(n) : Inbox(g, r) = Inbox(h, r)
  BY <1>7 DEF Inbox
<1>11. g \in Nearly(n, m)
  <2>1. \A q \in Peers(n) : Carried(g, q) /\ (q # m => Filled(g, q))
    BY <1>2, <1>7, <1>8 DEF Good, Carried, Filled
  <2>2. \A f \in Fd : Served(g, f)
    BY <1>2, <1>7 DEF Good, Served
  <2>3. \A t \in Task : Registered(g, t)
    BY <1>2, <1>7 DEF Good, Registered
  <2> QED BY <1>7, <2>1, <2>2, <2>3 DEF Nearly
<1>12. (IF hasRoom(h, m) THEN g ELSE flushRDPMsgs(g, m)) \in Kept(n, Upcoming)
  <2>1. Quiet(n, h, g)
    BY <1>7, <1>9, <1>10 DEF Quiet
  <2>2. CASE hasRoom(h, m)
    <3>1. h.buf[m] = << >>
      BY <1>2, <1>4, <2>2 DEF hasRoom, Filled
    <3>2. \A q \in Peers(n) : Carried(g, q) /\ Filled(g, q)
      BY <1>7, <1>11, <3>1 DEF Nearly, Filled
    <3>3. g \in Good(n)
      BY <1>11, <3>2 DEF Nearly, Good
    <3> QED BY <1>2, <2>1, <2>2, <3>3, SteadyKeeps
  <2>3. CASE ~hasRoom(h, m)
    <3>1. ASSUME NEW d \in Good(n), Quiet(n, g, d) PROVE d \in Kept(n, Upcoming)
      <4>1. Quiet(n, h, d)
        BY <1>7, <1>9, <1>10, <3>1 DEF Quiet
      <4> QED BY <1>2, <4>1, SteadyKeeps
    <3> QED BY <1>2, <1>11, <2>3, <3>1, FlushSteady
  <2> QED BY <2>2, <2>3
<1>13. lost \in Nat /\ sent' = sent /\ seen' = seen /\ told' = told /\ lost' = lost
  BY DEF Acked, IInv, Histories
<1>14. Finish(IF hasRoom(h, m) THEN g ELSE flushRDPMsgs(g, m))
  BY <1>3 DEF g
<1> DEFINE c == IF hasRoom(h, m) THEN g ELSE flushRDPMsgs(g, m)
<1>15. c \in Kept(n, Upcoming) /\ Finish(c)
  BY <1>12, <1>14
<1> HIDE DEF c
<1> QED BY <1>13, <1>15, KeptKeeps

\* What m has sent to n before and after n has taken the first message of it.
LEMMA ReceiveRows ==
  ASSUME AllGood, Shapes, NEW n \in Node, NEW m \in Peers(n), NEW c \in Good(n),
         KeepsOthers(n, c), link[m][n].got < Len(link[m][n].pend),
         task' = c.task, client' = [client EXCEPT ![n] = c.client],
         sock' = [sock EXCEPT ![n] = c.sock], buf' = [buf EXCEPT ![n] = c.buf],
         link' = [link EXCEPT ![n] = c.link, ![m][n].got = @ + 1], up' = up
  PROVE  LET l == link[m][n]
             q == Joined(l.pend, l.got + 1, buf[m][n])
         IN  /\ Stepped(n, c)
             /\ \A s \in Sender, r \in Task :
                  Home[r] = n => Coming(s, r)' = IF getID(s) = m THEN q
                                                 ELSE Coming(s, r)
<1> DEFINE l == link[m][n]
           q == Joined(l.pend, l.got + 1, buf[m][n])
<1>1. m \in Node /\ m # n /\ n \in Peers(m) /\ Ctx(m) \in Good(m)
  BY DEF Peers, AllGood
<1>2. \A p \in Node : /\ link[p] \in [Peers(p) -> LinkEntry]
                      /\ up[p] \in [Node -> BOOLEAN]
                      /\ \A k \in Peers(p) : link[p][k].got <= Len(link[p][k].pend)
  <2> SUFFICES ASSUME NEW p \in Node
               PROVE  /\ link[p] \in [Peers(p) -> LinkEntry]
                      /\ up[p] \in [Node -> BOOLEAN]
                      /\ \A k \in Peers(p) : link[p][k].got <= Len(link[p][k].pend)
    OBVIOUS
  <2>1. /\ Ctx(p) \in Good(p) /\ Ctx(p) \in Context(p) /\ Ctx(p).link = link[p]
        /\ Ctx(p).up = up[p]
    BY DEF AllGood, Ctx, Good
  <2>2. link[p] \in [Peers(p) -> LinkEntry] /\ up[p] \in [Node -> BOOLEAN]
    BY <2>1, ContextFields
  <2>3. \A k \in Peers(p) : Carried(Ctx(p), k)
    BY <2>1 DEF Good
  <2> QED BY <2>1, <2>2, <2>3 DEF Carried
<1>3. /\ l \in LinkEntry /\ l.pend \in Seq(Post) /\ l.got \in Nat
      /\ Len(l.pend) \in Nat /\ buf[m][n] \in Seq(Post)
  <2>1. l \in LinkEntry
    BY <1>1, <1>2
  <2>2. Ctx(m).buf = buf[m] /\ Ctx(m) \in Context(m)
    BY <1>1 DEF Ctx, Good
  <2>3. buf[m][n] \in Seq(Post)
    BY <1>1, <2>2, ContextFields
  <2>4. l.pend \in Seq(Post) /\ l.got \in Nat
    BY <2>1, EntryFields
  <2> HIDE DEF l
  <2> QED BY <2>1, <2>3, <2>4, LenProperties
<1> DEFINE k == [l EXCEPT !.got = @ + 1]
<1>4. /\ link' = [p \in Node |-> link'[p]] /\ link'[n] = c.link
      /\ link'[m] = [link[m] EXCEPT ![n] = k]
      /\ \A p \in Node : p # n /\ p # m => link'[p] = link[p]
  BY <1>1 DEF Shapes
<1>5. k.pend = l.pend /\ k.got = l.got + 1 /\ k \in LinkEntry
  BY <1>3 DEF LinkEntry
<1>6. /\ link'[m] \in [Peers(m) -> LinkEntry] /\ link'[m][n] = k
      /\ \A p \in Peers(m) : p # n => link'[m][p] = link[m][p]
  BY <1>1, <1>2, <1>4, <1>5
<1>7. link[m][n] = l /\ l.got + 1 <= Len(l.pend)
  BY <1>3
<1> HIDE DEF l, k
<1>8. ASSUME NEW p \in Node, p # n
      PROVE  /\ link'[p] \in [Peers(p) -> LinkEntry]
             /\ \A j \in Peers(p) :
                  /\ link'[p][j].pend = link[p][j].pend
                  /\ link'[p][j].got <= Len(link[p][j].pend)
                  /\ j # n => link'[p][j] = link[p][j]
  <2>1. CASE p = m
    <3>1. /\ link'[m][n].pend = link[m][n].pend
          /\ link'[m][n].got <= Len(link[m][n].pend)
      BY <1>5, <1>6, <1>7
    <3> QED BY <1>2, <1>6, <2>1, <3>1
  <2>2. CASE p # m
    BY <1>2, <1>4, <1>8, <2>2
  <2> QED BY <2>1, <2>2
<1>9. up' = [p \in Node |-> up'[p]] /\ \A p \in Node : up'[p] \in [Node -> BOOLEAN]
  BY <1>2 DEF Shapes
<1>10. Stepped(n, c)
  BY <1>4, <1>8, <1>9 DEF Stepped
<1>11. Underway(m, n)' = q
  <2>1. buf'[m] = buf[m]
    BY <1>1 DEF Shapes
  <2>2. Underway(m, n)'
          = SubSeq(k.pend, k.got + 1, Len(k.pend)) \o buf[m][n]
    BY <1>6, <2>1 DEF Underway
  <2> DEFINE j == l.got + 1
  <2>3. j \in 0..Len(l.pend)
    BY <1>3, <1>7
  <2>4. Underway(m, n)' = SubSeq(l.pend, j + 1, Len(l.pend)) \o buf[m][n]
    BY <1>5, <2>2
  <2>5. q = Joined(l.pend, j, buf[m][n])
    BY DEF l
  <2> HIDE DEF j
  <2> QED BY <1>3, <2>3, <2>4, <2>5, JoinedIs
<1> HIDE DEF q
<1>12. ASSUME NEW s \in Sender, NEW r \in Task, Home[r] = n
       PROVE  Coming(s, r)' = IF getID(s) = m THEN q ELSE Coming(s, r)
  <2>1. CASE getID(s) = m
    <3>1. Coming(s, r)' = Underway(m, n)'
      BY <1>1, <1>12, <2>1 DEF Coming
    <3> QED BY <1>11, <2>1, <3>1
  <2>2. CASE getID(s) = n
    BY <1>1, <1>12, <2>2 DEF Coming
  <2>3. CASE getID(s) # n /\ getID(s) # m
    <3> DEFINE p == getID(s)
    <3>1. p \in Node /\ p # n /\ p # m
      BY <2>3, Place
    <3>2. Coming(s, r) = Underway(p, n) /\ Coming(s, r)' = Underway(p, n)'
      BY <1>12, <2>3 DEF Coming
    <3> HIDE DEF p
    <3>3. link'[p] = link[p] /\ buf'[p] = buf[p]
      BY <1>4, <3>1 DEF Shapes
    <3>4. Underway(p, n)' = Underway(p, n)
      BY <3>3 DEF Underway
    <3> QED BY <2>3, <3>2, <3>4
  <2> QED BY <2>1, <2>2, <2>3
<1> QED BY <1>10, <1>12 DEF q, l

LEMMA ReceiveKeeps ==
  ASSUME IInv, NEW n \in Node, NEW m \in Peers(n), Receive(n, m)
  PROVE  IInv'
<1> DEFINE l == link[m][n]
           x == l.pend[l.got + 1]
           c == handleMsg(Ctx(n), x)
           p == Joined(l.pend, l.got, buf[m][n])
           q == Joined(l.pend, l.got + 1, buf[m][n])
           D(s, r) == IF getID(s) = m THEN q ELSE Coming(s, r)
           P == Pass(n)
           L == Low(n)
           U == Later(n, Upcoming)
           V == [z \in P |-> {sent[z[1]] + 1}
                                \cup (IF Home[z[2]] = n
                                      THEN Nums(D(z[1], z[2]), z[1], z[2]) ELSE {})]
<1>1. /\ AllGood /\ Shapes /\ Histories /\ InStride
      /\ Ctx(n) \in Ordered(n, P, L, U) /\ Upcoming \in [Sender -> Nat]
      /\ \A z \in P : \A k \in L[z] : k < Upcoming[z[1]]
  BY BeginsOrdered DEF IInv, AllGood
<1>2. m \in Node /\ m # n /\ n \in Peers(m) /\ Ctx(m) \in Good(m)
  BY <1>1 DEF Peers, AllGood
<1>3. /\ l.pend \in Seq(Mail(m, n)) /\ l.got \in Nat /\ l.pend \in Seq(Post)
      /\ buf[m][n] \in Seq(Post)
  <2>1. Ctx(m).link = link[m] /\ Ctx(m).buf = buf[m] /\ Ctx(m).n = m
    BY DEF Ctx
  <2>2. Carried(Ctx(m), n) /\ Ctx(m) \in Context(m)
    BY <1>2 DEF Good
  <2>3. link[m] \in [Peers(m) -> LinkEntry] /\ buf[m] \in [Peers(m) -> Seq(Post)]
    BY <1>2, <2>1, <2>2, ContextFields
  <2> QED BY <1>2, <2>1, <2>2, <2>3, EntryFields DEF Carried
<1>4. l.got < Len(l.pend)
  BY DEF Receive
<1> HIDE DEF l
<1>5. Len(l.pend) \in Nat /\ l.got \in 0..Len(l.pend) /\ l.got + 1 \in 1..Len(l.pend)
  <2>1. Len(l.pend) \in Nat
    BY <1>3, LenProperties
  <2> QED BY <1>3, <1>4, <2>1
<1>6. /\ x \in Post /\ getID(x.to) = n /\ (x.type = "MSG" => getID(x.from) = m)
  BY <1>3, <1>5, ElementOfSeq DEF Mail
<1>7. /\ p \in Seq(Post) /\ q \in Seq(Post) /\ Len(p) = Len(q) + 1 /\ p[1] = x
      /\ \A i \in 1..Len(q) : q[i] = p[i + 1]
  BY <1>3, <1>4, <1>5, JoinedNext, JoinedFields
<1>8. ASSUME NEW s \in Sender, NEW r \in Task, Home[r] = n
      PROVE  /\ getID(s) = m => Coming(s, r) = p
             /\ Coming(s, r) \in Seq(Post) /\ D(s, r) \in Seq(Post)
             /\ Within(Coming(s, r), s, r, seen[r][s], {sent[s] + 1})
  <2>1. Coming(s, r) \in Seq(Post)
    BY <1>1, RowsTyped
  <2>2. Within(Coming(s, r), s, r, seen[r][s], {sent[s] + 1})
    BY <1>1 DEF InStride
  <2>3. ASSUME getID(s) = m PROVE Coming(s, r) = p
    <3>1. Coming(s, r) = Underway(m, n)
      BY <1>2, <1>8, <2>3 DEF Coming
    <3>2. Underway(m, n) = SubSeq(l.pend, l.got + 1, Len(l.pend)) \o buf[m][n]
      BY DEF Underway, l
    <3>3. Underway(m, n) = p
      BY <1>3, <1>5, <3>2, JoinedIs
    <3> QED BY <3>1, <3>3
  <2> QED BY <1>7, <2>1, <2>2, <2>3
<1> HIDE DEF p, q
<1>9. ASSUME NEW s \in Sender, NEW r \in Task, Home[r] = n
      PROVE  /\ Within(D(s, r), s, r, seen[r][s], {sent[s] + 1})
             /\ Nums(D(s, r), s, r) \subseteq Nums(Coming(s, r), s, r)
             /\ Nums(D(s, r), s, r) \subseteq Nat
             /\ x.type = "MSG" /\ x.from = s /\ x.to = r =>
                  /\ x.num \in Nums(Coming(s, r), s, r)
                  /\ \A k \in Nums(D(s, r), s, r) : x.num < k
                  /\ \A k \in seen[r][s] : k < x.num
                  /\ x.num < sent[s] + 1
  <2>1. CASE getID(s) = m
    <3>1. Coming(s, r) = p /\ D(s, r) = q /\ Within(p, s, r, seen[r][s], {sent[s] + 1})
      BY <1>8, <1>9, <2>1
    <3> DEFINE A == seen[r][s]
               B == {sent[s] + 1}
    <3>2. Within(p, s, r, A, B)
      BY <3>1
    <3> HIDE DEF A, B, D
    <3>3. /\ Within(q, s, r, A, B)
          /\ Nums(q, s, r) \subseteq Nums(p, s, r)
          /\ 1 \in Sent(p, s, r) =>
               /\ \A k \in Nums(q, s, r) : p[1].num < k
               /\ p[1].num \in Nums(p, s, r)
      BY <1>7, <3>2, WithinRest
    <3>4. ASSUME x.type = "MSG", x.from = s, x.to = r
          PROVE  1 \in Sent(p, s, r)
      <4>1. 1 \in 1..Len(p)
        <5>1. Len(q) \in Nat
          BY <1>7, LenProperties
        <5> QED BY <1>7, <5>1
      <4> QED BY <1>7, <3>4, <4>1, SentFields
    <3>5. Nums(q, s, r) \subseteq Nat
      BY <1>7, NumsTyped
    <3>6. x.type = "MSG" /\ x.from = s /\ x.to = r =>
            (\A k \in A : k < x.num) /\ \A k \in B : x.num < k
      BY <1>7, <3>2, <3>4 DEF Within
    <3> QED BY <1>7, <3>1, <3>3, <3>4, <3>5, <3>6 DEF A, B
  <2>2. CASE getID(s) # m
    <3>1. D(s, r) = Coming(s, r)
      BY <2>2
    <3> HIDE DEF D
    <3>2. ~(x.type = "MSG" /\ x.from = s /\ x.to = r)
      BY <1>6, <2>2
    <3> QED BY <1>8, <1>9, <3>1, <3>2, NumsTyped
  <2> QED BY <2>1, <2>2
<1> HIDE DEF D
<1>10. U \in [P -> SUBSET Nat] /\ P \in SUBSET Pair
  BY <1>1, LaterTyped
<1>11. ASSUME NEW z \in P
       PROVE  /\ z[1] \in Sender /\ z[2] \in Task
              /\ sent[z[1]] + 1 = Upcoming[z[1]]
              /\ U[z] = {sent[z[1]] + 1}
                          \cup (IF Home[z[2]] = n
                                THEN Nums(Coming(z[1], z[2]), z[1], z[2]) ELSE {})
              /\ V[z] = {sent[z[1]] + 1}
                          \cup (IF Home[z[2]] = n
                                THEN Nums(D(z[1], z[2]), z[1], z[2]) ELSE {})
              /\ Home[z[2]] = n => L[z] = seen[z[2]][z[1]]
  BY DEF Later, Pass, Pair, Upcoming, Low
<1>12. ASSUME NEW z \in P PROVE V[z] \subseteq U[z] /\ V[z] \in SUBSET Nat
  <2>1. Home[z[2]] = n =>
          /\ Nums(D(z[1], z[2]), z[1], z[2]) \subseteq Nums(Coming(z[1], z[2]), z[1], z[2])
    BY <1>9, <1>11
  <2>2. V[z] \subseteq U[z]
    BY <1>11, <2>1
  <2> QED BY <1>10, <2>2
<1>13. V \in [P -> SUBSET Nat]
  BY <1>12
<1>14. ASSUME NEW z \in P, NEW v \in V[z] PROVE \E u \in U[z] : u <= v
  BY <1>12
<1>15. ASSUME NEW z \in P, x.type = "MSG", z = <<x.from, x.to>>
       PROVE  /\ x.num \in U[z] /\ \A k \in L[z] : k < x.num
              /\ \A k \in V[z] : x.num < k
  <2> DEFINE s == z[1]
             r == z[2]
  <2>1. s \in Sender /\ r \in Task /\ x.from = s /\ x.to = r
    BY <1>11, <1>15
  <2>2. Home[r] = n
    BY <1>6, <2>1, Place
  <2>3. /\ x.num \in Nums(Coming(s, r), s, r)
        /\ \A k \in Nums(D(s, r), s, r) : x.num < k
        /\ \A k \in seen[r][s] : k < x.num
        /\ x.num < sent[s] + 1
    BY <1>9, <1>15, <2>1, <2>2
  <2> QED BY <1>11, <2>2, <2>3
<1>16. c = handleMsg(Ctx(n), x)
  OBVIOUS
<1> HIDE DEF P, L, U, V, x, c
<1>17. Carries(n, Ordered(n, P, L, U), Ordered(n, P, L, V), x)
  BY <1>6, <1>10, <1>13, <1>14, <1>15, OrderedCarries
<1> DEFINE S == Pinned(Ordered(n, P, L, U), Ctx(n))
           T == Pinned(Ordered(n, P, L, V), Ctx(n))
<1>18. Carries(n, S, T, x) /\ Ctx(n) \in S
  BY <1>1, <1>17, PinnedCarries
<1> HIDE DEF S, T
<1>19. c \in T
  BY <1>6, <1>16, <1>18, handleMsgCarried
<1>20. c \in Ordered(n, P, L, V) /\ KeepsOthers(n, c) /\ c \in Good(n)
  BY <1>19 DEF T, Pinned, KeepsOthers, Ctx, Ordered
<1>21. /\ task' = c.task /\ client' = [client EXCEPT ![n] = c.client]
       /\ sock' = [sock EXCEPT ![n] = c.sock] /\ buf' = [buf EXCEPT ![n] = c.buf]
       /\ link' = [link EXCEPT ![n] = c.link, ![m][n].got = @ + 1] /\ up' = up
       /\ sent' = sent /\ seen' = seen /\ told' = told /\ lost' = lost
  BY DEF Receive, c, x, l
<1>22. /\ Stepped(n, c)
       /\ \A s \in Sender, r \in Task : Home[r] = n => Coming(s, r)' = D(s, r)
  <2>1. link[m][n].got < Len(link[m][n].pend)
    BY <1>4 DEF l
  <2>2. /\ Stepped(n, c)
        /\ \A s \in Sender, r \in Task :
             Home[r] = n =>
               Coming(s, r)' = IF getID(s) = m
                               THEN Joined(link[m][n].pend, link[m][n].got + 1,
                                           buf[m][n])
                               ELSE Coming(s, r)
    BY <1>1, <1>20, <1>21, <2>1, ReceiveRows
  <2> QED BY <2>2 DEF D, q, l
<1>23. Histories' /\ \A s \in Sender : sent[s] \in Nat
  BY <1>1, <1>21 DEF Histories
<1>24. \A s \in Sender : sent[s] <= sent'[s] /\ (getID(s) # n => sent'[s] = sent[s])
  BY <1>21, <1>23
<1>25. \A z \in P :
         /\ sent'[z[1]] + 1 \in V[z]
         /\ Home[z[2]] = n => Nums(Coming(z[1], z[2])', z[1], z[2]) \subseteq V[z]
  <2> SUFFICES ASSUME NEW z \in P
               PROVE  /\ sent'[z[1]] + 1 \in V[z]
                      /\ Home[z[2]] = n =>
                           Nums(Coming(z[1], z[2])', z[1], z[2]) \subseteq V[z]
    OBVIOUS
  <2>1. Home[z[2]] = n => Coming(z[1], z[2])' = D(z[1], z[2])
    BY <1>11, <1>22
  <2> QED BY <1>11, <1>21, <2>1
<1>26. \A s \in Sender, r \in Task :
         Home[r] = n => Within(Coming(s, r)', s, r, seen[r][s], {sent'[s] + 1})
  BY <1>9, <1>21, <1>22
<1> QED BY <1>20, <1>21, <1>22, <1>23, <1>24, <1>25, <1>26, EndsOrdered DEF P, L

LEMMA ClientGoneKeeps ==
  ASSUME IInv, NEW t \in Task, ClientGone(t)
  PROVE  IInv'
<1> DEFINE n == Home[t]
           h == Ctx(n)
           f == task[t].fd
           d == closeConnection(h, f)
           S == Ordered(n, Pass(n), Low(n), Later(n, Upcoming))
<1>1. n \in Node /\ t \in Local(n)
  BY Constants DEF Local
<1>2. PICK forwarder \in BOOLEAN : Finish([d EXCEPT !.task[t].managed = forwarder])
  BY DEF ClientGone
<1>3. /\ h \in S /\ AllGood /\ Upcoming \in [Sender -> Nat] /\ h \in Good(n)
      /\ h \in Context(n) /\ h.task = task /\ h.sock = sock[n]
  <2>1. h \in S /\ AllGood /\ Upcoming \in [Sender -> Nat] /\ h \in Good(n)
    BY <1>1, BeginsOrdered DEF IInv, AllGood
  <2>2. h \in Context(n)
    BY <2>1 DEF Good
  <2> QED BY <2>1, <2>2 DEF Ctx
<1>4. f \in Fd /\ h.task[t].fd = f /\ h.sock[f].closed
  <2>1. f # NoFd /\ sock[n][f].closed
    BY DEF ClientGone, Connected, Ctx
  <2> HIDE DEF n, h
  <2>2. h.task[t] \in TaskEntry
    BY <1>1, <1>3, ContextFields
  <2>3. h.task[t].fd \in Fd \cup {NoFd}
    BY <2>2, EntryFields
  <2> QED BY <1>3, <2>1, <2>3
<1> HIDE DEF n, h, f, d
<1>5. Later(n, Upcoming) \in [Pass(n) -> SUBSET Nat] /\ Pass(n) \in SUBSET Pair
  BY <1>1, <1>3, LaterTyped
<1>6. Steady(n, S)
  BY <1>1, <1>5, OrderedSteady
<1>7. ASSUME NEW g \in Good(n), Leaves(n, h, g, t) PROVE g \in S
  <2> DEFINE L == Low(n)
             U == Later(n, Upcoming)
  <2> SUFFICES ASSUME NEW z \in Pass(n)
               PROVE  Within(Row(n, g, z[2]), z[1], z[2], L[z], U[z])
    BY DEF Ordered
  <2>1. Within(Row(n, h, z[2]), z[1], z[2], L[z], U[z])
    BY <1>3 DEF Ordered
  <2>2. z[2] \in Task
    BY DEF Pass, Pair
  <2>3. Row(n, g, z[2]) = Row(n, h, z[2]) \/ Row(n, g, z[2]) = << >>
    BY <1>7, <2>2, Constants DEF Leaves, Row, Local, Peers
  <2> HIDE DEF L, U
  <2> QED BY <2>1, <2>3, WithinEmpty
<1> HIDE DEF S
<1>8. /\ d \in S /\ d.task[t].fd = NoFd
      /\ \A u \in Task : u # t => d.task[u].fd = h.task[u].fd
  <2>1. /\ closeConnection(h, f) \in S /\ closeConnection(h, f).task[t].fd = NoFd
        /\ \A u \in Task :
             u # t => closeConnection(h, f).task[u].fd = h.task[u].fd
    BY <1>1, <1>3, <1>4, <1>6, <1>7, closeSteady
  <2> QED BY <2>1 DEF d
<1> DEFINE e == [d.task[t] EXCEPT !.managed = forwarder]
           c == [d EXCEPT !.task[t].managed = forwarder]
<1>9. d \in Context(n)
  BY <1>1, <1>6, <1>8, SteadyKeeps
<1>10. e \in TaskEntry /\ e.fd = d.task[t].fd
  <2>1. d.task[t] \in TaskEntry
    BY <1>1, <1>9, ContextFields
  <2> QED BY <1>8, <2>1 DEF TaskEntry
<1>11. c = [d EXCEPT !.task[t] = e]
  BY <1>9 DEF Context
<1>12. \A u \in Task : c.task[u].fd = d.task[u].fd
  <2>1. /\ c.task[t] = e /\ \A u \in Task : u # t => c.task[u] = d.task[u]
    <3> HIDE DEF e, c
    <3> QED BY <1>1, <1>9, <1>10, <1>11, TaskSet
  <2> HIDE DEF e, c
  <2> QED BY <1>10, <2>1
<1>13. c \in S
  <2> HIDE DEF e, c
  <2> QED BY <1>1, <1>6, <1>8, <1>10, <1>11, TaskSteady
<1>14. Finish(c)
  BY <1>2
<1> HIDE DEF c
<1>15. KeepsOthers(n, c)
  BY <1>3, <1>8, <1>12 DEF KeepsOthers, n
<1>16. sent' = sent /\ seen' = seen /\ told' = told /\ lost' \in Nat
  BY DEF ClientGone, IInv, Histories
<1> QED BY <1>1, <1>13, <1>14, <1>15, <1>16, PlainKeeps DEF S

\* A step that leaves all but task and up of n as it is.
LEMMA UnchangedFinish ==
  ASSUME Shapes, NEW n \in Node, NEW c, c.n = n, task' = c.task,
         up' = [up EXCEPT ![n] = c.up], UNCHANGED <<client, sock, buf, link>>,
         c.client = client[n], c.sock = sock[n], c.buf = buf[n], c.link = link[n]
  PROVE  Finish(c)
  BY DEF Shapes, Finish

LEMMA ChildDeadKeeps ==
  ASSUME IInv, NEW t \in Task, ChildDead(t)
  PROVE  IInv'
<1> DEFINE n == Home[t]
           h == Ctx(n)
           e == [h.task[t] EXCEPT !.managed = FALSE]
           c == [h EXCEPT !.task[t] = e]
<1>1. n \in Node
  BY Constants
<1>2. /\ h \in Kept(n, Upcoming) /\ Steady(n, Kept(n, Upcoming)) /\ Shapes
      /\ h \in Context(n)
  BY <1>1, KeptBegins DEF IInv, Good
<1>3. h.task = task /\ h.up = up[n] /\ h.client = client[n] /\ h.sock = sock[n]
      /\ h.buf = buf[n] /\ h.link = link[n] /\ h.n = n
  BY DEF Ctx
<1>4. e \in TaskEntry /\ e.fd = h.task[t].fd
  <2>1. h.task[t] \in TaskEntry /\ h.task[t].fd = NoFd
    BY <1>1, <1>2, <1>3, ContextFields DEF ChildDead
  <2> QED BY <2>1 DEF TaskEntry
<1>5. task' = [task EXCEPT ![t] = e]
  BY <1>3 DEF ChildDead
<1> HIDE DEF n, h, e
<1>6. c \in Kept(n, Upcoming)
  BY <1>1, <1>2, <1>4, TaskSteady
<1>7. /\ c.n = n /\ c.client = h.client /\ c.sock = h.sock /\ c.buf = h.buf
      /\ c.link = h.link /\ c.up = h.up /\ c.task = [h.task EXCEPT ![t] = e]
  BY <1>2, <1>3 DEF Context
<1> HIDE DEF c
<1>8. up' = [up EXCEPT ![n] = c.up] /\ UNCHANGED <<client, sock, buf, link>>
      /\ sent' = sent /\ seen' = seen /\ told' = told /\ lost' \in Nat
  BY <1>2, <1>3, <1>7 DEF ChildDead, Shapes, IInv, Histories
<1>9. Finish(c)
  BY <1>1, <1>2, <1>3, <1>5, <1>7, <1>8, UnchangedFinish
<1> QED BY <1>1, <1>6, <1>8, <1>9, KeptKeeps

LEMMA AliveKeeps ==
  ASSUME IInv, NEW n \in Node, NEW m \in Peers(n), Alive(n, m)
  PROVE  IInv'
<1> DEFINE h == Ctx(n)
           c == [h EXCEPT !.up = [up[n] EXCEPT ![m] = TRUE]]
<1>1. /\ h \in Kept(n, Upcoming) /\ Steady(n, Kept(n, Upcoming)) /\ Shapes
      /\ h \in Good(n) /\ h \in Context(n)
  BY KeptBegins DEF IInv, Good
<1>2. h.task = task /\ h.up = up[n] /\ h.client = client[n] /\ h.sock = sock[n]
      /\ h.buf = buf[n] /\ h.link = link[n] /\ h.n = n
  BY DEF Ctx
<1> HIDE DEF h
<1>3. [up[n] EXCEPT ![m] = TRUE] \in [Node -> BOOLEAN]
  <2>1. up[n] \in [Node -> BOOLEAN]
    BY <1>1, <1>2, ContextFields
  <2> QED BY <2>1
<1>4. /\ c.n = n /\ c.client = h.client /\ c.sock = h.sock /\ c.buf = h.buf
      /\ c.link = h.link /\ c.task = h.task /\ c.up = [up[n] EXCEPT ![m] = TRUE]
      /\ c \in Context(n)
  BY <1>1, <1>2, <1>3 DEF Context
<1> HIDE DEF c
<1>5. c \in Good(n) /\ Quiet(n, h, c)
  BY <1>1, <1>4, TaskTouched
<1>6. c \in Kept(n, Upcoming)
  BY <1>1, <1>5, SteadyKeeps
<1>7. up' = [up EXCEPT ![n] = c.up] /\ UNCHANGED <<client, sock, buf, link>>
      /\ task' = task /\ sent' = sent /\ seen' = seen /\ told' = told /\ lost' \in Nat
  <2>1. up' = [up EXCEPT ![n] = c.up]
    BY <1>1, <1>4 DEF Alive, Shapes
  <2> QED BY <2>1 DEF Alive, IInv, Histories
<1>8. Finish(c)
  BY <1>1, <1>2, <1>4, <1>7, UnchangedFinish
<1> QED BY <1>6, <1>7, <1>8, KeptKeeps

\* A good context in which the way to m is emptied, or part of it.
SetWay(h, m, e, u) ==
  [h EXCEPT !.buf = [h.buf EXCEPT ![m] = << >>],
            !.link = [h.link EXCEPT ![m] = e], !.up = u]

LEMMA Emptied ==
  ASSUME NEW n \in Node, NEW m \in Peers(n), NEW h \in Good(n), NEW e \in LinkEntry,
         e.pend \in Seq(Mail(n, m)), e.got <= Len(e.pend), Len(e.pend) <= Window[n],
         NEW u \in [Node -> BOOLEAN]
  PROVE  LET g == SetWay(h, m, e, u)
         IN  /\ g \in Good(n) /\ g.task = h.task
             /\ \A r \in Task : Home[r] # m => Row(n, g, r) = Row(n, h, r)
             /\ Len(e.pend) = 0 => \A r \in Task : Home[r] = m => Row(n, g, r) = << >>
<1> DEFINE g == SetWay(h, m, e, u)
<1>1. h \in Context(n) /\ m \in Node /\ m # n
  BY DEF Good, Peers
<1>2. /\ h.buf \in [Peers(n) -> Seq(Post)] /\ h.link \in [Peers(n) -> LinkEntry]
      /\ h.n = n /\ << >> \in Seq(Post) /\ << >> \in Seq(Mail(n, m))
  BY <1>1, ContextFields, EmptySeq
<1>3. /\ g \in Context(n) /\ g.n = n /\ g.client = h.client /\ g.sock = h.sock
      /\ g.task = h.task
  BY <1>1, <1>2 DEF Context, SetWay
<1>4. /\ g.buf[m] = << >> /\ g.link[m] = e
      /\ \A p \in Peers(n) : p # m => g.link[p] = h.link[p] /\ g.buf[p] = h.buf[p]
  BY <1>1, <1>2 DEF Context, SetWay
<1> HIDE DEF g
<1>5. Carried(g, m) /\ Filled(g, m)
  BY <1>2, <1>3, <1>4 DEF Carried, Filled
<1>6. h \in Nearly(n, m)
  BY DEF Good, Nearly
<1>7. /\ g \in Good(n)
      /\ \A r \in Local(n) : Inbox(g, r) = Inbox(h, r)
      /\ \A p \in Peers(n) : p # m => Outbox(g, p) = Outbox(h, p)
  BY <1>3, <1>4, <1>5, <1>6, LinkTouched
<1>8. ASSUME NEW r \in Task, Home[r] # m PROVE Row(n, g, r) = Row(n, h, r)
  BY <1>7, <1>8, Constants DEF Row, Local, Peers
<1>9. ASSUME Len(e.pend) = 0, NEW r \in Task, Home[r] = m PROVE Row(n, g, r) = << >>
  <2> DEFINE p == e.pend
             b == g.buf[m]
             k == e.got
  <2>1. p \in Seq(Post) /\ b \in Seq(Post) /\ k \in Nat /\ k <= Len(p) /\ Len(p) = 0
        /\ b = << >>
    BY <1>2, <1>4, <1>9, EntryFields
  <2>2. Row(n, g, r) = Joined(p, k, b)
    BY <1>1, <1>4, <1>9 DEF Row, Outbox
  <2> HIDE DEF p, b, k
  <2>3. k \in 0..Len(p) /\ Len(b) = 0 /\ k = 0
    BY <2>1, EmptySeq
  <2>4. Joined(p, k, b) \in Seq(Post) /\ Len(Joined(p, k, b)) = Len(p) - k + Len(b)
    BY <2>1, <2>3, JoinedFields
  <2>5. Len(Joined(p, k, b)) = 0
    BY <2>1, <2>3, <2>4
  <2> QED BY <2>2, <2>4, <2>5, EmptySeq
<1> QED BY <1>3, <1>7, <1>8, <1>9 DEF g

LEMMA SubSeqTyped ==
  ASSUME NEW p \in Seq(Post), NEW k \in Nat
  PROVE  SubSeq(p, k + 1, Len(p)) \in Seq(Post)
<1>1. Len(p) \in Nat /\ \A i \in 1..Len(p) : p[i] \in Post
  BY LenProperties, ElementOfSeq
<1>2. \A i \in (k + 1)..Len(p) : p[i] \in Post
  BY <1>1
<1>3. k + 1 \in Int /\ Len(p) \in Int
  BY <1>1
<1> QED BY <1>2, <1>3, SubSeqProperties

LEMMA LostKeeps ==
  ASSUME IInv, NEW n \in Node, NEW m \in Peers(n), Lost(n, m)
  PROVE  IInv'
<1> DEFINE h == Ctx(n)
           S == Kept(n, Upcoming)
           p == link[n][m].pend
           a == ForEach(GiveBack, h, p)
           w == SubSeq(a.link[m].pend, Len(p) + 1, Len(a.link[m].pend))
           b == ForEach(GiveBack, a, w)
           g == [b EXCEPT !.buf[m] = << >>, !.up[m] = FALSE]
           d == ForEach(GiveBack, g, b.buf[m])
           z == [pend |-> << >>, got |-> 0]
           c == [d EXCEPT !.buf[m] = << >>, !.link[m] = z]
           L == Low(n)
           U == Later(n, Upcoming)
           P == {x \in Pass(n) : Home[x[2]] # m}
           V == [x \in P |-> U[x]]
           T == Pinned(Ordered(n, P, L, V), g)
<1>1. /\ Finish(c) /\ sent' = sent /\ seen' = seen /\ told' = told
      /\ lost' = lost + 1
  BY DEF Lost
<1>2. /\ h \in S /\ Steady(n, S) /\ AllGood /\ Upcoming \in [Sender -> Nat]
      /\ h \in Context(n) /\ h.link = link[n]
  <2>1. h \in S /\ Steady(n, S) /\ AllGood /\ Upcoming \in [Sender -> Nat]
    BY KeptBegins DEF IInv, AllGood
  <2>2. h \in Context(n)
    BY <2>1 DEF AllGood, Good
  <2> QED BY <2>1, <2>2 DEF Ctx
<1> HIDE DEF h
<1>3. p \in Seq(Post) /\ m \in Node
  <2>1. link[n] \in [Peers(n) -> LinkEntry]
    BY <1>2, ContextFields
  <2> QED BY <2>1, EntryFields DEF Peers
<1>4. a \in S
  <2> HIDE DEF p, S
  <2> QED BY <1>2, <1>3, GiveBackEach
<1> HIDE DEF a
<1>5. w \in Seq(Post)
  <2> DEFINE q == a.link[m].pend
             k == Len(p)
  <2>1. q \in Seq(Post)
    <3>1. a \in Context(n)
      BY <1>2, <1>4, SteadyKeeps
    <3> QED BY <3>1, ContextFields, EntryFields
  <2>2. k \in Nat
    <3> HIDE DEF p
    <3> QED BY <1>3, LenProperties
  <2>3. w = SubSeq(q, k + 1, Len(q))
    OBVIOUS
  <2> HIDE DEF q, k, w
  <2> QED BY <2>1, <2>2, <2>3, SubSeqTyped
<1> HIDE DEF w
<1>6. b \in S
  <2> HIDE DEF S
  <2> QED BY <1>2, <1>4, <1>5, GiveBackEach
<1> HIDE DEF b
<1>7. /\ b \in Good(n) /\ b \in Context(n) /\ b \in Ordered(n, Pass(n), L, U)
      /\ \A t \in Task : b.task[t].fd = h.task[t].fd
  <2>1. b \in Good(n) /\ b \in Context(n)
    <3> HIDE DEF S
    <3> QED BY <1>2, <1>6, SteadyKeeps
  <2> QED BY <1>6, <2>1 DEF Kept, Pinned, h
<1> HIDE DEF S
<1>8. U \in [Pass(n) -> SUBSET Nat] /\ Pass(n) \in SUBSET Pair
  BY <1>2, LaterTyped
<1>9. P \in SUBSET Pair /\ V \in [P -> SUBSET Nat] /\ \A x \in P : x \in Pass(n) /\ V[x] = U[x]
  BY <1>8
<1>10. /\ g \in Good(n) /\ g.task = b.task
       /\ \A r \in Task : Home[r] # m => Row(n, g, r) = Row(n, b, r)
  <2> DEFINE e == b.link[m]
             u == [b.up EXCEPT ![m] = FALSE]
  <2>1. /\ b.link \in [Peers(n) -> LinkEntry] /\ b.buf \in [Peers(n) -> Seq(Post)]
        /\ b.up \in [Node -> BOOLEAN] /\ e \in LinkEntry /\ b.n = n
    BY <1>7, ContextFields
  <2>2. e.pend \in Seq(Mail(n, m)) /\ e.got <= Len(e.pend) /\ Len(e.pend) <= Window[n]
    BY <1>7, <2>1 DEF Good, Carried
  <2>3. u \in [Node -> BOOLEAN]
    BY <2>1
  <2>4. g = SetWay(b, m, e, u)
    <3>1. [b.link EXCEPT ![m] = e] = b.link
      BY <2>1
    <3> QED BY <1>7, <3>1 DEF Context, SetWay
  <2> HIDE DEF e, u, g
  <2> QED BY <1>7, <2>1, <2>2, <2>3, <2>4, Emptied
<1> HIDE DEF U, L
<1>11. g \in Ordered(n, P, L, V)
  <2> HIDE DEF V, g
  <2> SUFFICES ASSUME NEW x \in P
               PROVE  Within(Row(n, g, x[2]), x[1], x[2], L[x], V[x])
    BY <1>10 DEF Ordered
  <2>1. x \in Pass(n) /\ V[x] = U[x] /\ x[2] \in Task /\ Home[x[2]] # m
    BY <1>9 DEF Pair
  <2>2. Within(Row(n, b, x[2]), x[1], x[2], L[x], U[x])
    BY <1>7, <2>1 DEF Ordered
  <2> QED BY <1>10, <2>1, <2>2
<1> HIDE DEF P, V, g
<1>12. Steady(n, Ordered(n, P, L, V))
  BY <1>9, OrderedSteady
<1>13. Steady(n, T) /\ g \in T
  BY <1>11, <1>12, PinnedSteady
<1>14. b.buf[m] \in Seq(Post)
  BY <1>7, ContextFields
<1>15. d \in T
  <2> HIDE DEF T
  <2> QED BY <1>13, <1>14, GiveBackEach
<1> HIDE DEF d
<1>16. /\ d \in Ordered(n, P, L, V) /\ d \in Good(n)
       /\ \A t \in Task : d.task[t].fd = g.task[t].fd
  BY <1>15 DEF Pinned, Ordered
<1> HIDE DEF T
<1>17. /\ c \in Good(n) /\ c.task = d.task
       /\ \A r \in Task : Home[r] # m => Row(n, c, r) = Row(n, d, r)
       /\ \A r \in Task : Home[r] = m => Row(n, c, r) = << >>
  <2> DEFINE u == d.up
  <2>0. d \in Context(n)
    BY <1>16 DEF Good
  <2>1. u \in [Node -> BOOLEAN]
    BY <2>0, ContextFields
  <2>2. z.pend = << >> /\ z.got = 0 /\ z \in LinkEntry /\ z.pend \in Seq(Mail(n, m))
        /\ Len(z.pend) = 0
    BY EmptySeq DEF LinkEntry
  <2>3. z.got <= Len(z.pend) /\ Len(z.pend) <= Window[n]
    BY <2>2, Constants
  <2>4. c = SetWay(d, m, z, u)
    BY <2>0 DEF Context, SetWay
  <2> HIDE DEF z, u, c
  <2>5. /\ z \in LinkEntry /\ z.pend \in Seq(Mail(n, m)) /\ z.got <= Len(z.pend)
        /\ Len(z.pend) <= Window[n] /\ d \in Good(n) /\ u \in [Node -> BOOLEAN]
    BY <1>16, <2>1, <2>2, <2>3
  <2>6. /\ c \in Good(n) /\ c.task = d.task
        /\ \A r \in Task : Home[r] # m => Row(n, c, r) = Row(n, d, r)
        /\ Len(z.pend) = 0 => \A r \in Task : Home[r] = m => Row(n, c, r) = << >>
    BY <2>4, <2>5, Emptied
  <2> QED BY <2>2, <2>6
<1> HIDE DEF c
<1>18. c \in Ordered(n, Pass(n), L, U)
  <2> SUFFICES ASSUME NEW x \in Pass(n)
               PROVE  Within(Row(n, c, x[2]), x[1], x[2], L[x], U[x])
    BY <1>17 DEF Ordered
  <2>1. x[2] \in Task
    BY <1>8 DEF Pair
  <2>2. CASE Home[x[2]] = m
    BY <1>17, <2>1, <2>2, WithinEmpty
  <2>3. CASE Home[x[2]] # m
    <3>1. x \in P
      BY <2>3 DEF P
    <3>2. Within(Row(n, d, x[2]), x[1], x[2], L[x], V[x])
      BY <1>16, <3>1 DEF Ordered
    <3> QED BY <1>9, <1>17, <2>1, <2>3, <3>1, <3>2
  <2> QED BY <2>2, <2>3
<1>19. KeepsOthers(n, c)
  BY <1>7, <1>10, <1>16, <1>17 DEF KeepsOthers, h, Ctx
<1>20. lost \in Nat /\ lost' \in Nat
  BY <1>1 DEF IInv, Histories
<1> QED BY <1>1, <1>18, <1>19, <1>20, PlainKeeps DEF L, U

\* What has been taken from the front of a row is before the rest.
LEMMA WithinSplit ==
  ASSUME NEW d \in Seq(Post), NEW q \in Seq(Post), NEW s, NEW r, NEW L, NEW U,
         Within(d \o q, s, r, L, U)
  PROVE  /\ Within(q, s, r, L \cup Nums(d, s, r), U)
         /\ \A k \in Nums(d, s, r), u \in U : k < u
<1> DEFINE p == d \o q
<1>1. /\ Len(d) \in Nat /\ Len(q) \in Nat /\ p \in Seq(Post)
      /\ Len(p) = Len(d) + Len(q)
      /\ \A i \in 1..(Len(d) + Len(q)) :
           p[i] = IF i <= Len(d) THEN d[i] ELSE q[i - Len(d)]
  BY ConcatProperties, LenProperties
<1>2. Within(p, s, r, L, U)
  OBVIOUS
<1> HIDE DEF p
<1>3. ASSUME NEW i \in Sent(d, s, r)
      PROVE  i \in Sent(p, s, r) /\ p[i] = d[i] /\ i \in 1..Len(d)
  <2>1. i \in 1..Len(d) /\ d[i].type = "MSG" /\ d[i].from = s /\ d[i].to = r
    BY SentFields
  <2>2. i \in 1..Len(p) /\ p[i] = d[i]
    BY <1>1, <2>1
  <2> QED BY <1>1, <2>1, <2>2, SentFields
<1>4. ASSUME NEW i \in Sent(q, s, r)
      PROVE  /\ i + Len(d) \in Sent(p, s, r) /\ p[i + Len(d)] = q[i]
             /\ i \in 1..Len(q)
  <2>1. i \in 1..Len(q) /\ q[i].type = "MSG" /\ q[i].from = s /\ q[i].to = r
    BY SentFields
  <2>2. i + Len(d) \in 1..Len(p) /\ p[i + Len(d)] = q[i]
    <3> DEFINE j == i + Len(d)
    <3>1. i \in 1..Len(q) /\ Len(d) \in Nat /\ Len(q) \in Nat
      BY <1>1, <2>1
    <3>2. j \in 1..(Len(d) + Len(q)) /\ ~(j <= Len(d)) /\ j - Len(d) = i
      BY <3>1
    <3> HIDE DEF j
    <3>3. j \in 1..Len(p)
      BY <1>1, <3>2
    <3>4. p[j] = IF j <= Len(d) THEN d[j] ELSE q[j - Len(d)]
      BY <1>1, <3>2
    <3>5. p[j] = q[i]
      <4>1. ~(j <= Len(d))
        BY <3>2
      <4>2. p[j] = q[j - Len(d)]
        BY <3>4, <4>1, Zenon
      <4>3. j - Len(d) = i
        BY <3>2
      <4> HIDE DEF p
      <4> QED BY <4>2, <4>3, Zenon
    <3> QED BY <3>3, <3>5 DEF j
  <2> DEFINE j == i + Len(d)
  <2>3. /\ j \in 1..Len(p) /\ p[j].type = "MSG" /\ p[j].from = s /\ p[j].to = r
    BY <2>1, <2>2
  <2>4. p \in Seq(Post)
    BY <1>1
  <2> HIDE DEF j
  <2>5. j \in Sent(p, s, r)
    BY <2>3, <2>4, SentFields
  <2> QED BY <2>1, <2>2, <2>5 DEF j
<1>5. ASSUME NEW i \in Sent(q, s, r)
      PROVE  /\ \A k \in L \cup Nums(d, s, r) : k < q[i].num
             /\ \A k \in U : q[i].num < k
             /\ \A j \in Sent(q, s, r) : i < j => q[i].num < q[j].num
  <2>1. /\ \A k \in L : k < q[i].num
        /\ \A k \in U : q[i].num < k
    BY <1>2, <1>4 DEF Within
  <2>2. ASSUME NEW k \in Nums(d, s, r) PROVE k < q[i].num
    <3>1. PICK j \in Sent(d, s, r) : k = d[j].num
      BY DEF Nums
    <3>2. j < i + Len(d)
      BY <1>1, <1>3, <1>4
    <3> QED BY <1>2, <1>3, <1>4, <3>1, <3>2 DEF Within
  <2>3. ASSUME NEW j \in Sent(q, s, r), i < j PROVE q[i].num < q[j].num
    <3>1. i + Len(d) < j + Len(d)
      BY <1>1, <1>4, <2>3
    <3> QED BY <1>2, <1>4, <3>1 DEF Within
  <2> QED BY <2>1, <2>2, <2>3
<1>6. \A k \in Nums(d, s, r), u \in U : k < u
  BY <1>2, <1>3 DEF Within, Nums
<1>7. Within(q, s, r, L \cup Nums(d, s, r), U)
  BY <1>5 DEF Within
<1> QED BY <1>6, <1>7

\* Client t takes d from the front of its socket, e remains.
LEMMA TakesKeeps ==
  ASSUME IInv, NEW t \in Task, NEW f \in Fd, task[t].fd = f,
         NEW d \in Seq(Post), NEW e \in Seq(Post), sock[Home[t]][f].data = d \o e,
         NEW v \in BOOLEAN, v => e = << >>,
         sock' = [sock EXCEPT ![Home[t]] =
                    [sock[Home[t]] EXCEPT ![f] = [data |-> e, closed |-> v]]],
         seen' = [seen EXCEPT ![t] = Noted(t, d)], told' \in [Task -> SUBSET Nat],
         UNCHANGED <<task, client, buf, link, up, lost, sent>>
  PROVE  IInv'
<1> DEFINE n == Home[t]
           h == Ctx(n)
           w == [data |-> e, closed |-> v]
           c == [h EXCEPT !.sock = [h.sock EXCEPT ![f] = w]]
           b == client[n][f].msgs
<1>1. /\ AllGood /\ Shapes /\ Histories /\ InStride /\ n \in Node /\ t \in Local(n)
      /\ h \in Good(n) /\ h \in Context(n) /\ SameRows
  <2>1. AllGood /\ Shapes /\ Histories /\ InStride /\ n \in Node /\ t \in Local(n)
    BY Constants DEF IInv, AllGood, Local
  <2>2. h \in Good(n)
    BY <2>1 DEF AllGood
  <2> QED BY <2>1, <2>2, RowsAre DEF Good
<1>2. h.task = task /\ h.up = up[n] /\ h.client = client[n] /\ h.sock = sock[n]
      /\ h.buf = buf[n] /\ h.link = link[n] /\ h.n = n
  BY DEF Ctx
<1>a. sock' = [sock EXCEPT ![n] = [h.sock EXCEPT ![f] = w]] /\ h.task[t].fd = f
      /\ h.sock[f].data = d \o e /\ b = h.client[f].msgs
  BY <1>2
<1>b. w.data = e /\ w.closed = v /\ w \in Socket
  BY DEF Socket
<1> HIDE DEF n, h, w, b
<1>3. f # NoFd /\ h.client[f].tid = t
  <2>1. f # NoFd
    BY Constants
  <2>2. Registered(h, t)
    BY <1>1 DEF Good
  <2> QED BY <1>1, <1>2, <1>a, <2>1, <2>2, ContextFields DEF Registered, Local
<1>4. /\ d \o e \in Seq(Letters(t)) /\ b \in Seq(Post) /\ b \in Seq(Letters(t))
      /\ Len(d \o e) <= SockCap
  <2>1. /\ h.sock[f].data \in Seq(Letters(t)) /\ h.client[f].msgs \in Seq(Letters(t))
        /\ Len(h.sock[f].data) \in 0..SockCap /\ h.client[f].msgs \in Seq(Post)
    BY <1>1, <1>3, Waits
  <2> QED BY <1>a, <2>1, Constants
<1>5. /\ Len(d) \in Nat /\ Len(e) \in Nat /\ Len(d \o e) = Len(d) + Len(e)
      /\ \A i \in 1..(Len(d) + Len(e)) :
           (d \o e)[i] = IF i <= Len(d) THEN d[i] ELSE e[i - Len(d)]
  BY ConcatProperties, LenProperties
<1>6. \A i \in 1..Len(d) : d[i].to = t
  <2>1. ASSUME NEW i \in 1..Len(d) PROVE d[i].to = t
    <3>1. i \in 1..(Len(d) + Len(e)) /\ i <= Len(d) /\ i \in 1..Len(d \o e)
      BY <1>5
    <3>2. (d \o e)[i] = d[i]
      BY <1>5, <3>1
    <3>3. (d \o e)[i] \in Letters(t)
      BY <1>4, <3>1, ElementOfSeq
    <3> QED BY <3>2, <3>3 DEF Letters
  <2> QED BY <2>1
<1>7. e \in Seq(Letters(t)) /\ Len(e) <= SockCap
  <2>1. \A i \in 1..Len(e) : e[i] \in Letters(t)
    <3> SUFFICES ASSUME NEW i \in 1..Len(e) PROVE e[i] \in Letters(t)
      OBVIOUS
    <3>1. /\ i + Len(d) \in 1..(Len(d) + Len(e)) /\ ~(i + Len(d) <= Len(d))
          /\ i + Len(d) - Len(d) = i /\ i + Len(d) \in 1..Len(d \o e)
      BY <1>5
    <3>2. (d \o e)[i + Len(d)] = e[i]
      BY <1>5, <3>1
    <3>3. (d \o e)[i + Len(d)] \in Letters(t)
      BY <1>4, <3>1, ElementOfSeq
    <3> QED BY <3>2, <3>3
  <2>2. e \in Seq(Letters(t))
    <3>1. e \in [1..Len(e) -> Post]
      BY LenProperties
    <3>2. e \in [1..Len(e) -> Letters(t)]
      BY <2>1, <3>1
    <3>3. e \in UNION {[1..k -> Letters(t)] : k \in Nat}
      BY <1>5, <3>2, Zenon
    <3> QED BY <3>3, SeqDef, Zenon
  <2> QED BY <1>4, <1>5, <2>2, Constants
<1>8. /\ c \in Context(n) /\ c.n = n /\ c.task = h.task /\ c.client = h.client
      /\ c.buf = h.buf /\ c.link = h.link /\ c.up = h.up
      /\ c.sock = [h.sock EXCEPT ![f] = w] /\ h.sock \in [Fd -> Socket]
  <2>1. h.sock \in [Fd -> Socket]
    BY <1>1, ContextFields
  <2> QED BY <1>1, <1>2, <1>b, <2>1 DEF Context
<1>9. Finish(c)
  <2>1. /\ client' = [client EXCEPT ![n] = c.client] /\ buf' = [buf EXCEPT ![n] = c.buf]
        /\ link' = [link EXCEPT ![n] = c.link] /\ up' = [up EXCEPT ![n] = c.up]
    BY <1>1, <1>2, <1>8 DEF Shapes
  <2> QED BY <1>2, <1>8, <1>a, <2>1 DEF Finish
<1> HIDE DEF c
<1>10. c.sock[f] = w /\ \A x \in Fd : x # f => c.sock[x] = h.sock[x]
  BY <1>8
<1>11. /\ c \in Good(n)
       /\ \A r \in Local(n) : r # t => Inbox(c, r) = Inbox(h, r)
       /\ \A m \in Peers(n) : Outbox(c, m) = Outbox(h, m)
  <2>1. /\ c.sock[f].data \in Seq(Letters(h.client[f].tid))
        /\ c.client[f].msgs \in Seq(Letters(h.client[f].tid))
        /\ Len(c.sock[f].data) <= SockCap
        /\ c.sock[f].closed => c.sock[f].data = << >>
    BY <1>3, <1>4, <1>7, <1>8, <1>10, <1>a, <1>b
  <2>2. /\ c.link = h.link /\ c.buf = h.buf
        /\ \A u \in Task : c.task[u].fd = h.task[u].fd
        /\ \A x \in Fd : x # f => /\ c.sock[x] = h.sock[x]
                                  /\ c.client[x].tid = h.client[x].tid
                                  /\ c.client[x].msgs = h.client[x].msgs
        /\ c.client[f].tid = h.client[f].tid /\ c \in Context(n)
    BY <1>8, <1>10
  <2>3. /\ c \in Good(n)
        /\ \A r \in Local(n) : r # h.client[f].tid => Inbox(c, r) = Inbox(h, r)
        /\ \A m \in Peers(n) : Outbox(c, m) = Outbox(h, m)
    BY <1>1, <2>1, <2>2, ClientTouched
  <2> QED BY <1>3, <2>3
<1> DEFINE q == e \o b
<1>12. Inbox(c, t) = q /\ Inbox(h, t) = d \o q /\ q \in Seq(Post)
  <2>0. c.task[t].fd = f /\ h.task[t].fd = f /\ f # NoFd
    BY <1>3, <1>8, <1>a
  <2>1. Inbox(c, t) = IF c.task[t].fd = NoFd THEN << >>
                      ELSE c.sock[c.task[t].fd].data \o c.client[c.task[t].fd].msgs
    BY <1>1, <1>11, InboxIs
  <2>2. Inbox(h, t) = IF h.task[t].fd = NoFd THEN << >>
                      ELSE h.sock[h.task[t].fd].data \o h.client[h.task[t].fd].msgs
    BY <1>1, InboxIs
  <2>3. Inbox(c, t) = e \o b /\ Inbox(h, t) = (d \o e) \o b
    BY <1>8, <1>10, <1>a, <1>b, <2>0, <2>1, <2>2
  <2>4. b \in Seq(Post)
    BY <1>4
  <2>5. (d \o e) \o b = d \o (e \o b)
    BY <2>4, ConcatAssociative
  <2>6. e \o b \in Seq(Post)
    BY <2>4, ConcatProperties
  <2> QED BY <2>3, <2>5, <2>6
<1> HIDE DEF q
<1>13. KeepsOthers(n, c)
  BY <1>2, <1>8 DEF KeepsOthers
<1>14. Stepped(n, c) /\ AllGood' /\ Shapes'
  <2>1. Stepped(n, c)
    BY <1>1, <1>9, <1>11, <1>13, FinishSteps
  <2> QED BY <1>1, <1>11, <1>13, <2>1, SteppedGood
<1>15. /\ \A r \in Task :
            Waiting(r)' = IF r = t THEN q ELSE Waiting(r)
       /\ \A s \in Sender, r \in Task : Coming(s, r)' = Coming(s, r)
       /\ Waiting(t) = d \o q
  <2>1. /\ \A r \in Task :
             Waiting(r)' = IF Home[r] = n THEN Inbox(c, r) ELSE Waiting(r)
        /\ \A s \in Sender, r \in Task :
             Home[r] # n =>
               Coming(s, r)' = IF getID(s) = n THEN Outbox(c, Home[r])
                               ELSE Coming(s, r)
    BY <1>1, <1>11, <1>13, <1>14, SteppedRows
  <2>2. \A s \in Sender, r \in Task :
          getID(s) # n \/ Home[r] = n => Coming(s, r)' = Coming(s, r)
    BY <1>1, <1>9, <1>11, <1>13, FinishSteps
  <2>3. ASSUME NEW s \in Sender, NEW r \in Task, Home[r] # n, getID(s) = n
        PROVE  Coming(s, r)' = Coming(s, r)
    <3>1. Home[r] \in Peers(n)
      BY <2>3, Constants DEF Peers
    <3>2. Coming(s, r) = Outbox(h, Home[r])
      BY <1>1, <2>3 DEF SameRows, h
    <3> QED BY <1>11, <2>1, <2>3, <3>1, <3>2
  <2>4. ASSUME NEW r \in Task PROVE Waiting(r)' = IF r = t THEN q ELSE Waiting(r)
    <3>1. CASE r = t
      BY <1>12, <2>1, <3>1 DEF n
    <3>2. CASE r # t /\ Home[r] = n
      <4>1. Waiting(r) = Inbox(h, r)
        BY <1>1, <3>2 DEF SameRows, h
      <4> QED BY <1>11, <2>1, <3>2, <4>1 DEF Local
    <3>3. CASE Home[r] # n
      <4>1. r # t
        BY <3>3 DEF n
      <4> QED BY <2>1, <3>3, <4>1
    <3> QED BY <3>1, <3>2, <3>3
  <2>5. Waiting(t) = d \o q
    <3>1. Waiting(t) = Inbox(Ctx(Home[t]), t)
      BY <1>1 DEF SameRows
    <3> QED BY <1>12, <3>1 DEF h, n
  <2> QED BY <2>2, <2>3, <2>4, <2>5
<1>16. ASSUME NEW s \in Sender
       PROVE  /\ Noted(t, d)[s] = seen[t][s] \cup Nums(d, s, t)
              /\ Nums(d, s, t) \subseteq Nat
  <2>1. Noted(t, d)[s] = seen[t][s] \cup {d[i].num : i \in {i \in DOMAIN d :
                           d[i].type = "MSG" /\ d[i].from = s}}
    BY DEF Noted
  <2>2. {i \in DOMAIN d : d[i].type = "MSG" /\ d[i].from = s} = Sent(d, s, t)
    <3>1. DOMAIN d = 1..Len(d)
      BY LenProperties
    <3> QED BY <1>6, <3>1 DEF Sent
  <2> QED BY <2>1, <2>2, NumsTyped DEF Nums
<1>17. /\ seen[t] \in [Sender -> SUBSET Nat]
       /\ seen'[t] = Noted(t, d) /\ \A r \in Task : r # t => seen'[r] = seen[r]
       /\ Noted(t, d) \in [Sender -> SUBSET Nat]
  <2>1. seen \in [Task -> [Sender -> SUBSET Nat]]
    BY <1>1 DEF Histories
  <2>2. \A s \in Sender : Noted(t, d)[s] \in SUBSET Nat
    BY <1>16, <2>1
  <2>3. Noted(t, d) = [s \in Sender |-> Noted(t, d)[s]]
    BY DEF Noted
  <2>4. Noted(t, d) \in [Sender -> SUBSET Nat]
    BY <2>2, <2>3
  <2> QED BY <2>1, <2>4
<1>18. Histories'
  BY <1>1, <1>17 DEF Histories
<1>19. ASSUME NEW s \in Sender, NEW r \in Task
       PROVE  /\ \A k \in seen'[r][s] : k <= sent'[s]
              /\ Within(Waiting(r)', s, r, seen'[r][s],
                        Nums(Coming(s, r)', s, r) \cup {sent'[s] + 1})
              /\ Within(Coming(s, r)', s, r, seen'[r][s], {sent'[s] + 1})
  <2> DEFINE A == seen[r][s]
             C == Coming(s, r)
             U == Nums(C, s, r) \cup {sent[s] + 1}
  <2>1. /\ \A k \in A : k <= sent[s]
        /\ Within(Waiting(r), s, r, A, U)
        /\ Within(C, s, r, A, {sent[s] + 1})
        /\ C \in Seq(Post)
        /\ sent' = sent /\ sent[s] \in Nat /\ Coming(s, r)' = C
    BY <1>1, <1>15, RowsTyped DEF InStride, Histories
  <2>2. CASE r # t
    BY <1>15, <1>17, <2>1, <2>2
  <2>3. CASE r = t
    <3> DEFINE K == Nums(d, s, r)
    <3>1. seen'[r][s] = A \cup K /\ K \subseteq Nat /\ Waiting(r)' = q
          /\ Waiting(r) = d \o q
      BY <1>15, <1>16, <1>17, <2>3
    <3> HIDE DEF A, C, U
    <3>2. Within(q, s, r, A \cup K, U) /\ \A k \in K, u \in U : k < u
      <4>1. Within(d \o q, s, r, A, U) /\ q \in Seq(Post)
        BY <1>12, <2>1, <3>1
      <4> QED BY <4>1, WithinSplit
    <3>3. (\A k \in K : k < sent[s] + 1) /\ \A k \in K : \A u \in Nums(C, s, r) : k < u
      BY <3>2 DEF U
    <3> HIDE DEF K
    <3>4. \A k \in A \cup K : k <= sent[s]
      BY <2>1, <3>1, <3>3
    <3>5. Within(C, s, r, A \cup K, {sent[s] + 1})
      BY <2>1, <3>3 DEF Within, Nums
    <3> QED BY <2>1, <3>1, <3>2, <3>4, <3>5 DEF U
  <2> QED BY <2>2, <2>3
<1>20. InStride'
  BY <1>19 DEF InStride
<1>21. \A p \in Node : Ctx(p)' \in Good(p)
  BY <1>14 DEF AllGood
<1> QED BY <1>14, <1>18, <1>20, <1>21 DEF IInv

LEMMA FrontAndRest ==
  ASSUME NEW p \in Seq(Post), p # << >>
  PROVE  /\ Head(p) \in Post /\ <<Head(p)>> \in Seq(Post) /\ Tail(p) \in Seq(Post)
         /\ p = <<Head(p)>> \o Tail(p)
<1> DEFINE d == <<Head(p)>>
           e == Tail(p)
<1>1. /\ Head(p) \in Post /\ e \in Seq(Post) /\ Len(e) = Len(p) - 1
      /\ \A i \in 1..Len(e) : e[i] = p[i + 1]
      /\ Len(p) \in Nat /\ Len(p) # 0
  BY HeadTailProperties, LenProperties, EmptySeq
<1>2. d \in Seq(Post) /\ Len(d) = 1 /\ d[1] = p[1]
  BY <1>1
<1> HIDE DEF d, e
<1>3. /\ d \o e \in Seq(Post) /\ Len(d \o e) = Len(d) + Len(e)
      /\ \A i \in 1..(Len(d) + Len(e)) :
           (d \o e)[i] = IF i <= Len(d) THEN d[i] ELSE e[i - Len(d)]
  <2>1. d \in Seq(Post) /\ e \in Seq(Post)
    BY <1>1, <1>2
  <2> QED BY <2>1, ConcatProperties
<1> DEFINE q == d \o e
<1>4. q \in Seq(Post) /\ Len(p) = Len(q)
  BY <1>1, <1>2, <1>3
<1>5. ASSUME NEW i \in 1..Len(p) PROVE p[i] = q[i]
  <2>1. q[i] = IF i <= 1 THEN d[i] ELSE e[i - 1]
    BY <1>1, <1>2, <1>3
  <2>2. CASE i = 1
    BY <1>2, <2>1, <2>2
  <2>3. CASE i # 1
    <3>1. i - 1 \in 1..Len(e) /\ ~(i <= 1) /\ i - 1 + 1 = i
      BY <1>1, <2>3
    <3>2. e[i - 1] = p[i - 1 + 1]
      BY <1>1, <3>1
    <3> QED BY <2>1, <3>1, <3>2
  <2> QED BY <2>2, <2>3
<1> HIDE DEF q
<1>6. p = q
  BY <1>4, <1>5, RowEqual
<1> QED BY <1>1, <1>2, <1>6 DEF q, d, e

\* The socket of a connected client.
LEMMA OwnSocket ==
  ASSUME IInv, NEW t \in Task, task[t].fd # NoFd
  PROVE  /\ task[t].fd \in Fd /\ Home[t] \in Node
         /\ sock[Home[t]] \in [Fd -> Socket]
         /\ sock[Home[t]][task[t].fd].data \in Seq(Post)
         /\ told[t] \subseteq Nat /\ told \in [Task -> SUBSET Nat]
<1> DEFINE h == Ctx(Home[t])
<1>1. Home[t] \in Node /\ told \in [Task -> SUBSET Nat]
  BY Constants DEF IInv, Histories
<1>2. h \in Context(Home[t])
  BY <1>1 DEF IInv, Good
<1>3. h.task = task /\ h.sock = sock[Home[t]]
  BY DEF Ctx
<1> HIDE DEF h
<1>4. task[t].fd \in Fd /\ sock[Home[t]] \in [Fd -> Socket]
  <2>1. h.task[t] \in TaskEntry /\ h.sock \in [Fd -> Socket]
    BY <1>1, <1>2, ContextFields
  <2>2. h.task[t].fd \in Fd \cup {NoFd}
    BY <2>1, EntryFields
  <2> QED BY <1>3, <2>1, <2>2
<1>5. sock[Home[t]][task[t].fd] \in Socket
  BY <1>4
<1> QED BY <1>1, <1>4, <1>5, EntryFields

LEMMA ReadKeeps ==
  ASSUME IInv, NEW t \in Task, Read(t)
  PROVE  IInv'
<1> DEFINE n == Home[t]
           f == task[t].fd
           p == sock[n][f].data
           d == <<Head(p)>>
           e == Tail(p)
<1>1. f # NoFd /\ p # << >> /\ ~sock[n][f].closed
  BY DEF Read
<1>2. /\ f \in Fd /\ n \in Node /\ sock[n] \in [Fd -> Socket] /\ p \in Seq(Post)
      /\ told[t] \subseteq Nat /\ told \in [Task -> SUBSET Nat]
  BY <1>1, OwnSocket
<1>3. sock' = [sock EXCEPT ![n][f].data = e]
  BY DEF Read
<1>4. /\ seen' = [seen EXCEPT ![t] = Noted(t, d)]
      /\ UNCHANGED <<task, client, buf, link, up, lost, sent>>
      /\ told' = told \/ told' = [told EXCEPT ![t] = @ \cup {Head(p).num}]
  BY DEF Read
<1> HIDE DEF p, e, d
<1>5. /\ Head(p) \in Post /\ d \in Seq(Post) /\ e \in Seq(Post) /\ p = d \o e
  BY <1>1, <1>2, FrontAndRest DEF d, e
<1>6. told' \in [Task -> SUBSET Nat]
  <2>1. Head(p).num \in Nat
    BY <1>5, PostFields
  <2> QED BY <1>2, <1>4, <2>1
<1>7. sock' = [sock EXCEPT ![n] = [sock[n] EXCEPT ![f] =
                                     [data |-> e, closed |-> FALSE]]]
  <2>1. sock[n][f] \in Socket /\ sock[n][f].closed = FALSE
    BY <1>1, <1>2 DEF Socket
  <2>2. [sock[n][f] EXCEPT !.data = e] = [data |-> e, closed |-> FALSE]
    <3> DEFINE x == sock[n][f]
    <3>1. x \in [data : Seq(Post), closed : BOOLEAN] /\ x.closed = FALSE
      BY <2>1 DEF Socket
    <3> HIDE DEF x
    <3>2. [x EXCEPT !.data = e] = [data |-> e, closed |-> x.closed]
      BY <3>1
    <3>3. [x EXCEPT !.data = e] = [data |-> e, closed |-> FALSE]
      BY <3>1, <3>2
    <3> QED BY <3>3 DEF x
  <2>3. sock' = [sock EXCEPT ![n] = [sock[n] EXCEPT ![f] =
                                       [sock[n][f] EXCEPT !.data = e]]]
    BY <1>3
  <2> QED BY <2>2, <2>3
<1>8. sock[n][f].data = d \o e /\ FALSE \in BOOLEAN /\ (FALSE => e = << >>)
  BY <1>5 DEF p
<1> QED BY <1>2, <1>4, <1>5, <1>6, <1>7, <1>8, TakesKeeps

LEMMA ExitKeeps ==
  ASSUME IInv, NEW t \in Task, Exit(t)
  PROVE  IInv'
<1> DEFINE n == Home[t]
           f == task[t].fd
           d == sock[n][f].data
           e == << >>
<1>1. f # NoFd
  BY DEF Exit
<1>2. f \in Fd /\ n \in Node /\ d \in Seq(Post) /\ told \in [Task -> SUBSET Nat]
  BY <1>1, OwnSocket
<1>3. /\ sock' = [sock EXCEPT ![n] = [sock[n] EXCEPT ![f] =
                                        [data |-> e, closed |-> TRUE]]]
      /\ seen' = [seen EXCEPT ![t] = Noted(t, d)]
      /\ UNCHANGED <<task, client, buf, link, up, lost, sent>>
      /\ told' \in [Task -> SUBSET Nat]
  BY <1>2 DEF Exit
<1>4. e \in Seq(Post) /\ d = d \o e
  BY <1>2, EmptySeq, ConcatEmptySeq
<1>5. sock[n][f].data = d \o e /\ TRUE \in BOOLEAN /\ (TRUE => e = << >>)
  BY <1>4
<1> HIDE DEF d, e
<1> QED BY <1>2, <1>3, <1>4, <1>5, TakesKeeps

\* A client connects via a file descriptor that has not been in use.
LEMMA ConnectedGood ==
  ASSUME NEW n \in Node, NEW h \in Good(n), NEW t \in Local(n), NEW f \in Fd,
         h.task[t].fd = NoFd, h.client[f].tid = NoTask, NEW e \in TaskEntry,
         e.fd = f, NEW k \in Client, k.tid = t, k.msgs = << >>,
         NEW c \in Context(n), c.sock = h.sock, c.buf = h.buf, c.link = h.link,
         c.task[t] = e, \A u \in Task : u # t => c.task[u] = h.task[u],
         c.client[f] = k, \A x \in Fd : x # f => c.client[x] = h.client[x]
  PROVE  c \in Good(n) /\ \A r \in Task : Row(n, c, r) = Row(n, h, r)
<1>1. h \in Context(n) /\ h.n = n /\ c.n = n /\ t \in Task /\ Home[t] = n
  BY ContextFields DEF Good, Local
<1>2. /\ c.task[t] = e /\ \A u \in Task : u # t => c.task[u] = h.task[u]
      /\ c.client[f] = k /\ \A x \in Fd : x # f => c.client[x] = h.client[x]
  OBVIOUS
<1>3. /\ h.sock[f].data = << >> /\ f # NoFd /\ t # NoTask
      /\ << >> \in Seq(Letters(t)) /\ Len(<< >>) <= SockCap
  <2>1. h.sock[f].data = << >>
    BY Waits
  <2>2. << >> \in Seq(Letters(t)) /\ Len(<< >>) = 0
    BY EmptySeq
  <2> QED BY <1>1, <2>1, <2>2, Constants
<1>4. ASSUME NEW x \in Fd PROVE Served(c, x)
  <2>1. CASE x = f
    BY <1>1, <1>2, <1>3, <2>1 DEF Served
  <2>2. CASE x # f
    <3>1. Served(h, x)
      BY DEF Good
    <3>2. h.client[x].tid # t
      BY <1>1, <3>1, Constants DEF Served
    <3>3. h.client[x].tid \in Task \cup {NoTask}
      BY Waits
    <3> QED BY <1>1, <1>2, <2>2, <3>1, <3>2, <3>3 DEF Served
  <2> QED BY <2>1, <2>2
<1>5. ASSUME NEW u \in Task, Home[u] = n, u # t, h.task[u].fd # NoFd
      PROVE  /\ h.task[u].fd \in Fd /\ h.task[u].fd # f
             /\ h.client[h.task[u].fd].tid = u
  <2>1. h.client[h.task[u].fd].tid = u
    BY <1>1, <1>5 DEF Good, Registered
  <2>2. h.task[u].fd \in Fd
    BY <1>1, <1>5, ContextFields, EntryFields
  <2> QED BY <2>1, <2>2, Constants
<1>6. ASSUME NEW u \in Task PROVE Registered(c, u)
  <2>1. CASE u = t
    BY <1>2, <2>1 DEF Registered
  <2>2. CASE u # t
    BY <1>1, <1>2, <1>5, <2>2 DEF Registered
  <2> QED BY <2>1, <2>2
<1>7. \A p \in Peers(n) : Carried(c, p) /\ Filled(c, p)
  BY <1>1 DEF Good, Carried, Filled
<1>8. c \in Good(n)
  BY <1>4, <1>6, <1>7 DEF Good
<1>9. ASSUME NEW r \in Task PROVE Row(n, c, r) = Row(n, h, r)
  <2>1. CASE Home[r] # n
    BY <2>1 DEF Row, Outbox
  <2>2. CASE r = t
    <3>1. Row(n, h, r) = << >>
      BY <1>1, <2>2 DEF Row, Inbox
    <3>2. Inbox(c, t) = IF c.task[t].fd = NoFd THEN << >>
                        ELSE c.sock[c.task[t].fd].data
                               \o c.client[c.task[t].fd].msgs
      BY <1>8, InboxIs
    <3>3. Inbox(c, t) = << >> \o << >>
      BY <1>2, <1>3, <3>2
    <3>4. Inbox(c, t) = << >>
      BY <3>3, EmptySeq, ConcatEmptySeq
    <3> QED BY <1>1, <2>2, <3>1, <3>4 DEF Row
  <2>3. CASE Home[r] = n /\ r # t
    <3>1. CASE h.task[r].fd = NoFd
      BY <1>2, <2>3, <3>1 DEF Row, Inbox
    <3>2. CASE h.task[r].fd # NoFd
      BY <1>2, <1>5, <2>3, <3>2 DEF Row, Inbox
    <3> QED BY <3>1, <3>2
  <2> QED BY <2>1, <2>2, <2>3
<1> QED BY <1>8, <1>9

LEMMA ConnectKeeps ==
  ASSUME IInv, NEW t \in Task, Connect(t)
  PROVE  IInv'
<1> DEFINE n == Home[t]
           h == Ctx(n)
           free == {x \in Fd : client[n][x].tid = NoTask}
           f == CHOOSE x \in free : \A y \in free : x <= y
           e == NewTask(f)
           k == [client[n][f] EXCEPT !.tid = t, !.pendingACKs = 0,
                                     !.msgs = << >>, !.stops = {}]
           c == [h EXCEPT !.task = [h.task EXCEPT ![t] = e],
                          !.client = [h.client EXCEPT ![f] = k]]
           L == Low(n)
           U == Later(n, Upcoming)
<1>1. /\ n \in Node /\ t \in Local(n) /\ AllGood /\ Shapes
      /\ h \in Ordered(n, Pass(n), L, U) /\ h \in Good(n) /\ h \in Context(n)
  <2>1. n \in Node /\ t \in Local(n) /\ AllGood /\ Shapes
    BY Constants DEF IInv, AllGood, Local
  <2>2. h \in Ordered(n, Pass(n), L, U) /\ h \in Good(n)
    BY <2>1, BeginsOrdered DEF AllGood
  <2> QED BY <2>1, <2>2 DEF Good
<1>2. h.task = task /\ h.up = up[n] /\ h.client = client[n] /\ h.sock = sock[n]
      /\ h.buf = buf[n] /\ h.link = link[n] /\ h.n = n
  BY DEF Ctx
<1>3. /\ task' = [task EXCEPT ![t] = e] /\ free # {} /\ ~task[t].managed
      /\ client' = [client EXCEPT ![n] = [client[n] EXCEPT ![f] = k]]
      /\ UNCHANGED <<sock, buf, link, up, lost, sent, seen, told>>
  BY DEF Connect
<1>4. f \in free
  <2>1. free \subseteq Nat
    BY FdAssumption
  <2> HIDE DEF free
  <2>2. \E x \in free : \A y \in free : x <= y
    BY <1>3, <2>1, LeastNumber
  <2> QED BY <2>2
<1>5. f \in Fd /\ h.client[f].tid = NoTask
  BY <1>2, <1>4
<1> HIDE DEF f
<1>6. e \in TaskEntry /\ e.fd = f
  BY <1>5 DEF NewTask, TaskEntry
<1>7. k \in Client /\ k.tid = t /\ k.msgs = << >>
  <2>1. h.client[f] \in Client
    BY <1>1, <1>5, ContextFields
  <2>2. << >> \in Seq(Post)
    BY EmptySeq
  <2> DEFINE x == client[n][f]
  <2>3. x \in Client
    BY <1>2, <2>1
  <2>4. k = [x EXCEPT !.tid = t, !.pendingACKs = 0, !.msgs = << >>, !.stops = {}]
    OBVIOUS
  <2> HIDE DEF x, k
  <2>5. k = [tid |-> t, flush |-> x.flush, pendingACKs |-> 0, msgs |-> << >>,
             stops |-> {}]
    BY <2>3, <2>4 DEF Client
  <2>6. x.flush \in BOOLEAN
    BY <2>3, EntryFields
  <2> QED BY <2>2, <2>5, <2>6 DEF Client
<1> HIDE DEF h, e, k, free, n
<1>8. h.task[t].fd = NoFd
  <2>1. h.task[t] \in TaskEntry
    BY <1>1, ContextFields
  <2> QED BY <1>2, <1>3, <2>1, EntryFields
<1>9. /\ c \in Context(n) /\ c.n = n /\ c.sock = h.sock /\ c.buf = h.buf
      /\ c.link = h.link /\ c.up = h.up
      /\ c.task = [h.task EXCEPT ![t] = e] /\ c.client = [h.client EXCEPT ![f] = k]
  <2>1. /\ [h.task EXCEPT ![t] = e] \in [Task -> TaskEntry]
        /\ [h.client EXCEPT ![f] = k] \in [Fd -> Client]
    BY <1>1, <1>5, <1>6, <1>7, ContextFields
  <2> QED BY <1>1, <1>2, <2>1 DEF Context
<1> HIDE DEF c
<1>10. c \in Good(n) /\ \A r \in Task : Row(n, c, r) = Row(n, h, r)
  <2>1. h.task \in [Task -> TaskEntry] /\ h.client \in [Fd -> Client]
    BY <1>1, ContextFields
  <2>2. /\ c.task[t] = e /\ \A u \in Task : u # t => c.task[u] = h.task[u]
        /\ c.client[f] = k /\ \A x \in Fd : x # f => c.client[x] = h.client[x]
    BY <1>5, <1>9, <2>1
  <2>3. c \in Context(n) /\ c.sock = h.sock /\ c.buf = h.buf /\ c.link = h.link
    BY <1>9
  <2> QED BY <1>1, <1>5, <1>6, <1>7, <1>8, <2>2, <2>3, ConnectedGood
<1>11. c \in Ordered(n, Pass(n), L, U)
  <2> HIDE DEF L, U
  <2>1. \A z \in Pass(n) : z[2] \in Task
    BY DEF Pass, Pair
  <2> QED BY <1>1, <1>10, <2>1 DEF Ordered
<1>12. Finish(c)
  <2>1. /\ sock' = [sock EXCEPT ![n] = c.sock] /\ buf' = [buf EXCEPT ![n] = c.buf]
        /\ link' = [link EXCEPT ![n] = c.link] /\ up' = [up EXCEPT ![n] = c.up]
    BY <1>1, <1>2, <1>3, <1>9 DEF Shapes
  <2> QED BY <1>2, <1>3, <1>9, <2>1 DEF Finish
<1>13. KeepsOthers(n, c)
  BY <1>2, <1>9 DEF KeepsOthers, n
<1>14. sent' = sent /\ seen' = seen /\ told' = told /\ lost' \in Nat
  BY <1>3 DEF IInv, Histories
<1> QED BY <1>1, <1>11, <1>12, <1>13, <1>14, PlainKeeps

-----------------------------------------------------------------------------
(***************************************************************************)
(* Theorems                                                                *)
(***************************************************************************)

LEMMA StartsGood ==
  ASSUME Init, NEW n \in Node
  PROVE  Ctx(n) \in Good(n)
<1> DEFINE h == Ctx(n)
           owns(f, t) == Home[t] = n /\ Started[t] = f
           owner(f) == IF \E t \in DOMAIN Started : owns(f, t)
                       THEN CHOOSE t \in DOMAIN Started : owns(f, t) ELSE NoTask
<1>1. /\ h.n = n /\ h.task = task /\ h.client = client[n] /\ h.sock = sock[n]
      /\ h.buf = buf[n] /\ h.link = link[n] /\ h.up = up[n] /\ h.result = "sent"
      /\ h = [n |-> n, task |-> task, client |-> client[n], sock |-> sock[n],
              buf |-> buf[n], link |-> link[n], up |-> up[n], result |-> "sent"]
  BY DEF Ctx
<1>2. /\ DOMAIN Started \subseteq Task
      /\ \A t \in DOMAIN Started : Started[t] \in Fd
      /\ \A t, u \in DOMAIN Started :
           Home[t] = Home[u] /\ Started[t] = Started[u] => t = u
  BY StartAssumption
<1>3. /\ << >> \in Seq(Post) /\ Len(<< >>) = 0 /\ \A M : << >> \in Seq(M)
      /\ NoFd \notin Fd /\ NoTask \notin Task /\ SockCap \in Nat
      /\ Window[n] \in Nat
  BY EmptySeq, Constants
<1>4. ASSUME NEW t \in Task
      PROVE  /\ task[t] \in TaskEntry
             /\ t \in DOMAIN Started => task[t].fd = Started[t]
             /\ t \notin DOMAIN Started => task[t].fd = NoFd
  <2>1. CASE t \in DOMAIN Started
    <3>1. task[t] = NewTask(Started[t])
      BY <2>1 DEF Init
    <3> QED BY <1>2, <2>1, <3>1 DEF NewTask, TaskEntry
  <2>2. CASE t \notin DOMAIN Started
    <3>1. task[t] = [managed |-> FALSE, fd |-> NoFd, activeStops |-> 0,
                     enabled |-> FALSE]
      BY <2>2 DEF Init
    <3> QED BY <2>2, <3>1 DEF TaskEntry
  <2> QED BY <2>1, <2>2
<1>5. task \in [Task -> TaskEntry]
  <2>1. task = [t \in Task |-> task[t]]
    BY DEF Init
  <2> QED BY <1>4, <2>1
<1>6. ASSUME NEW f \in Fd
      PROVE  /\ owner(f) \in Task \cup {NoTask}
             /\ owner(f) # NoTask => owner(f) \in DOMAIN Started /\ owns(f, owner(f))
  <2>1. CASE \E t \in DOMAIN Started : owns(f, t)
    <3> DEFINE u == CHOOSE t \in DOMAIN Started : owns(f, t)
    <3>1. u \in DOMAIN Started /\ owns(f, u)
      <4> HIDE DEF owns
      <4> QED BY <2>1
    <3>2. owner(f) = u
      BY <2>1
    <3> HIDE DEF u, owner, owns
    <3> QED BY <1>2, <3>1, <3>2
  <2>2. CASE ~ \E t \in DOMAIN Started : owns(f, t)
    BY <2>2
  <2> QED BY <2>1, <2>2
<1>7. ASSUME NEW f \in Fd
      PROVE  /\ client[n][f] = [NoClient EXCEPT !.tid = owner(f)]
             /\ sock[n][f] = [data |-> << >>, closed |-> FALSE]
  BY DEF Init
<1> HIDE DEF owner
<1>8. ASSUME NEW f \in Fd
      PROVE  /\ client[n][f] \in Client /\ client[n][f].tid = owner(f)
             /\ client[n][f].msgs = << >>
             /\ sock[n][f] \in Socket /\ sock[n][f].data = << >>
             /\ sock[n][f].closed = FALSE
  <2> DEFINE k == client[n][f]
             z == sock[n][f]
             u == owner(f)
  <2>1. k = [tid |-> u, flush |-> FALSE, pendingACKs |-> 0, msgs |-> << >>,
             stops |-> {}]
    BY <1>7 DEF NoClient
  <2>2. z = [data |-> << >>, closed |-> FALSE]
    BY <1>7
  <2>3. u \in Task \cup {NoTask} /\ {} \in SUBSET Sender /\ 0 \in Int
        /\ FALSE \in BOOLEAN /\ << >> \in Seq(Post)
    BY <1>3, <1>6
  <2> HIDE DEF k, z, u
  <2>4. k \in Client /\ k.tid = u /\ k.msgs = << >>
    BY <2>1, <2>3 DEF Client
  <2>5. z \in Socket /\ z.data = << >> /\ z.closed = FALSE
    BY <2>2, <2>3 DEF Socket
  <2> QED BY <2>4, <2>5 DEF k, z, u
<1>9. /\ client[n] \in [Fd -> Client] /\ sock[n] \in [Fd -> Socket]
      /\ up[n] \in [Node -> BOOLEAN]
  <2>1. client[n] = [f \in Fd |-> client[n][f]] /\ sock[n] = [f \in Fd |-> sock[n][f]]
    BY DEF Init
  <2>2. client[n] \in [Fd -> Client] /\ sock[n] \in [Fd -> Socket]
    BY <1>8, <2>1
  <2>3. up[n] \in [Node -> BOOLEAN]
    BY DEF Init
  <2> QED BY <2>2, <2>3
<1>10. /\ buf[n] \in [Peers(n) -> Seq(Post)] /\ link[n] \in [Peers(n) -> LinkEntry]
       /\ \A m \in Peers(n) : buf[n][m] = << >> /\ link[n][m].pend = << >>
                              /\ link[n][m].got = 0
  <2>1. buf[n] = [m \in Peers(n) |-> << >>]
        /\ link[n] = [m \in Peers(n) |-> [pend |-> << >>, got |-> 0]]
    BY DEF Init
  <2>2. [pend |-> << >>, got |-> 0] \in LinkEntry
    BY <1>3 DEF LinkEntry
  <2> QED BY <1>3, <2>1, <2>2
<1> HIDE DEF h
<1>11. h \in Context(n)
  BY <1>1, <1>5, <1>9, <1>10 DEF Context
<1>12. \A p \in Peers(n) : Carried(h, p) /\ Filled(h, p)
  <2> SUFFICES ASSUME NEW p \in Peers(n) PROVE Carried(h, p) /\ Filled(h, p)
    OBVIOUS
  <2>1. h.buf[p] = << >> /\ h.link[p].pend = << >> /\ h.link[p].got = 0
    BY <1>1, <1>10
  <2>2. << >> \in Seq(Mail(h.n, p))
    BY EmptySeq
  <2>3. Len(h.link[p].pend) = 0 /\ h.n = n /\ 0 <= Window[n]
    BY <1>1, <1>3, <2>1
  <2>4. Carried(h, p)
    BY <2>1, <2>2, <2>3 DEF Carried
  <2>5. Filled(h, p)
    BY <2>1 DEF Filled
  <2> QED BY <2>4, <2>5
<1>13. ASSUME NEW f \in Fd PROVE Served(h, f)
  <2>1. h.client[f].tid = owner(f) /\ h.client[f].msgs = << >> /\ h.sock[f].data = << >>
    BY <1>1, <1>8
  <2>2. owner(f) # NoTask => Home[owner(f)] = n /\ h.task[owner(f)].fd = f
    BY <1>1, <1>2, <1>4, <1>6
  <2>3. << >> \in Seq(Letters(owner(f))) /\ Len(<< >>) <= SockCap
    BY <1>3, EmptySeq
  <2>4. h.n = n /\ h.sock[f].closed = FALSE
    BY <1>1, <1>8
  <2> QED BY <2>1, <2>2, <2>3, <2>4 DEF Served
<1>14. ASSUME NEW t \in Task PROVE Registered(h, t)
  <2> SUFFICES ASSUME Home[t] = n, task[t].fd # NoFd
               PROVE  h.client[task[t].fd].tid = t
    BY <1>1 DEF Registered
  <2> DEFINE f == Started[t]
             u == owner(f)
  <2>1. t \in DOMAIN Started /\ task[t].fd = f /\ f \in Fd
    BY <1>2, <1>4
  <2>2. \E v \in DOMAIN Started : owns(f, v)
    BY <2>1
  <2>3. u \in DOMAIN Started
    <3> DEFINE v == CHOOSE v \in DOMAIN Started : owns(f, v)
    <3>1. v \in DOMAIN Started
      <4> HIDE DEF owns
      <4> QED BY <2>2
    <3>2. u = v
      BY <2>2 DEF owner
    <3> QED BY <3>1, <3>2
  <2>4. u # NoTask
    BY <1>2, <1>3, <2>3
  <2>5. Home[u] = n /\ Started[u] = f
    BY <1>6, <2>1, <2>4
  <2>6. u = t
    BY <1>2, <2>1, <2>3, <2>5
  <2> QED BY <1>1, <1>8, <2>1, <2>6
<1>15. h \in Good(n)
  BY <1>11, <1>12, <1>13, <1>14 DEF Good
<1> QED BY <1>15 DEF h

LEMMA Starts == Init => IInv
<1> SUFFICES ASSUME Init PROVE IInv
  OBVIOUS
<1>1. AllGood
  BY StartsGood DEF AllGood
<1>2. Shapes /\ Histories
  BY DEF Init, Shapes, Histories
<1>3. ASSUME NEW s \in Sender, NEW r \in Task
      PROVE  Waiting(r) = << >> /\ Coming(s, r) = << >>
  <2>1. ASSUME NEW n \in Node, NEW f \in Fd
        PROVE  sock[n][f].data = << >> /\ client[n][f].msgs = << >>
    BY DEF Init, NoClient
  <2>2. << >> \o << >> = << >>
    BY EmptySeq, ConcatEmptySeq
  <2>3. Waiting(r) = << >>
    <3>1. Home[r] \in Node /\ r \in Local(Home[r]) /\ Ctx(Home[r]) \in Context(Home[r])
      BY <1>1, Constants DEF AllGood, Local, Good
    <3>2. task[r].fd \in Fd \cup {NoFd}
      <4>1. Ctx(Home[r]).task[r] \in TaskEntry
        BY <3>1, ContextFields
      <4> QED BY <4>1, EntryFields DEF Ctx
    <3>3. CASE task[r].fd = NoFd
      BY <3>3 DEF Waiting
    <3>4. CASE task[r].fd # NoFd
      BY <2>1, <2>2, <3>1, <3>2, <3>4 DEF Waiting
    <3> QED BY <3>3, <3>4
  <2>4. Coming(s, r) = << >>
    <3>1. CASE getID(s) = Home[r]
      BY <3>1 DEF Coming
    <3>2. CASE getID(s) # Home[r]
      <4> DEFINE p == getID(s)
                 q == Home[r]
      <4>1. p \in Node /\ q \in Peers(p)
        BY <3>2, Place, Constants DEF Peers
      <4>2. Coming(s, r) = Underway(p, q)
        BY <3>2 DEF Coming
      <4> HIDE DEF p, q
      <4>3. link[p][q] = [pend |-> << >>, got |-> 0] /\ buf[p][q] = << >>
        BY <4>1 DEF Init
      <4>4. Underway(p, q) = SubSeq(<< >>, 1, 0) \o << >>
        <5>1. Underway(p, q) = SubSeq(<< >>, 0 + 1, Len(<< >>)) \o << >>
          BY <4>3 DEF Underway
        <5> QED BY <5>1, EmptySeq
      <4>5. SubSeq(<< >>, 1, 0) = << >>
        BY SubSeqEmpty
      <4> QED BY <2>2, <4>2, <4>4, <4>5
    <3> QED BY <3>1, <3>2
  <2> QED BY <2>3, <2>4
<1>4. \A s \in Sender, r \in Task : seen[r][s] = {}
  BY DEF Init
<1>5. InStride
  BY <1>3, <1>4, WithinEmpty DEF InStride
<1> QED BY <1>1, <1>2, <1>5 DEF IInv, AllGood

LEMMA StepKeeps == IInv /\ [Next]_vars => IInv'
<1> SUFFICES ASSUME IInv, [Next]_vars PROVE IInv'
  OBVIOUS
<1>1. ASSUME NEW t \in Task,
             \/ Connect(t) \/ Submit(t) \/ ClientGone(t)
             \/ ChildDead(t) \/ Read(t) \/ Exit(t)
      PROVE  IInv'
  BY <1>1, ConnectKeeps, SubmitKeeps, ClientGoneKeeps, ChildDeadKeeps, ReadKeeps,
     ExitKeeps
<1>2. ASSUME NEW n \in Node, Answer(n) PROVE IInv'
  BY <1>2, AnswerKeeps
<1>3. ASSUME NEW n \in Node, NEW m \in Peers(n),
             Receive(n, m) \/ Acked(n, m) \/ Lost(n, m) \/ Alive(n, m)
      PROVE  IInv'
  BY <1>3, ReceiveKeeps, AckedKeeps, LostKeeps, AliveKeeps
<1>4. ASSUME NEW n \in Node, NEW f \in Fd, Flush(n, f) PROVE IInv'
  BY <1>4, FlushKeeps
<1>5. CASE UNCHANGED vars
  <2>1. \A n \in Node : Ctx(n)' = Ctx(n)
    BY <1>5 DEF vars, Ctx
  <2>2. \A s \in Sender, r \in Task :
          Waiting(r)' = Waiting(r) /\ Coming(s, r)' = Coming(s, r)
    BY <1>5 DEF vars, Waiting, Coming, Underway
  <2>3. Shapes' /\ Histories' /\ InStride'
    BY <1>5, <2>2 DEF IInv, vars, Shapes, Histories, InStride
  <2> QED BY <2>1, <2>3 DEF IInv
<1> QED BY <1>1, <1>2, <1>3, <1>4, <1>5 DEF Next

\* Two rows in order are in order behind each other, if the first is in order
\* before the second.
LEMMA WithinJoined ==
  ASSUME NEW d \in Seq(Post), NEW q \in Seq(Post), NEW s, NEW r, NEW L, NEW U,
         NEW V, Within(d, s, r, L, U), Nums(q, s, r) \subseteq U,
         Within(q, s, r, L, V)
  PROVE  Within(d \o q, s, r, L, {})
<1> DEFINE p == d \o q
<1>1. /\ Len(d) \in Nat /\ Len(q) \in Nat /\ p \in Seq(Post)
      /\ Len(p) = Len(d) + Len(q)
      /\ \A i \in 1..(Len(d) + Len(q)) :
           p[i] = IF i <= Len(d) THEN d[i] ELSE q[i - Len(d)]
  BY ConcatProperties, LenProperties
<1> HIDE DEF p
<1>2. ASSUME NEW i \in Sent(p, s, r)
      PROVE  /\ i \in 1..(Len(d) + Len(q))
             /\ i <= Len(d) => i \in Sent(d, s, r) /\ p[i] = d[i]
             /\ ~(i <= Len(d)) => /\ i - Len(d) \in Sent(q, s, r)
                                  /\ p[i] = q[i - Len(d)]
                                  /\ p[i].num \in Nums(q, s, r)
  <2>1. i \in 1..(Len(d) + Len(q)) /\ p[i].type = "MSG" /\ p[i].from = s
        /\ p[i].to = r
    <3>1. i \in 1..Len(p) /\ p[i].type = "MSG" /\ p[i].from = s /\ p[i].to = r
      BY <1>1, SentFields
    <3> QED BY <1>1, <3>1
  <2>2. CASE i <= Len(d)
    <3>1. i \in 1..Len(d)
      BY <1>1, <2>1, <2>2
    <3>2. p[i] = d[i]
      BY <1>1, <2>1, <2>2
    <3>3. i \in Sent(d, s, r)
      BY <2>1, <3>1, <3>2, SentFields
    <3> QED BY <2>1, <2>2, <3>2, <3>3
  <2>3. CASE ~(i <= Len(d))
    <3> DEFINE j == i - Len(d)
    <3>1. j \in 1..Len(q)
      BY <1>1, <2>1, <2>3
    <3>2. p[i] = q[j]
      BY <1>1, <2>1, <2>3
    <3> HIDE DEF j
    <3>3. j \in Sent(q, s, r)
      BY <2>1, <3>1, <3>2, SentFields
    <3>4. p[i].num \in Nums(q, s, r)
      BY <3>2, <3>3 DEF Nums
    <3> QED BY <2>1, <2>3, <3>2, <3>3, <3>4 DEF j
  <2> QED BY <2>2, <2>3
<1>3. ASSUME NEW i \in Sent(p, s, r), NEW k \in L PROVE k < p[i].num
  <2>1. CASE i <= Len(d)
    BY <1>2, <2>1 DEF Within
  <2>2. CASE ~(i <= Len(d))
    <3>1. i - Len(d) \in Sent(q, s, r) /\ p[i] = q[i - Len(d)]
      BY <1>2, <2>2
    <3> QED BY <3>1 DEF Within
  <2> QED BY <2>1, <2>2
<1>4. ASSUME NEW i \in Sent(p, s, r), NEW j \in Sent(p, s, r), i < j
      PROVE  p[i].num < p[j].num
  <2>1. CASE j <= Len(d)
    <3>1. i <= Len(d)
      BY <1>1, <1>2, <1>4, <2>1
    <3>2. i \in Sent(d, s, r) /\ j \in Sent(d, s, r) /\ p[i] = d[i] /\ p[j] = d[j]
      BY <1>2, <2>1, <3>1
    <3> QED BY <1>4, <3>2 DEF Within
  <2>2. CASE ~(j <= Len(d)) /\ i <= Len(d)
    <3>1. i \in Sent(d, s, r) /\ p[i] = d[i] /\ p[j].num \in U
      BY <1>2, <2>2
    <3> QED BY <3>1 DEF Within
  <2>3. CASE ~(j <= Len(d)) /\ ~(i <= Len(d))
    <3> DEFINE a == i - Len(d)
               b == j - Len(d)
    <3>1. /\ a \in Sent(q, s, r) /\ p[i] = q[a]
          /\ b \in Sent(q, s, r) /\ p[j] = q[b]
      BY <1>2, <2>3
    <3>2. a < b
      BY <1>1, <1>2, <1>4
    <3> HIDE DEF a, b
    <3> QED BY <3>1, <3>2 DEF Within
  <2> QED BY <2>1, <2>2, <2>3
<1>5. Within(p, s, r, L, {})
  BY <1>3, <1>4 DEF Within
<1> QED BY <1>5 DEF p

\* What the invariant says of the types.
LEMMA Typed == IInv => TypeOK
<1> SUFFICES ASSUME IInv PROVE TypeOK
  OBVIOUS
<1>1. ASSUME NEW n \in Node
      PROVE  /\ Ctx(n) \in Good(n) /\ Ctx(n) \in Context(n)
             /\ task \in [Task -> TaskEntry] /\ client[n] \in [Fd -> Client]
             /\ sock[n] \in [Fd -> Socket] /\ buf[n] \in [Peers(n) -> Seq(Post)]
             /\ link[n] \in [Peers(n) -> LinkEntry] /\ up[n] \in [Node -> BOOLEAN]
  <2>1. Ctx(n) \in Good(n) /\ Ctx(n) \in Context(n)
    BY DEF IInv, Good
  <2> QED BY <2>1, ContextFields DEF Ctx
<1>2. \A q : q \in Seq(Post) => q \in Seq(Message)
  BY SeqMonotonic DEF Post
<1>3. Histories
  BY DEF IInv
<1>4. ASSUME NEW t \in Task
      PROVE  /\ task[t].managed \in BOOLEAN /\ task[t].enabled \in BOOLEAN
             /\ task[t].fd \in Fd \cup {NoFd} /\ task[t].activeStops \in Int
             /\ told[t] \subseteq Nat
  <2>1. task[t] \in TaskEntry
    BY <1>1, Constants
  <2>2. told[t] \subseteq Nat
    BY <1>3 DEF Histories
  <2> QED BY <2>1, <2>2, EntryFields
<1>5. ASSUME NEW n \in Node, NEW f \in Fd
      PROVE  /\ client[n][f].tid \in Task \cup {NoTask}
             /\ client[n][f].flush \in BOOLEAN
             /\ client[n][f].pendingACKs \in Int
             /\ client[n][f].msgs \in Seq(Message)
             /\ client[n][f].stops \subseteq Sender
             /\ sock[n][f].data \in Seq(Message) /\ sock[n][f].closed \in BOOLEAN
  <2>1. client[n][f] \in Client /\ sock[n][f] \in Socket
    BY <1>1
  <2> QED BY <1>2, <2>1, EntryFields
<1>6. ASSUME NEW n \in Node, NEW m \in Peers(n)
      PROVE  /\ buf[n][m] \in Seq(Message) /\ link[n][m].pend \in Seq(Message)
             /\ link[n][m].got \in 0..Len(link[n][m].pend)
             /\ up[n][m] \in BOOLEAN
  <2>1. buf[n][m] \in Seq(Post) /\ link[n][m] \in LinkEntry /\ up[n][m] \in BOOLEAN
    BY <1>1 DEF Peers
  <2>2. link[n][m].pend \in Seq(Post) /\ link[n][m].got \in Nat
    BY <2>1, EntryFields
  <2>3. link[n][m].got <= Len(link[n][m].pend)
    BY <1>1 DEF Good, Carried, Ctx
  <2>4. Len(link[n][m].pend) \in Nat
    BY <2>2, LenProperties
  <2>5. link[n][m].got \in 0..Len(link[n][m].pend)
    BY <2>2, <2>3, <2>4
  <2> QED BY <1>2, <2>1, <2>2, <2>5
<1> QED BY <1>3, <1>4, <1>5, <1>6 DEF TypeOK, Histories

LEMMA Full == IInv => StoredOnlyIfFull
<1> SUFFICES ASSUME IInv, NEW n \in Node, NEW m \in Peers(n)
             PROVE  buf[n][m] # << >> => Len(link[n][m].pend) = Window[n]
  BY DEF StoredOnlyIfFull
<1>1. Filled(Ctx(n), m)
  BY DEF IInv, Good
<1> QED BY <1>1 DEF Filled, Ctx

LEMMA Arranged == IInv => InOrder
<1> SUFFICES ASSUME IInv, NEW s \in Sender, NEW r \in Task
             PROVE  LET p == Path(s, r)
                    IN  \A i \in Sent(p, s, r) :
                          /\ \A k \in seen[r][s] : k < p[i].num
                          /\ \A j \in Sent(p, s, r) : i < j => p[i].num < p[j].num
  BY DEF InOrder
<1>1. Waiting(r) \in Seq(Post) /\ Coming(s, r) \in Seq(Post)
  BY RowsTyped DEF IInv, AllGood
<1>2. /\ Within(Waiting(r), s, r, seen[r][s],
                Nums(Coming(s, r), s, r) \cup {sent[s] + 1})
      /\ Within(Coming(s, r), s, r, seen[r][s], {sent[s] + 1})
  BY DEF IInv, InStride
<1>3. Path(s, r) = Waiting(r) \o Coming(s, r)
  BY DEF Path, Coming
<1>4. Within(Path(s, r), s, r, seen[r][s], {})
  BY <1>1, <1>2, <1>3, WithinJoined
<1> QED BY <1>4 DEF Within

\* Every variable has its type, for any number of nodes, clients and file
\* descriptors, any window and any size of the sockets: psidclient.c, psidrdp.c
\* and psidflowcontrol.c never leave a queue or a counter in another shape.
THEOREM TypeCorrect == Spec => []TypeOK
<1> QED BY Starts, StepKeeps, Typed, PTL DEF Spec

\* sendRDP() stores a message only while the window to its node is full, and
\* flushRDPMsgs() empties the buffer whenever the window opens: nothing is left
\* in the buffer that no RDP_CAN_CONTINUE would follow up.
THEOREM StoredIfFull == Spec => []StoredOnlyIfFull
<1> QED BY Starts, StepKeeps, Full, PTL DEF Spec

\* The messages of a client arrive in order and once, wherever sendRDP() and
\* PSIDclient_send() have stored them, whatever is flushed, acknowledged or
\* lost meanwhile, and although their sender may be told to stop and to
\* continue in the middle of every handler.
THEOREM MessagesInOrder == Spec => []InOrder
<1> QED BY Starts, StepKeeps, Arranged, PTL DEF Spec
=============================================================================
