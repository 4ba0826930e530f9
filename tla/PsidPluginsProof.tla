------------------------- MODULE PsidPluginsProof -------------------------
(***************************************************************************)
(* Theorems about module PsidPlugins, for every number of plugins, every   *)
(* graph of dependencies, loops included, and every order of requests:     *)
(* references come in pairs and lead to loaded plugins; a call that loads  *)
(* or removes by force ends, and finds a victim in each loop; without      *)
(* loops the shutdown's passes over the plugins end, too.                  *)
(***************************************************************************)
EXTENDS PsidPlugins, FiniteSetTheorems, SequenceTheorems, WellFoundedInduction,
        TLAPS

-----------------------------------------------------------------------------
(***************************************************************************)
(* Loops                                                                   *)
(***************************************************************************)

LEMMA LeastNumber ==
  ASSUME NEW T, T \subseteq Nat, T # {}
  PROVE  \E x \in T : \A y \in T : x <= y
<1>1. \E x \in T : \A y \in T : ~ (<<y, x>> \in OpToRel(<, Nat))
  BY NatLessThanWellFounded, WFMin
<1>2. \A a, b \in Nat : <<a, b>> \in OpToRel(<, Nat) <=> a < b
  BY Zenon DEF OpToRel
<1>3. \E x \in T : \A y \in T : ~ (y < x)
  BY <1>1, <1>2, Zenon
<1>4. \A x, y \in Nat : ~ (y < x) => x <= y
  OBVIOUS
<1> QED BY <1>3, <1>4, Zenon

\* What each turn of a loop keeps, the loop keeps.
LEMMA LoopKeeps ==
  ASSUME NEW S, NEW a, NEW n \in Nat, a[0] \in S,
         \A k \in 1..n : a[k - 1] \in S => a[k] \in S
  PROVE  \A k \in 0..n : a[k] \in S
<1> DEFINE T == {k \in 0..n : a[k] \notin S}
<1>1. SUFFICES ASSUME T # {} PROVE FALSE
  OBVIOUS
<1>2. PICK x \in T : \A y \in T : x <= y
  <2>1. T \subseteq Nat
    OBVIOUS
  <2> HIDE DEF T
  <2> QED BY <1>1, <2>1, LeastNumber
<1>3. x \in 1..n /\ x - 1 \in 0..n /\ ~(x <= x - 1)
  BY <1>2
<1>4. x - 1 \notin T
  BY <1>2, <1>3
<1> QED BY <1>2, <1>3, <1>4

\* The values of the variables of a loop that calls F for each element of s.
Turns(a, n, c, s, F) ==
  a = [k \in 0..n |-> IF k = 0 THEN c ELSE F[<<a[k - 1], s[k]>>]]

LEMMA LoopEnds ==
  ASSUME NEW S, NEW M, NEW F \in [S \X M -> S], NEW c \in S, NEW s \in Seq(M)
  PROVE  \E a : Turns(a, Len(s), c, s, F) /\ \A k \in 0..Len(s) : a[k] \in S
<1> DEFINE Runs(n, a) == Turns(a, n, c, s, F) /\ \A k \in 0..n : a[k] \in S
           T == {n \in 0..Len(s) : ~ \E a : Runs(n, a)}
<1>0. Len(s) \in Nat /\ \A i \in 1..Len(s) : s[i] \in M
  BY LenProperties, ElementOfSeq
<1>1. SUFFICES ASSUME T # {} PROVE FALSE
  BY <1>0
<1>2. PICK n \in T : \A y \in T : n <= y
  <2>1. T \subseteq Nat
    BY <1>0
  <2> HIDE DEF T
  <2> QED BY <1>1, <2>1, LeastNumber
<1>3. CASE n = 0
  <2> DEFINE a == [k \in 0..0 |-> c]
  <2>1. \A k \in 0..0 : a[k] = c /\ k = 0
    OBVIOUS
  <2>2. a = [k \in 0..0 |-> IF k = 0 THEN c ELSE F[<<a[k - 1], s[k]>>]]
    OBVIOUS
  <2> HIDE DEF a
  <2>3. Runs(0, a)
    BY <2>1, <2>2 DEF Turns
  <2> QED BY <1>2, <1>3, <2>3
<1>4. CASE n # 0
  <2>1. n - 1 \in 0..Len(s) /\ n \in 1..Len(s) /\ ~(n <= n - 1) /\ n \in Nat
    BY <1>0, <1>2, <1>4
  <2>2. PICK a : Runs(n - 1, a)
    BY <1>2, <2>1
  <2> DEFINE b == [k \in 0..n |-> IF k = n THEN F[<<a[n - 1], s[n]>>] ELSE a[k]]
  <2>3. /\ b[n] = F[<<a[n - 1], s[n]>>]
        /\ \A k \in 0..(n - 1) : b[k] = a[k]
        /\ b = [k \in 0..n |-> b[k]]
    BY <2>1
  <2> HIDE DEF b
  <2>4. a[n - 1] \in S /\ s[n] \in M /\ \A k \in 0..(n - 1) : a[k] \in S
    BY <1>0, <2>1, <2>2
  <2>5. b[n] \in S
    BY <2>3, <2>4
  <2>6. ASSUME NEW k \in 0..n
        PROVE  /\ b[k] = IF k = 0 THEN c ELSE F[<<b[k - 1], s[k]>>]
               /\ b[k] \in S
    <3>1. CASE k = n
      <4>1. n - 1 \in 0..(n - 1) /\ n # 0
        BY <1>4, <2>1
      <4> QED BY <2>3, <2>5, <3>1, <4>1
    <3>2. CASE k # n
      <4>1. k \in 0..(n - 1) /\ (k # 0 => k - 1 \in 0..(n - 1))
        BY <2>1, <3>2
      <4>2. a[k] = IF k = 0 THEN c ELSE F[<<a[k - 1], s[k]>>]
        BY <2>2, <4>1 DEF Turns
      <4> QED BY <2>3, <2>4, <4>1, <4>2
    <3> QED BY <3>1, <3>2
  <2>7. Runs(n, b)
    BY <2>3, <2>6 DEF Turns
  <2> QED BY <1>2, <2>7
<1> QED BY <1>3, <1>4

-----------------------------------------------------------------------------
(***************************************************************************)
(* Lists of references                                                     *)
(***************************************************************************)

\* A list of plugins, each of them once.
Listed(list) == list \in Seq(Plugin) /\ IsInjective(list)

LEMMA Members ==
  ASSUME NEW list \in Seq(Plugin)
  PROVE  /\ Len(list) \in Nat /\ DOMAIN list = 1..Len(list)
         /\ \A i \in 1..Len(list) : list[i] \in Plugin /\ list[i] \in ToSet(list)
         /\ \A p : p \in ToSet(list) <=> \E i \in 1..Len(list) : list[i] = p
         /\ \A p : Contains(list, p) <=> p \in ToSet(list)
         /\ ToSet(list) \subseteq Plugin
         /\ list = <<>> <=> ToSet(list) = {}
<1>1. Len(list) \in Nat /\ DOMAIN list = 1..Len(list)
  BY LenProperties
<1>2. \A i \in 1..Len(list) : list[i] \in Plugin
  BY ElementOfSeq
<1>3. \A p : p \in ToSet(list) <=> \E i \in 1..Len(list) : list[i] = p
  BY <1>1, Zenon DEF ToSet
<1>4. list = <<>> <=> ToSet(list) = {}
  <2>1. list = <<>> <=> Len(list) = 0
    BY EmptySeq
  <2>2. Len(list) = 0 => ToSet(list) = {}
    BY <1>3
  <2>3. Len(list) # 0 => 1 \in 1..Len(list)
    BY <1>1
  <2> QED BY <1>3, <2>1, <2>2, <2>3
<1>5. \A p : Contains(list, p) <=> p \in ToSet(list)
  BY <1>3, Zenon DEF Contains
<1> QED BY <1>1, <1>2, <1>3, <1>4, <1>5

LEMMA EmptyListed == Listed(<<>>) /\ ToSet(<<>>) = {}
<1>1. <<>> \in Seq(Plugin) /\ DOMAIN <<>> = {}
  BY EmptySeq
<1> QED BY <1>1 DEF Listed, IsInjective, ToSet

\* addRef(): a plugin is added at the end unless it is there.
LEMMA RefAdded ==
  ASSUME NEW list, Listed(list), NEW p \in Plugin
  PROVE  Listed(addRef(list, p)) /\ ToSet(addRef(list, p)) = ToSet(list) \cup {p}
<1>1. list \in Seq(Plugin) /\ IsInjective(list)
  BY DEF Listed
<1>2. CASE p \in ToSet(list)
  BY <1>1, <1>2, Members DEF addRef, Listed
<1>3. CASE p \notin ToSet(list)
  <2> DEFINE new == Append(list, p)
             n == Len(list)
  <2>1. addRef(list, p) = new
    BY <1>1, <1>3, Members DEF addRef
  <2>2. /\ new \in Seq(Plugin) /\ n \in Nat /\ Len(new) = n + 1 /\ new[n + 1] = p
        /\ \A i \in 1..n : new[i] = list[i]
    BY <1>1, AppendProperties, LenProperties
  <2> HIDE DEF new, n
  <2>3. \A i \in 1..(n + 1) : i \in 1..n \/ i = n + 1
    BY <2>2
  <2>4. \A i \in 1..n : list[i] # p /\ list[i] \in ToSet(list) /\ i \in 1..(n + 1)
    BY <1>1, <1>3, <2>2, Members DEF n
  <2>5. \A i, j \in 1..n : list[i] = list[j] => i = j
    BY <1>1, Members DEF IsInjective, n
  <2>6. \A i, j \in 1..(n + 1) : new[i] = new[j] => i = j
    BY <2>2, <2>3, <2>4, <2>5
  <2>7. IsInjective(new)
    BY <2>2, <2>6, Members DEF IsInjective
  <2>8. \A q : q \in ToSet(new) <=> q \in ToSet(list) \cup {p}
    <3>1. \A q : q \in ToSet(new) <=> \E i \in 1..(n + 1) : new[i] = q
      BY <2>2, Members
    <3>2. \A q : q \in ToSet(list) <=> \E i \in 1..n : list[i] = q
      BY <1>1, Members DEF n
    <3>3. n + 1 \in 1..(n + 1)
      BY <2>2
    <3> QED BY <2>2, <2>3, <2>4, <3>1, <3>2, <3>3
  <2> QED BY <2>1, <2>2, <2>7, <2>8 DEF Listed
<1> QED BY <1>2, <1>3

\* registerPlugin(): a plugin is added in front.
LEMMA RefInFront ==
  ASSUME NEW list, Listed(list), NEW p \in Plugin, p \notin ToSet(list)
  PROVE  Listed(<<p>> \o list) /\ ToSet(<<p>> \o list) = ToSet(list) \cup {p}
<1> DEFINE new == <<p>> \o list
           n == Len(list)
<1>1. list \in Seq(Plugin) /\ IsInjective(list) /\ <<p>> \in Seq(Plugin)
  BY DEF Listed
<1>2. /\ new \in Seq(Plugin) /\ n \in Nat /\ Len(new) = n + 1 /\ new[1] = p
      /\ \A i \in 2..(n + 1) : new[i] = list[i - 1]
  <2>1. Len(<<p>>) = 1 /\ <<p>>[1] = p /\ n \in Nat
    BY <1>1, LenProperties
  <2>2. /\ new \in Seq(Plugin) /\ Len(new) = 1 + n
        /\ \A i \in 1..(1 + n) : new[i] = IF i <= 1 THEN <<p>>[i] ELSE list[i - 1]
    BY <1>1, <2>1, ConcatProperties
  <2> HIDE DEF new, n
  <2>3. 1 \in 1..(1 + n) /\ \A i \in 2..(n + 1) : i \in 1..(1 + n) /\ ~(i <= 1)
    BY <2>1
  <2> QED BY <2>1, <2>2, <2>3
<1> HIDE DEF new, n
<1>3. \A i \in 1..(n + 1) : i = 1 \/ (i \in 2..(n + 1) /\ i - 1 \in 1..n)
  BY <1>2
<1>4. \A i \in 1..n : /\ list[i] # p /\ list[i] \in ToSet(list)
                      /\ i + 1 \in 2..(n + 1) /\ i + 1 \in 1..(n + 1) /\ (i + 1) - 1 = i
  <2>1. \A i \in 1..n : list[i] # p /\ list[i] \in ToSet(list)
    BY <1>1, Members DEF n
  <2> QED BY <1>2, <2>1
<1>5. \A i, j \in 1..n : list[i] = list[j] => i = j
  BY <1>1, Members DEF IsInjective, n
<1>6. \A i, j \in 1..(n + 1) : new[i] = new[j] => i = j
  <2> SUFFICES ASSUME NEW i \in 1..(n + 1), NEW j \in 1..(n + 1), new[i] = new[j]
               PROVE  i = j
    OBVIOUS
  <2>1. CASE i = 1 \/ j = 1
    BY <1>2, <1>3, <1>4, <2>1
  <2>2. CASE i # 1 /\ j # 1
    <3>1. i - 1 \in 1..n /\ j - 1 \in 1..n /\ list[i - 1] = list[j - 1]
      BY <1>2, <1>3, <2>2
    <3>2. i - 1 = j - 1
      BY <1>5, <3>1
    <3> QED BY <1>2, <3>2
  <2> QED BY <2>1, <2>2
<1>7. IsInjective(new)
  BY <1>2, <1>6, Members DEF IsInjective
<1>8. \A q : q \in ToSet(new) <=> q \in ToSet(list) \cup {p}
  <2>1. \A q : q \in ToSet(new) <=> \E i \in 1..(n + 1) : new[i] = q
    BY <1>2, Members
  <2>2. \A q : q \in ToSet(list) <=> \E i \in 1..n : list[i] = q
    BY <1>1, Members DEF n
  <2>3. 1 \in 1..(n + 1)
    BY <1>2
  <2>4. \A q : q \in ToSet(list) => q \in ToSet(new)
    <3>1. \A i \in 1..n : new[i + 1] = list[i] /\ i + 1 \in 1..(n + 1)
      BY <1>2, <1>4
    <3> QED BY <2>1, <2>2, <3>1
  <2>5. p \in ToSet(new)
    BY <1>2, <2>1, <2>3
  <2>6. \A i \in 1..(n + 1) : new[i] = p \/ new[i] \in ToSet(list)
    BY <1>2, <1>3, <1>4
  <2> QED BY <2>1, <2>4, <2>5, <2>6
<1> QED BY <1>2, <1>7, <1>8 DEF Listed, new

\* remRef(): a plugin is taken out, wherever it is.
LEMMA RefRemoved ==
  ASSUME NEW list, Listed(list), NEW p \in Plugin
  PROVE  Listed(remRef(list, p)) /\ ToSet(remRef(list, p)) = ToSet(list) \ {p}
<1>1. list \in Seq(Plugin) /\ IsInjective(list)
  BY DEF Listed
<1>2. CASE p \notin ToSet(list)
  BY <1>1, <1>2, Members DEF remRef, Listed
<1>3. CASE p \in ToSet(list)
  <2> DEFINE n == Len(list)
             at == CHOOSE i \in DOMAIN list : list[i] = p
             new == RemoveAt(list, at)
  <2>1. remRef(list, p) = new
    BY <1>1, <1>3, Members DEF remRef
  <2>2. n \in Nat /\ at \in 1..n /\ list[at] = p /\ \A i \in 1..n : list[i] \in Plugin
    BY <1>1, <1>3, Members
  <2> HIDE DEF at
  <2>3. /\ new \in Seq(Plugin) /\ Len(new) = n - 1
        /\ \A i \in 1..(n - 1) : new[i] = IF i < at THEN list[i] ELSE list[i + 1]
    <3> DEFINE a == SubSeq(list, 1, at - 1)
               b == SubSeq(list, at + 1, n)
    <3>1. new = a \o b
      BY DEF RemoveAt
    <3>2. /\ a \in Seq(Plugin) /\ Len(a) = at - 1
          /\ \A i \in 1..(at - 1) : a[i] = list[i]
      <4>1. /\ 1 \in Int /\ at - 1 \in Int /\ \A i \in 1..(at - 1) : i \in 1..n
            /\ (at - 1) - 1 + 1 = at - 1
            /\ (IF 1 <= at - 1 THEN (at - 1) - 1 + 1 ELSE 0) = at - 1
        BY <2>2
      <4>2. /\ a \in Seq(Plugin)
            /\ Len(a) = IF 1 <= at - 1 THEN (at - 1) - 1 + 1 ELSE 0
            /\ \A i \in 1..((at - 1) - 1 + 1) : a[i] = list[1 + i - 1]
        BY <2>2, <4>1, SubSeqProperties
      <4> HIDE DEF a, n
      <4>3. \A i \in 1..(at - 1) : 1 + i - 1 = i
        OBVIOUS
      <4> QED BY <4>1, <4>2, <4>3
    <3>3. /\ b \in Seq(Plugin) /\ Len(b) = n - at
          /\ \A i \in 1..(n - at) : b[i] = list[at + i]
      <4>1. /\ at + 1 \in Int /\ n \in Int /\ \A i \in (at + 1)..n : i \in 1..n
            /\ n - (at + 1) + 1 = n - at
            /\ (IF at + 1 <= n THEN n - (at + 1) + 1 ELSE 0) = n - at
        BY <2>2
      <4>2. /\ b \in Seq(Plugin)
            /\ Len(b) = IF at + 1 <= n THEN n - (at + 1) + 1 ELSE 0
            /\ \A i \in 1..(n - (at + 1) + 1) : b[i] = list[(at + 1) + i - 1]
        <5>1. \A i \in (at + 1)..n : list[i] \in Plugin
          BY <2>2, <4>1
        <5> QED BY <4>1, <5>1, SubSeqProperties
      <4> HIDE DEF b, n
      <4>3. \A i \in 1..(n - at) : (at + 1) + i - 1 = at + i
        BY <2>2
      <4> QED BY <4>1, <4>2, <4>3
    <3> HIDE DEF a, b, new, n
    <3>4. /\ new \in Seq(Plugin) /\ Len(new) = (at - 1) + (n - at)
          /\ \A i \in 1..((at - 1) + (n - at)) :
               new[i] = IF i <= at - 1 THEN a[i] ELSE b[i - (at - 1)]
      BY <3>1, <3>2, <3>3, ConcatProperties
    <3>5. (at - 1) + (n - at) = n - 1
      BY <2>2
    <3>6. ASSUME NEW i \in 1..(n - 1)
          PROVE  new[i] = IF i < at THEN list[i] ELSE list[i + 1]
      <4>1. CASE i < at
        <5>1. i <= at - 1 /\ i \in 1..(at - 1)
          BY <2>2, <4>1
        <5> QED BY <3>2, <3>4, <3>5, <4>1, <5>1
      <4>2. CASE ~(i < at)
        <5>1. ~(i <= at - 1) /\ i - (at - 1) \in 1..(n - at) /\ at + (i - (at - 1)) = i + 1
          BY <2>2, <4>2
        <5> QED BY <3>3, <3>4, <3>5, <4>2, <5>1
      <4> QED BY <4>1, <4>2
    <3> QED BY <3>4, <3>5, <3>6
  <2>4. \A i, j \in 1..n : list[i] = list[j] => i = j
    BY <1>1, Members DEF IsInjective
  <2> HIDE DEF new, n
  <2> DEFINE Old(i) == IF i < at THEN i ELSE i + 1
  <2>5. \A i \in 1..(n - 1) : Old(i) \in 1..n /\ Old(i) # at /\ new[i] = list[Old(i)]
    <3>1. \A i \in 1..(n - 1) : Old(i) \in 1..n /\ Old(i) # at
      BY <2>2
    <3> QED BY <2>3, <3>1
  <2>6. \A i, j \in 1..(n - 1) : Old(i) = Old(j) => i = j
    BY <2>2
  <2>7. \A i \in 1..n : i # at => \E j \in 1..(n - 1) : Old(j) = i
    <3> SUFFICES ASSUME NEW i \in 1..n, i # at PROVE \E j \in 1..(n - 1) : Old(j) = i
      OBVIOUS
    <3>1. CASE i < at
      <4>1. i \in 1..(n - 1) /\ Old(i) = i
        BY <2>2, <3>1
      <4> QED BY <4>1
    <3>2. CASE ~(i < at)
      <4>1. i - 1 \in 1..(n - 1) /\ Old(i - 1) = i
        BY <2>2, <3>2
      <4> QED BY <4>1
    <3> QED BY <3>1, <3>2
  <2> HIDE DEF Old
  <2>8. IsInjective(new)
    <3>1. \A i, j \in 1..(n - 1) : new[i] = new[j] => i = j
      BY <2>4, <2>5, <2>6
    <3> QED BY <2>3, <3>1, Members DEF IsInjective
  <2>9. \A q : q \in ToSet(new) <=> q \in ToSet(list) \ {p}
    <3>1. \A q : q \in ToSet(new) <=> \E i \in 1..(n - 1) : new[i] = q
      BY <2>3, Members
    <3>2. \A q : q \in ToSet(list) <=> \E i \in 1..n : list[i] = q
      BY <1>1, Members DEF n
    <3>3. \A q : q \in ToSet(new) => q \in ToSet(list) /\ q # p
      BY <2>2, <2>4, <2>5, <3>1, <3>2
    <3>4. ASSUME NEW q, q \in ToSet(list), q # p PROVE q \in ToSet(new)
      <4>1. PICK i \in 1..n : list[i] = q
        BY <3>2, <3>4
      <4>2. PICK j \in 1..(n - 1) : Old(j) = i
        BY <2>2, <2>7, <3>4, <4>1
      <4> QED BY <2>5, <3>1, <4>1, <4>2
    <3> QED BY <3>3, <3>4
  <2> QED BY <2>1, <2>3, <2>8, <2>9 DEF Listed
<1> QED BY <1>2, <1>3

-----------------------------------------------------------------------------
(***************************************************************************)
(* The invariant                                                           *)
(***************************************************************************)

\* References, among them those of loaded plugins only, come in pairs.
Linked(l, t, d) ==
  /\ Listed(l)
  /\ \A p \in Plugin : Listed(t[p]) /\ Listed(d[p]) /\ p \notin ToSet(d[p])
  /\ \A p, q \in Plugin : q \in ToSet(t[p]) => p \in ToSet(l) /\ q \in ToSet(l)
  /\ \A p, q \in Plugin : p # q => (q \in ToSet(t[p]) <=> p \in ToSet(d[q]))

\* The other members of a plugin; nothing is left of one that is gone.
Mark(s, p) ==
  /\ s.grace[p] = "marked" /\ s.finalized[p] => s.unload[p]
  /\ s.unload[p] => s.finalized[p]
  /\ s.distance[p] <= Num
  /\ p \notin ToSet(s.list) =>
       /\ s.finalized[p] = FALSE /\ s.unload[p] = FALSE /\ s.grace[p] = "unset"
       /\ s.distance[p] = 0 /\ s.cleared[p] = FALSE

Sound(s) ==
  /\ s \in Structures
  /\ Linked(s.list, s.triggers, s.depends)
  /\ \A p \in Plugin : Mark(s, p)

\* A pair of references is removed, in whichever order.
LEMMA LinksCut ==
  ASSUME NEW l, NEW t, NEW d, Linked(l, t, d), NEW t2, NEW d2,
         NEW p \in Plugin, NEW q \in Plugin, p # q,
         t2[q] = remRef(t[q], p), \A x \in Plugin : x # q => t2[x] = t[x],
         d2[p] = remRef(d[p], q), \A x \in Plugin : x # p => d2[x] = d[x]
  PROVE  Linked(l, t2, d2)
<1>1. /\ Listed(t2[q]) /\ ToSet(t2[q]) = ToSet(t[q]) \ {p}
      /\ Listed(d2[p]) /\ ToSet(d2[p]) = ToSet(d[p]) \ {q}
  BY RefRemoved DEF Linked
<1>2. \A x \in Plugin : /\ ToSet(t2[x]) = IF x = q THEN ToSet(t[q]) \ {p} ELSE ToSet(t[x])
                        /\ ToSet(d2[x]) = IF x = p THEN ToSet(d[p]) \ {q} ELSE ToSet(d[x])
                        /\ Listed(t2[x]) /\ Listed(d2[x])
  BY <1>1 DEF Linked
<1> QED BY <1>2 DEF Linked

\* A plugin's own trigger is removed.
LEMMA LinksSelfCut ==
  ASSUME NEW l, NEW t, NEW d, Linked(l, t, d), NEW t2, NEW p \in Plugin,
         t2[p] = remRef(t[p], p), \A x \in Plugin : x # p => t2[x] = t[x]
  PROVE  Linked(l, t2, d)
<1>1. Listed(t2[p]) /\ ToSet(t2[p]) = ToSet(t[p]) \ {p}
  BY RefRemoved DEF Linked
<1>2. \A x \in Plugin : /\ ToSet(t2[x]) = IF x = p THEN ToSet(t[p]) \ {p} ELSE ToSet(t[x])
                        /\ Listed(t2[x])
  BY <1>1 DEF Linked
<1> QED BY <1>2 DEF Linked

\* A pair of references is added.
Tied(l, t, d, t2, d2, p, q) ==
  /\ Linked(l, t, d) /\ p # q /\ p \in ToSet(l) /\ q \in ToSet(l)
  /\ t2[p] = addRef(t[p], q) /\ \A x \in Plugin : x # p => t2[x] = t[x]
  /\ d2[q] = addRef(d[q], p) /\ \A x \in Plugin : x # q => d2[x] = d[x]

LEMMA LinksTied ==
  ASSUME NEW l, NEW t, NEW d, NEW t2, NEW d2, NEW p \in Plugin, NEW q \in Plugin,
         Tied(l, t, d, t2, d2, p, q)
  PROVE  Linked(l, t2, d2)
<1>1. /\ Listed(t2[p]) /\ ToSet(t2[p]) = ToSet(t[p]) \cup {q}
      /\ Listed(d2[q]) /\ ToSet(d2[q]) = ToSet(d[q]) \cup {p}
  BY RefAdded DEF Linked, Tied
<1>2. \A x \in Plugin : /\ ToSet(t2[x]) = IF x = p THEN ToSet(t[p]) \cup {q} ELSE ToSet(t[x])
                        /\ ToSet(d2[x]) = IF x = q THEN ToSet(d[q]) \cup {p} ELSE ToSet(d[x])
                        /\ Listed(t2[x]) /\ Listed(d2[x])
  BY <1>1 DEF Linked, Tied
<1>3. Linked(l, t, d) /\ p # q /\ p \in ToSet(l) /\ q \in ToSet(l)
  BY DEF Tied
<1> QED BY <1>2, <1>3 DEF Linked

\* A plugin triggers itself.
LEMMA LinksSelfTied ==
  ASSUME NEW l, NEW t, NEW d, Linked(l, t, d), NEW t2, NEW p \in Plugin,
         p \in ToSet(l),
         t2[p] = addRef(t[p], p), \A x \in Plugin : x # p => t2[x] = t[x]
  PROVE  Linked(l, t2, d)
<1>1. Listed(t2[p]) /\ ToSet(t2[p]) = ToSet(t[p]) \cup {p}
  BY RefAdded DEF Linked
<1>2. \A x \in Plugin : /\ ToSet(t2[x]) = IF x = p THEN ToSet(t[p]) \cup {p} ELSE ToSet(t[x])
                        /\ Listed(t2[x])
  BY <1>1 DEF Linked
<1> QED BY <1>2 DEF Linked

\* A plugin without references may come and go.
LEMMA LinksMoved ==
  ASSUME NEW l, NEW t, NEW d, Linked(l, t, d), NEW p \in Plugin,
         ToSet(t[p]) = {}, ToSet(d[p]) = {}, NEW l2, Listed(l2),
         ToSet(l) \ {p} \subseteq ToSet(l2)
  PROVE  Linked(l2, t, d)
<1>1. \A x \in Plugin : x # p => p \notin ToSet(t[x])
  BY DEF Linked
<1> QED BY <1>1 DEF Linked

\* Nobody refers to a plugin that is not loaded, nor does it.
LEMMA Unreferenced ==
  ASSUME NEW l, NEW t, NEW d, Linked(l, t, d), NEW p \in Plugin, p \notin ToSet(l)
  PROVE  ToSet(t[p]) = {} /\ ToSet(d[p]) = {}
<1>1. ToSet(t[p]) \subseteq Plugin /\ ToSet(d[p]) \subseteq Plugin
  BY Members DEF Linked, Listed
<1>2. \A q \in Plugin : q \notin ToSet(t[p]) /\ q \notin ToSet(d[p])
  BY DEF Linked
<1> QED BY <1>1, <1>2

-----------------------------------------------------------------------------
(***************************************************************************)
(* What the operations change                                              *)
(***************************************************************************)

Marked(s) == s \in Structures /\ \A p \in Plugin : Mark(s, p)

LEMMA Fields ==
  ASSUME NEW s \in Structures
  PROVE  /\ s = [list |-> s.list, triggers |-> s.triggers, depends |-> s.depends,
                 finalized |-> s.finalized, unload |-> s.unload, grace |-> s.grace,
                 distance |-> s.distance, cleared |-> s.cleared]
         /\ s.list \in Seq(Plugin)
         /\ s.triggers \in [Plugin -> Seq(Plugin)]
         /\ s.depends \in [Plugin -> Seq(Plugin)]
         /\ s.finalized \in [Plugin -> BOOLEAN] /\ s.unload \in [Plugin -> BOOLEAN]
         /\ s.grace \in [Plugin -> {"unset", "marked", "running", "over"}]
         /\ s.distance \in [Plugin -> Nat] /\ s.cleared \in [Plugin -> BOOLEAN]
BY DEF Structures

\* Nothing changes but that p, perhaps, is on its way out.
Sent(s, u, p) ==
  /\ u.list = s.list /\ u.triggers = s.triggers /\ u.depends = s.depends
  /\ u.distance = s.distance /\ u.cleared = s.cleared
  /\ \A q \in Plugin : q # p => /\ u.finalized[q] = s.finalized[q]
                                /\ u.unload[q] = s.unload[q]
                                /\ u.grace[q] = s.grace[q]
  /\ s.finalized[p] => u.finalized[p]
  /\ s.unload[p] => u.unload[p]

\* finalizePlugin() if it does something.
Finalized(s, p) ==
  [s EXCEPT
     !.finalized[p] = TRUE,
     !.unload[p] = @ \/ p \notin Async,
     !.grace[p] = IF p \notin Async \/ @ = "unset" THEN @ ELSE "running"]

LEMMA FinalizedMarked ==
  ASSUME NEW s, Marked(s), NEW p \in Plugin, p \in ToSet(s.list)
  PROVE  /\ Marked(Finalized(s, p)) /\ Sent(s, Finalized(s, p), p)
         /\ Finalized(s, p).finalized[p] = TRUE
<1> DEFINE u == Finalized(s, p)
           fin == [s.finalized EXCEPT ![p] = TRUE]
           unl == [s.unload EXCEPT ![p] = s.unload[p] \/ p \notin Async]
           gra == [s.grace EXCEPT ![p] = IF p \notin Async \/ s.grace[p] = "unset"
                                         THEN s.grace[p] ELSE "running"]
<1>1. s \in Structures /\ \A q \in Plugin : Mark(s, q)
  BY DEF Marked
<1>2. /\ u \in Structures
      /\ u.list = s.list /\ u.triggers = s.triggers /\ u.depends = s.depends
      /\ u.finalized = fin /\ u.unload = unl /\ u.grace = gra
      /\ u.distance = s.distance /\ u.cleared = s.cleared
  BY <1>1 DEF Finalized, Structures
<1>3. /\ fin \in [Plugin -> BOOLEAN] /\ unl \in [Plugin -> BOOLEAN]
      /\ gra \in [Plugin -> {"unset", "marked", "running", "over"}]
      /\ fin[p] = TRUE /\ unl[p] = (s.unload[p] \/ p \notin Async)
      /\ gra[p] = IF p \notin Async \/ s.grace[p] = "unset" THEN s.grace[p] ELSE "running"
      /\ \A q \in Plugin : q # p => /\ fin[q] = s.finalized[q] /\ unl[q] = s.unload[q]
                                    /\ gra[q] = s.grace[q]
  BY <1>1, Fields
<1> HIDE DEF u, fin, unl, gra
<1>4. \A q \in Plugin : Mark(u, q)
  BY <1>1, <1>2, <1>3 DEF Mark
<1>5. Sent(s, u, p) /\ u.finalized[p] = TRUE
  BY <1>2, <1>3 DEF Sent
<1> QED BY <1>2, <1>4, <1>5 DEF u, Marked

LEMMA FinalizeMarked ==
  ASSUME NEW s, Marked(s), NEW p \in Plugin, p \in ToSet(s.list)
  PROVE  /\ Marked(finalizePlugin(s, p)) /\ Sent(s, finalizePlugin(s, p), p)
         /\ s.triggers[p] # <<>> => finalizePlugin(s, p) = s
         /\ s.triggers[p] = <<>> => finalizePlugin(s, p).finalized[p] = TRUE
<1>1. finalizePlugin(s, p) = IF s.finalized[p] \/ s.triggers[p] # <<>> THEN s
                             ELSE Finalized(s, p)
  BY Zenon DEF finalizePlugin, Finalized
<1>2. Sent(s, s, p)
  BY DEF Sent
<1>3. s.finalized[p] \in BOOLEAN
  BY Fields DEF Marked
<1> QED BY <1>1, <1>2, <1>3, FinalizedMarked

\* unloadPlugin() of a plugin that is finalized.
LEMMA UnloadMarked ==
  ASSUME NEW s, Marked(s), NEW p \in Plugin, p \in ToSet(s.list), s.finalized[p]
  PROVE  /\ Marked(unloadPlugin(s, p)) /\ Sent(s, unloadPlugin(s, p), p)
         /\ unloadPlugin(s, p).unload[p] = TRUE
<1> DEFINE u == unloadPlugin(s, p)
           unl == [s.unload EXCEPT ![p] = TRUE]
<1>1. s \in Structures /\ \A q \in Plugin : Mark(s, q)
  BY DEF Marked
<1>2. finalizePlugin(s, p) = s
  BY Zenon DEF finalizePlugin
<1>3. /\ u \in Structures
      /\ u.list = s.list /\ u.triggers = s.triggers /\ u.depends = s.depends
      /\ u.finalized = s.finalized /\ u.unload = unl /\ u.grace = s.grace
      /\ u.distance = s.distance /\ u.cleared = s.cleared
  BY <1>1, <1>2 DEF unloadPlugin, Structures
<1>4. /\ unl \in [Plugin -> BOOLEAN] /\ unl[p] = TRUE
      /\ \A q \in Plugin : q # p => unl[q] = s.unload[q]
  BY <1>1, Fields
<1> HIDE DEF u, unl
<1>5. \A q \in Plugin : Mark(u, q)
  BY <1>1, <1>3, <1>4 DEF Mark
<1>6. Sent(s, u, p) /\ u.unload[p] = TRUE
  BY <1>3, <1>4 DEF Sent
<1> QED BY <1>3, <1>5, <1>6 DEF u, Marked

\* remTrigger(): p has lost the trigger t and is, perhaps, on its way out.
Detached(s, u, p, t) ==
  /\ u.list = s.list /\ u.depends = s.depends
  /\ u.distance = s.distance /\ u.cleared = s.cleared
  /\ u.triggers[p] = remRef(s.triggers[p], t)
  /\ \A q \in Plugin : q # p => /\ u.triggers[q] = s.triggers[q]
                                /\ u.finalized[q] = s.finalized[q]
                                /\ u.unload[q] = s.unload[q]
                                /\ u.grace[q] = s.grace[q]
  /\ s.finalized[p] => u.finalized[p]
  /\ s.unload[p] => u.unload[p]
  /\ u.triggers[p] # <<>> =>
       u.finalized[p] = s.finalized[p] /\ u.unload[p] = s.unload[p]

LEMMA TriggerRemoved ==
  ASSUME NEW s, Marked(s), NEW p \in Plugin, NEW t \in Plugin,
         p \in ToSet(s.list), Listed(s.triggers[p])
  PROVE  Marked(remTrigger(s, p, t)) /\ Detached(s, remTrigger(s, p, t), p, t)
<1>1. s \in Structures /\ \A q \in Plugin : Mark(s, q)
  BY DEF Marked
<1>2. CASE ~ Contains(s.triggers[p], t)
  <2>1. remTrigger(s, p, t) = s /\ remRef(s.triggers[p], t) = s.triggers[p]
    BY <1>2, Zenon DEF remTrigger, remRef
  <2> QED BY <2>1 DEF Detached
<1>3. CASE Contains(s.triggers[p], t)
  <2> DEFINE m == [s EXCEPT !.triggers[p] = remRef(s.triggers[p], t)]
             u == finalizePlugin(m, p)
  <2>1. remTrigger(s, p, t) = u
    BY <1>3, Zenon DEF remTrigger
  <2>2. remRef(s.triggers[p], t) \in Seq(Plugin)
    BY RefRemoved DEF Listed
  <2>3. /\ m \in Structures /\ m.list = s.list /\ m.depends = s.depends
        /\ m.triggers = [s.triggers EXCEPT ![p] = remRef(s.triggers[p], t)]
        /\ m.finalized = s.finalized /\ m.unload = s.unload /\ m.grace = s.grace
        /\ m.distance = s.distance /\ m.cleared = s.cleared
    BY <1>1, <2>2 DEF Structures
  <2>4. /\ m.triggers[p] = remRef(s.triggers[p], t)
        /\ \A q \in Plugin : q # p => m.triggers[q] = s.triggers[q]
    BY <1>1, <2>3, Fields
  <2> HIDE DEF m
  <2>5. Marked(m)
    BY <1>1, <2>3 DEF Marked, Mark
  <2>6. Marked(u) /\ Sent(m, u, p) /\ (m.triggers[p] # <<>> => u = m)
    BY <2>3, <2>5, FinalizeMarked
  <2> HIDE DEF u
  <2>7. Detached(s, u, p, t)
    BY <2>3, <2>4, <2>6 DEF Sent, Detached
  <2> QED BY <2>1, <2>6, <2>7
<1> QED BY <1>2, <1>3

\* remDepend()
LEMMA DependRemoved ==
  ASSUME NEW s, Marked(s), NEW p \in Plugin, NEW d \in Plugin, Listed(s.depends[p])
  PROVE  LET u == remDepend(s, p, d)
         IN  /\ Marked(u)
             /\ u.list = s.list /\ u.triggers = s.triggers
             /\ u.finalized = s.finalized /\ u.unload = s.unload /\ u.grace = s.grace
             /\ u.distance = s.distance /\ u.cleared = s.cleared
             /\ u.depends[p] = remRef(s.depends[p], d)
             /\ \A q \in Plugin : q # p => u.depends[q] = s.depends[q]
<1> DEFINE u == remDepend(s, p, d)
<1>1. s \in Structures /\ \A q \in Plugin : Mark(s, q)
  BY DEF Marked
<1>2. remRef(s.depends[p], d) \in Seq(Plugin)
  BY RefRemoved DEF Listed
<1>3. /\ u \in Structures /\ u.list = s.list /\ u.triggers = s.triggers
      /\ u.finalized = s.finalized /\ u.unload = s.unload /\ u.grace = s.grace
      /\ u.distance = s.distance /\ u.cleared = s.cleared
      /\ u.depends = [s.depends EXCEPT ![p] = remRef(s.depends[p], d)]
  BY <1>1, <1>2 DEF remDepend, Structures
<1> HIDE DEF u
<1>4. Marked(u)
  BY <1>1, <1>3 DEF Marked, Mark
<1>5. /\ u.depends[p] = remRef(s.depends[p], d)
      /\ \A q \in Plugin : q # p => u.depends[q] = s.depends[q]
  BY <1>1, <1>3, Fields
<1> QED BY <1>3, <1>4, <1>5 DEF u

\* Both references between p and q are removed, from the side of p, which
\* depends on q, or from the side of q.
CutBetween(s, u, p, q) ==
  /\ u.list = s.list /\ u.distance = s.distance /\ u.cleared = s.cleared
  /\ u.triggers[q] = remRef(s.triggers[q], p)
  /\ \A x \in Plugin : x # q => /\ u.triggers[x] = s.triggers[x]
                                /\ u.finalized[x] = s.finalized[x]
                                /\ u.unload[x] = s.unload[x]
                                /\ u.grace[x] = s.grace[x]
  /\ u.triggers[q] # <<>> =>
       u.finalized[q] = s.finalized[q] /\ u.unload[q] = s.unload[q]
  /\ s.finalized[q] => u.finalized[q]
  /\ s.unload[q] => u.unload[q]
  /\ u.depends[p] = remRef(s.depends[p], q)
  /\ \A x \in Plugin : x # p => u.depends[x] = s.depends[x]

LEMMA CutFromBelow ==
  ASSUME NEW s, Sound(s), NEW p \in Plugin, NEW q \in Plugin, p # q,
         q \in ToSet(s.list)
  PROVE  LET u == remDepend(remTrigger(s, q, p), p, q)
         IN  Sound(u) /\ CutBetween(s, u, p, q)
<1> DEFINE m == remTrigger(s, q, p)
           u == remDepend(m, p, q)
<1>1. Linked(s.list, s.triggers, s.depends) /\ Marked(s)
  BY DEF Sound, Marked
<1>2. Marked(m) /\ Detached(s, m, q, p)
  BY <1>1, TriggerRemoved DEF Linked
<1> HIDE DEF m
<1>3. Listed(m.depends[p])
  BY <1>1, <1>2 DEF Detached, Linked
<1>4. /\ Marked(u)
      /\ u.list = m.list /\ u.triggers = m.triggers
      /\ u.finalized = m.finalized /\ u.unload = m.unload /\ u.grace = m.grace
      /\ u.distance = m.distance /\ u.cleared = m.cleared
      /\ u.depends[p] = remRef(m.depends[p], q)
      /\ \A x \in Plugin : x # p => u.depends[x] = m.depends[x]
  BY <1>2, <1>3, DependRemoved
<1> HIDE DEF u
<1>5. CutBetween(s, u, p, q)
  BY <1>2, <1>4 DEF Detached, CutBetween
<1>6. Linked(s.list, u.triggers, u.depends)
  <2>1. /\ u.triggers[q] = remRef(s.triggers[q], p)
        /\ \A x \in Plugin : x # q => u.triggers[x] = s.triggers[x]
        /\ u.depends[p] = remRef(s.depends[p], q)
        /\ \A x \in Plugin : x # p => u.depends[x] = s.depends[x]
    BY <1>5 DEF CutBetween
  <2> QED BY <1>1, <2>1, LinksCut
<1>7. Sound(u)
  BY <1>4, <1>5, <1>6 DEF Sound, Marked, CutBetween
<1> QED BY <1>5, <1>7 DEF u, m

LEMMA CutFromAbove ==
  ASSUME NEW s, Sound(s), NEW p \in Plugin, NEW q \in Plugin, p # q,
         q \in ToSet(s.list)
  PROVE  LET u == remTrigger(remDepend(s, p, q), q, p)
         IN  Sound(u) /\ CutBetween(s, u, p, q)
<1> DEFINE m == remDepend(s, p, q)
           u == remTrigger(m, q, p)
<1>1. Linked(s.list, s.triggers, s.depends) /\ Marked(s) /\ Listed(s.depends[p])
  BY DEF Sound, Marked, Linked
<1>2. /\ Marked(m)
      /\ m.list = s.list /\ m.triggers = s.triggers
      /\ m.finalized = s.finalized /\ m.unload = s.unload /\ m.grace = s.grace
      /\ m.distance = s.distance /\ m.cleared = s.cleared
      /\ m.depends[p] = remRef(s.depends[p], q)
      /\ \A x \in Plugin : x # p => m.depends[x] = s.depends[x]
  BY <1>1, DependRemoved
<1> HIDE DEF m
<1>3. Listed(m.triggers[q]) /\ q \in ToSet(m.list)
  BY <1>1, <1>2 DEF Linked
<1>4. Marked(u) /\ Detached(m, u, q, p)
  BY <1>2, <1>3, TriggerRemoved
<1> HIDE DEF u
<1>5. CutBetween(s, u, p, q)
  BY <1>2, <1>4 DEF Detached, CutBetween
<1>6. Linked(s.list, u.triggers, u.depends)
  <2>1. /\ u.triggers[q] = remRef(s.triggers[q], p)
        /\ \A x \in Plugin : x # q => u.triggers[x] = s.triggers[x]
        /\ u.depends[p] = remRef(s.depends[p], q)
        /\ \A x \in Plugin : x # p => u.depends[x] = s.depends[x]
    BY <1>5 DEF CutBetween
  <2> QED BY <1>1, <2>1, LinksCut
<1>7. Sound(u)
  BY <1>4, <1>5, <1>6 DEF Sound, Marked, CutBetween
<1> QED BY <1>5, <1>7 DEF u, m

\* The loop of doUnload().
EachReleased(p, c, list) ==
  LET after[k \in 0..Len(list)] ==
        IF k = 0 THEN c ELSE remDepend(remTrigger(after[k - 1], list[k], p), p, list[k])
  IN  after[Len(list)]

\* The values of its variable, after each turn.
ReleasedTurns(p, c, list, S, a) ==
  /\ a[0] = c /\ \A k \in 0..Len(list) : a[k] \in S
  /\ \A k \in 1..Len(list) : a[k] = remDepend(remTrigger(a[k - 1], list[k], p), p, list[k])
  /\ EachReleased(p, c, list) = a[Len(list)]

LEMMA ReleasedLoop ==
  ASSUME NEW p, NEW S, NEW M, NEW c \in S, NEW list \in Seq(M),
         \A t \in S, x \in M : remDepend(remTrigger(t, x, p), p, x) \in S
  PROVE  \E a : ReleasedTurns(p, c, list, S, a)
<1> DEFINE F == [z \in S \X M |-> remDepend(remTrigger(z[1], z[2], p), p, z[2])]
           after[k \in 0..Len(list)] ==
             IF k = 0 THEN c ELSE remDepend(remTrigger(after[k - 1], list[k], p), p, list[k])
<1>1. /\ F \in [S \X M -> S]
      /\ \A t \in S, x \in M : F[<<t, x>>] = remDepend(remTrigger(t, x, p), p, x)
  OBVIOUS
<1>2. Len(list) \in Nat /\ \A i \in 1..Len(list) : list[i] \in M
  BY LenProperties, ElementOfSeq
<1> HIDE DEF F
<1>3. PICK a : Turns(a, Len(list), c, list, F) /\ \A k \in 0..Len(list) : a[k] \in S
  BY <1>1, LoopEnds
<1>4. a = [k \in 0..Len(list) |->
             IF k = 0 THEN c ELSE remDepend(remTrigger(a[k - 1], list[k], p), p, list[k])]
  <2>1. \A k \in 0..Len(list) :
          k # 0 => F[<<a[k - 1], list[k]>>] = remDepend(remTrigger(a[k - 1], list[k], p), p, list[k])
    <3>1. \A k \in 0..Len(list) : k # 0 => k - 1 \in 0..Len(list) /\ k \in 1..Len(list)
      BY <1>2
    <3> QED BY <1>1, <1>2, <1>3, <3>1
  <2> QED BY <1>3, <2>1 DEF Turns
<1>5. after = [k \in 0..Len(list) |->
                 IF k = 0 THEN c ELSE remDepend(remTrigger(after[k - 1], list[k], p), p, list[k])]
  BY <1>4, Zenon
<1>6. EachReleased(p, c, list) = after[Len(list)]
  BY Zenon DEF EachReleased
<1> HIDE DEF after
<1>7. after[0] = c /\ \A k \in 1..Len(list) : after[k] = remDepend(remTrigger(after[k - 1], list[k], p), p, list[k])
  BY <1>2, <1>5
<1>8. \A k \in 0..Len(list) : after[k] \in S
  <2>1. \A k \in 1..Len(list) : after[k - 1] \in S => after[k] \in S
    BY <1>2, <1>7
  <2> QED BY <1>2, <1>7, <2>1, LoopKeeps
<1> QED BY <1>6, <1>7, <1>8 DEF ReleasedTurns

LEMMA ReleasedIs ==
  ASSUME NEW s, NEW p
  PROVE  Released(s, p) = EachReleased(p, s, s.depends[p])
BY Zenon DEF Released, ForEach, EachReleased

\* What holds at first and is kept by each turn, holds after each turn.
LEMMA LoopReaches ==
  ASSUME NEW n \in Nat, NEW B \in [0..n -> BOOLEAN], B[0],
         \A k \in 1..n : B[k - 1] => B[k]
  PROVE  \A k \in 0..n : B[k]
<1>1. \A k \in 1..n : k - 1 \in 0..n /\ k \in 0..n
  OBVIOUS
<1>2. B[0] \in {TRUE} /\ \A k \in 1..n : B[k - 1] \in {TRUE} => B[k] \in {TRUE}
  BY <1>1
<1>3. \A k \in 0..n : B[k] \in {TRUE}
  BY <1>2, LoopKeeps
<1> QED BY <1>3

\* A list whose members lie in a set is a sequence over that set.
LEMMA SeqWithin ==
  ASSUME NEW list \in Seq(Plugin), NEW M, ToSet(list) \subseteq M
  PROVE  list \in Seq(M)
<1>1. /\ Len(list) \in Nat /\ DOMAIN list = 1..Len(list)
      /\ \A i \in 1..Len(list) : list[i] \in M
  BY Members
<1>2. list \in [1..Len(list) -> Plugin]
  BY LenProperties
<1>3. list \in [1..Len(list) -> M]
  BY <1>1, <1>2
<1>4. list \in UNION {[1..k -> M] : k \in Nat}
  BY <1>1, <1>3, Zenon
<1> QED BY <1>4, SeqDef, Zenon

\* A plugin on its way out is triggered by nobody.  This takes dependencies
\* without loops: a plugin that fails to load keeps the triggers of a loop.
Clean(s) == \A p \in Plugin : s.finalized[p] => s.triggers[p] = <<>>

\* Triggers become fewer, and a plugin that keeps one is not finalized.
Fewer(s, u) ==
  \A x \in Plugin :
    /\ ToSet(u.triggers[x]) \subseteq ToSet(s.triggers[x])
    /\ u.triggers[x] # <<>> => u.finalized[x] = s.finalized[x]

LEMMA FewerClean ==
  ASSUME NEW s, NEW u, Sound(s), Sound(u), Fewer(s, u), Clean(s)
  PROVE  Clean(u)
<1>1. SUFFICES ASSUME NEW x \in Plugin, u.finalized[x], u.triggers[x] # <<>>
               PROVE  FALSE
  BY DEF Clean
<1>2. s.finalized[x] /\ s.triggers[x] = <<>>
  BY <1>1 DEF Clean, Fewer
<1>3. ToSet(u.triggers[x]) = {}
  BY <1>2, EmptyListed DEF Fewer
<1>4. u.triggers[x] \in Seq(Plugin)
  BY DEF Sound, Linked, Listed
<1> QED BY <1>1, <1>3, <1>4, Members

LEMMA FewerTransitive ==
  ASSUME NEW s, NEW t, NEW u, Sound(s), Sound(t), Sound(u), Fewer(s, t), Fewer(t, u)
  PROVE  Fewer(s, u)
<1> SUFFICES ASSUME NEW x \in Plugin
             PROVE  /\ ToSet(u.triggers[x]) \subseteq ToSet(s.triggers[x])
                    /\ u.triggers[x] # <<>> => u.finalized[x] = s.finalized[x]
  BY DEF Fewer
<1>1. ToSet(u.triggers[x]) \subseteq ToSet(t.triggers[x])
      /\ ToSet(t.triggers[x]) \subseteq ToSet(s.triggers[x])
  BY DEF Fewer
<1>2. u.triggers[x] \in Seq(Plugin) /\ t.triggers[x] \in Seq(Plugin)
  BY DEF Sound, Linked, Listed
<1>3. u.triggers[x] # <<>> => t.triggers[x] # <<>>
  <2>1. u.triggers[x] # <<>> => ToSet(u.triggers[x]) # {}
    BY <1>2, Members
  <2>2. t.triggers[x] = <<>> => ToSet(t.triggers[x]) = {}
    BY <1>2, Members
  <2> QED BY <1>1, <2>1, <2>2
<1>4. /\ u.triggers[x] # <<>> => u.finalized[x] = t.finalized[x]
      /\ t.triggers[x] # <<>> => t.finalized[x] = s.finalized[x]
  BY Zenon DEF Fewer
<1>5. ToSet(u.triggers[x]) \subseteq ToSet(s.triggers[x])
  BY <1>1, Zenon
<1> QED BY <1>3, <1>4, <1>5, Zenon

\* A plugin loses the trigger of another one only if that one is on its way out,
\* or gone.
Kept(s, u) ==
  /\ ToSet(u.list) \subseteq ToSet(s.list)
  /\ \A x \in Plugin : s.finalized[x] /\ x \in ToSet(u.list) => u.finalized[x]
  /\ \A x, y \in Plugin :
       x # y /\ y \in ToSet(s.triggers[x]) /\ y \notin ToSet(u.triggers[x])
         => y \notin ToSet(u.list) \/ u.finalized[y]

\* A plugin some walk has met but not cleared.
Unsettled(s, x) == s.distance[x] > 0 /\ ~ s.cleared[x]

\* What does not walk up the triggers takes references and plugins, no more.
Gentle(s, u) ==
  /\ Fewer(s, u) /\ Kept(s, u)
  /\ \A x \in Plugin : Unsettled(u, x) => Unsettled(s, x)

\* Numbers that show that no plugin depends on itself.
Ranked(rank) == \A p, q \in Plugin : q \in ToSet(requires[p]) => rank[q] < rank[p]

\* References lead from a plugin to those that need it.
Climbs(rank, s) ==
  \A x, y \in Plugin : x # y /\ y \in ToSet(s.triggers[x]) => rank[x] < rank[y]

\* All plugins of rank n and above that a walk has met are cleared.
SettledFrom(rank, s, n) == \A x \in Plugin : rank[x] >= n => ~ Unsettled(s, x)

\* A walk from p has cleared it, and has not met any plugin below.
Ascends(rank, s, u, p) ==
  /\ SettledFrom(rank, u, rank[p]) /\ u.cleared[p]
  /\ \A x \in Plugin : rank[x] < rank[p] =>
       u.distance[x] = s.distance[x] /\ u.cleared[x] = s.cleared[x]

LEMMA KeptTransitive ==
  ASSUME NEW s, NEW t, NEW u, Kept(s, t), Kept(t, u)
  PROVE  Kept(s, u)
<1>1. ToSet(u.list) \subseteq ToSet(t.list) /\ ToSet(t.list) \subseteq ToSet(s.list)
  BY DEF Kept
<1>2. ASSUME NEW x \in Plugin, s.finalized[x], x \in ToSet(u.list) PROVE u.finalized[x]
  BY <1>1, <1>2 DEF Kept
<1>3. ASSUME NEW x \in Plugin, NEW y \in Plugin, x # y,
             y \in ToSet(s.triggers[x]), y \notin ToSet(u.triggers[x])
      PROVE  y \notin ToSet(u.list) \/ u.finalized[y]
  <2>1. CASE y \in ToSet(t.triggers[x])
    BY <1>3, <2>1 DEF Kept
  <2>2. CASE y \notin ToSet(t.triggers[x])
    <3>1. y \notin ToSet(t.list) \/ t.finalized[y]
      BY <1>3, <2>2 DEF Kept
    <3> QED BY <1>1, <3>1 DEF Kept
  <2> QED BY <2>1, <2>2
<1> QED BY <1>1, <1>2, <1>3 DEF Kept

LEMMA GentleTransitive ==
  ASSUME NEW s, NEW t, NEW u, Sound(s), Sound(t), Sound(u), Gentle(s, t), Gentle(t, u)
  PROVE  Gentle(s, u)
<1>1. Fewer(s, u)
  BY FewerTransitive DEF Gentle
<1>2. Kept(s, u)
  BY KeptTransitive DEF Gentle
<1> QED BY <1>1, <1>2 DEF Gentle

LEMMA KeptSame ==
  ASSUME NEW s, NEW u, u.list = s.list, u.triggers = s.triggers, u.finalized = s.finalized
  PROVE  Kept(s, u)
BY DEF Kept

LEMMA FewerClimbs ==
  ASSUME NEW rank, NEW s, NEW u, Fewer(s, u), Climbs(rank, s)
  PROVE  Climbs(rank, u)
BY DEF Fewer, Climbs

\* Between two walks, with dependencies that have no loops.
Steady(rank, s) == Climbs(rank, s) /\ \A x \in Plugin : ~ Unsettled(s, x)

LEMMA GentleSteady ==
  ASSUME NEW rank, NEW s, NEW u, Gentle(s, u), Steady(rank, s)
  PROVE  Steady(rank, u)
BY FewerClimbs DEF Gentle, Steady

LEMMA AscendsSteady ==
  ASSUME NEW rank \in [Plugin -> Nat], NEW s, NEW u, NEW p \in Plugin,
         Steady(rank, s), Fewer(s, u), Kept(s, u), Ascends(rank, s, u, p)
  PROVE  Gentle(s, u)
<1>1. ASSUME NEW x \in Plugin PROVE ~ Unsettled(u, x)
  <2>1. CASE rank[x] >= rank[p]
    BY <2>1 DEF Ascends, SettledFrom
  <2>2. CASE rank[x] < rank[p]
    BY <2>2 DEF Ascends, Steady, Unsettled
  <2> QED BY <2>1, <2>2
<1> QED BY <1>1 DEF Gentle

LEMMA GentleSame ==
  ASSUME NEW s, NEW u, u.list = s.list, u.triggers = s.triggers, u.finalized = s.finalized,
         u.distance = s.distance, u.cleared = s.cleared
  PROVE  Gentle(s, u)
BY DEF Gentle, Fewer, Kept, Unsettled

LEMMA CutFewer ==
  ASSUME NEW s, NEW u, Sound(s), NEW p \in Plugin, NEW q \in Plugin, p # q,
         CutBetween(s, u, p, q)
  PROVE  /\ Fewer(s, u)
         /\ ToSet(u.triggers[q]) = ToSet(s.triggers[q]) \ {p}
         /\ ToSet(u.depends[p]) = ToSet(s.depends[p]) \ {q}
         /\ \A x \in Plugin : s.unload[x] => u.unload[x]
         /\ s.finalized[p] => Gentle(s, u)
<1>1. Listed(s.triggers[q]) /\ Listed(s.depends[p])
  BY DEF Sound, Linked
<1>2. /\ ToSet(u.triggers[q]) = ToSet(s.triggers[q]) \ {p}
      /\ ToSet(u.depends[p]) = ToSet(s.depends[p]) \ {q}
  BY <1>1, RefRemoved DEF CutBetween
<1>3. Fewer(s, u) /\ \A x \in Plugin : s.unload[x] => u.unload[x]
  BY <1>2 DEF CutBetween, Fewer
<1>4. ASSUME s.finalized[p] PROVE Kept(s, u)
  <2>1. /\ u.list = s.list /\ u.finalized[p] = s.finalized[p]
        /\ \A x \in Plugin : s.finalized[x] => u.finalized[x]
    BY DEF CutBetween
  <2>2. \A x \in Plugin : x # q => u.triggers[x] = s.triggers[x]
    BY DEF CutBetween
  <2> QED BY <1>2, <1>4, <2>1, <2>2 DEF Kept
<1>5. \A x \in Plugin : Unsettled(u, x) => Unsettled(s, x)
  BY DEF CutBetween, Unsettled
<1> QED BY <1>2, <1>3, <1>4, <1>5 DEF Gentle

\* doUnload(): p leaves all it depended on.
LEMMA ReleasedSound ==
  ASSUME NEW s, Sound(s), NEW p \in Plugin, s.triggers[p] = <<>>,
         s.finalized[p], p \in ToSet(s.list)
  PROVE  LET u == Released(s, p)
         IN  /\ Sound(u) /\ Gentle(s, u)
             /\ u.list = s.list /\ u.triggers[p] = <<>> /\ u.depends[p] = <<>>
<1> DEFINE deps == s.depends[p]
           M == {q \in Plugin : q # p /\ q \in ToSet(s.list)}
           Good(t) == /\ Sound(t) /\ Gentle(s, t) /\ t.list = s.list
                      /\ t.triggers[p] = <<>>
                      /\ ToSet(t.depends[p]) \subseteq ToSet(deps)
           S == {t \in Structures : Good(t)}
           u == Released(s, p)
<1>1. /\ deps \in Seq(Plugin) /\ ToSet(deps) \subseteq M
  <2>1. deps \in Seq(Plugin) /\ p \notin ToSet(deps)
    BY DEF Sound, Linked, Listed
  <2>2. ToSet(deps) \subseteq Plugin
    BY <2>1, Members
  <2>3. \A q \in ToSet(deps) : q \in ToSet(s.list)
    BY <2>1, <2>2 DEF Sound, Linked
  <2> QED BY <2>1, <2>2, <2>3
<1>2. deps \in Seq(M)
  BY <1>1, SeqWithin
<1>3. s \in S
  BY GentleSame DEF Sound
<1>4. ASSUME NEW t \in S, NEW q \in M
      PROVE  LET v == remDepend(remTrigger(t, q, p), p, q)
             IN  v \in S /\ ToSet(v.depends[p]) = ToSet(t.depends[p]) \ {q}
  <2> DEFINE v == remDepend(remTrigger(t, q, p), p, q)
  <2>1. Sound(t) /\ q \in Plugin /\ p # q /\ q \in ToSet(t.list)
    OBVIOUS
  <2>2. Sound(v) /\ CutBetween(t, v, p, q)
    BY <2>1, CutFromBelow
  <2> HIDE DEF v
  <2>3. t.finalized[p]
    <3>1. Kept(s, t) /\ p \in ToSet(t.list)
      BY <2>1 DEF Gentle
    <3> QED BY <3>1 DEF Kept
  <2>4. Gentle(t, v) /\ ToSet(v.depends[p]) = ToSet(t.depends[p]) \ {q}
    BY <2>1, <2>2, <2>3, CutFewer
  <2>5. Gentle(s, v)
    BY <2>1, <2>2, <2>4, GentleTransitive
  <2>6. v \in Structures /\ v.list = s.list /\ v.triggers[p] = <<>>
    BY <2>1, <2>2 DEF Sound, CutBetween
  <2>7. Good(v)
    BY <2>2, <2>4, <2>5, <2>6
  <2>8. v \in S
    BY <2>6, <2>7
  <2> QED BY <2>4, <2>8 DEF v
<1> HIDE DEF M, deps, S
<1>5. PICK a : ReleasedTurns(p, s, deps, S, a)
  <2>1. \A t \in S, x \in M : remDepend(remTrigger(t, x, p), p, x) \in S
    BY <1>4, Zenon
  <2> QED BY <1>2, <1>3, <2>1, ReleasedLoop, Zenon
<1>6. Len(deps) \in Nat /\ \A k \in 1..Len(deps) : deps[k] \in M /\ k - 1 \in 0..Len(deps)
  BY <1>2, LenProperties, ElementOfSeq
<1> DEFINE Left(k) == \A j \in 1..k : deps[j] \notin ToSet(a[k].depends[p])
           B == [k \in 0..Len(deps) |-> Left(k)]
<1>7. \A k \in 0..Len(deps) : Left(k)
  <2>1. Left(0)
    OBVIOUS
  <2>2. ASSUME NEW k \in 1..Len(deps), Left(k - 1) PROVE Left(k)
    <3>1. ToSet(a[k].depends[p]) = ToSet(a[k - 1].depends[p]) \ {deps[k]}
      BY <1>4, <1>5, <1>6 DEF ReleasedTurns
    <3>2. \A j \in 1..k : j \in 1..(k - 1) \/ j = k
      BY <1>6
    <3> QED BY <2>2, <3>1, <3>2
  <2> HIDE DEF Left
  <2>3. B \in [0..Len(deps) -> BOOLEAN] /\ \A k \in 0..Len(deps) : B[k] = Left(k)
    <3>1. \A k \in 0..Len(deps) : Left(k) \in BOOLEAN
      BY DEF Left
    <3> QED BY <3>1
  <2> HIDE DEF B
  <2>4. B[0] /\ \A k \in 1..Len(deps) : B[k - 1] => B[k]
    BY <1>6, <2>1, <2>2, <2>3
  <2>5. \A k \in 0..Len(deps) : B[k]
    BY <1>6, <2>3, <2>4, LoopReaches
  <2> QED BY <2>3, <2>5
<1>8. u = a[Len(deps)] /\ Len(deps) \in 0..Len(deps)
  BY <1>5, <1>6, ReleasedIs DEF deps, ReleasedTurns
<1> HIDE DEF u
<1>9. Good(u) /\ \A j \in 1..Len(deps) : deps[j] \notin ToSet(u.depends[p])
  BY <1>5, <1>7, <1>8 DEF S, ReleasedTurns
<1>10. ToSet(u.depends[p]) = {}
  <2>1. \A q \in ToSet(deps) : q \notin ToSet(u.depends[p])
    BY <1>1, <1>9, Members
  <2> QED BY <1>9, <2>1
<1>11. u.depends[p] = <<>>
  <2>1. u.depends[p] \in Seq(Plugin)
    BY <1>9 DEF Sound, Linked, Listed
  <2> QED BY <1>10, <2>1, Members
<1> QED BY <1>9, <1>11 DEF u

\* The structures agree as long as the references and the marks do.
LEMMA SoundIfMarked ==
  ASSUME NEW s, Sound(s), NEW u, Marked(u), u.list = s.list,
         u.triggers = s.triggers, u.depends = s.depends
  PROVE  Sound(u)
BY DEF Sound, Marked

LEMMA SoundIs ==
  ASSUME NEW s, Sound(s)
  PROVE  /\ Marked(s) /\ s \in Structures
         /\ Linked(s.list, s.triggers, s.depends) /\ Listed(s.list)
         /\ ToSet(s.list) \subseteq Plugin
         /\ \A p \in Plugin :
              /\ Mark(s, p)
              /\ Listed(s.triggers[p]) /\ Listed(s.depends[p])
              /\ s.triggers[p] \in Seq(Plugin) /\ s.depends[p] \in Seq(Plugin)
              /\ s.triggers[p] = <<>> <=> ToSet(s.triggers[p]) = {}
              /\ s.finalized[p] \in BOOLEAN /\ s.unload[p] \in BOOLEAN
              /\ s.cleared[p] \in BOOLEAN
              /\ s.distance[p] \in Nat /\ s.distance[p] <= Num
              /\ s.unload[p] => s.finalized[p]
              /\ s.finalized[p] => p \in ToSet(s.list)
              /\ s.triggers[p] # <<>> => p \in ToSet(s.list)
<1>1. s \in Structures /\ Linked(s.list, s.triggers, s.depends) /\ \A p \in Plugin : Mark(s, p)
  BY DEF Sound
<1>2. Marked(s)
  BY <1>1 DEF Marked
<1>3. Listed(s.list) /\ ToSet(s.list) \subseteq Plugin
  BY <1>1, Members DEF Linked, Listed
<1>4. ASSUME NEW p \in Plugin
      PROVE  /\ Listed(s.triggers[p]) /\ Listed(s.depends[p])
             /\ s.triggers[p] \in Seq(Plugin) /\ s.depends[p] \in Seq(Plugin)
             /\ s.triggers[p] = <<>> <=> ToSet(s.triggers[p]) = {}
             /\ ToSet(s.triggers[p]) \subseteq Plugin
  BY <1>1, Members DEF Linked, Listed
<1>5. ASSUME NEW p \in Plugin
      PROVE  /\ s.finalized[p] \in BOOLEAN /\ s.unload[p] \in BOOLEAN
             /\ s.cleared[p] \in BOOLEAN /\ s.distance[p] \in Nat
  BY <1>1, Fields
<1>6. ASSUME NEW p \in Plugin
      PROVE  /\ s.distance[p] <= Num
             /\ s.unload[p] => s.finalized[p]
             /\ s.finalized[p] => p \in ToSet(s.list)
  BY <1>1, <1>5 DEF Mark
<1>7. ASSUME NEW p \in Plugin, s.triggers[p] # <<>> PROVE p \in ToSet(s.list)
  <2>1. PICK q \in Plugin : q \in ToSet(s.triggers[p])
    BY <1>4, <1>7
  <2> QED BY <1>1, <2>1 DEF Linked
<1> QED BY <1>1, <1>2, <1>3, <1>4, <1>5, <1>6, <1>7

\* A plugin loses its own trigger.
LEMMA SelfTriggerRemoved ==
  ASSUME NEW s, Sound(s), NEW p \in Plugin
  PROVE  LET u == remTrigger(s, p, p)
         IN  /\ Sound(u) /\ Gentle(s, u) /\ p \notin ToSet(u.triggers[p])
             /\ u.list = s.list /\ u.distance = s.distance /\ u.cleared = s.cleared
             /\ \A x \in Plugin : s.unload[x] => u.unload[x]
<1> DEFINE u == remTrigger(s, p, p)
<1>1. CASE p \notin ToSet(s.list)
  <2>1. ~ Contains(s.triggers[p], p)
    BY <1>1, SoundIs, Members, EmptyListed
  <2>2. u = s
    BY <2>1, Zenon DEF remTrigger
  <2>3. p \notin ToSet(s.triggers[p])
    BY <1>1, SoundIs, EmptyListed
  <2> HIDE DEF u
  <2> QED BY <2>2, <2>3, GentleSame DEF u
<1>2. CASE p \in ToSet(s.list)
  <2>1. Marked(s) /\ Listed(s.triggers[p])
    BY SoundIs
  <2>2. Marked(u) /\ Detached(s, u, p, p)
    BY <1>2, <2>1, TriggerRemoved
  <2> HIDE DEF u
  <2>3. Linked(s.list, u.triggers, s.depends)
    <3>1. /\ Linked(s.list, s.triggers, s.depends)
          /\ u.triggers[p] = remRef(s.triggers[p], p)
          /\ \A x \in Plugin : x # p => u.triggers[x] = s.triggers[x]
      BY <2>2, SoundIs DEF Detached
    <3> QED BY <3>1, LinksSelfCut
  <2>4. Sound(u)
    BY <2>2, <2>3 DEF Sound, Marked, Detached
  <2>5. ToSet(u.triggers[p]) = ToSet(s.triggers[p]) \ {p}
    BY <2>1, <2>2, RefRemoved DEF Detached
  <2>6. Fewer(s, u)
    BY <2>2, <2>5 DEF Detached, Fewer
  <2>7. Kept(s, u)
    <3>1. u.list = s.list /\ \A x \in Plugin : s.finalized[x] => u.finalized[x]
      BY <2>2 DEF Detached
    <3>2. \A x, y \in Plugin : x # y /\ y \in ToSet(s.triggers[x]) => y \in ToSet(u.triggers[x])
      BY <2>2, <2>5 DEF Detached
    <3> QED BY <3>1, <3>2 DEF Kept
  <2>8. \A x \in Plugin : Unsettled(u, x) => Unsettled(s, x)
    BY <2>2 DEF Detached, Unsettled
  <2>9. Gentle(s, u)
    BY <2>6, <2>7, <2>8 DEF Gentle
  <2> QED BY <2>2, <2>4, <2>5, <2>9 DEF u, Detached
<1> QED BY <1>1, <1>2

\* PSIDplugin_unload() and a grace period that has ended.
LEMMA UnloadSound ==
  ASSUME NEW s, Sound(s), NEW p \in Plugin, s.finalized[p]
  PROVE  LET u == unloadPlugin(s, p)
         IN  Sound(u) /\ Gentle(s, u) /\ u.list = s.list /\ u.unload[p] = TRUE
<1> DEFINE u == unloadPlugin(s, p)
<1>1. Marked(s) /\ p \in ToSet(s.list)
  BY SoundIs
<1>2. Marked(u) /\ Sent(s, u, p) /\ u.unload[p] = TRUE
  BY <1>1, UnloadMarked
<1> HIDE DEF u
<1>3. Sound(u)
  BY <1>2, SoundIfMarked DEF Sent
<1>4. \A x \in Plugin : u.finalized[x] = s.finalized[x] /\ u.triggers[x] = s.triggers[x]
  <2>1. u.finalized[p] \in BOOLEAN /\ s.finalized[p] \in BOOLEAN
    BY <1>3, SoundIs
  <2> QED BY <1>2, <2>1 DEF Sent
<1>5. Fewer(s, u) /\ Kept(s, u)
  BY <1>2, <1>4 DEF Sent, Fewer, Kept
<1>6. \A x \in Plugin : Unsettled(u, x) => Unsettled(s, x)
  BY <1>2 DEF Sent, Unsettled
<1> QED BY <1>2, <1>3, <1>5, <1>6 DEF u, Sent, Gentle

\* newPlugin()
LEMMA NewFields ==
  ASSUME NEW s \in Structures, NEW p \in Plugin
  PROVE  LET u == newPlugin(s, p)
         IN  /\ u \in Structures /\ u.list = s.list
             /\ u.triggers = [s.triggers EXCEPT ![p] = <<>>]
             /\ u.depends = [s.depends EXCEPT ![p] = <<>>]
             /\ u.finalized = [s.finalized EXCEPT ![p] = FALSE]
             /\ u.unload = [s.unload EXCEPT ![p] = FALSE]
             /\ u.grace = [s.grace EXCEPT ![p] = "unset"]
             /\ u.distance = [s.distance EXCEPT ![p] = 0]
             /\ u.cleared = [s.cleared EXCEPT ![p] = FALSE]
<1> DEFINE t1 == [s EXCEPT !.triggers[p] = <<>>, !.depends[p] = <<>>]
           t2 == [t1 EXCEPT !.finalized[p] = FALSE, !.unload[p] = FALSE]
           t3 == [t2 EXCEPT !.grace[p] = "unset", !.distance[p] = 0]
           u == [t3 EXCEPT !.cleared[p] = FALSE]
<1>1. newPlugin(s, p) = u
  BY DEF newPlugin
<1>2. <<>> \in Seq(Plugin)
  BY EmptyListed DEF Listed
<1>3. /\ t1 \in Structures /\ t1.list = s.list
      /\ t1.triggers = [s.triggers EXCEPT ![p] = <<>>]
      /\ t1.depends = [s.depends EXCEPT ![p] = <<>>]
      /\ t1.finalized = s.finalized /\ t1.unload = s.unload /\ t1.grace = s.grace
      /\ t1.distance = s.distance /\ t1.cleared = s.cleared
  BY <1>2 DEF Structures
<1> HIDE DEF t1
<1>4. /\ t2 \in Structures /\ t2.list = t1.list
      /\ t2.triggers = t1.triggers /\ t2.depends = t1.depends
      /\ t2.finalized = [t1.finalized EXCEPT ![p] = FALSE]
      /\ t2.unload = [t1.unload EXCEPT ![p] = FALSE]
      /\ t2.grace = t1.grace /\ t2.distance = t1.distance /\ t2.cleared = t1.cleared
  BY <1>3 DEF Structures
<1> HIDE DEF t2
<1>5. /\ t3 \in Structures /\ t3.list = t2.list
      /\ t3.triggers = t2.triggers /\ t3.depends = t2.depends
      /\ t3.finalized = t2.finalized /\ t3.unload = t2.unload
      /\ t3.grace = [t2.grace EXCEPT ![p] = "unset"]
      /\ t3.distance = [t2.distance EXCEPT ![p] = 0] /\ t3.cleared = t2.cleared
  BY <1>4 DEF Structures
<1> HIDE DEF t3
<1>6. /\ u \in Structures /\ u.list = t3.list
      /\ u.triggers = t3.triggers /\ u.depends = t3.depends
      /\ u.finalized = t3.finalized /\ u.unload = t3.unload
      /\ u.grace = t3.grace
      /\ u.distance = t3.distance /\ u.cleared = [t3.cleared EXCEPT ![p] = FALSE]
  BY <1>5 DEF Structures
<1> HIDE DEF u
<1> QED BY <1>1, <1>3, <1>4, <1>5, <1>6

\* doUnload() evicts a plugin that is ready and has no trigger.
LEMMA Evicted ==
  ASSUME NEW s, Sound(s), NEW p \in Plugin
  PROVE  LET u == doUnload(s, p)
         IN  /\ Sound(u) /\ Gentle(s, u)
             /\ ToSet(u.list) = IF s.unload[p] /\ s.triggers[p] = <<>>
                                THEN ToSet(s.list) \ {p} ELSE ToSet(s.list)
<1> DEFINE u == doUnload(s, p)
<1>1. CASE ~ s.unload[p] \/ s.triggers[p] # <<>>
  <2>1. u = s
    BY <1>1, Zenon DEF doUnload
  <2> QED BY <1>1, <2>1, GentleSame
<1>2. CASE s.unload[p] /\ s.triggers[p] = <<>>
  <2> DEFINE v == Released(s, p)
             m == [v EXCEPT !.list = remRef(v.list, p)]
  <2>1. /\ Sound(v) /\ Gentle(s, v)
        /\ v.list = s.list /\ v.triggers[p] = <<>> /\ v.depends[p] = <<>>
    BY <1>2, SoundIs, ReleasedSound
  <2>2. u = newPlugin(m, p)
    BY <1>2, Zenon DEF doUnload
  <2> HIDE DEF v
  <2>3. /\ v \in Structures /\ Linked(v.list, v.triggers, v.depends)
        /\ \A x \in Plugin : Mark(v, x)
        /\ Listed(v.list)
    BY <2>1, SoundIs
  <2>4. /\ remRef(v.list, p) \in Seq(Plugin) /\ Listed(remRef(v.list, p))
        /\ ToSet(remRef(v.list, p)) = ToSet(v.list) \ {p}
    BY <2>3, RefRemoved DEF Listed
  <2>5. /\ m \in Structures /\ m.list = remRef(v.list, p)
        /\ m.triggers = v.triggers /\ m.depends = v.depends
        /\ m.finalized = v.finalized /\ m.unload = v.unload /\ m.grace = v.grace
        /\ m.distance = v.distance /\ m.cleared = v.cleared
    BY <2>3, <2>4 DEF Structures
  <2> HIDE DEF m
  <2>6. /\ u \in Structures /\ u.list = m.list
        /\ u.triggers = [m.triggers EXCEPT ![p] = <<>>]
        /\ u.depends = [m.depends EXCEPT ![p] = <<>>]
        /\ u.finalized = [m.finalized EXCEPT ![p] = FALSE]
        /\ u.unload = [m.unload EXCEPT ![p] = FALSE]
        /\ u.grace = [m.grace EXCEPT ![p] = "unset"]
        /\ u.distance = [m.distance EXCEPT ![p] = 0]
        /\ u.cleared = [m.cleared EXCEPT ![p] = FALSE]
    <3>1. m \in Structures
      BY <2>5
    <3> HIDE DEF u
    <3> QED BY <2>2, <3>1, NewFields, Zenon
  <2> HIDE DEF u
  <2>7. u.triggers = v.triggers /\ u.depends = v.depends
    <3>1. v.triggers \in [Plugin -> Seq(Plugin)] /\ v.depends \in [Plugin -> Seq(Plugin)]
      BY <2>3, Fields
    <3> QED BY <2>1, <2>5, <2>6, <3>1
  <2>8. /\ u.finalized[p] = FALSE /\ u.unload[p] = FALSE /\ u.grace[p] = "unset"
        /\ u.distance[p] = 0 /\ u.cleared[p] = FALSE
        /\ \A x \in Plugin : x # p =>
             /\ u.finalized[x] = v.finalized[x] /\ u.unload[x] = v.unload[x]
             /\ u.grace[x] = v.grace[x] /\ u.distance[x] = v.distance[x]
             /\ u.cleared[x] = v.cleared[x]
    <3>1. /\ v.finalized \in [Plugin -> BOOLEAN] /\ v.unload \in [Plugin -> BOOLEAN]
          /\ v.grace \in [Plugin -> {"unset", "marked", "running", "over"}]
          /\ v.distance \in [Plugin -> Nat] /\ v.cleared \in [Plugin -> BOOLEAN]
      BY <2>3, Fields
    <3> QED BY <2>5, <2>6, <3>1
  <2>9. ToSet(u.list) = ToSet(v.list) \ {p}
    BY <2>4, <2>5, <2>6
  <2>10. \A x \in Plugin : Mark(u, x)
    <3>1. Mark(u, p)
      <4>1. 0 <= Num
        BY <2>3, FS_CardinalityType, PluginsAssumption DEF Num
      <4> QED BY <2>8, <4>1 DEF Mark
    <3>2. ASSUME NEW x \in Plugin, x # p PROVE Mark(u, x)
      BY <2>3, <2>8, <2>9, <3>2 DEF Mark
    <3> QED BY <3>1, <3>2
  <2>11. Linked(u.list, u.triggers, u.depends)
    <3>1. ToSet(v.triggers[p]) = {} /\ ToSet(v.depends[p]) = {}
      BY <2>1, EmptyListed
    <3>2. Listed(u.list) /\ ToSet(v.list) \ {p} \subseteq ToSet(u.list)
      BY <2>4, <2>5, <2>6
    <3> QED BY <2>3, <2>7, <3>1, <3>2, LinksMoved
  <2>12. Sound(u)
    BY <2>6, <2>10, <2>11 DEF Sound
  <2>13. Fewer(v, u)
    <3>1. \A x \in Plugin : /\ ToSet(u.triggers[x]) \subseteq ToSet(v.triggers[x])
                            /\ x # p => u.finalized[x] = v.finalized[x]
                            /\ u.triggers[p] = <<>>
      BY <2>1, <2>7, <2>8
    <3> QED BY <3>1 DEF Fewer
  <2>14. Kept(v, u)
    <3>1. /\ ToSet(u.list) \subseteq ToSet(v.list)
          /\ \A x \in Plugin : x \in ToSet(u.list) => u.finalized[x] = v.finalized[x]
      BY <2>8, <2>9
    <3> QED BY <2>7, <3>1 DEF Kept
  <2>15. \A x \in Plugin : Unsettled(u, x) => Unsettled(v, x)
    <3>1. \A x \in Plugin :
            x = p \/ (u.distance[x] = v.distance[x] /\ u.cleared[x] = v.cleared[x])
      BY <2>8
    <3>2. ~ (u.distance[p] > 0)
      BY <2>8
    <3> QED BY <3>1, <3>2 DEF Unsettled
  <2>16. Gentle(s, u)
    BY <2>1, <2>12, <2>13, <2>14, <2>15, GentleTransitive DEF Gentle
  <2> QED BY <1>2, <2>1, <2>9, <2>12, <2>16 DEF u
<1> QED BY <1>1, <1>2

-----------------------------------------------------------------------------
(***************************************************************************)
(* Loading                                                                 *)
(***************************************************************************)

LEMMA LinksSame ==
  ASSUME NEW l, NEW t, NEW d, Linked(l, t, d), NEW t2, NEW d2,
         \A x \in Plugin : t2[x] = t[x] /\ d2[x] = d[x]
  PROVE  Linked(l, t2, d2)
BY DEF Linked

\* Nothing is left of a plugin that is not loaded, the references included.
LEMMA GoneIsNew ==
  ASSUME NEW s, Sound(s), NEW p \in Plugin, p \notin ToSet(s.list)
  PROVE  newPlugin(s, p) = s
<1> DEFINE u == newPlugin(s, p)
<1>1. s \in Structures /\ Linked(s.list, s.triggers, s.depends) /\ Mark(s, p)
  BY SoundIs
<1>2. /\ u \in Structures /\ u.list = s.list
      /\ u.triggers = [s.triggers EXCEPT ![p] = <<>>]
      /\ u.depends = [s.depends EXCEPT ![p] = <<>>]
      /\ u.finalized = [s.finalized EXCEPT ![p] = FALSE]
      /\ u.unload = [s.unload EXCEPT ![p] = FALSE]
      /\ u.grace = [s.grace EXCEPT ![p] = "unset"]
      /\ u.distance = [s.distance EXCEPT ![p] = 0]
      /\ u.cleared = [s.cleared EXCEPT ![p] = FALSE]
  BY <1>1, NewFields
<1>3. s.triggers[p] = <<>>
  <2>1. \A q \in Plugin : q \notin ToSet(s.triggers[p])
    BY <1>1 DEF Linked
  <2>2. s.triggers[p] \in Seq(Plugin)
    BY <1>1 DEF Linked, Listed
  <2> QED BY <2>1, <2>2, Members
<1>4. s.depends[p] = <<>>
  <2>1. \A q \in Plugin : q \notin ToSet(s.depends[p])
    BY <1>1 DEF Linked
  <2>2. s.depends[p] \in Seq(Plugin)
    BY <1>1 DEF Linked, Listed
  <2> QED BY <2>1, <2>2, Members
<1>5. /\ s.finalized[p] = FALSE /\ s.unload[p] = FALSE /\ s.grace[p] = "unset"
      /\ s.distance[p] = 0 /\ s.cleared[p] = FALSE
  BY <1>1 DEF Mark
<1>6. /\ s = [list |-> s.list, triggers |-> s.triggers, depends |-> s.depends,
              finalized |-> s.finalized, unload |-> s.unload, grace |-> s.grace,
              distance |-> s.distance, cleared |-> s.cleared]
      /\ s.triggers \in [Plugin -> Seq(Plugin)]
      /\ s.depends \in [Plugin -> Seq(Plugin)]
      /\ s.finalized \in [Plugin -> BOOLEAN] /\ s.unload \in [Plugin -> BOOLEAN]
      /\ s.grace \in [Plugin -> {"unset", "marked", "running", "over"}]
      /\ s.distance \in [Plugin -> Nat] /\ s.cleared \in [Plugin -> BOOLEAN]
  BY <1>1, Fields
<1>7. u = [list |-> u.list, triggers |-> u.triggers, depends |-> u.depends,
           finalized |-> u.finalized, unload |-> u.unload, grace |-> u.grace,
           distance |-> u.distance, cleared |-> u.cleared]
  BY <1>2, Fields
<1> HIDE DEF u
<1>8. u.triggers = s.triggers /\ u.depends = s.depends
  BY <1>2, <1>3, <1>4, <1>6
<1>9. u.finalized = s.finalized /\ u.unload = s.unload /\ u.cleared = s.cleared
  BY <1>2, <1>5, <1>6
<1>10. u.grace = s.grace /\ u.distance = s.distance
  BY <1>2, <1>5, <1>6
<1>11. u = s
  BY <1>2, <1>6, <1>7, <1>8, <1>9, <1>10, Zenon
<1> QED BY <1>11 DEF u

\* registerPlugin()
LEMMA Registered ==
  ASSUME NEW s, Sound(s), NEW p \in Plugin, p \notin ToSet(s.list)
  PROVE  LET u == registerPlugin(s, p)
         IN  /\ Sound(u) /\ ToSet(u.list) = ToSet(s.list) \cup {p}
             /\ \A x \in Plugin : /\ u.triggers[x] = s.triggers[x]
                                  /\ u.finalized[x] = s.finalized[x]
             /\ u.distance = s.distance /\ u.cleared = s.cleared
<1> DEFINE m == newPlugin(s, p)
           u == registerPlugin(s, p)
<1>1. /\ s \in Structures /\ Linked(s.list, s.triggers, s.depends) /\ Listed(s.list)
      /\ \A x \in Plugin : Mark(s, x)
  BY SoundIs
<1>2. m = s
  BY GoneIsNew
<1>3. /\ Listed(<<p>> \o s.list) /\ <<p>> \o s.list \in Seq(Plugin)
      /\ ToSet(<<p>> \o s.list) = ToSet(s.list) \cup {p}
  BY <1>1, RefInFront DEF Listed
<1>4. u = [m EXCEPT !.list = <<p>> \o m.list]
  BY Zenon DEF registerPlugin
<1> HIDE DEF m, u
<1>5. /\ u \in Structures /\ u.list = <<p>> \o s.list
      /\ u.triggers = s.triggers /\ u.depends = s.depends
      /\ u.finalized = s.finalized /\ u.unload = s.unload /\ u.grace = s.grace
      /\ u.distance = s.distance /\ u.cleared = s.cleared
  BY <1>1, <1>2, <1>3, <1>4 DEF Structures
<1>6. Linked(u.list, u.triggers, u.depends)
  <2>1. ToSet(s.triggers[p]) = {} /\ ToSet(s.depends[p]) = {}
    BY <1>1, Unreferenced
  <2>2. ToSet(s.list) \ {p} \subseteq ToSet(<<p>> \o s.list)
    BY <1>3
  <2>3. Linked(<<p>> \o s.list, s.triggers, s.depends)
    BY <1>1, <1>3, <2>1, <2>2, LinksMoved
  <2> QED BY <1>5, <2>3
<1>7. \A x \in Plugin : Mark(u, x)
  <2>1. \A x \in Plugin : x \notin ToSet(u.list) => x \notin ToSet(s.list)
    BY <1>3, <1>5
  <2> QED BY <1>1, <1>5, <2>1 DEF Mark
<1>8. Sound(u)
  BY <1>5, <1>6, <1>7 DEF Sound
<1> QED BY <1>3, <1>5, <1>8 DEF u

LEMMA TriggeredSound ==
  ASSUME NEW s, Sound(s), NEW p \in Plugin, NEW t \in Plugin,
         p \in ToSet(s.list), t \in ToSet(s.list)
  PROVE  LET u == Triggered(s, p, t)
         IN  /\ Sound(u) /\ u.list = s.list /\ u.finalized = s.finalized
             /\ u.distance = s.distance /\ u.cleared = s.cleared
             /\ ToSet(u.triggers[p]) = ToSet(s.triggers[p]) \cup {t}
             /\ \A x \in Plugin : x # p => u.triggers[x] = s.triggers[x]
<1> DEFINE dep == IF t = p THEN s.depends
                  ELSE [s.depends EXCEPT ![t] = addRef(s.depends[t], p)]
           m == [s EXCEPT !.triggers[p] = addRef(s.triggers[p], t)]
           u == Triggered(s, p, t)
<1>1. /\ s \in Structures /\ Linked(s.list, s.triggers, s.depends)
      /\ \A x \in Plugin : Mark(s, x)
      /\ Listed(s.triggers[p]) /\ Listed(s.depends[t])
  BY SoundIs
<1>2. addRef(s.triggers[p], t) \in Seq(Plugin) /\ addRef(s.depends[t], p) \in Seq(Plugin)
  BY <1>1, RefAdded DEF Listed
<1>3. s.triggers \in [Plugin -> Seq(Plugin)] /\ s.depends \in [Plugin -> Seq(Plugin)]
  BY <1>1, Fields
<1>4. dep \in [Plugin -> Seq(Plugin)]
  BY <1>2, <1>3
<1>5. /\ t # p => /\ dep[t] = addRef(s.depends[t], p)
                  /\ \A x \in Plugin : x # t => dep[x] = s.depends[x]
      /\ t = p => dep = s.depends
  BY <1>3
<1>12. /\ m \in Structures /\ m.list = s.list
       /\ m.triggers = [s.triggers EXCEPT ![p] = addRef(s.triggers[p], t)]
       /\ m.depends = s.depends
       /\ m.finalized = s.finalized /\ m.unload = s.unload /\ m.grace = s.grace
       /\ m.distance = s.distance /\ m.cleared = s.cleared
  BY <1>1, <1>2 DEF Structures
<1>6. u = IF t = p THEN m ELSE [m EXCEPT !.depends[t] = addRef(m.depends[t], p)]
  BY Zenon DEF Triggered
<1> HIDE DEF u, dep, m
<1>7. /\ u \in Structures /\ u.list = s.list
      /\ u.triggers = [s.triggers EXCEPT ![p] = addRef(s.triggers[p], t)]
      /\ u.depends = dep
      /\ u.finalized = s.finalized /\ u.unload = s.unload /\ u.grace = s.grace
      /\ u.distance = s.distance /\ u.cleared = s.cleared
  <2>1. CASE t = p
    BY <1>5, <1>6, <1>12, <2>1
  <2>2. CASE t # p
    <3>1. u = [m EXCEPT !.depends[t] = addRef(m.depends[t], p)]
      BY <1>6, <2>2
    <3>2. addRef(m.depends[t], p) \in Seq(Plugin)
      BY <1>2, <1>12
    <3>3. /\ u \in Structures /\ u.list = m.list /\ u.triggers = m.triggers
          /\ u.depends = [m.depends EXCEPT ![t] = addRef(m.depends[t], p)]
          /\ u.finalized = m.finalized /\ u.unload = m.unload /\ u.grace = m.grace
          /\ u.distance = m.distance /\ u.cleared = m.cleared
      BY <1>12, <3>1, <3>2 DEF Structures
    <3>4. [m.depends EXCEPT ![t] = addRef(m.depends[t], p)] = dep
      BY <1>12, <2>2, Zenon DEF dep
    <3> QED BY <1>12, <3>3, <3>4
  <2> QED BY <2>1, <2>2
<1>8. /\ u.triggers[p] = addRef(s.triggers[p], t)
      /\ \A x \in Plugin : x # p => u.triggers[x] = s.triggers[x]
  BY <1>3, <1>7
<1>9. Linked(s.list, u.triggers, dep)
  <2>1. CASE t = p
    BY <1>1, <1>5, <1>8, <2>1, LinksSelfTied
  <2>2. CASE t # p
    <3>1. /\ dep[t] = addRef(s.depends[t], p)
          /\ \A x \in Plugin : x # t => dep[x] = s.depends[x]
      BY <1>5, <2>2
    <3>2. /\ u.triggers[p] = addRef(s.triggers[p], t)
          /\ \A x \in Plugin : x # p => u.triggers[x] = s.triggers[x]
      BY <1>8
    <3>3. Tied(s.list, s.triggers, s.depends, u.triggers, dep, p, t)
      BY <1>1, <2>2, <3>1, <3>2, Zenon DEF Tied
    <3> QED BY <3>3, LinksTied
  <2> QED BY <2>1, <2>2
<1>10. \A x \in Plugin : Mark(u, x)
  BY <1>1, <1>7 DEF Mark
<1>11. Sound(u)
  BY <1>7, <1>9, <1>10 DEF Sound
<1>13. ToSet(u.triggers[p]) = ToSet(s.triggers[p]) \cup {t}
  BY <1>1, <1>8, RefAdded
<1> QED BY <1>7, <1>8, <1>11, <1>13 DEF u

\* A plugin that cannot be initialized, or lacks what it requires.
Failed(s, p) == unloadPlugin([s EXCEPT !.finalized[p] = TRUE], p)

LEMMA FailedSound ==
  ASSUME NEW s, Sound(s), NEW p \in Plugin, p \in ToSet(s.list)
  PROVE  LET u == Failed(s, p)
         IN  /\ Sound(u) /\ u.list = s.list /\ u.triggers = s.triggers
             /\ u.distance = s.distance /\ u.cleared = s.cleared /\ u.finalized[p]
             /\ \A x \in Plugin : x # p => u.finalized[x] = s.finalized[x]
<1> DEFINE m == [s EXCEPT !.finalized[p] = TRUE]
           u == Failed(s, p)
<1>1. /\ s \in Structures /\ \A x \in Plugin : Mark(s, x)
      /\ s.finalized \in [Plugin -> BOOLEAN] /\ s.unload \in [Plugin -> BOOLEAN]
  BY SoundIs, Fields
<1>2. /\ m \in Structures /\ m.list = s.list /\ m.triggers = s.triggers
      /\ m.depends = s.depends /\ m.finalized = [s.finalized EXCEPT ![p] = TRUE]
      /\ m.unload = s.unload /\ m.grace = s.grace /\ m.distance = s.distance
      /\ m.cleared = s.cleared
  BY <1>1 DEF Structures
<1>3. finalizePlugin(m, p) = m
  <2>1. m.finalized[p] = TRUE
    BY <1>1, <1>2
  <2> HIDE DEF m
  <2> QED BY <2>1, Zenon DEF finalizePlugin
<1>4. u = [m EXCEPT !.unload[p] = TRUE]
  BY <1>3, Zenon DEF Failed, unloadPlugin
<1> HIDE DEF m, u
<1>5. /\ u \in Structures /\ u.list = s.list /\ u.triggers = s.triggers
      /\ u.depends = s.depends /\ u.finalized = [s.finalized EXCEPT ![p] = TRUE]
      /\ u.unload = [s.unload EXCEPT ![p] = TRUE]
      /\ u.grace = s.grace /\ u.distance = s.distance /\ u.cleared = s.cleared
  BY <1>2, <1>4 DEF Structures
<1>6. /\ u.finalized[p] = TRUE /\ u.unload[p] = TRUE
      /\ \A x \in Plugin : x # p => /\ u.finalized[x] = s.finalized[x]
                                    /\ u.unload[x] = s.unload[x]
  BY <1>1, <1>5
<1>7. \A x \in Plugin : Mark(u, x)
  BY <1>1, <1>5, <1>6 DEF Mark
<1>8. Marked(u)
  BY <1>5, <1>7 DEF Marked
<1>9. Sound(u)
  BY <1>5, <1>8, SoundIfMarked
<1> QED BY <1>5, <1>6, <1>9 DEF u

\* The loop of PSIDplugin_load() over what p requires.
EachRequired(l, p, c, list) ==
  LET after[k \in 0..Len(list)] ==
        IF k = 0 THEN c ELSE Required(l, after[k - 1], list[k], p)
  IN  after[Len(list)]

\* The values of its variable, after each turn.
RequiredTurns(l, p, c, list, S, a) ==
  /\ a[0] = c /\ \A k \in 0..Len(list) : a[k] \in S
  /\ \A k \in 1..Len(list) : a[k] = Required(l, a[k - 1], list[k], p)
  /\ EachRequired(l, p, c, list) = a[Len(list)]

LEMMA RequiredLoop ==
  ASSUME NEW l, NEW p, NEW S, NEW M, NEW c \in S, NEW list \in Seq(M),
         \A t \in S, x \in M : Required(l, t, x, p) \in S
  PROVE  \E a : RequiredTurns(l, p, c, list, S, a)
<1> DEFINE F == [z \in S \X M |-> Required(l, z[1], z[2], p)]
           after[k \in 0..Len(list)] ==
             IF k = 0 THEN c ELSE Required(l, after[k - 1], list[k], p)
<1>1. /\ F \in [S \X M -> S]
      /\ \A t \in S, x \in M : F[<<t, x>>] = Required(l, t, x, p)
  OBVIOUS
<1>2. Len(list) \in Nat /\ \A i \in 1..Len(list) : list[i] \in M
  BY LenProperties, ElementOfSeq
<1> HIDE DEF F
<1>3. PICK a : Turns(a, Len(list), c, list, F) /\ \A k \in 0..Len(list) : a[k] \in S
  BY <1>1, LoopEnds
<1>4. a = [k \in 0..Len(list) |->
             IF k = 0 THEN c ELSE Required(l, a[k - 1], list[k], p)]
  <2>1. \A k \in 0..Len(list) :
          k # 0 => F[<<a[k - 1], list[k]>>] = Required(l, a[k - 1], list[k], p)
    <3>1. \A k \in 0..Len(list) : k # 0 => k - 1 \in 0..Len(list) /\ k \in 1..Len(list)
      BY <1>2
    <3> QED BY <1>1, <1>2, <1>3, <3>1
  <2> QED BY <1>3, <2>1 DEF Turns
<1>5. after = [k \in 0..Len(list) |->
                 IF k = 0 THEN c ELSE Required(l, after[k - 1], list[k], p)]
  BY <1>4, Zenon
<1>6. EachRequired(l, p, c, list) = after[Len(list)]
  BY Zenon DEF EachRequired
<1> HIDE DEF after
<1>7. after[0] = c /\ \A k \in 1..Len(list) : after[k] = Required(l, after[k - 1], list[k], p)
  BY <1>2, <1>5
<1>8. \A k \in 0..Len(list) : after[k] \in S
  <2>1. \A k \in 1..Len(list) : after[k - 1] \in S => after[k] \in S
    BY <1>2, <1>7
  <2> QED BY <1>2, <1>7, <2>1, LoopKeeps
<1> QED BY <1>6, <1>7, <1>8 DEF RequiredTurns

\* No loop in the dependencies: what a plugin requires has a lower rank.
\* Loading p changes what it requires only, and is clean.
Lower(rank, s, u, p) ==
  /\ Clean(s) => Clean(u)
  /\ \A x \in Plugin : x # p /\ rank[p] <= rank[x] =>
       u.triggers[x] = s.triggers[x] /\ u.finalized[x] = s.finalized[x]

\* A plugin triggers all it requires.
Served(s, x) == \A d \in Plugin : d \in ToSet(requires[x]) => x \in ToSet(s.triggers[d])

Supplied(s) ==
  \A x \in Plugin : x \in ToSet(s.list) /\ ~ s.finalized[x] => Served(s, x)

\* What was loaded stays as it is but for new triggers.
Grown(s, u) ==
  /\ u.distance = s.distance /\ u.cleared = s.cleared
  /\ \A x \in Plugin : s.finalized[x] => u.finalized[x]
  /\ \A x, y \in Plugin : y \in ToSet(s.triggers[x]) => y \in ToSet(u.triggers[x])

\* And what is loaded now has what it requires.
Serves(s, u) ==
  /\ Grown(s, u)
  /\ \A x \in Plugin :
       x \notin ToSet(s.list) /\ x \in ToSet(u.list) /\ ~ u.finalized[x] => Served(u, x)

LEMMA GrownTransitive ==
  ASSUME NEW s, NEW v, NEW u, Grown(s, v), Grown(v, u)
  PROVE  Grown(s, u)
BY DEF Grown

LEMMA GrownServed ==
  ASSUME NEW s, NEW u, Grown(s, u), NEW x \in Plugin, Served(s, x)
  PROVE  Served(u, x)
BY DEF Grown, Served

LEMMA ServesTransitive ==
  ASSUME NEW s, NEW v, NEW u, Serves(s, v), Serves(v, u)
  PROVE  Serves(s, u)
<1>1. Grown(s, u) /\ Grown(v, u)
  BY GrownTransitive DEF Serves
<1>2. ASSUME NEW x \in Plugin, x \notin ToSet(s.list), x \in ToSet(u.list), ~ u.finalized[x]
      PROVE  Served(u, x)
  <2>1. CASE x \in ToSet(v.list)
    <3>1. ~ v.finalized[x]
      BY <1>1, <1>2 DEF Grown
    <3>2. Served(v, x)
      BY <1>2, <2>1, <3>1 DEF Serves
    <3> QED BY <1>1, <3>2, GrownServed
  <2>2. CASE x \notin ToSet(v.list)
    BY <1>2, <2>2 DEF Serves
  <2> QED BY <2>1, <2>2
<1> QED BY <1>1, <1>2 DEF Serves

LEMMA ServesSupplied ==
  ASSUME NEW s, NEW u, Serves(s, u), Supplied(s)
  PROVE  Supplied(u)
<1>1. ASSUME NEW x \in Plugin, x \in ToSet(u.list), ~ u.finalized[x] PROVE Served(u, x)
  <2>1. CASE x \in ToSet(s.list)
    <3>1. ~ s.finalized[x] /\ Grown(s, u)
      BY <1>1 DEF Serves, Grown
    <3>2. Served(s, x)
      BY <2>1, <3>1 DEF Supplied
    <3> QED BY <3>1, <3>2, GrownServed
  <2>2. CASE x \notin ToSet(s.list)
    BY <1>1, <2>2 DEF Serves
  <2> QED BY <2>1, <2>2
<1> QED BY <1>1 DEF Supplied

\* A loading of p for t.
Brings(rank, s, r, p, t) ==
  /\ Serves(s, r.s)
  /\ r.ok => t \in ToSet(r.s.triggers[p])
  /\ Ranked(rank) /\ Climbs(rank, s) /\ (t = p \/ rank[p] < rank[t]) => Climbs(rank, r.s)

LEMMA SameBrings ==
  ASSUME NEW rank, NEW s, NEW r, r.s = s, ~ r.ok, NEW p \in Plugin, NEW t \in Plugin
  PROVE  Brings(rank, s, r, p, t)
BY DEF Brings, Serves, Grown

\* A plugin gets a trigger that needs it.
LEMMA TriggeredClimbs ==
  ASSUME NEW rank \in [Plugin -> Nat], NEW s, NEW u, NEW p \in Plugin, NEW t \in Plugin,
         Climbs(rank, s), t = p \/ rank[p] < rank[t],
         ToSet(u.triggers[p]) = ToSet(s.triggers[p]) \cup {t},
         \A x \in Plugin : x # p => u.triggers[x] = s.triggers[x]
  PROVE  Climbs(rank, u)
<1>1. ASSUME NEW x \in Plugin, NEW y \in Plugin, x # y, y \in ToSet(u.triggers[x])
      PROVE  rank[x] < rank[y]
  <2>1. CASE x = p /\ y = t
    BY <1>1, <2>1
  <2>2. CASE ~ (x = p /\ y = t)
    <3>1. y \in ToSet(s.triggers[x])
      BY <1>1, <2>2
    <3> QED BY <1>1, <3>1 DEF Climbs
  <2> QED BY <2>1, <2>2
<1> QED BY <1>1 DEF Climbs

LEMMA TriggeredServes ==
  ASSUME NEW s, NEW u,
         u.list = s.list, u.finalized = s.finalized, u.distance = s.distance,
         u.cleared = s.cleared,
         \A x \in Plugin : ToSet(s.triggers[x]) \subseteq ToSet(u.triggers[x])
  PROVE  Serves(s, u)
BY DEF Serves, Grown

\* What loading p for t comes to when left levels may follow.
Loads(rank, left, s, r, p, t) ==
  /\ r \in Replies /\ Sound(r.s) /\ ToSet(s.list) \subseteq ToSet(r.s.list)
  /\ r.ok => p \in ToSet(r.s.list)
  /\ Num <= Cardinality(ToSet(s.list)) + left => ~ r.deep
  /\ Ranked(rank) => Lower(rank, s, r.s, p)
  /\ Brings(rank, s, r, p, t)

Loader(rank, left, l) ==
  \A s \in Structures : Sound(s) => \A p, t \in Plugin :
    t \in ToSet(s.list) \/ t = p => Loads(rank, left, s, l[s][p][t], p, t)

LEMMA ReplyIs ==
  ASSUME NEW s \in Structures, NEW ok \in BOOLEAN
  PROVE  /\ Reply(s, ok) \in Replies /\ Reply(s, ok).s = s
         /\ Reply(s, ok).ok = ok /\ Reply(s, ok).deep = FALSE
BY DEF Reply, Replies

LEMMA AlreadyLoads ==
  ASSUME NEW rank \in [Plugin -> Nat], NEW left, NEW s, Sound(s), NEW p \in Plugin,
         NEW t \in Plugin, p \in ToSet(s.list), t \in ToSet(s.list)
  PROVE  Loads(rank, left, s, LoadedAlready(s, p, t), p, t)
<1> DEFINE r == LoadedAlready(s, p, t)
<1>1. CASE s.finalized[p]
  <2>1. r = Reply(s, FALSE)
    BY <1>1, Zenon DEF LoadedAlready, Usable
  <2>2. s \in Structures
    BY SoundIs
  <2>3. r \in Replies /\ r.s = s /\ r.ok = FALSE /\ r.deep = FALSE
    BY <2>1, <2>2, ReplyIs
  <2> HIDE DEF r
  <2>4. Lower(rank, s, s, p)
    BY DEF Lower
  <2>5. Loads(rank, left, s, r, p, t)
    BY <2>3, <2>4, SameBrings DEF Loads
  <2> QED BY <2>5 DEF r
<1>2. CASE ~ s.finalized[p]
  <2> DEFINE u == Triggered(s, p, t)
  <2>1. r = Reply(u, TRUE)
    BY <1>2, Zenon DEF LoadedAlready, Usable
  <2>2. /\ Sound(u) /\ u.list = s.list /\ u.finalized = s.finalized
        /\ u.distance = s.distance /\ u.cleared = s.cleared
        /\ ToSet(u.triggers[p]) = ToSet(s.triggers[p]) \cup {t}
        /\ \A x \in Plugin : x # p => u.triggers[x] = s.triggers[x]
    BY TriggeredSound
  <2> HIDE DEF u
  <2>3. r \in Replies /\ r.s = u /\ r.ok = TRUE /\ r.deep = FALSE
    <3>1. u \in Structures
      BY <2>2, SoundIs
    <3> HIDE DEF r
    <3> QED BY <2>1, <3>1, ReplyIs
  <2> HIDE DEF r
  <2>4. Lower(rank, s, u, p)
    BY <1>2, <2>2 DEF Lower, Clean
  <2>6. Brings(rank, s, r, p, t)
    <3>1. Serves(s, u)
      <4>1. /\ u.list = s.list /\ u.finalized = s.finalized
            /\ u.distance = s.distance /\ u.cleared = s.cleared
        BY <2>2
      <4>2. /\ ToSet(u.triggers[p]) = ToSet(s.triggers[p]) \cup {t}
            /\ \A x \in Plugin : x # p => u.triggers[x] = s.triggers[x]
        BY <2>2
      <4>3. \A x \in Plugin : ToSet(s.triggers[x]) \subseteq ToSet(u.triggers[x])
        BY <4>2
      <4> QED BY <4>1, <4>3, TriggeredServes, Zenon
    <3>2. t \in ToSet(u.triggers[p])
      BY <2>2
    <3>3. ASSUME Climbs(rank, s), t = p \/ rank[p] < rank[t] PROVE Climbs(rank, u)
      <4>1. /\ ToSet(u.triggers[p]) = ToSet(s.triggers[p]) \cup {t}
            /\ \A x \in Plugin : x # p => u.triggers[x] = s.triggers[x]
        BY <2>2
      <4> QED BY <3>3, <4>1, TriggeredClimbs
    <3> QED BY <2>3, <3>1, <3>2, <3>3 DEF Brings
  <2>5. Loads(rank, left, s, r, p, t)
    BY <2>2, <2>3, <2>4, <2>6 DEF Loads
  <2> QED BY <2>5 DEF r
<1> QED BY <1>1, <1>2

LEMMA NowLoads ==
  ASSUME requires \in Graphs, NEW rank \in [Plugin -> Nat],
         NEW left \in 1..Num, NEW l, Loader(rank, left - 1, l), NEW bad,
         NEW s, Sound(s), NEW p \in Plugin, NEW t \in Plugin,
         p \notin ToSet(s.list), t \in ToSet(s.list) \/ t = p
  PROVE  Loads(rank, left, s, LoadedNow(l, s, p, t, bad), p, t)
<1> DEFINE s1 == registerPlugin(s, p)
           c == Reply(s1, TRUE)
           list == requires[p]
           M == {d \in Plugin : d # p /\ d \in ToSet(list)}
           Good(r) == /\ Sound(r.s) /\ ToSet(s1.list) \subseteq ToSet(r.s.list)
                      /\ Num <= Cardinality(ToSet(s.list)) + left => ~ r.deep
                      /\ Ranked(rank) =>
                           /\ Clean(s) => Clean(r.s)
                           /\ \A x \in Plugin : rank[p] <= rank[x] =>
                                /\ r.s.triggers[x] = s1.triggers[x]
                                /\ r.s.finalized[x] = s1.finalized[x]
                      /\ Serves(s1, r.s)
                      /\ Ranked(rank) /\ Climbs(rank, s1) => Climbs(rank, r.s)
           S == {r \in Replies : Good(r)}
<1>1. list \in Seq(Plugin) /\ ToSet(list) \subseteq M
  <2>1. requires \in [Plugin -> Seq(Plugin)] /\ \A q \in Plugin : ~ Contains(requires[q], q)
    BY PluginsAssumption
  <2>2. list \in Seq(Plugin) /\ p \notin ToSet(list)
    BY <2>1, Members
  <2> QED BY <2>2, Members
<1>2. list \in Seq(M)
  BY <1>1, SeqWithin
<1>3. /\ Sound(s1) /\ ToSet(s1.list) = ToSet(s.list) \cup {p}
      /\ \A x \in Plugin : s1.triggers[x] = s.triggers[x] /\ s1.finalized[x] = s.finalized[x]
      /\ s1.distance = s.distance /\ s1.cleared = s.cleared
  BY Registered
<1> HIDE DEF s1
<1>4. c \in Replies /\ c.s = s1 /\ c.ok = TRUE /\ c.deep = FALSE
  BY <1>3, ReplyIs, SoundIs
<1> HIDE DEF c
<1>5. c \in S
  <2>1. Clean(s) => Clean(s1)
    BY <1>3 DEF Clean
  <2>2. Serves(s1, s1)
    BY DEF Serves, Grown
  <2> QED BY <1>3, <1>4, <2>1, <2>2
<1>6. \A X \in SUBSET Plugin : Cardinality(X) \in Nat /\ IsFiniteSet(X)
  BY PluginsAssumption, FS_Subset, FS_CardinalityType
<1>7. Cardinality(ToSet(s1.list)) = Cardinality(ToSet(s.list)) + 1
  <2>1. ToSet(s.list) \in SUBSET Plugin
    BY SoundIs
  <2> QED BY <1>3, <1>6, <2>1, FS_AddElement
<1>8. ASSUME NEW r \in S, NEW d \in M PROVE
        LET v == Required(l, r, d, p)
        IN  v \in S /\ Grown(r.s, v.s) /\ (v.ok => r.ok /\ p \in ToSet(v.s.triggers[d]))
  <2>1. CASE ~ r.ok
    <3>1. Required(l, r, d, p) = r
      BY <2>1, Zenon DEF Required
    <3>2. Grown(r.s, r.s)
      BY DEF Grown
    <3> QED BY <2>1, <3>1, <3>2
  <2>2. CASE r.ok
    <3> DEFINE v == l[r.s][d][p]
    <3>1. Required(l, r, d, p) = v
      BY <2>2, Zenon DEF Required
    <3>2. /\ Sound(r.s) /\ r.s \in Structures /\ d \in Plugin /\ d # p
          /\ p \in ToSet(r.s.list)
      BY <1>3, SoundIs
    <3>3. Loads(rank, left - 1, r.s, v, d, p)
      BY <3>2 DEF Loader
    <3> HIDE DEF v
    <3>4. /\ v \in Replies /\ Sound(v.s) /\ ToSet(r.s.list) \subseteq ToSet(v.s.list)
          /\ Num <= Cardinality(ToSet(r.s.list)) + (left - 1) => ~ v.deep
      BY <3>3 DEF Loads
    <3>5. ASSUME Num <= Cardinality(ToSet(s.list)) + left PROVE ~ v.deep
      <4>1. /\ ToSet(s1.list) \in SUBSET Plugin /\ ToSet(r.s.list) \in SUBSET Plugin
            /\ ToSet(s.list) \in SUBSET Plugin /\ Num \in Nat
        BY <1>3, <1>6, <3>2, SoundIs DEF Num
      <4>2. Cardinality(ToSet(s1.list)) <= Cardinality(ToSet(r.s.list))
        BY <1>6, <4>1, FS_Subset
      <4> DEFINE a == Cardinality(ToSet(s.list))
                 b == Cardinality(ToSet(r.s.list))
      <4>3. a \in Nat /\ b \in Nat /\ a + 1 <= b /\ Num <= a + left
        BY <1>6, <1>7, <3>5, <4>1, <4>2
      <4> HIDE DEF a, b
      <4>4. Num <= b + (left - 1)
        BY <4>1, <4>3
      <4> QED BY <3>4, <4>4 DEF b
    <3>6. ASSUME Ranked(rank)
          PROVE  /\ Clean(s) => Clean(v.s)
                 /\ \A x \in Plugin : rank[p] <= rank[x] =>
                      /\ v.s.triggers[x] = s1.triggers[x]
                      /\ v.s.finalized[x] = s1.finalized[x]
      <4>1. Lower(rank, r.s, v.s, d)
        BY <3>3, <3>6 DEF Loads
      <4>2. rank[d] < rank[p]
        BY <3>6 DEF Ranked
      <4>3. \A x \in Plugin : rank[p] <= rank[x] => x # d /\ rank[d] <= rank[x]
        BY <3>2, <4>2
      <4>4. /\ Clean(s) => Clean(r.s)
            /\ \A x \in Plugin : rank[p] <= rank[x] =>
                 /\ r.s.triggers[x] = s1.triggers[x]
                 /\ r.s.finalized[x] = s1.finalized[x]
        BY <3>6
      <4> QED BY <4>1, <4>3, <4>4 DEF Lower
    <3>8. Brings(rank, r.s, v, d, p)
      BY <3>3 DEF Loads
    <3>9. Serves(r.s, v.s) /\ Grown(r.s, v.s) /\ (v.ok => p \in ToSet(v.s.triggers[d]))
      BY <3>8 DEF Brings, Serves
    <3>10. Serves(s1, v.s)
      BY <3>9, ServesTransitive
    <3>11. ASSUME Ranked(rank), Climbs(rank, s1) PROVE Climbs(rank, v.s)
      <4>1. rank[d] < rank[p] /\ Climbs(rank, r.s)
        BY <3>11 DEF Ranked
      <4> QED BY <3>8, <3>11, <4>1 DEF Brings
    <3>7. Good(v)
      BY <3>4, <3>5, <3>6, <3>10, <3>11
    <3> QED BY <2>2, <3>1, <3>4, <3>7, <3>9
  <2> QED BY <2>1, <2>2
<1> HIDE DEF S, M, list
<1> DEFINE r == EachRequired(l, p, c, list)
<1>9. r \in S /\ (r.ok => Served(r.s, p))
  <2>1. \A z \in S, x \in M : Required(l, z, x, p) \in S
    BY <1>8
  <2>2. PICK a : RequiredTurns(l, p, c, list, S, a)
    BY <1>2, <1>5, <2>1, RequiredLoop, Zenon
  <2>3. Len(list) \in 0..Len(list)
    BY <1>2, LenProperties
  <2>4. r \in S /\ r = a[Len(list)]
    BY <2>2, <2>3 DEF RequiredTurns
  <2>5. /\ Len(list) \in Nat /\ \A k \in 1..Len(list) : list[k] \in M
        /\ \A d : d \in ToSet(list) => \E k \in 1..Len(list) : d = list[k]
    <3>1. Len(list) \in Nat /\ \A k \in 1..Len(list) : list[k] \in M
      BY <1>2, LenProperties, ElementOfSeq
    <3>2. \A d : d \in ToSet(list) <=> \E k \in 1..Len(list) : list[k] = d
      BY <1>1, Members
    <3> QED BY <3>1, <3>2
  <2> HIDE DEF r
  <2>6. ASSUME NEW k \in 1..Len(list)
        PROVE  /\ Grown(a[k - 1].s, a[k].s) /\ (a[k].ok => a[k - 1].ok)
               /\ a[k].ok => p \in ToSet(a[k].s.triggers[list[k]])
    <3>1. k - 1 \in 0..Len(list) /\ list[k] \in M
      BY <2>5
    <3>2. a[k - 1] \in S /\ a[k] = Required(l, a[k - 1], list[k], p)
      BY <2>2, <3>1 DEF RequiredTurns
    <3> QED BY <1>8, <3>1, <3>2
  <2>7. ASSUME NEW i \in 1..Len(list), r.ok PROVE p \in ToSet(r.s.triggers[list[i]])
    <3> DEFINE n == Len(list)
               d == list[i]
               G == [k \in 0..n |-> k >= i /\ a[k].ok => p \in ToSet(a[k].s.triggers[d])]
    <3>1. /\ G \in [0..n -> BOOLEAN] /\ d \in Plugin
          /\ \A k \in 0..n : G[k] = (k >= i /\ a[k].ok => p \in ToSet(a[k].s.triggers[d]))
      <4>1. \A k \in 0..n : (k >= i /\ a[k].ok => p \in ToSet(a[k].s.triggers[d])) \in BOOLEAN
        OBVIOUS
      <4>2. d \in Plugin
        BY <2>5 DEF M
      <4> QED BY <4>1, <4>2
    <3>2. n \in Nat /\ n \in 0..n /\ 0 \in 0..n /\ i \in 1..n
      BY <2>5
    <3> HIDE DEF G, d, n
    <3>3. G[0]
      BY <3>1, <3>2
    <3>4. ASSUME NEW k \in 1..n, G[k - 1] PROVE G[k]
      <4>1. k \in 0..n /\ k - 1 \in 0..n /\ k \in Int /\ i \in Int
        BY <3>2
      <4>2. SUFFICES ASSUME k >= i, a[k].ok PROVE p \in ToSet(a[k].s.triggers[d])
        BY <3>1, <4>1
      <4>3. CASE k = i
        BY <2>6, <4>2, <4>3 DEF d, n
      <4>4. CASE k # i
        <5>1. k - 1 >= i
          BY <4>1, <4>2, <4>4
        <5>2. a[k - 1].ok /\ Grown(a[k - 1].s, a[k].s)
          BY <2>6, <4>2 DEF n
        <5>3. p \in ToSet(a[k - 1].s.triggers[d])
          BY <3>1, <3>4, <4>1, <5>1, <5>2
        <5> QED BY <3>1, <5>2, <5>3 DEF Grown
      <4> QED BY <4>3, <4>4
    <3>5. G[n]
      BY <3>1, <3>2, <3>3, <3>4, LoopReaches
    <3>6. n >= i
      BY <3>2
    <3>7. p \in ToSet(a[n].s.triggers[d])
      BY <2>4, <2>7, <3>1, <3>2, <3>5, <3>6 DEF n
    <3> QED BY <2>4, <3>7 DEF n, d
  <2>8. r.ok => Served(r.s, p)
    BY <2>5, <2>7 DEF Served, list
  <2> QED BY <2>4, <2>8
<1>10. LoadedNow(l, s, p, t, bad) =
         IF r.ok /\ p \notin bad THEN Reply(Triggered(r.s, p, t), TRUE)
         ELSE [s |-> Failed(r.s, p), ok |-> FALSE, deep |-> r.deep]
  BY Zenon DEF LoadedNow, ForEach, EachRequired, Failed, s1, c, list
<1> HIDE DEF r
<1>11. r \in Replies /\ Good(r) /\ (r.ok => Served(r.s, p))
  BY <1>9 DEF S
<1>12. /\ Sound(r.s) /\ p \in ToSet(r.s.list) /\ t \in ToSet(r.s.list)
       /\ ToSet(s.list) \subseteq ToSet(r.s.list)
  BY <1>3, <1>11
<1>17. ASSUME NEW u, Serves(r.s, u), u.list = r.s.list, u.finalized[p] \/ Served(u, p)
       PROVE  Serves(s, u)
  <2>1. Serves(s1, u)
    BY <1>11, <1>17, ServesTransitive
  <2>2. Grown(s, u)
    <3>1. Grown(s, s1)
      BY <1>3 DEF Grown
    <3> QED BY <2>1, <3>1, GrownTransitive DEF Serves
  <2>3. ASSUME NEW x \in Plugin, x \notin ToSet(s.list), x \in ToSet(u.list), ~ u.finalized[x]
        PROVE  Served(u, x)
    <3>1. CASE x = p
      BY <1>17, <2>3, <3>1
    <3>2. CASE x # p
      BY <1>3, <2>1, <2>3, <3>2 DEF Serves
    <3> QED BY <3>1, <3>2
  <2> QED BY <2>2, <2>3 DEF Serves
<1>18. Climbs(rank, s) => Climbs(rank, s1)
  BY <1>3 DEF Climbs
<1>13. s1.finalized[p] = FALSE /\ s1.triggers[p] = <<>>
  <2>1. s.finalized[p] = FALSE /\ s.triggers[p] = <<>>
    BY SoundIs
  <2> QED BY <1>3, <2>1
<1>14. ASSUME Ranked(rank)
       PROVE  /\ Clean(s) => Clean(r.s)
              /\ r.s.finalized[p] = FALSE /\ r.s.triggers[p] = <<>>
              /\ \A x \in Plugin : rank[p] <= rank[x] =>
                   /\ r.s.triggers[x] = s.triggers[x]
                   /\ r.s.finalized[x] = s.finalized[x]
  <2>1. rank[p] <= rank[p]
    OBVIOUS
  <2>2. /\ Clean(s) => Clean(r.s)
        /\ \A x \in Plugin : rank[p] <= rank[x] =>
             /\ r.s.triggers[x] = s1.triggers[x]
             /\ r.s.finalized[x] = s1.finalized[x]
    BY <1>11, <1>14
  <2> QED BY <1>3, <1>13, <2>1, <2>2
<1> DEFINE z == LoadedNow(l, s, p, t, bad)
<1>15. CASE r.ok /\ p \notin bad
  <2> DEFINE u == Triggered(r.s, p, t)
  <2>1. /\ Sound(u) /\ u.list = r.s.list /\ u.finalized = r.s.finalized
        /\ u.distance = r.s.distance /\ u.cleared = r.s.cleared
        /\ ToSet(u.triggers[p]) = ToSet(r.s.triggers[p]) \cup {t}
        /\ \A x \in Plugin : x # p => u.triggers[x] = r.s.triggers[x]
    BY <1>12, TriggeredSound
  <2>2. z = Reply(u, TRUE)
    BY <1>10, <1>15, Zenon
  <2> HIDE DEF u, z
  <2>3. z \in Replies /\ z.s = u /\ z.ok = TRUE /\ z.deep = FALSE
    BY <2>1, <2>2, ReplyIs, SoundIs
  <2>4. ASSUME Ranked(rank) PROVE Lower(rank, s, u, p)
    BY <1>14, <2>1, <2>4 DEF Lower, Clean
  <2>10. /\ u.list = r.s.list /\ u.finalized = r.s.finalized
         /\ u.distance = r.s.distance /\ u.cleared = r.s.cleared
    BY <2>1
  <2>11. /\ ToSet(u.triggers[p]) = ToSet(r.s.triggers[p]) \cup {t}
         /\ \A x \in Plugin : x # p => u.triggers[x] = r.s.triggers[x]
    BY <2>1
  <2>6. Serves(r.s, u)
    <3>1. \A x \in Plugin : ToSet(r.s.triggers[x]) \subseteq ToSet(u.triggers[x])
      BY <2>11
    <3> QED BY <2>10, <3>1, TriggeredServes, Zenon
  <2>7. Serves(s, u)
    <3>1. Served(u, p)
      BY <1>11, <1>15, <2>6, GrownServed DEF Serves
    <3> QED BY <1>17, <2>1, <2>6, <3>1
  <2>8. ASSUME Ranked(rank), Climbs(rank, s), t = p \/ rank[p] < rank[t]
        PROVE  Climbs(rank, u)
    <3>1. Climbs(rank, r.s)
      BY <1>11, <1>18, <2>8
    <3> QED BY <2>8, <2>11, <3>1, TriggeredClimbs, Zenon
  <2>9. Brings(rank, s, z, p, t)
    BY <2>1, <2>3, <2>7, <2>8 DEF Brings
  <2>5. Loads(rank, left, s, z, p, t)
    BY <1>12, <2>1, <2>3, <2>4, <2>9 DEF Loads
  <2> QED BY <2>5 DEF z
<1>16. CASE ~ (r.ok /\ p \notin bad)
  <2> DEFINE u == Failed(r.s, p)
  <2>1. /\ Sound(u) /\ u.list = r.s.list /\ u.triggers = r.s.triggers
        /\ u.distance = r.s.distance /\ u.cleared = r.s.cleared /\ u.finalized[p]
        /\ \A x \in Plugin : x # p => u.finalized[x] = r.s.finalized[x]
    BY <1>12, FailedSound
  <2>2. z = [s |-> u, ok |-> FALSE, deep |-> r.deep]
    BY <1>10, <1>16, Zenon
  <2> HIDE DEF u, z
  <2>3. z \in Replies /\ z.s = u /\ z.ok = FALSE /\ z.deep = r.deep
    <3>1. u \in Structures /\ r.deep \in BOOLEAN
      BY <1>11, <2>1, SoundIs DEF Replies
    <3> QED BY <2>2, <3>1 DEF Replies
  <2>4. ASSUME Ranked(rank) PROVE Lower(rank, s, u, p)
    BY <1>14, <2>1, <2>4 DEF Lower, Clean
  <2>5. Num <= Cardinality(ToSet(s.list)) + left => ~ z.deep
    BY <1>11, <2>3
  <2>7. Grown(r.s, u)
    BY <2>1 DEF Grown
  <2>8. Serves(r.s, u)
    <3>1. ASSUME NEW x \in Plugin, x \notin ToSet(r.s.list), x \in ToSet(u.list)
          PROVE  FALSE
      BY <2>1, <3>1
    <3> QED BY <2>7, <3>1 DEF Serves
  <2>9. Serves(s, u)
    BY <1>17, <2>1, <2>8
  <2>10. ASSUME Ranked(rank), Climbs(rank, s) PROVE Climbs(rank, u)
    <3>1. Climbs(rank, r.s)
      BY <1>11, <1>18, <2>10
    <3> QED BY <2>1, <3>1 DEF Climbs
  <2>11. Brings(rank, s, z, p, t)
    BY <2>3, <2>9, <2>10 DEF Brings
  <2>6. Loads(rank, left, s, z, p, t)
    BY <1>12, <2>1, <2>3, <2>4, <2>5, <2>11 DEF Loads
  <2> QED BY <2>6 DEF z
<1> QED BY <1>15, <1>16

\* One level of PSIDplugin_load(), left before the last; l is the next one.
LoadLevel(left, l, bad) ==
  [u \in Structures |-> [q \in Plugin |-> [v \in Plugin |->
     IF Contains(u.list, q) THEN LoadedAlready(u, q, v)
     ELSE IF left = 0 THEN [s |-> u, ok |-> FALSE, deep |-> TRUE]
     ELSE LoadedNow(l, u, q, v, bad)]]]

\* The recursion is defined at every level.
LEMMA LoadLevels ==
  ASSUME NEW bad, NEW m \in Nat
  PROVE  \E a : a = [k \in 0..m |-> LoadLevel(k, a[k - 1], bad)]
<1> DEFINE Runs(n, a) == a = [k \in 0..n |-> LoadLevel(k, a[k - 1], bad)]
           T == {n \in 0..m : ~ \E a : Runs(n, a)}
<1>1. SUFFICES ASSUME T # {} PROVE FALSE
  <2>1. m \in 0..m
    OBVIOUS
  <2> QED BY <2>1
<1>2. PICK n \in T : \A y \in T : n <= y
  <2>1. T \subseteq Nat
    OBVIOUS
  <2> HIDE DEF T
  <2> QED BY <1>1, <2>1, LeastNumber
<1>3. \A x, y : LoadLevel(0, x, bad) = LoadLevel(0, y, bad)
  BY DEF LoadLevel
<1>4. CASE n = 0
  <2> DEFINE a == [k \in 0..0 |-> LoadLevel(0, 0, bad)]
  <2>1. \A k \in 0..0 : k = 0
    OBVIOUS
  <2>2. a = [k \in 0..0 |-> LoadLevel(k, a[k - 1], bad)]
    BY <1>3, <2>1
  <2> HIDE DEF a
  <2> QED BY <1>2, <1>4, <2>2
<1>5. CASE n # 0
  <2>1. n - 1 \in 0..m /\ ~(n <= n - 1) /\ n \in Nat
    BY <1>2, <1>5
  <2>2. PICK a : Runs(n - 1, a)
    BY <1>2, <2>1
  <2> DEFINE b == [k \in 0..n |-> IF k = n THEN LoadLevel(n, a[n - 1], bad) ELSE a[k]]
  <2>3. /\ b[n] = LoadLevel(n, a[n - 1], bad)
        /\ \A k \in 0..(n - 1) : b[k] = a[k]
        /\ b = [k \in 0..n |-> b[k]]
    BY <2>1
  <2> HIDE DEF b
  <2>4. \A k \in 0..(n - 1) : a[k] = LoadLevel(k, a[k - 1], bad)
    BY <2>2
  <2>5. ASSUME NEW k \in 0..n PROVE b[k] = LoadLevel(k, b[k - 1], bad)
    <3>1. CASE k = n
      <4>1. n - 1 \in 0..(n - 1)
        BY <1>5, <2>1
      <4>2. b[k - 1] = a[n - 1]
        BY <2>3, <3>1, <4>1
      <4> QED BY <2>3, <3>1, <4>2
    <3>2. CASE k = 0
      <4>1. 0 \in 0..(n - 1)
        BY <1>5, <2>1
      <4>2. b[0] = LoadLevel(0, a[0 - 1], bad)
        BY <2>3, <2>4, <4>1
      <4> QED BY <1>3, <3>2, <4>2
    <3>3. CASE k # n /\ k # 0
      <4>1. k \in 0..(n - 1) /\ k - 1 \in 0..(n - 1)
        BY <2>1, <3>3
      <4> QED BY <2>3, <2>4, <4>1
    <3> QED BY <3>1, <3>2, <3>3
  <2>6. Runs(n, b)
    BY <2>3, <2>5
  <2> QED BY <1>2, <2>6
<1> QED BY <1>4, <1>5

AllLoadLevels(bad) ==
  LET load[left \in 0..Num] == LoadLevel(left, load[left - 1], bad)
  IN  load

LEMMA LoadIs ==
  ASSUME NEW bad
  PROVE  AllLoadLevels(bad) =
           [left \in 0..Num |-> LoadLevel(left, AllLoadLevels(bad)[left - 1], bad)]
<1> DEFINE load[left \in 0..Num] == LoadLevel(left, load[left - 1], bad)
<1>1. Num \in Nat
  BY PluginsAssumption, FS_CardinalityType DEF Num
<1>2. PICK a : a = [k \in 0..Num |-> LoadLevel(k, a[k - 1], bad)]
  BY <1>1, LoadLevels
<1>3. load = [left \in 0..Num |-> LoadLevel(left, load[left - 1], bad)]
  BY <1>2, Zenon
<1>4. AllLoadLevels(bad) = load
  BY Zenon DEF AllLoadLevels
<1> HIDE DEF load
<1> QED BY <1>3, <1>4

LEMMA LoadIsLast ==
  ASSUME NEW bad, NEW s, NEW p, NEW t
  PROVE  PSIDplugin_load(s, p, t, bad) = AllLoadLevels(bad)[Num][s][p][t]
BY Zenon DEF PSIDplugin_load, AllLoadLevels, LoadLevel

\* Loading never recurses deeper than there are plugins.
LEMMA LoadLoads ==
  ASSUME requires \in Graphs, NEW rank \in [Plugin -> Nat], NEW bad,
         NEW s, Sound(s), NEW p \in Plugin
  PROVE  Loads(rank, Num, s, PSIDplugin_load(s, p, p, bad), p, p)
<1> DEFINE load == AllLoadLevels(bad)
<1>1. load = [left \in 0..Num |-> LoadLevel(left, load[left - 1], bad)]
  BY LoadIs
<1> HIDE DEF load
<1>2. Num \in Nat /\ IsFiniteSet(Plugin)
  BY PluginsAssumption, FS_CardinalityType DEF Num
<1>3. ASSUME NEW left \in 0..Num, NEW u, Sound(u), NEW q \in Plugin, NEW v \in Plugin,
             v \in ToSet(u.list) \/ v = q,
             left = 0 \/ Loader(rank, left - 1, load[left - 1])
      PROVE  Loads(rank, left, u, load[left][u][q][v], q, v)
  <2> DEFINE r == load[left][u][q][v]
             l == load[left - 1]
  <2>1. u \in Structures /\ u.list \in Seq(Plugin) /\ ToSet(u.list) \subseteq Plugin
    BY <1>3, SoundIs DEF Listed
  <2>2. r = IF Contains(u.list, q) THEN LoadedAlready(u, q, v)
            ELSE IF left = 0 THEN [s |-> u, ok |-> FALSE, deep |-> TRUE]
            ELSE LoadedNow(l, u, q, v, bad)
    <3>1. load[left] = LoadLevel(left, l, bad)
      BY <1>1
    <3> HIDE DEF l
    <3>2. LoadLevel(left, l, bad)[u][q][v] =
            IF Contains(u.list, q) THEN LoadedAlready(u, q, v)
            ELSE IF left = 0 THEN [s |-> u, ok |-> FALSE, deep |-> TRUE]
            ELSE LoadedNow(l, u, q, v, bad)
      BY <2>1, Zenon DEF LoadLevel
    <3> QED BY <3>1, <3>2, Zenon
  <2> HIDE DEF r, l
  <2>3. CASE q \in ToSet(u.list)
    <3>1. r = LoadedAlready(u, q, v)
      BY <2>1, <2>2, <2>3, Members
    <3> QED BY <1>3, <2>3, <3>1, AlreadyLoads DEF r
  <2>4. CASE q \notin ToSet(u.list) /\ left = 0
    <3>1. r = [s |-> u, ok |-> FALSE, deep |-> TRUE]
      BY <2>1, <2>2, <2>4, Members
    <3>2. r \in Replies /\ r.s = u /\ r.ok = FALSE
      BY <2>1, <3>1 DEF Replies
    <3>3. ~(Num <= Cardinality(ToSet(u.list)) + left)
      <4>1. /\ IsFiniteSet(ToSet(u.list)) /\ Cardinality(ToSet(u.list)) \in Nat
            /\ Cardinality(ToSet(u.list)) <= Num
            /\ Cardinality(ToSet(u.list)) # Num
        BY <1>2, <2>1, <2>4, FS_Subset, FS_CardinalityType DEF Num
      <4> QED BY <1>2, <2>4, <4>1
    <3>4. Lower(rank, u, u, q)
      BY DEF Lower
    <3>5. Loads(rank, left, u, r, q, v)
      BY <1>3, <3>2, <3>3, <3>4, SameBrings DEF Loads
    <3> QED BY <3>5 DEF r
  <2>5. CASE q \notin ToSet(u.list) /\ left # 0
    <3>1. r = LoadedNow(l, u, q, v, bad)
      BY <2>1, <2>2, <2>5, Members
    <3>2. left \in 1..Num /\ Loader(rank, left - 1, l)
      BY <1>2, <1>3, <2>5 DEF l
    <3>3. Loads(rank, left, u, LoadedNow(l, u, q, v, bad), q, v)
      BY <1>3, <2>5, <3>2, NowLoads
    <3> QED BY <3>1, <3>3 DEF r
  <2> QED BY <2>3, <2>4, <2>5
<1>4. \A left \in 0..Num :
        left = 0 \/ Loader(rank, left - 1, load[left - 1])
          => Loader(rank, left, load[left])
  BY <1>3 DEF Loader
<1> DEFINE B == [left \in 0..Num |-> Loader(rank, left, load[left])]
<1>5. /\ B \in [0..Num -> BOOLEAN]
      /\ \A left \in 0..Num : B[left] = Loader(rank, left, load[left])
  <2>1. \A left \in 0..Num : Loader(rank, left, load[left]) \in BOOLEAN
    BY DEF Loader
  <2> QED BY <2>1
<1> HIDE DEF B
<1>6. \A left \in 0..Num : B[left]
  <2>1. 0 \in 0..Num /\ \A left \in 1..Num : left \in 0..Num /\ left - 1 \in 0..Num
    BY <1>2
  <2>2. B[0]
    BY <1>4, <1>5, <2>1
  <2>3. \A left \in 1..Num : B[left - 1] => B[left]
    BY <1>4, <1>5, <2>1
  <2> QED BY <1>2, <1>5, <2>2, <2>3, LoopReaches
<1>7. Loader(rank, Num, load[Num])
  BY <1>2, <1>5, <1>6
<1>8. Loads(rank, Num, s, load[Num][s][p][p], p, p)
  BY <1>7, SoundIs DEF Loader
<1> QED BY <1>8, LoadIsLast DEF load

-----------------------------------------------------------------------------
(***************************************************************************)
(* Walking up the triggers                                                 *)
(***************************************************************************)

\* A walk at some distance has passed as many plugins on its way.
Near(dist, distance) ==
  \E A \in SUBSET Plugin :
    /\ Cardinality(A) = distance - 1
    /\ \A x \in A : dist[x] \in 1 .. distance - 1

\* A walk from p, on its way for distance plugins, has gone from w to u: if it
\* has found a loop, p is not cleared.  Without loops it finds none.
Goes(rank, distance, w, u, p) ==
  /\ u \in Walks /\ Sound(u.s) /\ Fewer(w.s, u.s) /\ Kept(w.s, u.s)
  /\ u.s.list = w.s.list /\ u.deep = w.deep /\ u.all = w.all
  /\ \A x \in Plugin :
       /\ w.s.cleared[x] => u.s.cleared[x]
       /\ w.s.distance[x] \in 1 .. distance - 1 => u.s.distance[x] = w.s.distance[x]
  /\ u.loop => w.loop \/ (~ u.s.cleared[p] /\ u.s.distance[p] > 0)
  /\ Climbs(rank, w.s) /\ SettledFrom(rank, w.s, rank[p]) =>
       Ascends(rank, w.s, u.s, p) /\ (u.loop => w.loop)

Walker(rank, distance, l) ==
  \A w \in Walks : Sound(w.s) /\ Near(w.s.distance, distance) =>
    \A p \in Plugin : p \in ToSet(w.s.list) => Goes(rank, distance, w, l[w][p], p)

LEMMA NumIs == Num \in Nat
BY PluginsAssumption, FS_CardinalityType DEF Num

LEMMA WalkIs ==
  ASSUME NEW w \in Walks
  PROVE  /\ w.s \in Structures /\ w.loop \in BOOLEAN /\ w.all \in BOOLEAN
         /\ w.deep \in BOOLEAN
BY DEF Walks

LEMMA FewerSame ==
  ASSUME NEW s, NEW u, u.triggers = s.triggers, u.finalized = s.finalized
  PROVE  Fewer(s, u)
BY DEF Fewer

\* Only the structures change.
LEMMA GoesIf ==
  ASSUME NEW rank, NEW distance, NEW w \in Walks, NEW t, Sound(t), Fewer(w.s, t),
         Kept(w.s, t), t.list = w.s.list, NEW p \in Plugin,
         SettledFrom(rank, w.s, rank[p]) => Ascends(rank, w.s, t, p),
         \A x \in Plugin :
           /\ w.s.cleared[x] => t.cleared[x]
           /\ w.s.distance[x] \in 1 .. distance - 1 => t.distance[x] = w.s.distance[x]
  PROVE  Goes(rank, distance, w, [w EXCEPT !.s = t], p)
<1> DEFINE u == [w EXCEPT !.s = t]
<1>1. t \in Structures
  BY SoundIs
<1>2. u \in Walks /\ u.s = t /\ u.loop = w.loop /\ u.all = w.all /\ u.deep = w.deep
  BY <1>1 DEF Walks
<1> HIDE DEF u
<1>3. Goes(rank, distance, w, u, p)
  BY <1>2 DEF Goes
<1> QED BY <1>3 DEF u

\* A walk passes a plugin.
LEMMA PassSound ==
  ASSUME NEW s, Sound(s), NEW p \in Plugin
  PROVE  LET t == Pass(s, p)
         IN  /\ Sound(t) /\ Fewer(s, t) /\ t.list = s.list /\ t.distance = s.distance
             /\ \A x \in Plugin : s.cleared[x] => t.cleared[x]
             /\ \A x \in Plugin : x # p => t.cleared[x] = s.cleared[x]
             /\ Kept(s, t) /\ (s.unload[p] => t.cleared[p])
<1> DEFINE t == Pass(s, p)
<1>1. CASE ~ s.unload[p]
  <2>1. t = s
    BY <1>1, Zenon DEF Pass
  <2> QED BY <1>1, <2>1, FewerSame, KeptSame
<1>2. CASE s.unload[p]
  <2>1. /\ s \in Structures /\ p \in ToSet(s.list) /\ \A x \in Plugin : Mark(s, x)
        /\ s.cleared \in [Plugin -> BOOLEAN]
    BY <1>2, SoundIs, Fields
  <2>2. t = [s EXCEPT !.cleared[p] = TRUE]
    BY <1>2 DEF Pass
  <2> HIDE DEF t
  <2>3. /\ t \in Structures /\ t.list = s.list /\ t.triggers = s.triggers
        /\ t.depends = s.depends /\ t.finalized = s.finalized /\ t.unload = s.unload
        /\ t.grace = s.grace /\ t.distance = s.distance
        /\ t.cleared = [s.cleared EXCEPT ![p] = TRUE]
    BY <2>1, <2>2 DEF Structures
  <2>4. t.cleared[p] = TRUE /\ \A x \in Plugin : x # p => t.cleared[x] = s.cleared[x]
    BY <2>1, <2>3
  <2>5. Marked(t)
    BY <2>1, <2>3, <2>4 DEF Marked, Mark
  <2>6. Sound(t) /\ Fewer(s, t) /\ Kept(s, t)
    BY <2>3, <2>5, SoundIfMarked, FewerSame, KeptSame
  <2> QED BY <2>3, <2>4, <2>6 DEF t
<1> QED BY <1>1, <1>2

\* A walk gives a plugin finalized earlier a time limit.
LEMMA LimitedSound ==
  ASSUME NEW distance \in 1..Num, NEW s, Sound(s), NEW p \in Plugin,
         ~ Passed(s, p, distance), s.finalized[p]
  PROVE  LET t == Limited(s, p, distance)
         IN  /\ Sound(t) /\ Fewer(s, t) /\ Kept(s, t) /\ t.list = s.list
             /\ \A x \in Plugin :
                  /\ s.cleared[x] => t.cleared[x]
                  /\ s.distance[x] \in 1 .. distance - 1 => t.distance[x] = s.distance[x]
                  /\ x # p => t.distance[x] = s.distance[x] /\ t.cleared[x] = s.cleared[x]
             /\ t.cleared[p]
<1> DEFINE g == IF s.grace[p] = "unset" THEN "running" ELSE s.grace[p]
           t1 == [s EXCEPT !.distance[p] = distance]
           t2 == [t1 EXCEPT !.cleared[p] = TRUE]
           t == Limited(s, p, distance)
<1>1. /\ s \in Structures /\ p \in ToSet(s.list) /\ \A x \in Plugin : Mark(s, x)
      /\ s.cleared \in [Plugin -> BOOLEAN] /\ s.distance \in [Plugin -> Nat]
      /\ s.grace \in [Plugin -> {"unset", "marked", "running", "over"}]
  BY SoundIs, Fields
<1>2. ~ s.unload[p] /\ s.distance[p] \notin 1 .. distance - 1
  BY DEF Passed
<1>3. distance \in Nat /\ distance <= Num
  BY NumIs
<1>4. /\ t1 \in Structures /\ t1.list = s.list /\ t1.triggers = s.triggers
      /\ t1.depends = s.depends /\ t1.finalized = s.finalized /\ t1.unload = s.unload
      /\ t1.grace = s.grace /\ t1.distance = [s.distance EXCEPT ![p] = distance]
      /\ t1.cleared = s.cleared
  BY <1>1, <1>3 DEF Structures
<1>5. t = [t2 EXCEPT !.grace[p] = IF t2.grace[p] = "unset" THEN "running" ELSE t2.grace[p]]
  BY DEF Limited
<1> HIDE DEF t1
<1>6. /\ t2 \in Structures /\ t2.list = t1.list /\ t2.triggers = t1.triggers
      /\ t2.depends = t1.depends /\ t2.finalized = t1.finalized /\ t2.unload = t1.unload
      /\ t2.grace = t1.grace /\ t2.distance = t1.distance
      /\ t2.cleared = [t1.cleared EXCEPT ![p] = TRUE]
  BY <1>4 DEF Structures
<1> HIDE DEF t2, t
<1>7. t = [t2 EXCEPT !.grace[p] = g]
  BY <1>4, <1>5, <1>6
<1>8. g \in {"unset", "marked", "running", "over"} /\ (g = "marked" => s.grace[p] = "marked")
  BY <1>1
<1> HIDE DEF g
<1>9. /\ t \in Structures /\ t.list = t2.list /\ t.triggers = t2.triggers
      /\ t.depends = t2.depends /\ t.finalized = t2.finalized /\ t.unload = t2.unload
      /\ t.grace = [t2.grace EXCEPT ![p] = g]
      /\ t.distance = t2.distance /\ t.cleared = t2.cleared
  BY <1>6, <1>7, <1>8 DEF Structures
<1>10. /\ t.cleared[p] = TRUE /\ t.distance[p] = distance /\ t.grace[p] = g
       /\ \A x \in Plugin : x # p => /\ t.cleared[x] = s.cleared[x]
                                     /\ t.distance[x] = s.distance[x]
                                     /\ t.grace[x] = s.grace[x]
  BY <1>1, <1>4, <1>6, <1>9
<1>11. Marked(t)
  <2>1. \A x \in Plugin : Mark(t, x)
    BY <1>1, <1>3, <1>4, <1>6, <1>8, <1>9, <1>10 DEF Mark
  <2> QED BY <1>9, <2>1 DEF Marked
<1>12. Sound(t) /\ Fewer(s, t) /\ Kept(s, t)
  BY <1>4, <1>6, <1>9, <1>11, SoundIfMarked, FewerSame, KeptSame
<1> QED BY <1>2, <1>4, <1>6, <1>9, <1>10, <1>12 DEF t

\* A walk clears p only.
LEMMA OthersStay ==
  ASSUME NEW rank \in [Plugin -> Nat], NEW s, NEW t, NEW p \in Plugin, t.cleared[p],
         \A x \in Plugin :
           x # p => t.distance[x] = s.distance[x] /\ t.cleared[x] = s.cleared[x]
  PROVE  SettledFrom(rank, s, rank[p]) => Ascends(rank, s, t, p)
<1> SUFFICES ASSUME SettledFrom(rank, s, rank[p]) PROVE Ascends(rank, s, t, p)
  OBVIOUS
<1>1. \A x \in Plugin : rank[x] < rank[p] => x # p
  OBVIOUS
<1>2. \A x \in Plugin : x # p => (Unsettled(t, x) <=> Unsettled(s, x))
  BY DEF Unsettled
<1>3. SettledFrom(rank, t, rank[p])
  BY <1>2 DEF SettledFrom, Unsettled
<1> QED BY <1>1, <1>3 DEF Ascends

\* A walk only passes plugins that are cleared.
LEMMA PassAscends ==
  ASSUME NEW rank \in [Plugin -> Nat], NEW s, Sound(s), NEW p \in Plugin, NEW distance,
         Passed(s, p, distance)
  PROVE  SettledFrom(rank, s, rank[p]) => Ascends(rank, s, Pass(s, p), p)
<1> SUFFICES ASSUME SettledFrom(rank, s, rank[p]) PROVE Ascends(rank, s, Pass(s, p), p)
  OBVIOUS
<1> DEFINE t == Pass(s, p)
<1>1. /\ t.distance = s.distance /\ (s.cleared[p] => t.cleared[p])
      /\ \A x \in Plugin : x # p => t.cleared[x] = s.cleared[x]
      /\ s.unload[p] => t.cleared[p]
  BY PassSound
<1> HIDE DEF t
<1>2. s.distance[p] \in 1 .. distance - 1 => s.cleared[p]
  <2>1. rank[p] >= rank[p]
    OBVIOUS
  <2>2. ~ Unsettled(s, p)
    BY <2>1 DEF SettledFrom
  <2>3. s.distance[p] \in 1 .. distance - 1 => s.distance[p] > 0
    OBVIOUS
  <2> QED BY <2>2, <2>3 DEF Unsettled
<1>3. t.cleared[p]
  BY <1>1, <1>2 DEF Passed
<1>4. Ascends(rank, s, t, p)
  BY <1>1, <1>3, OthersStay
<1> QED BY <1>4 DEF t

\* A walk forces a plugin to go.
LEMMA ForcedSound ==
  ASSUME NEW distance \in 1..Num, NEW s, Sound(s), NEW p \in Plugin,
         p \in ToSet(s.list), ~ s.finalized[p]
  PROVE  LET f == Forced(s, p, distance)
         IN  /\ Sound(f) /\ Fewer(s, f) /\ Kept(s, f)
             /\ f.list = s.list /\ f.cleared = s.cleared /\ p \notin ToSet(f.triggers[p])
             /\ f.distance[p] = distance
             /\ \A x \in Plugin : x # p => f.distance[x] = s.distance[x]
<1> DEFINE m == [s EXCEPT !.distance[p] = distance, !.grace[p] = "marked"]
           f == remTrigger(m, p, p)
<1>1. Forced(s, p, distance) = f
  BY DEF Forced
<1>2. /\ s \in Structures /\ \A x \in Plugin : Mark(s, x)
      /\ s.distance \in [Plugin -> Nat]
      /\ s.grace \in [Plugin -> {"unset", "marked", "running", "over"}]
  BY SoundIs, Fields
<1>3. distance \in Nat /\ distance <= Num
  BY NumIs
<1>4. /\ m \in Structures /\ m.list = s.list /\ m.triggers = s.triggers
      /\ m.depends = s.depends /\ m.finalized = s.finalized /\ m.unload = s.unload
      /\ m.grace = [s.grace EXCEPT ![p] = "marked"]
      /\ m.distance = [s.distance EXCEPT ![p] = distance]
      /\ m.cleared = s.cleared
  BY <1>2, <1>3 DEF Structures
<1> HIDE DEF m
<1>5. /\ m.distance[p] = distance
      /\ \A x \in Plugin : x # p => /\ m.distance[x] = s.distance[x]
                                    /\ m.grace[x] = s.grace[x]
  BY <1>2, <1>4
<1>6. Marked(m)
  <2>1. \A x \in Plugin : Mark(m, x)
    BY <1>2, <1>4, <1>5, <1>3 DEF Mark
  <2> QED BY <1>4, <2>1 DEF Marked
<1>7. Sound(m) /\ Fewer(s, m) /\ Kept(s, m)
  BY <1>4, <1>6, SoundIfMarked, FewerSame, KeptSame
<1>8. /\ Sound(f) /\ Fewer(m, f) /\ Kept(m, f) /\ p \notin ToSet(f.triggers[p])
      /\ f.list = m.list /\ f.distance = m.distance /\ f.cleared = m.cleared
  BY <1>7, SelfTriggerRemoved DEF Gentle
<1> HIDE DEF f
<1>9. Fewer(s, f) /\ Kept(s, f)
  BY <1>7, <1>8, FewerTransitive, KeptTransitive
<1> QED BY <1>1, <1>4, <1>5, <1>8, <1>9

\* The loop of walkDepGraph() over the triggers.
EachUp(l, c, list) ==
  LET after[k \in 0..Len(list)] ==
        IF k = 0 THEN c ELSE Up(l, after[k - 1], list[k])
  IN  after[Len(list)]

\* The values of its variable, after each turn.
UpTurns(l, c, list, S, a) ==
  /\ a[0] = c /\ \A k \in 0..Len(list) : a[k] \in S
  /\ \A k \in 1..Len(list) : a[k] = Up(l, a[k - 1], list[k])
  /\ EachUp(l, c, list) = a[Len(list)]

LEMMA UpLoop ==
  ASSUME NEW l, NEW S, NEW M, NEW c \in S, NEW list \in Seq(M),
         \A t \in S, x \in M : Up(l, t, x) \in S
  PROVE  \E a : UpTurns(l, c, list, S, a)
<1> DEFINE F == [z \in S \X M |-> Up(l, z[1], z[2])]
           after[k \in 0..Len(list)] ==
             IF k = 0 THEN c ELSE Up(l, after[k - 1], list[k])
<1>1. /\ F \in [S \X M -> S]
      /\ \A t \in S, x \in M : F[<<t, x>>] = Up(l, t, x)
  OBVIOUS
<1>2. Len(list) \in Nat /\ \A i \in 1..Len(list) : list[i] \in M
  BY LenProperties, ElementOfSeq
<1> HIDE DEF F
<1>3. PICK a : Turns(a, Len(list), c, list, F) /\ \A k \in 0..Len(list) : a[k] \in S
  BY <1>1, LoopEnds
<1>4. a = [k \in 0..Len(list) |->
             IF k = 0 THEN c ELSE Up(l, a[k - 1], list[k])]
  <2>1. \A k \in 0..Len(list) :
          k # 0 => F[<<a[k - 1], list[k]>>] = Up(l, a[k - 1], list[k])
    <3>1. \A k \in 0..Len(list) : k # 0 => k - 1 \in 0..Len(list) /\ k \in 1..Len(list)
      BY <1>2
    <3> QED BY <1>1, <1>2, <1>3, <3>1
  <2> QED BY <1>3, <2>1 DEF Turns
<1>5. after = [k \in 0..Len(list) |->
                 IF k = 0 THEN c ELSE Up(l, after[k - 1], list[k])]
  BY <1>4, Zenon
<1>6. EachUp(l, c, list) = after[Len(list)]
  BY Zenon DEF EachUp
<1> HIDE DEF after
<1>7. after[0] = c /\ \A k \in 1..Len(list) : after[k] = Up(l, after[k - 1], list[k])
  BY <1>2, <1>5
<1>8. \A k \in 0..Len(list) : after[k] \in S
  <2>1. \A k \in 1..Len(list) : after[k - 1] \in S => after[k] \in S
    BY <1>2, <1>7
  <2> QED BY <1>2, <1>7, <2>1, LoopKeeps
<1> QED BY <1>6, <1>7, <1>8 DEF UpTurns

\* A plugin above p has been walked from, p's other triggers are cleared so far.
Rises(rank, f, v, p) ==
  /\ SettledFrom(rank, v.s, rank[p] + 1) /\ v.all
  /\ \A x \in Plugin : rank[x] <= rank[p] =>
       v.s.distance[x] = f.distance[x] /\ v.s.cleared[x] = f.cleared[x]

LEMMA RisesOn ==
  ASSUME NEW rank \in [Plugin -> Nat], NEW f, NEW v, NEW p \in Plugin, NEW t \in Plugin,
         rank[p] < rank[t], Rises(rank, f, v, p),
         NEW z, Ascends(rank, v.s, z.s, t), z.all = (v.all /\ z.s.cleared[t])
  PROVE  Rises(rank, f, z, p)
<1>1. ASSUME NEW x \in Plugin, rank[x] >= rank[p] + 1 PROVE ~ Unsettled(z.s, x)
  <2>1. CASE rank[x] >= rank[t]
    BY <2>1 DEF Ascends, SettledFrom
  <2>2. CASE ~ (rank[x] >= rank[t])
    <3>1. rank[x] < rank[t]
      BY <2>2
    <3>2. z.s.distance[x] = v.s.distance[x] /\ z.s.cleared[x] = v.s.cleared[x]
      BY <3>1 DEF Ascends
    <3>3. ~ Unsettled(v.s, x)
      BY <1>1 DEF Rises, SettledFrom
    <3> QED BY <3>2, <3>3 DEF Unsettled
  <2> QED BY <2>1, <2>2
<1>2. ASSUME NEW x \in Plugin, rank[x] <= rank[p]
      PROVE  z.s.distance[x] = f.distance[x] /\ z.s.cleared[x] = f.cleared[x]
  <2>1. rank[x] < rank[t]
    BY <1>2
  <2>2. z.s.distance[x] = v.s.distance[x] /\ z.s.cleared[x] = v.s.cleared[x]
    BY <2>1 DEF Ascends
  <2> QED BY <1>2, <2>2 DEF Rises
<1>3. z.all
  BY DEF Rises, Ascends
<1> QED BY <1>1, <1>2, <1>3 DEF Rises, SettledFrom

LEMMA WalkedGoes ==
  ASSUME NEW rank \in [Plugin -> Nat], NEW distance \in 1..Num, NEW l, Walker(rank, distance + 1, l),
         NEW w \in Walks, Sound(w.s), Near(w.s.distance, distance),
         NEW p \in Plugin, p \in ToSet(w.s.list),
         ~ Passed(w.s, p, distance), ~ w.s.finalized[p]
  PROVE  Goes(rank, distance, w, Walked(l, w, p, distance), p)
<1> DEFINE f == Forced(w.s, p, distance)
           c == [w EXCEPT !.s = f, !.all = TRUE]
           list == f.triggers[p]
           M == {t \in Plugin : t \in ToSet(f.list) /\ t \in ToSet(list)}
           Good(v) == /\ Sound(v.s) /\ Fewer(f, v.s) /\ Kept(f, v.s) /\ v.s.list = f.list
                      /\ v.deep = w.deep
                      /\ Climbs(rank, f) /\ SettledFrom(rank, f, rank[p] + 1) =>
                           Rises(rank, f, v, p) /\ (v.loop => w.loop)
                      /\ v.loop => w.loop \/ ~ v.all
                      /\ \A x \in Plugin :
                           /\ f.cleared[x] => v.s.cleared[x]
                           /\ f.distance[x] \in 1 .. distance =>
                                v.s.distance[x] = f.distance[x]
           S == {v \in Walks : Good(v)}
<1>1. distance \in Nat /\ distance <= Num /\ distance > 0
  BY NumIs
<1>2. /\ Sound(f) /\ Fewer(w.s, f) /\ Kept(w.s, f) /\ f.list = w.s.list /\ f.cleared = w.s.cleared
      /\ f.distance[p] = distance /\ p \notin ToSet(f.triggers[p])
      /\ \A x \in Plugin : x # p => f.distance[x] = w.s.distance[x]
  BY ForcedSound
<1>3. w.s.distance[p] \notin 1 .. distance - 1 /\ ~ w.s.cleared[p]
  BY DEF Passed
<1> HIDE DEF f
<1>4. /\ c \in Walks /\ c.s = f /\ c.loop = w.loop /\ c.all = TRUE /\ c.deep = w.deep
  <2>1. f \in Structures
    BY <1>2, SoundIs
  <2> QED BY <2>1 DEF Walks
<1> HIDE DEF c
<1>5. c \in S
  <2>1. Fewer(f, f) /\ Kept(f, f)
    BY FewerSame, KeptSame
  <2>2. SettledFrom(rank, f, rank[p] + 1) => Rises(rank, f, c, p)
    BY <1>4 DEF Rises
  <2> QED BY <1>2, <1>4, <2>1, <2>2
<1>6. Near(f.distance, distance + 1)
  <2>1. PICK A \in SUBSET Plugin : /\ Cardinality(A) = distance - 1
                                   /\ \A x \in A : w.s.distance[x] \in 1 .. distance - 1
    BY DEF Near
  <2>2. p \notin A
    BY <1>3, <2>1
  <2>3. IsFiniteSet(A)
    BY PluginsAssumption, FS_Subset
  <2>4. Cardinality(A \cup {p}) = Cardinality(A) + 1
    BY <2>2, <2>3, FS_AddElement
  <2>5. Cardinality(A \cup {p}) = (distance + 1) - 1
    <3>1. (distance - 1) + 1 = (distance + 1) - 1
      BY <1>1
    <3> QED BY <2>1, <2>4, <3>1
  <2>6. ASSUME NEW x \in A \cup {p} PROVE f.distance[x] \in 1 .. (distance + 1) - 1
    <3>1. CASE x = p
      BY <1>1, <1>2, <3>1
    <3>2. CASE x # p
      <4>1. f.distance[x] = w.s.distance[x] /\ w.s.distance[x] \in 1 .. distance - 1
        BY <1>2, <2>1, <2>6, <3>2
      <4> QED BY <1>1, <4>1
    <3> QED BY <3>1, <3>2
  <2>7. A \cup {p} \in SUBSET Plugin
    OBVIOUS
  <2> QED BY <2>5, <2>6, <2>7 DEF Near
<1>7. list \in Seq(M)
  <2>1. list \in Seq(Plugin) /\ Linked(f.list, f.triggers, f.depends)
    BY <1>2, SoundIs
  <2>2. ToSet(list) \subseteq M
    <3>1. ToSet(list) \subseteq Plugin
      BY <2>1, Members
    <3> QED BY <2>1, <3>1 DEF Linked
  <2> QED BY <2>1, <2>2, SeqWithin
<1>8. ASSUME NEW v \in S, NEW t \in M PROVE Up(l, v, t) \in S
  <2>1. /\ v \in Walks /\ Good(v) /\ t \in Plugin /\ t \in ToSet(f.list)
        /\ t \in ToSet(f.triggers[p])
    OBVIOUS
  <2>2. CASE v.s.unload[t]
    BY <2>2, Zenon DEF Up
  <2>3. CASE ~ v.s.unload[t]
    <3> DEFINE u == l[v][t]
               z == [u EXCEPT !.all = v.all /\ u.s.cleared[t]]
    <3>1. Up(l, v, t) = z
      BY <2>3, Zenon DEF Up
    <3>2. Near(v.s.distance, distance + 1)
      <4>1. PICK A \in SUBSET Plugin :
              /\ Cardinality(A) = (distance + 1) - 1
              /\ \A x \in A : f.distance[x] \in 1 .. (distance + 1) - 1
        BY <1>6 DEF Near
      <4>2. 1 .. (distance + 1) - 1 = 1 .. distance
        BY <1>1
      <4>3. \A x \in A : v.s.distance[x] \in 1 .. (distance + 1) - 1
        BY <2>1, <4>1, <4>2
      <4> QED BY <4>1, <4>3 DEF Near
    <3>3. Goes(rank, distance + 1, v, u, t)
      BY <2>1, <3>2 DEF Walker
    <3> HIDE DEF u, S, M
    <3>4. /\ u \in Walks /\ Sound(u.s) /\ Fewer(v.s, u.s) /\ Kept(v.s, u.s)
          /\ u.s.list = f.list
          /\ u.deep = w.deep
          /\ u.loop => v.loop \/ ~ u.s.cleared[t]
      BY <2>1, <3>3 DEF Goes
    <3>5. u.s.cleared[t] \in BOOLEAN /\ v.all \in BOOLEAN
      BY <2>1, <3>4, SoundIs, WalkIs
    <3>6. /\ z \in Walks /\ z.s = u.s /\ z.loop = u.loop /\ z.deep = u.deep
          /\ z.all = (v.all /\ u.s.cleared[t])
      BY <3>4, <3>5 DEF Walks
    <3> HIDE DEF z
    <3>7. Fewer(f, z.s) /\ Kept(f, z.s)
      BY <1>2, <2>1, <3>4, <3>6, FewerTransitive, KeptTransitive
    <3>8. z.loop => w.loop \/ ~ z.all
      BY <2>1, <3>4, <3>6
    <3>9. ASSUME NEW x \in Plugin
          PROVE  /\ f.cleared[x] => z.s.cleared[x]
                 /\ f.distance[x] \in 1 .. distance => z.s.distance[x] = f.distance[x]
      <4>1. /\ v.s.cleared[x] => u.s.cleared[x]
            /\ v.s.distance[x] \in 1 .. (distance + 1) - 1 =>
                 u.s.distance[x] = v.s.distance[x]
        BY <3>3 DEF Goes
      <4>2. 1 .. (distance + 1) - 1 = 1 .. distance
        BY <1>1
      <4>3. /\ f.cleared[x] => v.s.cleared[x]
            /\ f.distance[x] \in 1 .. distance => v.s.distance[x] = f.distance[x]
        BY <2>1
      <4> QED BY <3>6, <4>1, <4>2, <4>3
    <3>10. ASSUME Climbs(rank, f), SettledFrom(rank, f, rank[p] + 1)
           PROVE  Rises(rank, f, z, p) /\ (z.loop => w.loop)
      <4>1. Rises(rank, f, v, p) /\ (v.loop => w.loop) /\ Climbs(rank, v.s)
        BY <2>1, <3>10, FewerClimbs
      <4>2. rank[p] < rank[t]
        BY <1>2, <2>1, <3>10 DEF Climbs
      <4>3. SettledFrom(rank, v.s, rank[t])
        <5>1. /\ t \in Plugin /\ rank[p] \in Nat /\ rank[t] \in Nat
              /\ \A x \in Plugin : rank[x] \in Nat
          BY <2>1
        <5>2. \A x \in Plugin : rank[x] >= rank[t] => rank[x] >= rank[p] + 1
          BY <4>2, <5>1
        <5>3. SettledFrom(rank, v.s, rank[p] + 1)
          BY <4>1 DEF Rises
        <5> QED BY <5>2, <5>3 DEF SettledFrom
      <4>4. Ascends(rank, v.s, u.s, t) /\ (u.loop => v.loop)
        BY <3>3, <4>1, <4>3 DEF Goes
      <4>5. Ascends(rank, v.s, z.s, t) /\ z.all = (v.all /\ z.s.cleared[t])
        BY <3>6, <4>4
      <4>6. Rises(rank, f, z, p)
        BY <2>1, <4>1, <4>2, <4>5, RisesOn
      <4> QED BY <3>6, <4>1, <4>4, <4>6
    <3>11. Good(z)
      BY <3>4, <3>6, <3>7, <3>8, <3>9, <3>10
    <3>12. z \in S
      BY <3>6, <3>11 DEF S
    <3> QED BY <3>1, <3>12
  <2> QED BY <2>2, <2>3
<1> HIDE DEF S, M, list
<1> DEFINE v == EachUp(l, c, list)
<1>9. v \in S
  <2>1. \A z \in S, x \in M : Up(l, z, x) \in S
    BY <1>8, Zenon
  <2>2. PICK a : UpTurns(l, c, list, S, a)
    BY <1>5, <1>7, <2>1, UpLoop, Zenon
  <2>3. Len(list) \in 0..Len(list)
    BY <1>7, LenProperties
  <2> QED BY <2>2, <2>3 DEF UpTurns
<1> DEFINE t == [v.s EXCEPT !.cleared[p] = v.all]
           u == [v EXCEPT !.s = t, !.loop = v.loop \/ ~ v.all, !.all = w.all]
<1>10. Walked(l, w, p, distance) = u
  BY Zenon DEF Walked, ForEach, EachUp, f, c, list
<1> HIDE DEF v
<1>11. v \in Walks /\ Good(v)
  BY <1>9 DEF S
<1>12. /\ v.s \in Structures /\ v.all \in BOOLEAN /\ v.loop \in BOOLEAN
       /\ w.all \in BOOLEAN /\ v.s.cleared \in [Plugin -> BOOLEAN]
       /\ \A x \in Plugin : Mark(v.s, x)
       /\ p \in ToSet(v.s.list)
  <2>1. p \in ToSet(v.s.list)
    BY <1>2, <1>11
  <2>2. v.s \in Structures /\ v.all \in BOOLEAN /\ v.loop \in BOOLEAN /\ w.all \in BOOLEAN
    BY <1>11, WalkIs
  <2> QED BY <1>11, <2>1, <2>2, SoundIs, Fields
<1>13. /\ t \in Structures /\ t.list = v.s.list /\ t.triggers = v.s.triggers
       /\ t.depends = v.s.depends /\ t.finalized = v.s.finalized
       /\ t.unload = v.s.unload /\ t.grace = v.s.grace /\ t.distance = v.s.distance
       /\ t.cleared = [v.s.cleared EXCEPT ![p] = v.all]
  BY <1>12 DEF Structures
<1> HIDE DEF t
<1>14. t.cleared[p] = v.all /\ \A x \in Plugin : x # p => t.cleared[x] = v.s.cleared[x]
  BY <1>12, <1>13
<1>15. Marked(t)
  <2>1. \A x \in Plugin : Mark(t, x)
    BY <1>12, <1>13, <1>14 DEF Mark
  <2> QED BY <1>13, <2>1 DEF Marked
<1>16. Sound(t) /\ Fewer(v.s, t) /\ Kept(v.s, t)
  BY <1>11, <1>13, <1>15, SoundIfMarked, FewerSame, KeptSame
<1>17. Fewer(w.s, t) /\ Kept(w.s, t)
  <2>1. Fewer(w.s, v.s) /\ Kept(w.s, v.s)
    BY <1>2, <1>11, FewerTransitive, KeptTransitive
  <2> QED BY <1>11, <1>16, <2>1, FewerTransitive, KeptTransitive
<1>18. /\ u \in Walks /\ u.s = t /\ u.loop = (v.loop \/ ~ v.all) /\ u.all = w.all
       /\ u.deep = v.deep
  BY <1>11, <1>12, <1>13 DEF Walks
<1> HIDE DEF u
<1>19. ASSUME NEW x \in Plugin
       PROVE  /\ w.s.cleared[x] => t.cleared[x]
              /\ w.s.distance[x] \in 1 .. distance - 1 => t.distance[x] = w.s.distance[x]
  <2>1. CASE x = p
    BY <1>3, <2>1
  <2>2. CASE x # p
    <3>1. f.cleared[x] = w.s.cleared[x] /\ f.distance[x] = w.s.distance[x]
      BY <1>2, <2>2
    <3>2. f.distance[x] \in 1 .. distance - 1 => f.distance[x] \in 1 .. distance
      BY <1>1
    <3> QED BY <1>11, <1>13, <1>14, <2>2, <3>1, <3>2
  <2> QED BY <2>1, <2>2
<1>20. u.loop => w.loop \/ (~ t.cleared[p] /\ t.distance[p] > 0)
  <2>1. f.distance[p] \in 1 .. distance
    BY <1>1, <1>2
  <2>2. t.distance[p] = distance
    BY <1>2, <1>11, <1>13, <2>1
  <2>3. t.distance[p] > 0
    BY <1>1, <2>2
  <2>4. v.loop => w.loop \/ ~ v.all
    BY <1>11
  <2> QED BY <1>14, <1>18, <2>3, <2>4
<1>21. t.list = w.s.list /\ u.deep = w.deep
  BY <1>2, <1>11, <1>13, <1>18
<1>22. ASSUME Climbs(rank, w.s), SettledFrom(rank, w.s, rank[p])
       PROVE  Ascends(rank, w.s, t, p) /\ (u.loop => w.loop)
  <2>1. Climbs(rank, f)
    BY <1>2, <1>22, FewerClimbs
  <2>2. \A x \in Plugin : x # p => (Unsettled(f, x) <=> Unsettled(w.s, x))
    BY <1>2 DEF Unsettled
  <2>3. \A x \in Plugin : rank[x] >= rank[p] + 1 => x # p /\ rank[x] >= rank[p]
    OBVIOUS
  <2>4. SettledFrom(rank, f, rank[p] + 1)
    BY <1>22, <2>2, <2>3 DEF SettledFrom
  <2>5. Rises(rank, f, v, p) /\ (v.loop => w.loop)
    BY <1>11, <2>1, <2>4
  <2>6. v.all /\ SettledFrom(rank, v.s, rank[p] + 1)
    BY <2>5 DEF Rises
  <2>7. ASSUME NEW x \in Plugin, x # p, rank[x] <= rank[p]
        PROVE  t.distance[x] = w.s.distance[x] /\ t.cleared[x] = w.s.cleared[x]
    <3>1. v.s.distance[x] = f.distance[x] /\ v.s.cleared[x] = f.cleared[x]
      BY <2>5, <2>7 DEF Rises
    <3> QED BY <1>2, <1>13, <1>14, <2>7, <3>1
  <2>8. ASSUME NEW x \in Plugin, rank[x] >= rank[p] PROVE ~ Unsettled(t, x)
    <3>1. CASE x = p
      BY <1>14, <2>6, <3>1 DEF Unsettled
    <3>2. CASE x # p /\ rank[x] <= rank[p]
      <4>1. ~ Unsettled(w.s, x)
        BY <1>22, <2>8 DEF SettledFrom
      <4> QED BY <2>7, <3>2, <4>1 DEF Unsettled
    <3>3. CASE x # p /\ ~ (rank[x] <= rank[p])
      <4>1. rank[x] >= rank[p] + 1
        BY <3>3
      <4>2. ~ Unsettled(v.s, x)
        BY <2>6, <4>1 DEF SettledFrom
      <4> QED BY <1>13, <1>14, <3>3, <4>2 DEF Unsettled
    <3> QED BY <3>1, <3>2, <3>3
  <2>9. \A x \in Plugin : rank[x] < rank[p] => x # p /\ rank[x] <= rank[p]
    OBVIOUS
  <2>10. Ascends(rank, w.s, t, p)
    BY <1>14, <2>6, <2>7, <2>8, <2>9 DEF Ascends, SettledFrom
  <2> QED BY <1>18, <2>5, <2>6, <2>10
<1>23. Goes(rank, distance, w, u, p)
  BY <1>16, <1>17, <1>18, <1>19, <1>20, <1>21, <1>22 DEF Goes
<1> QED BY <1>10, <1>23

\* One level of walkDepGraph(), left before the last; l is the next one.
WalkLevel(left, l) ==
  [v \in Walks |-> [q \in Plugin |->
     LET distance == Num + 1 - left
     IN  IF Passed(v.s, q, distance) THEN [v EXCEPT !.s = Pass(@, q)]
         ELSE IF left = 0 THEN [v EXCEPT !.deep = TRUE]
         ELSE IF v.s.finalized[q] THEN [v EXCEPT !.s = Limited(@, q, distance)]
         ELSE Walked(l, v, q, distance)]]

\* The recursion is defined at every level.
LEMMA WalkLevels ==
  ASSUME NEW m \in Nat
  PROVE  \E a : a = [k \in 0..m |-> WalkLevel(k, a[k - 1])]
<1> DEFINE Runs(n, a) == a = [k \in 0..n |-> WalkLevel(k, a[k - 1])]
           T == {n \in 0..m : ~ \E a : Runs(n, a)}
<1>1. SUFFICES ASSUME T # {} PROVE FALSE
  <2>1. m \in 0..m
    OBVIOUS
  <2> QED BY <2>1
<1>2. PICK n \in T : \A y \in T : n <= y
  <2>1. T \subseteq Nat
    OBVIOUS
  <2> HIDE DEF T
  <2> QED BY <1>1, <2>1, LeastNumber
<1>3. \A x, y : WalkLevel(0, x) = WalkLevel(0, y)
  BY DEF WalkLevel
<1>4. CASE n = 0
  <2> DEFINE a == [k \in 0..0 |-> WalkLevel(0, 0)]
  <2>1. \A k \in 0..0 : k = 0
    OBVIOUS
  <2>2. a = [k \in 0..0 |-> WalkLevel(k, a[k - 1])]
    BY <1>3, <2>1
  <2> HIDE DEF a
  <2> QED BY <1>2, <1>4, <2>2
<1>5. CASE n # 0
  <2>1. n - 1 \in 0..m /\ ~(n <= n - 1) /\ n \in Nat
    BY <1>2, <1>5
  <2>2. PICK a : Runs(n - 1, a)
    BY <1>2, <2>1
  <2> DEFINE b == [k \in 0..n |-> IF k = n THEN WalkLevel(n, a[n - 1]) ELSE a[k]]
  <2>3. /\ b[n] = WalkLevel(n, a[n - 1])
        /\ \A k \in 0..(n - 1) : b[k] = a[k]
        /\ b = [k \in 0..n |-> b[k]]
    BY <2>1
  <2> HIDE DEF b
  <2>4. \A k \in 0..(n - 1) : a[k] = WalkLevel(k, a[k - 1])
    BY <2>2
  <2>5. ASSUME NEW k \in 0..n PROVE b[k] = WalkLevel(k, b[k - 1])
    <3>1. CASE k = n
      <4>1. n - 1 \in 0..(n - 1)
        BY <1>5, <2>1
      <4>2. b[k - 1] = a[n - 1]
        BY <2>3, <3>1, <4>1
      <4> QED BY <2>3, <3>1, <4>2
    <3>2. CASE k = 0
      <4>1. 0 \in 0..(n - 1)
        BY <1>5, <2>1
      <4>2. b[0] = WalkLevel(0, a[0 - 1])
        BY <2>3, <2>4, <4>1
      <4> QED BY <1>3, <3>2, <4>2
    <3>3. CASE k # n /\ k # 0
      <4>1. k \in 0..(n - 1) /\ k - 1 \in 0..(n - 1)
        BY <2>1, <3>3
      <4> QED BY <2>3, <2>4, <4>1
    <3> QED BY <3>1, <3>2, <3>3
  <2>6. Runs(n, b)
    BY <2>3, <2>5
  <2> QED BY <1>2, <2>6
<1> QED BY <1>4, <1>5

AllWalkLevels ==
  LET walk[left \in 0..Num] == WalkLevel(left, walk[left - 1]) IN walk

LEMMA WalksIs ==
  AllWalkLevels = [left \in 0..Num |-> WalkLevel(left, AllWalkLevels[left - 1])]
<1> DEFINE walk[left \in 0..Num] == WalkLevel(left, walk[left - 1])
<1>1. PICK a : a = [k \in 0..Num |-> WalkLevel(k, a[k - 1])]
  BY NumIs, WalkLevels
<1>2. walk = [left \in 0..Num |-> WalkLevel(left, walk[left - 1])]
  BY <1>1, Zenon
<1>3. AllWalkLevels = walk
  BY Zenon DEF AllWalkLevels
<1> HIDE DEF walk
<1> QED BY <1>2, <1>3

LEMMA WalkIsLast ==
  ASSUME NEW w, NEW p
  PROVE  walkDepGraph(w, p) = AllWalkLevels[Num][w][p]
BY Zenon DEF walkDepGraph, AllWalkLevels, WalkLevel

\* A walk never recurses deeper than there are plugins, and whoever it finds a
\* loop from is not cleared.
LEMMA WalkGoes ==
  ASSUME NEW rank \in [Plugin -> Nat], NEW w \in Walks, Sound(w.s), NEW p \in Plugin, p \in ToSet(w.s.list)
  PROVE  Goes(rank, 1, w, walkDepGraph(w, p), p)
<1> DEFINE walk == AllWalkLevels
<1>1. walk = [left \in 0..Num |-> WalkLevel(left, walk[left - 1])]
  BY WalksIs
<1> HIDE DEF walk
<1>2. ASSUME NEW left \in 0..Num, NEW v \in Walks, Sound(v.s),
             Near(v.s.distance, Num + 1 - left), NEW q \in Plugin, q \in ToSet(v.s.list),
             left = 0 \/ Walker(rank, Num + 1 - left + 1, walk[left - 1])
      PROVE  Goes(rank, Num + 1 - left, v, walk[left][v][q], q)
  <2> DEFINE distance == Num + 1 - left
             l == walk[left - 1]
             u == walk[left][v][q]
  <2>1. u = IF Passed(v.s, q, distance) THEN [v EXCEPT !.s = Pass(v.s, q)]
            ELSE IF left = 0 THEN [v EXCEPT !.deep = TRUE]
            ELSE IF v.s.finalized[q] THEN [v EXCEPT !.s = Limited(v.s, q, distance)]
            ELSE Walked(l, v, q, distance)
    <3>1. walk[left] = WalkLevel(left, l)
      BY <1>1
    <3> HIDE DEF l
    <3> DEFINE L == WalkLevel(left, l)
    <3>2. L[v][q] = IF Passed(v.s, q, distance) THEN [v EXCEPT !.s = Pass(v.s, q)]
                    ELSE IF left = 0 THEN [v EXCEPT !.deep = TRUE]
                    ELSE IF v.s.finalized[q] THEN [v EXCEPT !.s = Limited(v.s, q, distance)]
                    ELSE Walked(l, v, q, distance)
      BY Zenon DEF WalkLevel
    <3> QED BY <3>1, <3>2, Zenon
  <2>2. left = 0 \/ Walker(rank, distance + 1, l)
    BY <1>2
  <2>3. left = 0 => distance = Num + 1
    BY NumIs
  <2>4. left # 0 => distance \in 1..Num
    BY NumIs
  <2>5. Near(v.s.distance, distance)
    BY <1>2
  <2> HIDE DEF distance, l, u
  <2>6. CASE Passed(v.s, q, distance)
    <3> DEFINE t == Pass(v.s, q)
    <3>1. /\ Sound(t) /\ Fewer(v.s, t) /\ Kept(v.s, t)
          /\ t.list = v.s.list /\ t.distance = v.s.distance
          /\ \A x \in Plugin : v.s.cleared[x] => t.cleared[x]
      BY <1>2, PassSound
    <3>2. u = [v EXCEPT !.s = t]
      BY <2>1, <2>6
    <3>3. SettledFrom(rank, v.s, rank[q]) => Ascends(rank, v.s, t, q)
      BY <1>2, <2>6, PassAscends
    <3> HIDE DEF t
    <3>4. Goes(rank, distance, v, u, q)
      BY <3>1, <3>2, <3>3, GoesIf
    <3> QED BY <3>4 DEF u, distance
  <2>7. CASE ~ Passed(v.s, q, distance) /\ left = 0
    <3>1. PICK A \in SUBSET Plugin : /\ Cardinality(A) = distance - 1
                                     /\ \A x \in A : v.s.distance[x] \in 1 .. distance - 1
      BY <2>5 DEF Near
    <3>2. distance - 1 = Num
      BY <2>3, <2>7, NumIs
    <3>3. A = Plugin
      <4>1. Cardinality(Plugin) = Cardinality(A)
        BY <3>1, <3>2 DEF Num
      <4> QED BY <4>1, PluginsAssumption, FS_Subset
    <3>4. Passed(v.s, q, distance)
      BY <3>1, <3>3 DEF Passed
    <3> QED BY <2>7, <3>4
  <2>8. CASE ~ Passed(v.s, q, distance) /\ left # 0 /\ v.s.finalized[q]
    <3> DEFINE t == Limited(v.s, q, distance)
    <3>1. /\ Sound(t) /\ Fewer(v.s, t) /\ Kept(v.s, t) /\ t.list = v.s.list
          /\ \A x \in Plugin :
               /\ v.s.cleared[x] => t.cleared[x]
               /\ v.s.distance[x] \in 1 .. distance - 1 => t.distance[x] = v.s.distance[x]
               /\ x # q => t.distance[x] = v.s.distance[x] /\ t.cleared[x] = v.s.cleared[x]
          /\ t.cleared[q]
      BY <1>2, <2>4, <2>8, LimitedSound
    <3>2. u = [v EXCEPT !.s = t]
      BY <2>1, <2>8
    <3> HIDE DEF t
    <3>3. SettledFrom(rank, v.s, rank[q]) => Ascends(rank, v.s, t, q)
      BY <3>1, OthersStay
    <3>4. Goes(rank, distance, v, u, q)
      BY <3>1, <3>2, <3>3, GoesIf
    <3> QED BY <3>4 DEF u, distance
  <2>9. CASE ~ Passed(v.s, q, distance) /\ left # 0 /\ ~ v.s.finalized[q]
    <3>1. u = Walked(l, v, q, distance)
      BY <2>1, <2>9
    <3>2. Goes(rank, distance, v, Walked(l, v, q, distance), q)
      <4>1. distance \in 1..Num /\ Walker(rank, distance + 1, l)
        BY <2>2, <2>4, <2>9
      <4> QED BY <1>2, <2>5, <2>9, <4>1, WalkedGoes
    <3> QED BY <3>1, <3>2 DEF u, distance
  <2> QED BY <2>6, <2>7, <2>8, <2>9
<1>3. \A left \in 0..Num :
        left = 0 \/ Walker(rank, Num + 1 - left + 1, walk[left - 1])
          => Walker(rank, Num + 1 - left, walk[left])
  BY <1>2 DEF Walker
<1> DEFINE B == [left \in 0..Num |-> Walker(rank, Num + 1 - left, walk[left])]
<1>4. /\ B \in [0..Num -> BOOLEAN]
      /\ \A left \in 0..Num : B[left] = Walker(rank, Num + 1 - left, walk[left])
  <2>1. \A left \in 0..Num : Walker(rank, Num + 1 - left, walk[left]) \in BOOLEAN
    BY DEF Walker
  <2> QED BY <2>1
<1> HIDE DEF B
<1>5. \A left \in 0..Num : B[left]
  <2>1. /\ 0 \in 0..Num
        /\ \A left \in 1..Num : /\ left \in 0..Num /\ left - 1 \in 0..Num
                                /\ Num + 1 - left + 1 = Num + 1 - (left - 1)
    BY NumIs
  <2>2. B[0]
    BY <1>3, <1>4, <2>1
  <2>3. \A left \in 1..Num : B[left - 1] => B[left]
    BY <1>3, <1>4, <2>1
  <2> QED BY <1>4, <2>2, <2>3, LoopReaches, NumIs
<1>6. Walker(rank, 1, walk[Num])
  <2>1. Num \in 0..Num /\ Num + 1 - Num = 1
    BY NumIs
  <2> QED BY <1>4, <1>5, <2>1
<1>7. Near(w.s.distance, 1)
  <2>1. Cardinality({}) = 1 - 1
    BY FS_EmptySet
  <2> QED BY <2>1 DEF Near
<1>8. Goes(rank, 1, w, walk[Num][w][p], p)
  BY <1>6, <1>7 DEF Walker
<1> QED BY <1>8, WalkIsLast DEF walk

-----------------------------------------------------------------------------
(***************************************************************************)
(* Removing by force                                                       *)
(***************************************************************************)

\* The loop that takes all its triggers from a victim.
EachKickOut(victim, c, list) ==
  LET after[k \in 0..Len(list)] ==
        IF k = 0 THEN c ELSE remTrigger(remDepend(after[k - 1], list[k], victim), victim, list[k])
  IN  after[Len(list)]

\* The values of its variable, after each turn.
KickOutTurns(victim, c, list, S, a) ==
  /\ a[0] = c /\ \A k \in 0..Len(list) : a[k] \in S
  /\ \A k \in 1..Len(list) : a[k] = remTrigger(remDepend(a[k - 1], list[k], victim), victim, list[k])
  /\ EachKickOut(victim, c, list) = a[Len(list)]

LEMMA KickOutLoop ==
  ASSUME NEW victim, NEW S, NEW M, NEW c \in S, NEW list \in Seq(M),
         \A t \in S, x \in M : remTrigger(remDepend(t, x, victim), victim, x) \in S
  PROVE  \E a : KickOutTurns(victim, c, list, S, a)
<1> DEFINE F == [z \in S \X M |-> remTrigger(remDepend(z[1], z[2], victim), victim, z[2])]
           after[k \in 0..Len(list)] ==
             IF k = 0 THEN c ELSE remTrigger(remDepend(after[k - 1], list[k], victim), victim, list[k])
<1>1. /\ F \in [S \X M -> S]
      /\ \A t \in S, x \in M : F[<<t, x>>] = remTrigger(remDepend(t, x, victim), victim, x)
  OBVIOUS
<1>2. Len(list) \in Nat /\ \A i \in 1..Len(list) : list[i] \in M
  BY LenProperties, ElementOfSeq
<1> HIDE DEF F
<1>3. PICK a : Turns(a, Len(list), c, list, F) /\ \A k \in 0..Len(list) : a[k] \in S
  BY <1>1, LoopEnds
<1>4. a = [k \in 0..Len(list) |->
             IF k = 0 THEN c ELSE remTrigger(remDepend(a[k - 1], list[k], victim), victim, list[k])]
  <2>1. \A k \in 0..Len(list) :
          k # 0 => F[<<a[k - 1], list[k]>>] = remTrigger(remDepend(a[k - 1], list[k], victim), victim, list[k])
    <3>1. \A k \in 0..Len(list) : k # 0 => k - 1 \in 0..Len(list) /\ k \in 1..Len(list)
      BY <1>2
    <3> QED BY <1>1, <1>2, <1>3, <3>1
  <2> QED BY <1>3, <2>1 DEF Turns
<1>5. after = [k \in 0..Len(list) |->
                 IF k = 0 THEN c ELSE remTrigger(remDepend(after[k - 1], list[k], victim), victim, list[k])]
  BY <1>4, Zenon
<1>6. EachKickOut(victim, c, list) = after[Len(list)]
  BY Zenon DEF EachKickOut
<1> HIDE DEF after
<1>7. after[0] = c /\ \A k \in 1..Len(list) : after[k] = remTrigger(remDepend(after[k - 1], list[k], victim), victim, list[k])
  BY <1>2, <1>5
<1>8. \A k \in 0..Len(list) : after[k] \in S
  <2>1. \A k \in 1..Len(list) : after[k - 1] \in S => after[k] \in S
    BY <1>2, <1>7
  <2> QED BY <1>2, <1>7, <2>1, LoopKeeps
<1> QED BY <1>6, <1>7, <1>8 DEF KickOutTurns

\* The victim of a loop is cleared and keeps no more references than it had.
LEMMA KickOutSound ==
  ASSUME NEW s, Sound(s), NEW victim \in Plugin, victim \in ToSet(s.list)
  PROVE  LET u == KickOut(s, victim)
         IN  /\ Sound(u) /\ Fewer(s, u) /\ u.list = s.list
             /\ u.cleared[victim] = TRUE
             /\ \A x \in Plugin : s.cleared[x] => u.cleared[x]
<1> DEFINE list == s.triggers[victim]
           Good(t) == /\ Sound(t) /\ Fewer(s, t) /\ t.list = s.list
                      /\ t.cleared = s.cleared
           S == {t \in Structures : Good(t)}
<1>1. s \in S
  <2>1. s \in Structures /\ Fewer(s, s)
    BY SoundIs, FewerSame
  <2> QED BY <2>1
<1>2. list \in Seq(Plugin)
  BY SoundIs
<1>3. ASSUME NEW t \in S, NEW q \in Plugin
      PROVE  remTrigger(remDepend(t, q, victim), victim, q) \in S
  <2> DEFINE u == remTrigger(remDepend(t, q, victim), victim, q)
  <2>1. Good(t) /\ victim \in ToSet(t.list)
    OBVIOUS
  <2> HIDE DEF S
  <2>2. CASE q # victim
    <3>1. Sound(u) /\ CutBetween(t, u, q, victim)
      BY <2>1, <2>2, CutFromAbove
    <3> HIDE DEF u
    <3>2. Fewer(t, u) /\ u.list = t.list /\ u.cleared = t.cleared
      BY <2>1, <2>2, <3>1, CutFewer DEF CutBetween
    <3>3. Fewer(s, u)
      BY <2>1, <3>1, <3>2, FewerTransitive
    <3>4. u \in Structures
      BY <3>1, SoundIs
    <3>5. u \in S
      BY <2>1, <3>1, <3>2, <3>3, <3>4 DEF S
    <3> QED BY <3>5 DEF u
  <2>3. CASE q = victim
    <3> DEFINE m == remDepend(t, victim, victim)
               v == remTrigger(m, victim, victim)
    <3>1. Marked(t) /\ Listed(t.depends[victim]) /\ Linked(t.list, t.triggers, t.depends)
      BY <2>1, SoundIs
    <3>2. /\ Marked(m) /\ m.list = t.list /\ m.triggers = t.triggers
          /\ m.finalized = t.finalized /\ m.cleared = t.cleared
          /\ m.depends[victim] = remRef(t.depends[victim], victim)
          /\ \A x \in Plugin : x # victim => m.depends[x] = t.depends[x]
      BY <3>1, DependRemoved
    <3> HIDE DEF m
    <3>3. remRef(t.depends[victim], victim) = t.depends[victim]
      <4>1. ~ Contains(t.depends[victim], victim)
        <5>1. victim \notin ToSet(t.depends[victim]) /\ t.depends[victim] \in Seq(Plugin)
          BY <3>1 DEF Linked, Listed
        <5> QED BY <5>1, Members
      <4> QED BY <4>1, Zenon DEF remRef
    <3>4. \A x \in Plugin : m.triggers[x] = t.triggers[x] /\ m.depends[x] = t.depends[x]
      BY <3>2, <3>3
    <3>5. Linked(t.list, m.triggers, m.depends)
      BY <3>1, <3>4, LinksSame
    <3>6. Sound(m) /\ Fewer(t, m)
      BY <3>2, <3>5, FewerSame DEF Sound, Marked
    <3>7. Sound(v) /\ Fewer(m, v) /\ v.list = m.list /\ v.cleared = m.cleared
      BY <3>6, SelfTriggerRemoved DEF Gentle
    <3>8. u = v
      BY <2>3 DEF m
    <3> HIDE DEF v, u
    <3>9. Fewer(t, v)
      BY <2>1, <3>6, <3>7, FewerTransitive
    <3>10. Fewer(s, v)
      BY <2>1, <3>7, <3>9, FewerTransitive
    <3>11. v \in Structures
      BY <3>7, SoundIs
    <3>12. u \in S
      BY <2>1, <3>2, <3>7, <3>8, <3>10, <3>11 DEF S
    <3> QED BY <3>12 DEF u
  <2> QED BY <2>2, <2>3
<1> HIDE DEF S, list
<1> DEFINE v == EachKickOut(victim, s, list)
<1>4. v \in S
  <2>1. \A t \in S, q \in Plugin : remTrigger(remDepend(t, q, victim), victim, q) \in S
    BY <1>3, Zenon
  <2>2. PICK a : KickOutTurns(victim, s, list, S, a)
    BY <1>1, <1>2, <2>1, KickOutLoop, Zenon
  <2>3. Len(list) \in 0..Len(list)
    BY <1>2, LenProperties
  <2> QED BY <2>2, <2>3 DEF KickOutTurns
<1> DEFINE u == [v EXCEPT !.cleared[victim] = TRUE]
<1>5. KickOut(s, victim) = u
  BY Zenon DEF KickOut, ForEach, EachKickOut, list
<1> HIDE DEF v
<1>6. v \in Structures /\ Good(v)
  BY <1>4 DEF S
<1>7. v.cleared \in [Plugin -> BOOLEAN] /\ \A x \in Plugin : Mark(v, x)
  BY <1>6, SoundIs, Fields
<1>8. /\ u \in Structures /\ u.list = v.list /\ u.triggers = v.triggers
      /\ u.depends = v.depends /\ u.finalized = v.finalized /\ u.unload = v.unload
      /\ u.grace = v.grace /\ u.distance = v.distance
      /\ u.cleared = [v.cleared EXCEPT ![victim] = TRUE]
  BY <1>6 DEF Structures
<1> HIDE DEF u
<1>9. /\ u.cleared[victim] = TRUE
      /\ \A x \in Plugin : x # victim => u.cleared[x] = v.cleared[x]
  BY <1>7, <1>8
<1>10. Marked(u)
  <2>1. \A x \in Plugin : Mark(u, x)
    <3>1. victim \in ToSet(u.list)
      BY <1>6, <1>8
    <3> QED BY <1>7, <1>8, <1>9, <3>1 DEF Mark
  <2> QED BY <1>8, <2>1 DEF Marked
<1>11. Sound(u) /\ Fewer(v, u)
  BY <1>6, <1>8, <1>10, SoundIfMarked, FewerSame
<1>12. Fewer(s, u)
  BY <1>6, <1>11, FewerTransitive
<1> QED BY <1>5, <1>6, <1>8, <1>9, <1>11, <1>12

\* findMaxDistPlugin() finds a victim if there is a plugin that is not cleared.
LEMMA FarthestFound ==
  ASSUME NEW s, Sound(s), NEW p \in Plugin, p \in ToSet(s.list),
         s.distance[p] > 0, ~ s.cleared[p]
  PROVE  Farthest(s) # {}
<1> DEFINE D == {i \in DOMAIN s.list : s.distance[s.list[i]] > 0 /\ ~ s.cleared[s.list[i]]}
           T == {n \in 0..Num : \E i \in D : n = Num - s.distance[s.list[i]]}
<1>1. /\ s.list \in Seq(Plugin) /\ Num \in Nat
      /\ \A i \in DOMAIN s.list : s.list[i] \in Plugin
  BY SoundIs, Members, NumIs DEF Listed
<1>2. \A i \in DOMAIN s.list : s.distance[s.list[i]] \in Nat /\ s.distance[s.list[i]] <= Num
  BY <1>1, SoundIs
<1>3. PICK i \in D : s.list[i] = p
  BY <1>1, Members
<1>4. T \subseteq Nat /\ T # {}
  <2>1. Num - s.distance[s.list[i]] \in 0..Num
    BY <1>1, <1>2
  <2> QED BY <1>3, <2>1
<1>5. PICK n \in T : \A m \in T : n <= m
  <2> HIDE DEF T
  <2> QED BY <1>4, LeastNumber
<1>6. PICK j \in D : n = Num - s.distance[s.list[j]]
  OBVIOUS
<1>7. ASSUME NEW k \in D PROVE s.distance[s.list[k]] <= s.distance[s.list[j]]
  <2>1. Num - s.distance[s.list[k]] \in T
    <3>1. Num - s.distance[s.list[k]] \in 0..Num
      BY <1>1, <1>2
    <3> QED BY <3>1
  <2>2. n <= Num - s.distance[s.list[k]]
    BY <1>5, <2>1
  <2>3. /\ s.distance[s.list[k]] \in Nat /\ s.distance[s.list[j]] \in Nat
        /\ Num - s.distance[s.list[j]] <= Num - s.distance[s.list[k]]
    BY <1>2, <1>6, <2>2
  <2> QED BY <1>1, <2>3
<1>8. j \in Farthest(s)
  BY <1>6, <1>7, Zenon DEF Farthest
<1> QED BY <1>8

LEMMA VictimIs ==
  ASSUME NEW s, Sound(s), Farthest(s) # {}
  PROVE  LET victim == findMaxDistPlugin(s)
         IN  /\ victim \in Plugin /\ victim \in ToSet(s.list) /\ ~ s.cleared[victim]
<1> DEFINE F == Farthest(s)
           i == CHOOSE i \in F : \A j \in F : i <= j
<1>1. /\ s.list \in Seq(Plugin) /\ DOMAIN s.list = 1..Len(s.list) /\ Len(s.list) \in Nat
      /\ \A k \in DOMAIN s.list : s.list[k] \in Plugin /\ s.list[k] \in ToSet(s.list)
  BY SoundIs, Members DEF Listed
<1>2. \A k \in F : k \in DOMAIN s.list /\ ~ s.cleared[s.list[k]]
  BY Zenon DEF Farthest
<1>3. F \subseteq Nat
  BY <1>1, <1>2
<1> HIDE DEF F
<1>4. \E k \in F : \A j \in F : k <= j
  BY <1>3, LeastNumber DEF F
<1>5. i \in F
  BY <1>4
<1>6. findMaxDistPlugin(s) = s.list[i]
  BY Zenon DEF findMaxDistPlugin, F
<1> QED BY <1>1, <1>2, <1>5, <1>6

\* One round of forceUnloadPlugin(): there is a victim as long as there is a
\* loop, and each round clears one.
Rounds == [s : Structures, again : BOOLEAN, ok : BOOLEAN]

Uncleared(s) == {x \in Plugin : ~ s.cleared[x]}

LEMMA RoundSound ==
  ASSUME NEW rank \in [Plugin -> Nat],
         NEW r \in Rounds, Sound(r.s), NEW p \in Plugin, p \in ToSet(r.s.list)
  PROVE  LET z == Round(r, p)
         IN  /\ z \in Rounds /\ Sound(z.s) /\ Fewer(r.s, z.s) /\ z.s.list = r.s.list
             /\ z.ok = r.ok
             /\ z.again => \E x \in Uncleared(r.s) :
                             Uncleared(z.s) \subseteq Uncleared(r.s) \ {x}
             /\ Steady(rank, r.s) => Gentle(r.s, z.s)
<1> DEFINE w0 == [s |-> r.s, loop |-> FALSE, all |-> TRUE, deep |-> FALSE]
           w == walkDepGraph(w0, p)
           z == Round(r, p)
<1>1. r.s \in Structures /\ r.ok \in BOOLEAN
  BY DEF Rounds
<1>2. /\ w0 \in Walks /\ w0.s = r.s /\ w0.loop = FALSE /\ w0.deep = FALSE
  BY <1>1 DEF Walks
<1>3. Goes(rank, 1, w0, w, p)
  BY <1>2, WalkGoes
<1>4. z = IF w.loop /\ Farthest(w.s) # {}
          THEN [s |-> KickOut(w.s, findMaxDistPlugin(w.s)), again |-> TRUE,
                ok |-> r.ok /\ ~ w.deep]
          ELSE [s |-> w.s, again |-> FALSE, ok |-> r.ok /\ ~ w.loop /\ ~ w.deep]
  BY Zenon DEF Round
<1> HIDE DEF w0, w
<1>5. /\ w \in Walks /\ Sound(w.s) /\ Fewer(r.s, w.s) /\ w.s.list = r.s.list
      /\ w.deep = FALSE
      /\ \A x \in Plugin : r.s.cleared[x] => w.s.cleared[x]
      /\ w.loop => ~ w.s.cleared[p] /\ w.s.distance[p] > 0
  BY <1>2, <1>3 DEF Goes
<1>10. Steady(rank, r.s) => ~ w.loop /\ Gentle(r.s, w.s)
  <2> SUFFICES ASSUME Steady(rank, r.s) PROVE ~ w.loop /\ Gentle(r.s, w.s)
    OBVIOUS
  <2>1. Climbs(rank, w0.s) /\ SettledFrom(rank, w0.s, rank[p])
    BY <1>2 DEF Steady, SettledFrom
  <2>2. Ascends(rank, r.s, w.s, p) /\ ~ w.loop /\ Kept(r.s, w.s)
    BY <1>2, <1>3, <2>1 DEF Goes
  <2> QED BY <1>5, <2>2, AscendsSteady
<1>6. w.loop => Farthest(w.s) # {}
  BY <1>5, FarthestFound
<1>7. w.s \in Structures
  BY <1>5, SoundIs
<1>8. CASE w.loop
  <2> DEFINE victim == findMaxDistPlugin(w.s)
             u == KickOut(w.s, victim)
  <2>1. victim \in Plugin /\ victim \in ToSet(w.s.list) /\ ~ w.s.cleared[victim]
    BY <1>5, <1>6, <1>8, VictimIs
  <2>2. z = [s |-> u, again |-> TRUE, ok |-> r.ok]
    <3>1. (r.ok /\ ~ w.deep) = r.ok
      BY <1>1, <1>5
    <3> QED BY <1>4, <1>6, <1>8, <3>1, Zenon
  <2> HIDE DEF victim
  <2>3. /\ Sound(u) /\ Fewer(w.s, u) /\ u.list = w.s.list
        /\ u.cleared[victim] = TRUE
        /\ \A x \in Plugin : w.s.cleared[x] => u.cleared[x]
    BY <1>5, <2>1, KickOutSound
  <2> HIDE DEF u, z
  <2>4. u \in Structures
    BY <2>3, SoundIs
  <2>5. z \in Rounds /\ z.s = u /\ z.ok = r.ok
    BY <1>1, <2>2, <2>4 DEF Rounds
  <2>6. Fewer(r.s, u)
    BY <1>5, <2>3, FewerTransitive
  <2>7. victim \in Uncleared(r.s) /\ Uncleared(u) \subseteq Uncleared(r.s) \ {victim}
    BY <1>5, <2>1, <2>3 DEF Uncleared
  <2> QED BY <1>5, <1>8, <1>10, <2>3, <2>5, <2>6, <2>7 DEF z
<1>9. CASE ~ w.loop
  <2>1. z = [s |-> w.s, again |-> FALSE, ok |-> r.ok]
    <3>1. (r.ok /\ ~ w.loop /\ ~ w.deep) = r.ok
      BY <1>1, <1>5, <1>9
    <3> QED BY <1>4, <1>9, <3>1, Zenon
  <2> HIDE DEF z
  <2>2. z \in Rounds /\ z.s = w.s /\ z.ok = r.ok /\ z.again = FALSE
    BY <1>1, <1>7, <2>1 DEF Rounds
  <2> QED BY <1>5, <1>10, <2>2 DEF z
<1> QED BY <1>8, <1>9

\* A loop that goes on only if a number has become less ends in time.
LEMMA CountDown ==
  ASSUME NEW n \in Nat, NEW B \in [0..n + 1 -> BOOLEAN], NEW c \in [0..n + 1 -> Nat],
         c[0] <= n,
         \A k \in 1..n + 1 : B[k] => B[k - 1] /\ c[k] < c[k - 1]
  PROVE  ~ B[n + 1]
<1> DEFINE G == [k \in 0..n + 1 |-> B[k] => c[k] + k <= n]
<1>1. /\ G \in [0..n + 1 -> BOOLEAN]
      /\ \A k \in 0..n + 1 : G[k] = (B[k] => c[k] + k <= n)
  <2>1. \A k \in 0..n + 1 : (B[k] => c[k] + k <= n) \in BOOLEAN
    OBVIOUS
  <2> QED BY <2>1
<1> HIDE DEF G
<1>2. G[0]
  BY <1>1
<1>3. ASSUME NEW k \in 1..n + 1, G[k - 1] PROVE G[k]
  <2>1. k \in 0..n + 1 /\ k - 1 \in 0..n + 1
    OBVIOUS
  <2>2. SUFFICES ASSUME B[k] PROVE c[k] + k <= n
    BY <1>1, <2>1
  <2>3. c[k - 1] + (k - 1) <= n /\ c[k] < c[k - 1]
    BY <1>1, <1>3, <2>1, <2>2
  <2>4. c[k] \in Nat /\ c[k - 1] \in Nat /\ k \in Nat
    BY <2>1
  <2> QED BY <2>3, <2>4
<1>4. n + 1 \in Nat /\ n + 1 \in 0..n + 1
  OBVIOUS
<1>5. G[n + 1]
  BY <1>1, <1>2, <1>3, <1>4, LoopReaches
<1>6. B[n + 1] => c[n + 1] + (n + 1) <= n
  BY <1>1, <1>4, <1>5
<1>7. c[n + 1] \in Nat
  BY <1>4
<1> QED BY <1>6, <1>7

LEMMA RepeatedIs ==
  /\ Repeated \in Seq(Nat) /\ Len(Repeated) = Num + 1
<1> DEFINE r == [i \in 1..Num + 1 |-> i]
<1>1. Num + 1 \in Nat
  BY NumIs
<1>2. r \in [1..Num + 1 -> Nat]
  OBVIOUS
<1>3. r \in UNION {[1..k -> Nat] : k \in Nat}
  BY <1>1, <1>2, Zenon
<1>4. r \in Seq(Nat)
  BY <1>3, SeqDef, Zenon
<1>5. DOMAIN r = 1..Num + 1
  OBVIOUS
<1> HIDE DEF r
<1>6. Len(r) = Num + 1
  BY <1>1, <1>4, <1>5, LenProperties
<1>7. Repeated = r
  BY Zenon DEF Repeated, r
<1> QED BY <1>4, <1>6, <1>7

\* The rounds of forceUnloadPlugin().
EachRound(p, c, list) ==
  LET after[k \in 0..Len(list)] ==
        IF k = 0 THEN c ELSE (IF after[k - 1].again THEN Round(after[k - 1], p) ELSE after[k - 1])
  IN  after[Len(list)]

\* The values of its variable, after each turn.
RoundTurns(p, c, list, S, a) ==
  /\ a[0] = c /\ \A k \in 0..Len(list) : a[k] \in S
  /\ \A k \in 1..Len(list) : a[k] = (IF a[k - 1].again THEN Round(a[k - 1], p) ELSE a[k - 1])
  /\ EachRound(p, c, list) = a[Len(list)]

LEMMA RoundLoop ==
  ASSUME NEW p, NEW S, NEW M, NEW c \in S, NEW list \in Seq(M),
         \A t \in S, x \in M : (IF t.again THEN Round(t, p) ELSE t) \in S
  PROVE  \E a : RoundTurns(p, c, list, S, a)
<1> DEFINE F == [z \in S \X M |-> (IF z[1].again THEN Round(z[1], p) ELSE z[1])]
           after[k \in 0..Len(list)] ==
             IF k = 0 THEN c ELSE (IF after[k - 1].again THEN Round(after[k - 1], p) ELSE after[k - 1])
<1>1. /\ F \in [S \X M -> S]
      /\ \A t \in S, x \in M : F[<<t, x>>] = (IF t.again THEN Round(t, p) ELSE t)
  OBVIOUS
<1>2. Len(list) \in Nat /\ \A i \in 1..Len(list) : list[i] \in M
  BY LenProperties, ElementOfSeq
<1> HIDE DEF F
<1>3. PICK a : Turns(a, Len(list), c, list, F) /\ \A k \in 0..Len(list) : a[k] \in S
  BY <1>1, LoopEnds
<1>4. a = [k \in 0..Len(list) |->
             IF k = 0 THEN c ELSE (IF a[k - 1].again THEN Round(a[k - 1], p) ELSE a[k - 1])]
  <2>1. \A k \in 0..Len(list) :
          k # 0 => F[<<a[k - 1], list[k]>>] = (IF a[k - 1].again THEN Round(a[k - 1], p) ELSE a[k - 1])
    <3>1. \A k \in 0..Len(list) : k # 0 => k - 1 \in 0..Len(list) /\ k \in 1..Len(list)
      BY <1>2
    <3> QED BY <1>1, <1>2, <1>3, <3>1
  <2> QED BY <1>3, <2>1 DEF Turns
<1>5. after = [k \in 0..Len(list) |->
                 IF k = 0 THEN c ELSE (IF after[k - 1].again THEN Round(after[k - 1], p) ELSE after[k - 1])]
  BY <1>4, Zenon
<1>6. EachRound(p, c, list) = after[Len(list)]
  BY Zenon DEF EachRound
<1> HIDE DEF after
<1>7. after[0] = c /\ \A k \in 1..Len(list) : after[k] = (IF after[k - 1].again THEN Round(after[k - 1], p) ELSE after[k - 1])
  BY <1>2, <1>5
<1>8. \A k \in 0..Len(list) : after[k] \in S
  <2>1. \A k \in 1..Len(list) : after[k - 1] \in S => after[k] \in S
    BY <1>2, <1>7
  <2> QED BY <1>2, <1>7, <2>1, LoopKeeps
<1> QED BY <1>6, <1>7, <1>8 DEF RoundTurns

\* Removing a plugin by force ends, with a victim in each round but the last.
LEMMA ForceSound ==
  ASSUME NEW rank \in [Plugin -> Nat], NEW s, Sound(s), NEW p \in Plugin, p \in ToSet(s.list)
  PROVE  LET f == forceUnloadPlugin(s, p)
         IN  /\ f.ok = TRUE /\ f.s \in Structures /\ Sound(f.s) /\ Fewer(s, f.s)
             /\ f.s.list = s.list
             /\ f = [s |-> f.s, ok |-> TRUE]
             /\ Steady(rank, s) => Gentle(s, f.s)
<1> DEFINE c == [s |-> s, again |-> TRUE, ok |-> TRUE]
           S == {r \in Rounds : /\ Sound(r.s) /\ Fewer(s, r.s) /\ r.s.list = s.list
                                /\ r.ok = TRUE
                                /\ Steady(rank, s) => Gentle(s, r.s)}
           N == Num + 1
<1>1. c \in Rounds /\ c.s = s /\ c.ok = TRUE /\ c.again = TRUE
  BY SoundIs DEF Rounds
<1> HIDE DEF c
<1>2. c \in S
  BY <1>1, FewerSame, GentleSame
<1>3. ASSUME NEW r \in S
      PROVE  LET z == Round(r, p)
             IN  /\ z \in S
                 /\ z.again => Cardinality(Uncleared(z.s)) < Cardinality(Uncleared(r.s))
  <2> DEFINE z == Round(r, p)
  <2>1. r \in Rounds /\ Sound(r.s) /\ p \in ToSet(r.s.list)
    OBVIOUS
  <2>2. /\ z \in Rounds /\ Sound(z.s) /\ Fewer(r.s, z.s) /\ z.s.list = r.s.list
        /\ z.ok = r.ok
        /\ z.again => \E x \in Uncleared(r.s) :
                        Uncleared(z.s) \subseteq Uncleared(r.s) \ {x}
        /\ Steady(rank, r.s) => Gentle(r.s, z.s)
    BY <2>1, RoundSound
  <2> HIDE DEF z
  <2>3. Fewer(s, z.s)
    BY <2>1, <2>2, FewerTransitive
  <2>6. Steady(rank, s) => Gentle(s, z.s)
    <3>1. Steady(rank, s) => Gentle(s, r.s)
      OBVIOUS
    <3> QED BY <2>1, <2>2, <3>1, GentleSteady, GentleTransitive
  <2>4. z \in S
    BY <2>2, <2>3, <2>6
  <2>5. ASSUME z.again PROVE Cardinality(Uncleared(z.s)) < Cardinality(Uncleared(r.s))
    <3>1. PICK x \in Uncleared(r.s) : Uncleared(z.s) \subseteq Uncleared(r.s) \ {x}
      BY <2>2, <2>5
    <3> DEFINE A == Uncleared(r.s)
               B == Uncleared(z.s)
    <3>2. IsFiniteSet(A)
      BY PluginsAssumption, FS_Subset DEF Uncleared
    <3> HIDE DEF A, B
    <3>3. IsFiniteSet(A \ {x}) /\ Cardinality(A \ {x}) = Cardinality(A) - 1
      BY <3>1, <3>2, FS_RemoveElement DEF A
    <3>4. Cardinality(B) <= Cardinality(A \ {x}) /\ IsFiniteSet(B)
      BY <3>1, <3>3, FS_Subset DEF A, B
    <3>5. Cardinality(A) \in Nat /\ Cardinality(B) \in Nat
      BY <3>2, <3>4, FS_CardinalityType
    <3>6. Cardinality(B) < Cardinality(A)
      BY <3>3, <3>4, <3>5
    <3> QED BY <3>6 DEF A, B
  <2> QED BY <2>4, <2>5 DEF z
<1>4. /\ Repeated \in Seq(Nat) /\ Len(Repeated) = N /\ N \in Nat
  BY RepeatedIs, NumIs
<1> HIDE DEF S, N
<1>5. PICK a : RoundTurns(p, c, Repeated, S, a)
  <2>1. \A r \in S, i \in Nat : (IF r.again THEN Round(r, p) ELSE r) \in S
    BY <1>3, Zenon
  <2> QED BY <1>2, <1>4, <2>1, RoundLoop, Zenon
<1>6. /\ a[0] = c /\ \A k \in 0..N : a[k] \in S
      /\ \A k \in 1..N : a[k] = IF a[k - 1].again THEN Round(a[k - 1], p) ELSE a[k - 1]
      /\ EachRound(p, c, Repeated) = a[N]
  BY <1>4, <1>5 DEF RoundTurns
<1>7. ~ a[N].again
  <2> DEFINE B == [k \in 0..Num + 1 |-> a[k].again]
             n == [k \in 0..Num + 1 |-> Cardinality(Uncleared(a[k].s))]
  <2>1. \A k \in 0..Num + 1 : a[k].again \in BOOLEAN
    BY <1>6 DEF S, Rounds, N
  <2>2. \A k \in 0..Num + 1 : Cardinality(Uncleared(a[k].s)) \in Nat
    BY PluginsAssumption, FS_Subset, FS_CardinalityType DEF Uncleared
  <2>3. /\ B \in [0..Num + 1 -> BOOLEAN] /\ n \in [0..Num + 1 -> Nat]
        /\ \A k \in 0..Num + 1 : B[k] = a[k].again /\ n[k] = Cardinality(Uncleared(a[k].s))
    BY <2>1, <2>2
  <2> HIDE DEF B, n
  <2>4. n[0] <= Num
    <3>1. Cardinality(Uncleared(a[0].s)) <= Num
      BY PluginsAssumption, FS_Subset DEF Uncleared, Num
    <3>2. 0 \in 0..Num + 1
      BY NumIs
    <3> QED BY <2>3, <3>1, <3>2
  <2>5. ASSUME NEW k \in 1..Num + 1, B[k] PROVE B[k - 1] /\ n[k] < n[k - 1]
    <3>1. k \in 0..Num + 1 /\ k - 1 \in 0..Num + 1
      BY NumIs
    <3>2. a[k] = IF a[k - 1].again THEN Round(a[k - 1], p) ELSE a[k - 1]
      BY <1>6 DEF N
    <3>3. a[k].again
      BY <2>3, <2>5, <3>1
    <3>4. a[k - 1].again
      BY <3>2, <3>3
    <3>5. a[k - 1] \in S /\ a[k] = Round(a[k - 1], p)
      BY <1>6, <3>1, <3>2, <3>4 DEF N
    <3>6. Cardinality(Uncleared(a[k].s)) < Cardinality(Uncleared(a[k - 1].s))
      BY <1>3, <3>3, <3>5
    <3> QED BY <2>3, <3>1, <3>4, <3>6
  <2>6. ~ B[Num + 1]
    BY <2>3, <2>4, <2>5, CountDown, NumIs
  <2>7. Num + 1 \in 0..Num + 1
    BY NumIs
  <2> QED BY <2>3, <2>6, <2>7 DEF N
<1> DEFINE r == EachRound(p, c, Repeated)
<1>8. forceUnloadPlugin(s, p) = [s |-> r.s, ok |-> r.ok /\ ~ r.again]
  BY Zenon DEF forceUnloadPlugin, ForEach, EachRound, c
<1>9. N \in 0..N
  BY <1>4
<1>10. r \in S /\ ~ r.again
  BY <1>6, <1>7, <1>9
<1> HIDE DEF r
<1>11. /\ r \in Rounds /\ Sound(r.s) /\ Fewer(s, r.s) /\ r.s.list = s.list
       /\ r.ok = TRUE /\ r.s \in Structures
       /\ Steady(rank, s) => Gentle(s, r.s)
  BY <1>10, SoundIs DEF S
<1>12. forceUnloadPlugin(s, p) = [s |-> r.s, ok |-> TRUE]
  BY <1>8, <1>10, <1>11
<1> QED BY <1>11, <1>12

Results == [s : Structures, ok : BOOLEAN]

\* The loop of PSIDplugin_forceUnloadAll().
EachForceUnload(c, list) ==
  LET after[k \in 0..Len(list)] ==
        IF k = 0 THEN c ELSE ForceUnload(after[k - 1], list[k])
  IN  after[Len(list)]

\* The values of its variable, after each turn.
ForceUnloadTurns(c, list, S, a) ==
  /\ a[0] = c /\ \A k \in 0..Len(list) : a[k] \in S
  /\ \A k \in 1..Len(list) : a[k] = ForceUnload(a[k - 1], list[k])
  /\ EachForceUnload(c, list) = a[Len(list)]

LEMMA ForceUnloadLoop ==
  ASSUME NEW S, NEW M, NEW c \in S, NEW list \in Seq(M),
         \A t \in S, x \in M : ForceUnload(t, x) \in S
  PROVE  \E a : ForceUnloadTurns(c, list, S, a)
<1> DEFINE F == [z \in S \X M |-> ForceUnload(z[1], z[2])]
           after[k \in 0..Len(list)] ==
             IF k = 0 THEN c ELSE ForceUnload(after[k - 1], list[k])
<1>1. /\ F \in [S \X M -> S]
      /\ \A t \in S, x \in M : F[<<t, x>>] = ForceUnload(t, x)
  OBVIOUS
<1>2. Len(list) \in Nat /\ \A i \in 1..Len(list) : list[i] \in M
  BY LenProperties, ElementOfSeq
<1> HIDE DEF F
<1>3. PICK a : Turns(a, Len(list), c, list, F) /\ \A k \in 0..Len(list) : a[k] \in S
  BY <1>1, LoopEnds
<1>4. a = [k \in 0..Len(list) |->
             IF k = 0 THEN c ELSE ForceUnload(a[k - 1], list[k])]
  <2>1. \A k \in 0..Len(list) :
          k # 0 => F[<<a[k - 1], list[k]>>] = ForceUnload(a[k - 1], list[k])
    <3>1. \A k \in 0..Len(list) : k # 0 => k - 1 \in 0..Len(list) /\ k \in 1..Len(list)
      BY <1>2
    <3> QED BY <1>1, <1>2, <1>3, <3>1
  <2> QED BY <1>3, <2>1 DEF Turns
<1>5. after = [k \in 0..Len(list) |->
                 IF k = 0 THEN c ELSE ForceUnload(after[k - 1], list[k])]
  BY <1>4, Zenon
<1>6. EachForceUnload(c, list) = after[Len(list)]
  BY Zenon DEF EachForceUnload
<1> HIDE DEF after
<1>7. after[0] = c /\ \A k \in 1..Len(list) : after[k] = ForceUnload(after[k - 1], list[k])
  BY <1>2, <1>5
<1>8. \A k \in 0..Len(list) : after[k] \in S
  <2>1. \A k \in 1..Len(list) : after[k - 1] \in S => after[k] \in S
    BY <1>2, <1>7
  <2> QED BY <1>2, <1>7, <2>1, LoopKeeps
<1> QED BY <1>6, <1>7, <1>8 DEF ForceUnloadTurns

LEMMA ForceAllSound ==
  ASSUME NEW rank \in [Plugin -> Nat], NEW s, Sound(s)
  PROVE  LET r == PSIDplugin_forceUnloadAll(s)
         IN  r.ok = TRUE /\ Sound(r.s) /\ Fewer(s, r.s) /\ r.s.list = s.list
             /\ (Steady(rank, s) => Gentle(s, r.s))
<1> DEFINE c == [s |-> s, ok |-> TRUE]
           S == {r \in Results : /\ Sound(r.s) /\ Fewer(s, r.s) /\ r.s.list = s.list
                                 /\ r.ok = TRUE
                                 /\ Steady(rank, s) => Gentle(s, r.s)}
           M == ToSet(s.list)
<1>1. c \in Results /\ c.s = s /\ c.ok = TRUE
  BY SoundIs DEF Results
<1> HIDE DEF c
<1>2. c \in S
  BY <1>1, FewerSame, GentleSame
<1>3. s.list \in Seq(M) /\ M \subseteq Plugin
  BY SoundIs, SeqWithin DEF Listed
<1>4. ASSUME NEW r \in S, NEW p \in M PROVE ForceUnload(r, p) \in S
  <2> DEFINE f == forceUnloadPlugin(r.s, p)
             z == [f EXCEPT !.ok = f.ok /\ r.ok]
  <2>1. ForceUnload(r, p) = IF r.s.grace[p] # "unset" \/ r.s.unload[p] THEN r ELSE z
    BY Zenon DEF ForceUnload
  <2>2. /\ Sound(r.s) /\ p \in Plugin /\ p \in ToSet(r.s.list) /\ r.ok = TRUE
        /\ Fewer(s, r.s) /\ r.s.list = s.list
        /\ Steady(rank, s) => Gentle(s, r.s)
    BY <1>3
  <2> HIDE DEF S, M
  <2>3. /\ f.ok = TRUE /\ f.s \in Structures /\ Sound(f.s) /\ Fewer(r.s, f.s)
        /\ f.s.list = r.s.list /\ f = [s |-> f.s, ok |-> TRUE]
        /\ Steady(rank, r.s) => Gentle(r.s, f.s)
    BY <2>2, ForceSound
  <2> HIDE DEF f
  <2>4. z = [s |-> f.s, ok |-> TRUE]
    BY <2>2, <2>3
  <2> HIDE DEF z
  <2>5. z \in Results /\ z.s = f.s /\ z.ok = TRUE
    BY <2>3, <2>4 DEF Results
  <2>6. Fewer(s, f.s)
    BY <2>2, <2>3, FewerTransitive
  <2>8. Steady(rank, s) => Gentle(s, f.s)
    BY <2>2, <2>3, GentleSteady, GentleTransitive
  <2>7. z \in S
    BY <2>2, <2>3, <2>5, <2>6, <2>8 DEF S
  <2> QED BY <2>1, <2>7
<1> HIDE DEF S, M
<1>5. EachForceUnload(c, s.list) \in S
  <2>1. \A r \in S, p \in M : ForceUnload(r, p) \in S
    BY <1>4, Zenon
  <2>2. PICK a : ForceUnloadTurns(c, s.list, S, a)
    BY <1>2, <1>3, <2>1, ForceUnloadLoop, Zenon
  <2>3. Len(s.list) \in 0..Len(s.list)
    BY <1>3, LenProperties
  <2> QED BY <2>2, <2>3 DEF ForceUnloadTurns
<1>6. PSIDplugin_forceUnloadAll(s) = EachForceUnload(c, s.list)
  BY Zenon DEF PSIDplugin_forceUnloadAll, ForEach, EachForceUnload, c
<1> QED BY <1>5, <1>6 DEF S

-----------------------------------------------------------------------------
(***************************************************************************)
(* The main loop and the shutdown                                          *)
(***************************************************************************)

\* What the main loop does with all plugins.
EachHandled(c, list) ==
  LET after[k \in 0..Len(list)] ==
        IF k = 0 THEN c ELSE Handled(after[k - 1], list[k])
  IN  after[Len(list)]

\* The values of its variable, after each turn.
HandledTurns(c, list, S, a) ==
  /\ a[0] = c /\ \A k \in 0..Len(list) : a[k] \in S
  /\ \A k \in 1..Len(list) : a[k] = Handled(a[k - 1], list[k])
  /\ EachHandled(c, list) = a[Len(list)]

LEMMA HandledLoop ==
  ASSUME NEW S, NEW M, NEW c \in S, NEW list \in Seq(M),
         \A t \in S, x \in M : Handled(t, x) \in S
  PROVE  \E a : HandledTurns(c, list, S, a)
<1> DEFINE F == [z \in S \X M |-> Handled(z[1], z[2])]
           after[k \in 0..Len(list)] ==
             IF k = 0 THEN c ELSE Handled(after[k - 1], list[k])
<1>1. /\ F \in [S \X M -> S]
      /\ \A t \in S, x \in M : F[<<t, x>>] = Handled(t, x)
  OBVIOUS
<1>2. Len(list) \in Nat /\ \A i \in 1..Len(list) : list[i] \in M
  BY LenProperties, ElementOfSeq
<1> HIDE DEF F
<1>3. PICK a : Turns(a, Len(list), c, list, F) /\ \A k \in 0..Len(list) : a[k] \in S
  BY <1>1, LoopEnds
<1>4. a = [k \in 0..Len(list) |->
             IF k = 0 THEN c ELSE Handled(a[k - 1], list[k])]
  <2>1. \A k \in 0..Len(list) :
          k # 0 => F[<<a[k - 1], list[k]>>] = Handled(a[k - 1], list[k])
    <3>1. \A k \in 0..Len(list) : k # 0 => k - 1 \in 0..Len(list) /\ k \in 1..Len(list)
      BY <1>2
    <3> QED BY <1>1, <1>2, <1>3, <3>1
  <2> QED BY <1>3, <2>1 DEF Turns
<1>5. after = [k \in 0..Len(list) |->
                 IF k = 0 THEN c ELSE Handled(after[k - 1], list[k])]
  BY <1>4, Zenon
<1>6. EachHandled(c, list) = after[Len(list)]
  BY Zenon DEF EachHandled
<1> HIDE DEF after
<1>7. after[0] = c /\ \A k \in 1..Len(list) : after[k] = Handled(after[k - 1], list[k])
  BY <1>2, <1>5
<1>8. \A k \in 0..Len(list) : after[k] \in S
  <2>1. \A k \in 1..Len(list) : after[k - 1] \in S => after[k] \in S
    BY <1>2, <1>7
  <2> QED BY <1>2, <1>7, <2>1, LoopKeeps
<1> QED BY <1>6, <1>7, <1>8 DEF HandledTurns

LEMMA HandledSound ==
  ASSUME NEW s, Sound(s), NEW p \in Plugin
  PROVE  LET u == Handled(s, p)
         IN  Sound(u) /\ Gentle(s, u) /\ ToSet(u.list) \subseteq ToSet(s.list)
<1> DEFINE late == s.finalized[p] /\ ~ s.unload[p] /\ s.grace[p] = "over"
           m == IF late THEN unloadPlugin(s, p) ELSE s
           u == doUnload(m, p)
<1>1. Handled(s, p) = u
  BY Zenon DEF Handled
<1>2. Sound(m) /\ Gentle(s, m) /\ m.list = s.list
  <2>1. CASE late
    <3>1. Sound(unloadPlugin(s, p)) /\ Gentle(s, unloadPlugin(s, p))
          /\ unloadPlugin(s, p).list = s.list
      BY <2>1, UnloadSound
    <3> QED BY <2>1, <3>1
  <2>2. CASE ~ late
    <3>1. m = s
      BY <2>2
    <3> HIDE DEF m
    <3> QED BY <3>1, GentleSame
  <2> QED BY <2>1, <2>2
<1> HIDE DEF m, late
<1>3. /\ Sound(u) /\ Gentle(m, u)
      /\ ToSet(u.list) = IF m.unload[p] /\ m.triggers[p] = <<>>
                         THEN ToSet(m.list) \ {p} ELSE ToSet(m.list)
  BY <1>2, Evicted
<1> HIDE DEF u
<1>4. Gentle(s, u)
  BY <1>2, <1>3, GentleTransitive
<1> QED BY <1>1, <1>2, <1>3, <1>4

LEMMA AllHandledSound ==
  ASSUME NEW s, Sound(s)
  PROVE  LET u == AllHandled(s)
         IN  Sound(u) /\ Gentle(s, u) /\ ToSet(u.list) \subseteq ToSet(s.list)
<1> DEFINE S == {t \in Structures : /\ Sound(t) /\ Gentle(s, t)
                                    /\ ToSet(t.list) \subseteq ToSet(s.list)}
<1>1. s \in S /\ s.list \in Seq(Plugin)
  BY SoundIs, GentleSame DEF Listed
<1>2. ASSUME NEW t \in S, NEW p \in Plugin PROVE Handled(t, p) \in S
  <2> DEFINE u == Handled(t, p)
  <2>1. Sound(t) /\ Gentle(s, t) /\ ToSet(t.list) \subseteq ToSet(s.list)
    OBVIOUS
  <2>2. Sound(u) /\ Gentle(t, u) /\ ToSet(u.list) \subseteq ToSet(t.list)
    BY <2>1, HandledSound
  <2> HIDE DEF u
  <2>3. Gentle(s, u) /\ u \in Structures
    BY <2>1, <2>2, GentleTransitive, SoundIs
  <2>4. u \in S
    BY <2>1, <2>2, <2>3
  <2> QED BY <2>4 DEF u
<1> HIDE DEF S
<1>3. EachHandled(s, s.list) \in S
  <2>1. \A t \in S, p \in Plugin : Handled(t, p) \in S
    BY <1>2, Zenon
  <2>2. PICK a : HandledTurns(s, s.list, S, a)
    BY <1>1, <2>1, HandledLoop, Zenon
  <2>3. Len(s.list) \in 0..Len(s.list)
    BY <1>1, LenProperties
  <2> QED BY <2>2, <2>3 DEF HandledTurns
<1>4. AllHandled(s) = EachHandled(s, s.list)
  BY Zenon DEF AllHandled, ForEach, EachHandled
<1> QED BY <1>3, <1>4 DEF S

\* One plugin in a pass of PSIDplugin_finalizeAll(): without loops a plugin
\* that asks for another pass has been evicted.
Passes == [s : Structures, rerun : BOOLEAN]

LEMMA FinalizeSound ==
  ASSUME NEW r \in Passes, Sound(r.s), NEW p \in Plugin
  PROVE  LET z == Finalize(r, p)
         IN  /\ z \in Passes /\ Sound(z.s) /\ Gentle(r.s, z.s)
             /\ ToSet(z.s.list) \subseteq ToSet(r.s.list)
             /\ Clean(r.s) /\ z.rerun /\ ~ r.rerun =>
                  ToSet(z.s.list) # ToSet(r.s.list)
<1> DEFINE m == IF r.s.finalized[p] THEN r.s ELSE remTrigger(r.s, p, p)
           u == doUnload(m, p)
           z == Finalize(r, p)
<1>1. z = [s |-> u, rerun |-> r.rerun \/ m.unload[p]]
  BY Zenon DEF Finalize
<1>2. Sound(m) /\ Gentle(r.s, m) /\ m.list = r.s.list
  <2>1. CASE r.s.finalized[p]
    <3>1. m = r.s
      BY <2>1
    <3> HIDE DEF m
    <3> QED BY <3>1, GentleSame
  <2>2. CASE ~ r.s.finalized[p]
    <3>1. m = remTrigger(r.s, p, p)
      BY <2>2
    <3> HIDE DEF m
    <3> QED BY <3>1, SelfTriggerRemoved
  <2> QED BY <2>1, <2>2
<1> HIDE DEF m
<1>3. /\ Sound(u) /\ Gentle(m, u)
      /\ ToSet(u.list) = IF m.unload[p] /\ m.triggers[p] = <<>>
                         THEN ToSet(m.list) \ {p} ELSE ToSet(m.list)
  BY <1>2, Evicted
<1> HIDE DEF u, z
<1>4. Gentle(r.s, u)
  BY <1>2, <1>3, GentleTransitive
<1>5. u \in Structures /\ m.unload[p] \in BOOLEAN /\ r.rerun \in BOOLEAN
  BY <1>2, <1>3, SoundIs DEF Passes
<1>6. z \in Passes /\ z.s = u /\ z.rerun = (r.rerun \/ m.unload[p])
  BY <1>1, <1>5 DEF Passes
<1>7. ASSUME Clean(r.s), z.rerun, ~ r.rerun PROVE ToSet(u.list) # ToSet(r.s.list)
  <2>1. m.unload[p]
    BY <1>6, <1>7
  <2>2. m.finalized[p] /\ p \in ToSet(m.list)
    BY <1>2, <2>1, SoundIs
  <2>3. m.triggers[p] = <<>>
    <3>1. Clean(m)
      BY <1>2, <1>7, FewerClean DEF Gentle
    <3> QED BY <2>2, <3>1 DEF Clean
  <2> QED BY <1>2, <1>3, <2>1, <2>2, <2>3
<1> QED BY <1>2, <1>3, <1>4, <1>6, <1>7 DEF z

\* A pass of PSIDplugin_finalizeAll().
EachFinalize(c, list) ==
  LET after[k \in 0..Len(list)] ==
        IF k = 0 THEN c ELSE Finalize(after[k - 1], list[k])
  IN  after[Len(list)]

\* The values of its variable, after each turn.
FinalizeTurns(c, list, S, a) ==
  /\ a[0] = c /\ \A k \in 0..Len(list) : a[k] \in S
  /\ \A k \in 1..Len(list) : a[k] = Finalize(a[k - 1], list[k])
  /\ EachFinalize(c, list) = a[Len(list)]

LEMMA FinalizeLoop ==
  ASSUME NEW S, NEW M, NEW c \in S, NEW list \in Seq(M),
         \A t \in S, x \in M : Finalize(t, x) \in S
  PROVE  \E a : FinalizeTurns(c, list, S, a)
<1> DEFINE F == [z \in S \X M |-> Finalize(z[1], z[2])]
           after[k \in 0..Len(list)] ==
             IF k = 0 THEN c ELSE Finalize(after[k - 1], list[k])
<1>1. /\ F \in [S \X M -> S]
      /\ \A t \in S, x \in M : F[<<t, x>>] = Finalize(t, x)
  OBVIOUS
<1>2. Len(list) \in Nat /\ \A i \in 1..Len(list) : list[i] \in M
  BY LenProperties, ElementOfSeq
<1> HIDE DEF F
<1>3. PICK a : Turns(a, Len(list), c, list, F) /\ \A k \in 0..Len(list) : a[k] \in S
  BY <1>1, LoopEnds
<1>4. a = [k \in 0..Len(list) |->
             IF k = 0 THEN c ELSE Finalize(a[k - 1], list[k])]
  <2>1. \A k \in 0..Len(list) :
          k # 0 => F[<<a[k - 1], list[k]>>] = Finalize(a[k - 1], list[k])
    <3>1. \A k \in 0..Len(list) : k # 0 => k - 1 \in 0..Len(list) /\ k \in 1..Len(list)
      BY <1>2
    <3> QED BY <1>1, <1>2, <1>3, <3>1
  <2> QED BY <1>3, <2>1 DEF Turns
<1>5. after = [k \in 0..Len(list) |->
                 IF k = 0 THEN c ELSE Finalize(after[k - 1], list[k])]
  BY <1>4, Zenon
<1>6. EachFinalize(c, list) = after[Len(list)]
  BY Zenon DEF EachFinalize
<1> HIDE DEF after
<1>7. after[0] = c /\ \A k \in 1..Len(list) : after[k] = Finalize(after[k - 1], list[k])
  BY <1>2, <1>5
<1>8. \A k \in 0..Len(list) : after[k] \in S
  <2>1. \A k \in 1..Len(list) : after[k - 1] \in S => after[k] \in S
    BY <1>2, <1>7
  <2> QED BY <1>2, <1>7, <2>1, LoopKeeps
<1> QED BY <1>6, <1>7, <1>8 DEF FinalizeTurns

LEMMA FinalizePassSound ==
  ASSUME NEW s, Sound(s)
  PROVE  LET r == FinalizePass(s)
         IN  /\ r \in Passes /\ Sound(r.s) /\ Gentle(s, r.s)
             /\ ToSet(r.s.list) \subseteq ToSet(s.list)
             /\ Clean(s) /\ r.rerun => ToSet(r.s.list) # ToSet(s.list)
<1> DEFINE c == [s |-> s, rerun |-> FALSE]
           S == {r \in Passes : /\ Sound(r.s) /\ Gentle(s, r.s)
                                /\ ToSet(r.s.list) \subseteq ToSet(s.list)
                                /\ Clean(s) /\ r.rerun => ToSet(r.s.list) # ToSet(s.list)}
<1>1. c \in Passes /\ c.s = s /\ c.rerun = FALSE
  BY SoundIs DEF Passes
<1> HIDE DEF c
<1>2. c \in S /\ s.list \in Seq(Plugin)
  BY <1>1, SoundIs, GentleSame DEF Listed
<1>3. ASSUME NEW r \in S, NEW p \in Plugin PROVE Finalize(r, p) \in S
  <2> DEFINE z == Finalize(r, p)
  <2>1. /\ r \in Passes /\ Sound(r.s) /\ Gentle(s, r.s)
        /\ ToSet(r.s.list) \subseteq ToSet(s.list)
        /\ Clean(s) /\ r.rerun => ToSet(r.s.list) # ToSet(s.list)
    OBVIOUS
  <2>2. /\ z \in Passes /\ Sound(z.s) /\ Gentle(r.s, z.s)
        /\ ToSet(z.s.list) \subseteq ToSet(r.s.list)
        /\ Clean(r.s) /\ z.rerun /\ ~ r.rerun => ToSet(z.s.list) # ToSet(r.s.list)
    BY <2>1, FinalizeSound
  <2> HIDE DEF z
  <2>3. Gentle(s, z.s)
    BY <2>1, <2>2, GentleTransitive
  <2>4. ASSUME Clean(s), z.rerun PROVE ToSet(z.s.list) # ToSet(s.list)
    <3>1. Clean(r.s)
      BY <2>1, <2>4, FewerClean DEF Gentle
    <3> QED BY <2>1, <2>2, <2>4, <3>1
  <2>5. z \in S
    BY <2>1, <2>2, <2>3, <2>4
  <2> QED BY <2>5 DEF z
<1> HIDE DEF S
<1>4. EachFinalize(c, s.list) \in S
  <2>1. \A r \in S, p \in Plugin : Finalize(r, p) \in S
    BY <1>3, Zenon
  <2>2. PICK a : FinalizeTurns(c, s.list, S, a)
    BY <1>2, <2>1, FinalizeLoop, Zenon
  <2>3. Len(s.list) \in 0..Len(s.list)
    BY <1>2, LenProperties
  <2> QED BY <2>2, <2>3 DEF FinalizeTurns
<1>5. FinalizePass(s) = EachFinalize(c, s.list)
  BY Zenon DEF FinalizePass, ForEach, EachFinalize, c
<1> QED BY <1>4, <1>5 DEF S

\* The passes of PSIDplugin_finalizeAll().
EachRerun(c, list) ==
  LET after[k \in 0..Len(list)] ==
        IF k = 0 THEN c ELSE (IF after[k - 1].rerun THEN FinalizePass(after[k - 1].s) ELSE after[k - 1])
  IN  after[Len(list)]

\* The values of its variable, after each turn.
RerunTurns(c, list, S, a) ==
  /\ a[0] = c /\ \A k \in 0..Len(list) : a[k] \in S
  /\ \A k \in 1..Len(list) : a[k] = (IF a[k - 1].rerun THEN FinalizePass(a[k - 1].s) ELSE a[k - 1])
  /\ EachRerun(c, list) = a[Len(list)]

LEMMA RerunLoop ==
  ASSUME NEW S, NEW M, NEW c \in S, NEW list \in Seq(M),
         \A t \in S, x \in M : (IF t.rerun THEN FinalizePass(t.s) ELSE t) \in S
  PROVE  \E a : RerunTurns(c, list, S, a)
<1> DEFINE F == [z \in S \X M |-> (IF z[1].rerun THEN FinalizePass(z[1].s) ELSE z[1])]
           after[k \in 0..Len(list)] ==
             IF k = 0 THEN c ELSE (IF after[k - 1].rerun THEN FinalizePass(after[k - 1].s) ELSE after[k - 1])
<1>1. /\ F \in [S \X M -> S]
      /\ \A t \in S, x \in M : F[<<t, x>>] = (IF t.rerun THEN FinalizePass(t.s) ELSE t)
  OBVIOUS
<1>2. Len(list) \in Nat /\ \A i \in 1..Len(list) : list[i] \in M
  BY LenProperties, ElementOfSeq
<1> HIDE DEF F
<1>3. PICK a : Turns(a, Len(list), c, list, F) /\ \A k \in 0..Len(list) : a[k] \in S
  BY <1>1, LoopEnds
<1>4. a = [k \in 0..Len(list) |->
             IF k = 0 THEN c ELSE (IF a[k - 1].rerun THEN FinalizePass(a[k - 1].s) ELSE a[k - 1])]
  <2>1. \A k \in 0..Len(list) :
          k # 0 => F[<<a[k - 1], list[k]>>] = (IF a[k - 1].rerun THEN FinalizePass(a[k - 1].s) ELSE a[k - 1])
    <3>1. \A k \in 0..Len(list) : k # 0 => k - 1 \in 0..Len(list) /\ k \in 1..Len(list)
      BY <1>2
    <3> QED BY <1>1, <1>2, <1>3, <3>1
  <2> QED BY <1>3, <2>1 DEF Turns
<1>5. after = [k \in 0..Len(list) |->
                 IF k = 0 THEN c ELSE (IF after[k - 1].rerun THEN FinalizePass(after[k - 1].s) ELSE after[k - 1])]
  BY <1>4, Zenon
<1>6. EachRerun(c, list) = after[Len(list)]
  BY Zenon DEF EachRerun
<1> HIDE DEF after
<1>7. after[0] = c /\ \A k \in 1..Len(list) : after[k] = (IF after[k - 1].rerun THEN FinalizePass(after[k - 1].s) ELSE after[k - 1])
  BY <1>2, <1>5
<1>8. \A k \in 0..Len(list) : after[k] \in S
  <2>1. \A k \in 1..Len(list) : after[k - 1] \in S => after[k] \in S
    BY <1>2, <1>7
  <2> QED BY <1>2, <1>7, <2>1, LoopKeeps
<1> QED BY <1>6, <1>7, <1>8 DEF RerunTurns

\* Without loops each pass of PSIDplugin_finalizeAll() but the last evicts a
\* plugin.
LEMMA FinalizeAllSound ==
  ASSUME NEW s, Sound(s)
  PROVE  LET f == PSIDplugin_finalizeAll(s)
         IN  /\ Sound(f.s) /\ Gentle(s, f.s) /\ ToSet(f.s.list) \subseteq ToSet(s.list)
             /\ f.ok \in BOOLEAN
             /\ Clean(s) => f.ok = TRUE
<1> DEFINE c == [s |-> s, rerun |-> TRUE]
           S == {r \in Passes : /\ Sound(r.s) /\ Gentle(s, r.s)
                                /\ ToSet(r.s.list) \subseteq ToSet(s.list)}
           N == Num + 1
<1>1. c \in Passes /\ c.s = s
  BY SoundIs DEF Passes
<1> HIDE DEF c
<1>2. c \in S
  BY <1>1, GentleSame
<1>3. ASSUME NEW r \in S
      PROVE  LET z == FinalizePass(r.s)
             IN  /\ z \in S
                 /\ Clean(s) /\ z.rerun =>
                      Cardinality(ToSet(z.s.list)) < Cardinality(ToSet(r.s.list))
  <2> DEFINE z == FinalizePass(r.s)
  <2>1. /\ r \in Passes /\ Sound(r.s) /\ Gentle(s, r.s)
        /\ ToSet(r.s.list) \subseteq ToSet(s.list)
    OBVIOUS
  <2>2. /\ z \in Passes /\ Sound(z.s) /\ Gentle(r.s, z.s)
        /\ ToSet(z.s.list) \subseteq ToSet(r.s.list)
        /\ Clean(r.s) /\ z.rerun => ToSet(z.s.list) # ToSet(r.s.list)
    BY <2>1, FinalizePassSound
  <2> HIDE DEF z
  <2>3. Gentle(s, z.s)
    BY <2>1, <2>2, GentleTransitive
  <2>4. z \in S
    BY <2>1, <2>2, <2>3
  <2>5. ASSUME Clean(s), z.rerun
        PROVE  Cardinality(ToSet(z.s.list)) < Cardinality(ToSet(r.s.list))
    <3> DEFINE A == ToSet(r.s.list)
               B == ToSet(z.s.list)
    <3>1. Clean(r.s)
      BY <2>1, <2>5, FewerClean DEF Gentle
    <3>2. B \subseteq A /\ B # A /\ IsFiniteSet(A)
      <4>1. A \subseteq Plugin
        BY <2>1, SoundIs
      <4> QED BY <2>2, <2>5, <3>1, <4>1, PluginsAssumption, FS_Subset
    <3> HIDE DEF A, B
    <3>3. /\ IsFiniteSet(B) /\ Cardinality(B) <= Cardinality(A)
          /\ Cardinality(A) # Cardinality(B)
      BY <3>2, FS_Subset
    <3>4. Cardinality(A) \in Nat /\ Cardinality(B) \in Nat
      BY <3>2, <3>3, FS_CardinalityType
    <3>5. Cardinality(B) < Cardinality(A)
      BY <3>3, <3>4
    <3> QED BY <3>5 DEF A, B
  <2> QED BY <2>4, <2>5 DEF z
<1>4. /\ Repeated \in Seq(Nat) /\ Len(Repeated) = N /\ N \in Nat
  BY RepeatedIs, NumIs
<1> HIDE DEF S, N
<1>5. PICK a : RerunTurns(c, Repeated, S, a)
  <2>1. \A r \in S, i \in Nat : (IF r.rerun THEN FinalizePass(r.s) ELSE r) \in S
    BY <1>3, Zenon
  <2> QED BY <1>2, <1>4, <2>1, RerunLoop, Zenon
<1>6. /\ a[0] = c /\ \A k \in 0..N : a[k] \in S
      /\ \A k \in 1..N : a[k] = IF a[k - 1].rerun THEN FinalizePass(a[k - 1].s) ELSE a[k - 1]
      /\ EachRerun(c, Repeated) = a[N]
  BY <1>4, <1>5 DEF RerunTurns
<1>7. ASSUME Clean(s) PROVE ~ a[N].rerun
  <2> DEFINE B == [k \in 0..Num + 1 |-> a[k].rerun]
             n == [k \in 0..Num + 1 |-> Cardinality(ToSet(a[k].s.list))]
  <2>1. \A k \in 0..Num + 1 : a[k].rerun \in BOOLEAN
    BY <1>6 DEF S, Passes, N
  <2>2. \A k \in 0..Num + 1 : /\ Cardinality(ToSet(a[k].s.list)) \in Nat
                              /\ Cardinality(ToSet(a[k].s.list)) <= Num
    <3>1. \A k \in 0..Num + 1 : ToSet(a[k].s.list) \subseteq Plugin
      BY <1>6, SoundIs DEF S, N
    <3> QED BY <3>1, PluginsAssumption, FS_Subset, FS_CardinalityType DEF Num
  <2>3. /\ B \in [0..Num + 1 -> BOOLEAN] /\ n \in [0..Num + 1 -> Nat]
        /\ \A k \in 0..Num + 1 : B[k] = a[k].rerun /\ n[k] = Cardinality(ToSet(a[k].s.list))
    BY <2>1, <2>2
  <2> HIDE DEF B, n
  <2>4. n[0] <= Num
    <3>1. 0 \in 0..Num + 1
      BY NumIs
    <3> QED BY <2>2, <2>3, <3>1
  <2>5. ASSUME NEW k \in 1..Num + 1, B[k] PROVE B[k - 1] /\ n[k] < n[k - 1]
    <3>1. k \in 0..Num + 1 /\ k - 1 \in 0..Num + 1
      BY NumIs
    <3>2. a[k] = IF a[k - 1].rerun THEN FinalizePass(a[k - 1].s) ELSE a[k - 1]
      BY <1>6 DEF N
    <3>3. a[k].rerun
      BY <2>3, <2>5, <3>1
    <3>4. a[k - 1].rerun
      BY <3>2, <3>3
    <3>5. a[k - 1] \in S /\ a[k] = FinalizePass(a[k - 1].s)
      BY <1>6, <3>1, <3>2, <3>4 DEF N
    <3>6. Cardinality(ToSet(a[k].s.list)) < Cardinality(ToSet(a[k - 1].s.list))
      BY <1>3, <1>7, <3>3, <3>5
    <3> QED BY <2>3, <3>1, <3>4, <3>6
  <2>6. ~ B[Num + 1]
    BY <2>3, <2>4, <2>5, CountDown, NumIs
  <2>7. Num + 1 \in 0..Num + 1
    BY NumIs
  <2> QED BY <2>3, <2>6, <2>7 DEF N
<1> DEFINE r == EachRerun(c, Repeated)
<1>8. PSIDplugin_finalizeAll(s) = [s |-> r.s, ok |-> ~ r.rerun]
  BY Zenon DEF PSIDplugin_finalizeAll, ForEach, EachRerun, c
<1>9. N \in 0..N
  BY <1>4
<1>10. r \in S /\ (Clean(s) => ~ r.rerun)
  BY <1>6, <1>7, <1>9
<1> HIDE DEF r
<1>11. /\ r \in Passes /\ Sound(r.s) /\ Gentle(s, r.s)
       /\ ToSet(r.s.list) \subseteq ToSet(s.list)
  BY <1>10 DEF S
<1>12. r.rerun \in BOOLEAN
  BY <1>11 DEF Passes
<1> DEFINE f == PSIDplugin_finalizeAll(s)
<1>13. f.s = r.s /\ f.ok = ~ r.rerun
  BY <1>8
<1> HIDE DEF f
<1>14. f.ok \in BOOLEAN /\ (Clean(s) => f.ok = TRUE)
  BY <1>10, <1>12, <1>13
<1> QED BY <1>11, <1>13, <1>14 DEF f

-----------------------------------------------------------------------------
(***************************************************************************)
(* The theorems                                                            *)
(***************************************************************************)

IInv ==
  /\ Sound(plugins) /\ requires \in Graphs /\ forced \subseteq ToSet(plugins.list)
  /\ phase \in 4..8 /\ stuck \in BOOLEAN

LEMMA InitSound ==
  ASSUME Init
  PROVE  /\ IInv /\ Clean(plugins) /\ stuck = FALSE
         /\ Supplied(plugins) /\ \A rank : Steady(rank, plugins)
<1>1. plugins \in Structures
  <2>1. <<>> \in Seq(Plugin)
    BY EmptyListed DEF Listed
  <2> QED BY <2>1 DEF Init, Structures
<1>2. /\ plugins.list = <<>>
      /\ \A p \in Plugin :
           /\ plugins.triggers[p] = <<>> /\ plugins.depends[p] = <<>>
           /\ plugins.finalized[p] = FALSE /\ plugins.unload[p] = FALSE
           /\ plugins.grace[p] = "unset" /\ plugins.distance[p] = 0
           /\ plugins.cleared[p] = FALSE
  BY DEF Init
<1>3. Linked(plugins.list, plugins.triggers, plugins.depends)
  BY <1>2, EmptyListed DEF Linked
<1>4. \A p \in Plugin : Mark(plugins, p)
  BY <1>2, NumIs DEF Mark
<1>5. Sound(plugins)
  BY <1>1, <1>3, <1>4 DEF Sound
<1>6. Clean(plugins)
  BY <1>2 DEF Clean
<1>7. requires \in Graphs /\ forced = {} /\ phase = 4 /\ stuck = FALSE
  BY DEF Init
<1>8. forced \subseteq ToSet(plugins.list) /\ phase \in 4..8
  BY <1>7
<1>9. stuck \in BOOLEAN
  BY <1>7
<1>10. Supplied(plugins)
  BY <1>2, EmptyListed DEF Supplied
<1>11. \A rank : Steady(rank, plugins)
  BY <1>2, EmptyListed DEF Steady, Climbs, Unsettled
<1> QED BY <1>5, <1>6, <1>7, <1>8, <1>9, <1>10, <1>11 DEF IInv

\* A step keeps the structures sound, finds a victim and ends, but for the
\* passes over all plugins; without loops these end, too.
Step(rank) ==
  /\ Sound(plugins') /\ requires' = requires /\ forced' \subseteq ToSet(plugins'.list)
  /\ phase' \in 4..8 /\ stuck' \in BOOLEAN
  /\ stuck' => stuck \/ (phase = 4 /\ phase' # 4)
  /\ Ranked(rank) /\ Clean(plugins) => Clean(plugins') /\ (stuck' => stuck)
  /\ Ranked(rank) /\ Steady(rank, plugins) /\ Supplied(plugins) =>
       Steady(rank, plugins') /\ Supplied(plugins')

\* Only a plugin on its way out is taken from what it requires.
LEMMA GentleSupplied ==
  ASSUME NEW rank \in [Plugin -> Nat], Ranked(rank), NEW s, NEW u, Gentle(s, u), Supplied(s)
  PROVE  Supplied(u)
<1>1. ASSUME NEW x \in Plugin, x \in ToSet(u.list), ~ u.finalized[x],
             NEW d \in Plugin, d \in ToSet(requires[x])
      PROVE  x \in ToSet(u.triggers[d])
  <2>1. x \in ToSet(s.list) /\ ~ s.finalized[x]
    BY <1>1 DEF Gentle, Kept
  <2>2. x \in ToSet(s.triggers[d])
    BY <1>1, <2>1 DEF Supplied, Served
  <2>3. x # d
    BY <1>1 DEF Ranked
  <2> QED BY <1>1, <2>2, <2>3 DEF Gentle, Kept
<1> QED BY <1>1 DEF Supplied, Served

\* A step that takes references and does not load any plugin.
LEMMA FewerStep ==
  ASSUME IInv, NEW rank \in [Plugin -> Nat], Sound(plugins'), Fewer(plugins, plugins'),
         Steady(rank, plugins) => Gentle(plugins, plugins'),
         UNCHANGED requires, forced' \subseteq ToSet(plugins'.list),
         phase' \in 4..8, stuck' \in BOOLEAN,
         stuck' => stuck \/ (phase = 4 /\ phase' # 4),
         Clean(plugins) => (stuck' => stuck)
  PROVE  Step(rank)
<1>1. Clean(plugins) => Clean(plugins')
  BY FewerClean DEF IInv
<1>2. ASSUME Ranked(rank), Steady(rank, plugins), Supplied(plugins)
      PROVE  Steady(rank, plugins') /\ Supplied(plugins')
  BY <1>2, GentleSteady, GentleSupplied
<1> QED BY <1>1, <1>2 DEF Step

LEMMA LoadStep ==
  ASSUME IInv, NEW rank \in [Plugin -> Nat], NEW p \in Plugin, Load(p)
  PROVE  Step(rank)
<1>1. PICK bad \in SUBSET Faulty :
        LET r == PSIDplugin_load(plugins, p, p, bad)
        IN  /\ plugins' = r.s /\ stuck' = r.deep
            /\ forced' = IF r.ok
                         THEN {q \in forced : q # p /\ ~ Needs(requires, p, q)}
                         ELSE forced
  BY DEF Load
<1> DEFINE r == PSIDplugin_load(plugins, p, p, bad)
<1>2. plugins' = r.s /\ stuck' = r.deep /\ forced' \subseteq forced
  BY <1>1
<1>3. Loads(rank, Num, plugins, r, p, p)
  BY LoadLoads DEF IInv
<1> HIDE DEF r
<1>4. Num <= Cardinality(ToSet(plugins.list)) + Num
  <2>1. Cardinality(ToSet(plugins.list)) \in Nat
    <3>1. ToSet(plugins.list) \subseteq Plugin
      BY SoundIs DEF IInv
    <3> QED BY <3>1, PluginsAssumption, FS_Subset, FS_CardinalityType
  <2> QED BY <2>1, NumIs
<1>5. /\ Sound(r.s) /\ ToSet(plugins.list) \subseteq ToSet(r.s.list) /\ ~ r.deep
      /\ r \in Replies
      /\ Ranked(rank) => Lower(rank, plugins, r.s, p)
      /\ Brings(rank, plugins, r, p, p)
  BY <1>3, <1>4 DEF Loads
<1>6. r.deep = FALSE
  BY <1>5 DEF Replies
<1>7. phase' = phase /\ requires' = requires
  BY DEF Load
<1>8. Ranked(rank) /\ Clean(plugins) => Clean(plugins')
  BY <1>2, <1>5 DEF Lower
<1>9. stuck' = FALSE
  BY <1>2, <1>6
<1>10. forced' \subseteq ToSet(plugins'.list) /\ Sound(plugins')
  BY <1>2, <1>5 DEF IInv
<1>11. ASSUME Ranked(rank), Steady(rank, plugins), Supplied(plugins)
       PROVE  Steady(rank, plugins') /\ Supplied(plugins')
  <2>1. Serves(plugins, plugins')
    BY <1>2, <1>5 DEF Brings
  <2>2. Climbs(rank, plugins')
    BY <1>2, <1>5, <1>11 DEF Brings, Steady
  <2>3. \A x \in Plugin : ~ Unsettled(plugins', x)
    BY <1>11, <2>1 DEF Serves, Grown, Steady, Unsettled
  <2>4. Supplied(plugins')
    BY <1>11, <2>1, ServesSupplied
  <2> QED BY <2>2, <2>3, <2>4 DEF Steady
<1> QED BY <1>7, <1>8, <1>9, <1>10, <1>11 DEF Step, IInv

LEMMA FinalizeStep ==
  ASSUME IInv, NEW rank \in [Plugin -> Nat], NEW p \in Plugin, PSIDplugin_finalize(p)
  PROVE  Step(rank)
<1>1. plugins' = remTrigger(plugins, p, p) /\ UNCHANGED <<requires, forced, phase, stuck>>
  BY DEF PSIDplugin_finalize
<1>2. /\ Sound(plugins') /\ Fewer(plugins, plugins') /\ plugins'.list = plugins.list
      /\ Gentle(plugins, plugins')
  BY <1>1, SelfTriggerRemoved DEF IInv, Gentle
<1> QED BY <1>1, <1>2, FewerStep DEF IInv

LEMMA ForceStep ==
  ASSUME IInv, NEW rank \in [Plugin -> Nat], NEW p \in Plugin, ForceRemove(p)
  PROVE  Step(rank)
<1> DEFINE f == forceUnloadPlugin(plugins, p)
<1>1. /\ p \in ToSet(plugins.list) /\ plugins' = f.s /\ stuck' = ~ f.ok
      /\ forced' = forced \cup {p} /\ UNCHANGED <<requires, phase>>
  BY DEF ForceRemove, Loaded
<1>2. /\ f.ok = TRUE /\ Sound(f.s) /\ Fewer(plugins, f.s) /\ f.s.list = plugins.list
      /\ Steady(rank, plugins) => Gentle(plugins, f.s)
  BY <1>1, ForceSound DEF IInv
<1> HIDE DEF f
<1>3. /\ stuck' = FALSE /\ Sound(plugins') /\ Fewer(plugins, plugins')
      /\ forced' \subseteq ToSet(plugins'.list)
      /\ Steady(rank, plugins) => Gentle(plugins, plugins')
  BY <1>1, <1>2 DEF IInv
<1> QED BY <1>1, <1>3, FewerStep DEF IInv

LEMMA UnloadStep ==
  ASSUME IInv, NEW rank \in [Plugin -> Nat], NEW p \in Plugin, PSIDplugin_unload(p)
  PROVE  Step(rank)
<1>1. /\ plugins.finalized[p] /\ plugins' = unloadPlugin(plugins, p)
      /\ UNCHANGED <<requires, forced, phase, stuck>>
  BY DEF PSIDplugin_unload
<1>2. /\ Sound(plugins') /\ Fewer(plugins, plugins') /\ plugins'.list = plugins.list
      /\ Gentle(plugins, plugins')
  BY <1>1, UnloadSound DEF IInv, Gentle
<1> QED BY <1>1, <1>2, FewerStep DEF IInv

LEMMA GraceStep ==
  ASSUME IInv, NEW rank \in [Plugin -> Nat], NEW p \in Plugin, GraceOver(p)
  PROVE  Step(rank)
<1> DEFINE u == [plugins EXCEPT !.grace[p] = "over"]
<1>1. /\ plugins.grace[p] = "running" /\ plugins' = u
      /\ UNCHANGED <<requires, forced, phase, stuck>>
  BY DEF GraceOver
<1>2. /\ plugins \in Structures /\ \A x \in Plugin : Mark(plugins, x)
      /\ plugins.grace \in [Plugin -> {"unset", "marked", "running", "over"}]
  BY SoundIs, Fields DEF IInv
<1>3. p \in ToSet(plugins.list)
  BY <1>1, <1>2 DEF Mark
<1>4. /\ u \in Structures /\ u.list = plugins.list /\ u.triggers = plugins.triggers
      /\ u.depends = plugins.depends /\ u.finalized = plugins.finalized
      /\ u.unload = plugins.unload /\ u.distance = plugins.distance
      /\ u.cleared = plugins.cleared
      /\ u.grace = [plugins.grace EXCEPT ![p] = "over"]
  BY <1>2 DEF Structures
<1> HIDE DEF u
<1>5. u.grace[p] = "over" /\ \A x \in Plugin : x # p => u.grace[x] = plugins.grace[x]
  BY <1>2, <1>4
<1>6. \A x \in Plugin : Mark(u, x)
  BY <1>2, <1>3, <1>4, <1>5 DEF Mark
<1>7. Marked(u)
  BY <1>4, <1>6 DEF Marked
<1>8. Sound(u) /\ Fewer(plugins, u) /\ Gentle(plugins, u)
  BY <1>4, <1>7, SoundIfMarked, FewerSame, GentleSame DEF IInv
<1>9. /\ Sound(plugins') /\ Fewer(plugins, plugins') /\ plugins'.list = plugins.list
      /\ Gentle(plugins, plugins')
  BY <1>1, <1>4, <1>8
<1> QED BY <1>1, <1>9, FewerStep DEF IInv

LEMMA HandleStep ==
  ASSUME IInv, NEW rank \in [Plugin -> Nat], handlePlugins
  PROVE  Step(rank)
<1>1. /\ plugins' = AllHandled(plugins) /\ forced' = forced \cap ToSet(plugins'.list)
      /\ UNCHANGED <<requires, phase, stuck>>
  BY DEF handlePlugins
<1>2. Sound(plugins') /\ Fewer(plugins, plugins') /\ Gentle(plugins, plugins')
  BY <1>1, AllHandledSound DEF IInv, Gentle
<1>3. forced' \subseteq ToSet(plugins'.list)
  BY <1>1
<1> QED BY <1>1, <1>2, <1>3, FewerStep DEF IInv

LEMMA ShutdownStep ==
  ASSUME IInv, NEW rank \in [Plugin -> Nat], PSID_shutdown
  PROVE  Step(rank)
<1> DEFINE r == IF phase = 4 THEN PSIDplugin_finalizeAll(plugins)
                ELSE IF phase = 5 THEN PSIDplugin_forceUnloadAll(plugins)
                ELSE [s |-> plugins, ok |-> TRUE]
<1>1. /\ Running /\ plugins' = r.s /\ stuck' = ~ r.ok
      /\ phase' = IF PSIDplugin_getNum(r.s) = 0 THEN 8
                  ELSE IF phase = 6 THEN 6 ELSE phase + 1
      /\ forced' = IF phase' = 8 THEN {} ELSE forced \cap ToSet(r.s.list)
      /\ UNCHANGED requires
  BY Zenon DEF PSID_shutdown
<1>2. /\ Sound(r.s) /\ Fewer(plugins, r.s) /\ r.ok \in BOOLEAN
      /\ phase # 4 \/ Clean(plugins) => r.ok = TRUE
      /\ Steady(rank, plugins) => Gentle(plugins, r.s)
  <2>1. CASE phase = 4
    <3>1. r = PSIDplugin_finalizeAll(plugins)
      BY <2>1
    <3> HIDE DEF r
    <3> QED BY <2>1, <3>1, FinalizeAllSound DEF IInv, Gentle
  <2>2. CASE phase = 5
    <3>1. r = PSIDplugin_forceUnloadAll(plugins)
      BY <2>2
    <3> HIDE DEF r
    <3> QED BY <2>2, <3>1, ForceAllSound DEF IInv
  <2>3. CASE phase # 4 /\ phase # 5
    <3>1. r.s = plugins /\ r.ok = TRUE
      BY <2>3
    <3> HIDE DEF r
    <3> QED BY <3>1, FewerSame, GentleSame DEF IInv
  <2> QED BY <2>1, <2>2, <2>3
<1> HIDE DEF r
<1>3. phase' \in 4..8 /\ (phase = 4 => phase' # 4)
  <2>1. phase \in 4..7
    BY <1>1 DEF IInv, Running
  <2> QED BY <1>1, <2>1
<1>4. forced' \subseteq ToSet(plugins'.list)
  BY <1>1
<1>5. /\ stuck' \in BOOLEAN /\ (stuck' => stuck \/ (phase = 4 /\ phase' # 4))
      /\ Clean(plugins) => (stuck' => stuck)
  BY <1>1, <1>2, <1>3
<1>6. /\ Sound(plugins') /\ Fewer(plugins, plugins')
      /\ Steady(rank, plugins) => Gentle(plugins, plugins')
  BY <1>1, <1>2
<1> QED BY <1>1, <1>3, <1>4, <1>5, <1>6, FewerStep

LEMMA EveryStep ==
  ASSUME IInv, NEW rank \in [Plugin -> Nat], [Next]_vars
  PROVE  Step(rank)
<1>1. CASE UNCHANGED vars
  <2>1. Sound(plugins') /\ Fewer(plugins, plugins') /\ Gentle(plugins, plugins')
    BY <1>1, FewerSame, GentleSame DEF IInv, vars
  <2> QED BY <1>1, <2>1, FewerStep DEF IInv, vars
<1>2. CASE Next
  <2>1. ASSUME NEW p \in Plugin, Load(p) PROVE Step(rank)
    BY <2>1, LoadStep
  <2>2. ASSUME NEW p \in Plugin, PSIDplugin_finalize(p) PROVE Step(rank)
    BY <2>2, FinalizeStep
  <2>3. ASSUME NEW p \in Plugin, ForceRemove(p) PROVE Step(rank)
    BY <2>3, ForceStep
  <2>4. ASSUME NEW p \in Plugin, PSIDplugin_unload(p) PROVE Step(rank)
    BY <2>4, UnloadStep
  <2>5. ASSUME NEW p \in Plugin, GraceOver(p) PROVE Step(rank)
    BY <2>5, GraceStep
  <2>6. CASE handlePlugins
    BY <2>6, HandleStep
  <2>7. CASE PSID_shutdown
    BY <2>7, ShutdownStep
  <2> QED BY <1>2, <2>1, <2>2, <2>3, <2>4, <2>5, <2>6, <2>7, Zenon DEF Next
<1> QED BY <1>1, <1>2

\* Any numbers serve as the ranks if the dependencies are not looked at.
LEMMA Stepped ==
  ASSUME IInv, [Next]_vars
  PROVE  IInv' /\ (stuck' => stuck \/ (phase = 4 /\ phase' # 4))
<1> DEFINE rank == [p \in Plugin |-> 0]
<1>1. rank \in [Plugin -> Nat]
  OBVIOUS
<1> HIDE DEF rank
<1>2. Step(rank)
  BY <1>1, EveryStep
<1> QED BY <1>2 DEF Step, IInv

LEMMA Invariant == Spec => []IInv
<1>1. Init => IInv
  BY InitSound
<1>2. IInv /\ [Next]_vars => IInv'
  BY Stepped
<1> QED BY <1>1, <1>2, PTL DEF Spec

LEMMA SoundTypes == IInv => TypeOK
<1> SUFFICES ASSUME IInv PROVE TypeOK
  OBVIOUS
<1>1. /\ Sound(plugins) /\ requires \in [Plugin -> Seq(Plugin)]
      /\ forced \subseteq Loaded /\ phase \in 4..8 /\ stuck \in BOOLEAN
  BY PluginsAssumption DEF IInv, Loaded
<1>2. IsInjective(plugins.list) /\ Loaded \subseteq Plugin
  BY <1>1, SoundIs DEF Listed, Loaded
<1>3. ASSUME NEW p \in Plugin
      PROVE  /\ plugins.distance[p] \in 0..Num
             /\ p \notin Loaded => newPlugin(plugins, p) = plugins
             /\ plugins.grace[p] = "marked" /\ plugins.finalized[p] => plugins.unload[p]
  <2>1. /\ Mark(plugins, p) /\ plugins.distance[p] \in Nat
        /\ plugins.distance[p] <= Num
    BY <1>1, SoundIs
  <2>2. plugins.distance[p] \in 0..Num
    BY <2>1, NumIs
  <2>3. p \notin Loaded => newPlugin(plugins, p) = plugins
    BY <1>1, GoneIsNew DEF Loaded
  <2>4. plugins.grace[p] = "marked" /\ plugins.finalized[p] => plugins.unload[p]
    BY <2>1 DEF Mark
  <2> QED BY <2>2, <2>3, <2>4
<1> QED BY <1>1, <1>2, <1>3 DEF TypeOK

(* Whatever is loaded, removed, finalized or evicted, in whichever order,  *)
(* the list has each plugin once, no distance exceeds the number of        *)
(* plugins, a walk never leaves a plugin without its time limit, and a     *)
(* plugin that is evicted leaves nothing behind: doUnload() frees it.      *)
THEOREM TypeCorrect == Spec => []TypeOK
<1>1. Spec => []IInv
  BY Invariant
<1>2. IInv => TypeOK
  BY SoundTypes
<1> QED BY <1>1, <1>2, PTL

(* References come in pairs and lead to loaded plugins, so that no         *)
(* reference to memory freed by doUnload() is left: of finalizePlugin(),   *)
(* doUnload(), a load that fails half way, forceUnloadPlugin()'s victims   *)
(* and the passes of the shutdown, for every graph.                        *)
THEOREM ReferencesMatch == Spec => []RefsMatch
<1>1. Spec => []IInv
  BY Invariant
<1>2. IInv => RefsMatch
  <2> SUFFICES ASSUME IInv, NEW p \in Plugin, NEW q \in Plugin, p # q
               PROVE  /\ Contains(plugins.triggers[p], q)
                            <=> Contains(plugins.depends[q], p)
                      /\ Contains(plugins.triggers[p], q) => {p, q} \subseteq Loaded
    BY DEF RefsMatch
  <2>1. /\ Linked(plugins.list, plugins.triggers, plugins.depends)
        /\ plugins.triggers[p] \in Seq(Plugin) /\ plugins.depends[q] \in Seq(Plugin)
    BY SoundIs DEF IInv
  <2>2. /\ Contains(plugins.triggers[p], q) <=> q \in ToSet(plugins.triggers[p])
        /\ Contains(plugins.depends[q], p) <=> p \in ToSet(plugins.depends[q])
    BY <2>1, Members
  <2>3. q \in ToSet(plugins.triggers[p]) <=> p \in ToSet(plugins.depends[q])
    BY <2>1 DEF Linked
  <2>4. q \in ToSet(plugins.triggers[p]) => p \in Loaded /\ q \in Loaded
    BY <2>1 DEF Linked, Loaded
  <2> QED BY <2>2, <2>3, <2>4
<1> QED BY <1>1, <1>2, PTL

(* PSIDplugin_load() ends at a loop of dependencies, forceUnloadPlugin()   *)
(* finds a victim in each loop of triggers, and its walks and rounds end,  *)
(* for every graph: only the first pass over the plugins at the shutdown,  *)
(* PSIDplugin_finalizeAll(), may go on for ever.                           *)
ForceEndsStep == stuck' => stuck \/ (phase = 4 /\ phase' # 4)

THEOREM ForceEnds == Spec => [][ForceEndsStep]_vars
<1>1. Spec => []IInv
  BY Invariant
<1>2. IInv /\ [Next]_vars => [ForceEndsStep]_vars
  BY Stepped DEF ForceEndsStep
<1> QED BY <1>1, <1>2, PTL DEF Spec

-----------------------------------------------------------------------------
(***************************************************************************)
(* Without loops                                                           *)
(***************************************************************************)

Acyclic ==
  \A g \in Graphs : \E rank \in [Plugin -> Nat] :
    \A p, q \in Plugin : q \in ToSet(g[p]) => rank[q] < rank[p]

Smooth == IInv /\ Clean(plugins) /\ stuck = FALSE

LEMMA SmoothSteps ==
  ASSUME Acyclic, Smooth, [Next]_vars
  PROVE  Smooth'
<1>1. IInv /\ Clean(plugins) /\ stuck = FALSE /\ requires \in Graphs
  BY DEF Smooth, IInv
<1>2. PICK rank \in [Plugin -> Nat] : Ranked(rank)
  BY <1>1 DEF Acyclic, Ranked
<1>3. Step(rank)
  BY <1>1, EveryStep
<1>4. IInv'
  BY <1>1, Stepped
<1>5. Clean(plugins') /\ (stuck' => stuck) /\ stuck' \in BOOLEAN
  BY <1>1, <1>2, <1>3 DEF Step
<1>6. stuck' = FALSE
  BY <1>1, <1>5
<1> QED BY <1>1, <1>4, <1>5, <1>6 DEF Smooth, Clean

(* If no plugin depends on itself, directly or not, every call ends and    *)
(* finds its victim: PSIDplugin_finalizeAll(), too, since a plugin that    *)
(* is finalized has no triggers then, and each of its passes evicts one.   *)
(* This holds whatever administrators ask for and whichever initialize     *)
(* methods fail.                                                           *)
THEOREM NoLoopNeverStuck ==
  ASSUME Acyclic
  PROVE  Spec => []NeverStuck
<1>1. Init => Smooth
  BY InitSound DEF Smooth
<1>2. Smooth /\ [Next]_vars => Smooth'
  BY SmoothSteps
<1>3. Smooth => NeverStuck
  BY DEF Smooth, NeverStuck
<1> QED BY <1>1, <1>2, <1>3, PTL DEF Spec

\* References climb, no walk leaves a plugin uncleared that it has met, and all
\* plugins have what they require.
Orderly ==
  /\ Smooth /\ Supplied(plugins)
  /\ \E rank \in [Plugin -> Nat] : Ranked(rank) /\ Steady(rank, plugins)

LEMMA OrderlyInit ==
  ASSUME Acyclic, Init
  PROVE  Orderly
<1>1. Smooth /\ Supplied(plugins) /\ requires \in Graphs /\ \A rank : Steady(rank, plugins)
  BY InitSound DEF Smooth, IInv
<1>2. PICK rank \in [Plugin -> Nat] : Ranked(rank)
  BY <1>1 DEF Acyclic, Ranked
<1> QED BY <1>1, <1>2 DEF Orderly

LEMMA OrderlySteps ==
  ASSUME Acyclic, Orderly, [Next]_vars
  PROVE  Orderly'
<1>1. Smooth /\ Smooth' /\ Supplied(plugins) /\ IInv
  BY SmoothSteps DEF Orderly, Smooth
<1>2. PICK rank \in [Plugin -> Nat] : Ranked(rank) /\ Steady(rank, plugins)
  BY DEF Orderly
<1>3. Step(rank)
  BY <1>1, <1>2, EveryStep
<1>4. Steady(rank, plugins') /\ Supplied(plugins') /\ requires' = requires
  BY <1>1, <1>2, <1>3 DEF Step
<1>5. Ranked(rank)' /\ Supplied(plugins)'
  BY <1>2, <1>4 DEF Ranked, Supplied, Served
<1>6. Steady(rank, plugins)'
  BY <1>4 DEF Steady, Climbs, Unsettled
<1> QED BY <1>1, <1>5, <1>6 DEF Orderly

(* If no plugin depends on itself, directly or not, a plugin at work finds *)
(* at work all it requires, whoever is removed by force, fails to load or  *)
(* is asked for while it is being removed: PSIDplugin_load() takes         *)
(* references to all that is required or gives up, and forceUnloadPlugin() *)
(* clears whoever needs a plugin before it lets it go.                     *)
THEOREM NoLoopProvided ==
  ASSUME Acyclic
  PROVE  Spec => []Provided
<1>1. Init => Orderly
  BY OrderlyInit
<1>2. Orderly /\ [Next]_vars => Orderly'
  BY OrderlySteps
<1>3. Orderly => Provided
  <2> SUFFICES ASSUME Orderly, NEW q \in Loaded, NEW p \in Plugin,
                      ~ plugins.finalized[q], Contains(requires[q], p)
               PROVE  p \in Loaded /\ ~ plugins.finalized[p]
    BY DEF Provided
  <2>1. /\ IInv /\ Sound(plugins) /\ Clean(plugins) /\ Supplied(plugins)
        /\ requires \in [Plugin -> Seq(Plugin)]
    BY PluginsAssumption DEF Orderly, Smooth, IInv
  <2>2. q \in Plugin /\ q \in ToSet(plugins.list)
    BY <2>1, SoundIs DEF Loaded
  <2>3. p \in ToSet(requires[q])
    BY <2>1, <2>2, Members
  <2>4. q \in ToSet(plugins.triggers[p])
    BY <2>1, <2>2, <2>3 DEF Supplied, Served
  <2>5. p \in Loaded /\ plugins.triggers[p] # <<>>
    BY <2>1, <2>4, EmptyListed, SoundIs DEF Linked, Loaded
  <2> QED BY <2>1, <2>5 DEF Clean
<1> QED BY <1>1, <1>2, <1>3, PTL DEF Spec
=============================================================================
