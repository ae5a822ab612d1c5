--------------------------- MODULE BgQueueProofs ---------------------------
(***************************************************************************)
(* Proofs about the battleground queue, for any number of players, games   *)
(* and messages under way.                                                 *)
(*                                                                         *)
(* The world and the queue know of each other by messages only, so the     *)
(* invariant says what the messages under way will have made of the state  *)
(* once they are taken.  A kind of message is a set of messages, and a     *)
(* statement about a sequence of them one of four: Has, Once, Before and   *)
(* EndsWith; the first part shows what posting and taking do to these.     *)
(***************************************************************************)
EXTENDS BgQueue, SequenceTheorems, FiniteSetTheorems, WellFoundedInduction, TLAPS

-----------------------------------------------------------------------------
(* Sequences.                                                              *)

LEMMA Least ==
  ASSUME NEW T, T \subseteq Nat, T # {}
  PROVE  \E m \in T : \A n \in T : ~(n < m)
<1> DEFINE R == {ss \in Nat \X Nat : ss[1] < ss[2]}
<1>1. IsWellFoundedOn(R, Nat)
  BY NatLessThanWellFounded DEF OpToRel
<1>2. \A m, n \in Nat : n < m => <<n, m>> \in R
  OBVIOUS
<1> HIDE DEF R
<1>3. PICK m \in T : \A n \in T : ~(<<n, m>> \in R)
  BY <1>1, WFMin
<1> QED BY <1>2, <1>3

(* x is in the sequence s.                                                 *)
In(x, s) == \E i \in DOMAIN s : s[i] = x

LEMMA ConcatElements ==
  ASSUME NEW S, NEW s \in Seq(S), NEW t \in Seq(S)
  PROVE  /\ s \o t \in Seq(S)
         /\ \A x : In(x, s \o t) <=> In(x, s) \/ In(x, t)
<1>1. PICK u : u = s \o t
  OBVIOUS
<1>2. /\ u \in Seq(S) /\ Len(u) = Len(s) + Len(t)
      /\ \A i \in 1..(Len(s) + Len(t)) : u[i] = IF i <= Len(s) THEN s[i] ELSE t[i - Len(s)]
  BY <1>1, ConcatProperties
<1>3. /\ DOMAIN u = 1..(Len(s) + Len(t)) /\ DOMAIN s = 1..Len(s) /\ DOMAIN t = 1..Len(t)
      /\ Len(s) \in Nat /\ Len(t) \in Nat
  BY <1>2, LenProperties
<1>4. \A i \in 1..Len(s) : i \in DOMAIN u /\ u[i] = s[i]
  BY <1>2, <1>3
<1>5. \A i \in 1..Len(t) : i + Len(s) \in DOMAIN u /\ u[i + Len(s)] = t[i]
  BY <1>2, <1>3
<1>6. \A i \in DOMAIN u : \/ i \in 1..Len(s) /\ u[i] = s[i]
                          \/ i - Len(s) \in 1..Len(t) /\ u[i] = t[i - Len(s)]
  BY <1>2, <1>3
<1>7. ASSUME NEW x
      PROVE  In(x, u) <=> In(x, s) \/ In(x, t)
  <2>1. In(x, u) => In(x, s) \/ In(x, t)
    BY <1>3, <1>6 DEF In
  <2>2. In(x, s) => In(x, u)
    BY <1>3, <1>4 DEF In
  <2>3. In(x, t) => In(x, u)
    BY <1>3, <1>5 DEF In
  <2> QED BY <2>1, <2>2, <2>3
<1> QED BY <1>1, <1>2, <1>7

(* One sequence appended to another, piece by piece.                       *)
Joining(f, ss, n) ==
    /\ f[1] = ss[1]
    /\ \A k \in 2..n : f[k] = f[k - 1] \o ss[k]

LEMMA JoiningExists ==
  ASSUME NEW ss, NEW n \in Nat \ {0}
  PROVE  \E f : DOMAIN f = 1..n /\ Joining(f, ss, n)
<1> DEFINE Has(m) == \E f : DOMAIN f = 1..m /\ Joining(f, ss, m)
           T == {m \in Nat \ {0} : ~Has(m)}
<1>1. CASE T = {}
  <2>1. n \notin T
    BY <1>1
  <2> HIDE DEF Has
  <2>2. Has(n)
    BY <2>1
  <2> QED BY <2>2 DEF Has
<1>2. CASE T # {}
  <2>1. T \subseteq Nat
    OBVIOUS
  <2>2. PICK m \in T : \A k \in T : ~(k < m)
    <3> HIDE DEF T
    <3> QED BY <1>2, <2>1, Least
  <2>3. m # 1
    <3>1. DOMAIN [k \in 1..1 |-> ss[1]] = 1..1 /\ Joining([k \in 1..1 |-> ss[1]], ss, 1)
      BY DEF Joining
    <3> QED BY <3>1
  <2>4. m - 1 \in Nat \ {0} /\ m - 1 < m /\ m \in Nat
    BY <2>3
  <2>5. Has(m - 1)
    BY <2>2, <2>4
  <2>6. PICK f : DOMAIN f = 1..(m - 1) /\ Joining(f, ss, m - 1)
    BY <2>5
  <2> DEFINE g == [k \in 1..m |-> IF k = m THEN f[m - 1] \o ss[m] ELSE f[k]]
  <2>7. DOMAIN g = 1..m /\ Joining(g, ss, m)
    <3>1. \A k \in 1..m : g[k] = IF k = m THEN f[m - 1] \o ss[m] ELSE f[k]
      OBVIOUS
    <3> HIDE DEF g
    <3>2. g[1] = ss[1]
      BY <2>3, <2>4, <2>6, <3>1 DEF Joining
    <3>3. ASSUME NEW k \in 2..m
          PROVE  g[k] = g[k - 1] \o ss[k]
      <4>1. k - 1 \in 1..m /\ k - 1 # m /\ g[k - 1] = f[k - 1]
        BY <2>4, <3>1
      <4>2. CASE k = m
        <5>1. m \in 1..m
          BY <2>4
        <5>2. g[m] = f[m - 1] \o ss[m]
          BY <3>1, <5>1
        <5> QED BY <4>1, <4>2, <5>2
      <4>3. CASE k # m
        <5>1. k \in 2..(m - 1) /\ k \in 1..m
          BY <2>4, <4>3
        <5>2. f[k] = f[k - 1] \o ss[k]
          BY <2>6, <5>1 DEF Joining
        <5> QED BY <3>1, <4>1, <4>3, <5>1, <5>2
      <4> QED BY <4>2, <4>3
    <3>4. DOMAIN g = 1..m
      BY DEF g
    <3> QED BY <3>2, <3>3, <3>4 DEF Joining
  <2> HIDE DEF g
  <2>8. Has(m)
    BY <2>7
  <2> QED BY <2>8
<1> QED BY <1>1, <1>2

(* What is in the joined sequence is what is in the pieces.                *)
JoinOK(S, f, ss, n) ==
    /\ f[n] \in Seq(S)
    /\ \A x : In(x, f[n]) <=> \E k \in 1..n : In(x, ss[k])

LEMMA JoinedElements ==
  ASSUME NEW S, NEW ss \in Seq(Seq(S)), NEW f, Len(ss) # 0, Joining(f, ss, Len(ss))
  PROVE  JoinOK(S, f, ss, Len(ss))
<1>1. /\ Len(ss) \in Nat \ {0} /\ \A k \in 1..Len(ss) : ss[k] \in Seq(S)
  BY LenProperties
<1> DEFINE T == {n \in 1..Len(ss) : ~JoinOK(S, f, ss, n)}
<1>2. CASE T = {}
  <2>1. Len(ss) \in 1..Len(ss)
    BY <1>1
  <2> QED BY <1>2, <2>1
<1>3. CASE T # {}
  <2>1. T \subseteq Nat
    OBVIOUS
  <2>2. PICK n \in T : \A k \in T : ~(k < n)
    BY <1>3, <2>1, Least
  <2>3. n # 1
    <3>1. f[1] = ss[1] /\ 1..1 = {1} /\ ss[1] \in Seq(S)
      BY <1>1 DEF Joining
    <3>2. JoinOK(S, f, ss, 1)
      BY <3>1 DEF JoinOK
    <3> QED BY <3>2
  <2>4. n \in 2..Len(ss) /\ n - 1 \in 1..Len(ss) /\ n - 1 < n
    BY <1>1, <2>3
  <2>5. JoinOK(S, f, ss, n - 1)
    BY <2>2, <2>4
  <2>6. f[n] = f[n - 1] \o ss[n]
    BY <2>4 DEF Joining
  <2>7. PICK g, h : g = f[n - 1] /\ h = ss[n]
    OBVIOUS
  <2>8. g \in Seq(S) /\ h \in Seq(S)
    BY <1>1, <2>5, <2>7 DEF JoinOK
  <2>9. /\ f[n] \in Seq(S)
        /\ \A x : In(x, f[n]) <=> In(x, g) \/ In(x, h)
    BY <2>6, <2>7, <2>8, ConcatElements
  <2>10. 1..n = 1..(n - 1) \cup {n}
    BY <2>4
  <2>11. \A x : In(x, g) <=> \E k \in 1..(n - 1) : In(x, ss[k])
    BY <2>5, <2>7 DEF JoinOK
  <2>12. JoinOK(S, f, ss, n)
    BY <2>7, <2>9, <2>10, <2>11 DEF JoinOK
  <2> QED BY <2>12
<1> QED BY <1>2, <1>3

LEMMA FlattenSeqIs ==
  ASSUME NEW S, NEW ss \in Seq(Seq(S))
  PROVE  /\ FlattenSeq(ss) \in Seq(S)
         /\ \A x : In(x, FlattenSeq(ss)) <=> \E k \in DOMAIN ss : In(x, ss[k])
<1>1. Len(ss) \in Nat /\ DOMAIN ss = 1..Len(ss)
  BY LenProperties
<1>2. CASE Len(ss) = 0
  <2>1. ss = << >>
    BY <1>2, EmptySeq
  <2>2. FlattenSeq(ss) = << >>
    BY <1>2, <2>1 DEF FlattenSeq
  <2>3. << >> \in Seq(S) /\ DOMAIN << >> = {}
    OBVIOUS
  <2> QED BY <2>1, <2>2, <2>3 DEF In
<1>3. CASE Len(ss) # 0
  <2> DEFINE Up(g) == [i \in 1..Len(ss) |-> IF i = 1 THEN ss[i] ELSE g[i - 1] \o ss[i]]
             g == CHOOSE x : x = Up(x)
  <2>1. FlattenSeq(ss) = g[Len(ss)]
    BY <1>3 DEF FlattenSeq
  <2>2. PICK f : DOMAIN f = 1..Len(ss) /\ Joining(f, ss, Len(ss))
    BY <1>1, <1>3, JoiningExists
  <2> DEFINE h == [i \in 1..Len(ss) |-> f[i]]
  <2>3. h = Up(h)
    <3>1. \A i \in 1..Len(ss) : h[i] = IF i = 1 THEN ss[i] ELSE h[i - 1] \o ss[i]
      <4> SUFFICES ASSUME NEW i \in 1..Len(ss)
                   PROVE  h[i] = IF i = 1 THEN ss[i] ELSE h[i - 1] \o ss[i]
        OBVIOUS
      <4>1. CASE i = 1
        BY <1>1, <2>2, <4>1 DEF Joining
      <4>2. CASE i # 1
        <5>1. i \in 2..Len(ss) /\ i - 1 \in 1..Len(ss)
          BY <1>1, <4>2
        <5>2. h[i] = f[i] /\ h[i - 1] = f[i - 1]
          BY <5>1
        <5>3. f[i] = f[i - 1] \o ss[i]
          BY <2>2, <5>1 DEF Joining
        <5> HIDE DEF h
        <5> QED BY <4>2, <5>2, <5>3
      <4> QED BY <4>1, <4>2
    <3> QED BY <3>1
  <2>4. g = Up(g)
    BY <2>3
  <2> HIDE DEF g
  <2>5. \A i \in 1..Len(ss) : g[i] = IF i = 1 THEN ss[i] ELSE g[i - 1] \o ss[i]
    BY <2>4
  <2>6. Joining(g, ss, Len(ss))
    <3>1. \A k \in 2..Len(ss) : k \in 1..Len(ss) /\ k # 1
      BY <1>1
    <3>2. 1 \in 1..Len(ss)
      BY <1>1, <1>3
    <3>3. g[1] = ss[1]
      BY <2>5, <3>2
    <3>4. ASSUME NEW k \in 2..Len(ss)
          PROVE  g[k] = g[k - 1] \o ss[k]
      BY <2>5, <3>1
    <3> QED BY <3>3, <3>4 DEF Joining
  <2>7. JoinOK(S, g, ss, Len(ss))
    BY <1>3, <2>6, JoinedElements
  <2> QED BY <1>1, <2>1, <2>7 DEF JoinOK
<1> QED BY <1>2, <1>3

(* The messages in the sequence s that are in the class K, a set.          *)
Has(s, K)  == \E i \in DOMAIN s : s[i] \in K
Once(s, K) == \A i, j \in DOMAIN s : s[i] \in K /\ s[j] \in K => i = j
Before(s, J, K) == \A i, j \in DOMAIN s : s[i] \in J /\ s[j] \in K => i < j
\* One in K comes after all in J.
EndsWith(s, K, J) == \E i \in DOMAIN s : /\ s[i] \in K
                                         /\ \A j \in DOMAIN s : j > i => s[j] \notin J

LEMMA ConcatIs ==
  ASSUME NEW S, NEW s \in Seq(S), NEW t \in Seq(S), NEW u, u = s \o t
  PROVE  /\ u \in Seq(S)
         /\ DOMAIN u = 1..(Len(s) + Len(t)) /\ DOMAIN s = 1..Len(s) /\ DOMAIN t = 1..Len(t)
         /\ Len(s) \in Nat /\ Len(t) \in Nat
         /\ \A i \in 1..Len(s) : u[i] = s[i]
         /\ \A i \in 1..Len(t) : u[Len(s) + i] = t[i]
         /\ \A i \in DOMAIN u : i > Len(s) => i - Len(s) \in 1..Len(t) /\ u[i] = t[i - Len(s)]
<1>1. /\ u \in Seq(S) /\ Len(u) = Len(s) + Len(t)
      /\ \A i \in 1..(Len(s) + Len(t)) : u[i] = IF i <= Len(s) THEN s[i] ELSE t[i - Len(s)]
  BY ConcatProperties
<1>2. /\ DOMAIN u = 1..(Len(s) + Len(t)) /\ DOMAIN s = 1..Len(s) /\ DOMAIN t = 1..Len(t)
      /\ Len(s) \in Nat /\ Len(t) \in Nat
  BY <1>1, LenProperties
<1>3. \A i \in 1..Len(s) : u[i] = s[i]
  BY <1>1, <1>2
<1>4. \A i \in 1..Len(t) : u[Len(s) + i] = t[i]
  BY <1>1, <1>2
<1>5. \A i \in DOMAIN u : i > Len(s) => i - Len(s) \in 1..Len(t) /\ u[i] = t[i - Len(s)]
  BY <1>1, <1>2
<1> QED BY <1>1, <1>2, <1>3, <1>4, <1>5

(* What is posted to the end of a Messager.                                *)
LEMMA Posting ==
  ASSUME NEW S, NEW s \in Seq(S), NEW t \in Seq(S)
  PROVE  /\ s \o t \in Seq(S)
         /\ \A K : Has(s \o t, K) <=> Has(s, K) \/ Has(t, K)
         /\ \A K : Once(s, K) /\ ~Has(t, K) => Once(s \o t, K)
         /\ \A K : ~Has(s, K) /\ Once(t, K) => Once(s \o t, K)
         /\ \A J, K : Before(s, J, K) /\ ~Has(t, J) => Before(s \o t, J, K)
         /\ \A J, K : ~Has(s, K) /\ Before(t, J, K) => Before(s \o t, J, K)
         /\ \A J, K : EndsWith(s, K, J) /\ ~Has(t, J) => EndsWith(s \o t, K, J)
         /\ \A J, K : EndsWith(t, K, J) => EndsWith(s \o t, K, J)
<1>0. PICK u : u = s \o t
  OBVIOUS
<1>1. /\ u \in Seq(S)
      /\ DOMAIN u = 1..(Len(s) + Len(t)) /\ DOMAIN s = 1..Len(s) /\ DOMAIN t = 1..Len(t)
      /\ Len(s) \in Nat /\ Len(t) \in Nat
      /\ \A i \in 1..Len(s) : u[i] = s[i]
      /\ \A i \in 1..Len(t) : u[Len(s) + i] = t[i]
      /\ \A i \in DOMAIN u : i > Len(s) => i - Len(s) \in 1..Len(t) /\ u[i] = t[i - Len(s)]
  BY <1>0, ConcatIs
<1>2. \A i \in DOMAIN u : \/ i \in DOMAIN s /\ u[i] = s[i]
                          \/ i > Len(s) /\ i - Len(s) \in DOMAIN t /\ u[i] = t[i - Len(s)]
  BY <1>1
<1>3. \A i \in DOMAIN s : i \in DOMAIN u /\ u[i] = s[i] /\ i <= Len(s)
  BY <1>1
<1>4. \A i \in DOMAIN t : Len(s) + i \in DOMAIN u /\ u[Len(s) + i] = t[i]
  BY <1>1
<1>5. DOMAIN u \subseteq Nat /\ DOMAIN t \subseteq Nat /\ Len(s) \in Nat
  BY <1>1
<1>6. ASSUME NEW K
      PROVE  Has(u, K) <=> Has(s, K) \/ Has(t, K)
  <2>1. Has(u, K) => Has(s, K) \/ Has(t, K)
    BY <1>2 DEF Has
  <2>2. Has(s, K) => Has(u, K)
    BY <1>3 DEF Has
  <2>3. Has(t, K) => Has(u, K)
    BY <1>4 DEF Has
  <2> QED BY <2>1, <2>2, <2>3
<1>7. ASSUME NEW K, Once(s, K), ~Has(t, K)
      PROVE  Once(u, K)
  BY <1>2, <1>7 DEF Once, Has
<1>8. ASSUME NEW K, ~Has(s, K), Once(t, K)
      PROVE  Once(u, K)
  <2>1. ASSUME NEW i \in DOMAIN u, NEW j \in DOMAIN u, u[i] \in K, u[j] \in K
        PROVE  i = j
    <3>1. /\ i - Len(s) \in DOMAIN t /\ t[i - Len(s)] \in K
          /\ j - Len(s) \in DOMAIN t /\ t[j - Len(s)] \in K
      BY <1>2, <1>8, <2>1 DEF Has
    <3>2. i - Len(s) = j - Len(s)
      BY <1>8, <3>1 DEF Once
    <3>3. i \in Nat /\ j \in Nat
      BY <1>5
    <3> QED BY <1>5, <3>2, <3>3
  <2> QED BY <2>1 DEF Once
<1>9. ASSUME NEW J, NEW K, Before(s, J, K), ~Has(t, J)
      PROVE  Before(u, J, K)
  <2>1. ASSUME NEW i \in DOMAIN u, NEW j \in DOMAIN u, u[i] \in J, u[j] \in K
        PROVE  i < j
    <3>1. i \in DOMAIN s /\ s[i] \in J /\ i <= Len(s) /\ i \in Nat /\ j \in Nat
      BY <1>2, <1>3, <1>5, <1>9, <2>1 DEF Has
    <3>2. CASE j \in DOMAIN s /\ u[j] = s[j]
      BY <1>9, <2>1, <3>1, <3>2 DEF Before
    <3>3. CASE j > Len(s)
      BY <1>5, <3>1, <3>3
    <3> QED BY <1>2, <3>2, <3>3
  <2> QED BY <2>1 DEF Before
<1>10. ASSUME NEW J, NEW K, ~Has(s, K), Before(t, J, K)
       PROVE  Before(u, J, K)
  <2>1. ASSUME NEW i \in DOMAIN u, NEW j \in DOMAIN u, u[i] \in J, u[j] \in K
        PROVE  i < j
    <3>1. j - Len(s) \in DOMAIN t /\ t[j - Len(s)] \in K /\ j > Len(s) /\ i \in Nat /\ j \in Nat
      BY <1>2, <1>5, <1>10, <2>1 DEF Has
    <3>2. CASE i \in DOMAIN s
      BY <1>3, <1>5, <3>1, <3>2
    <3>3. CASE i > Len(s) /\ i - Len(s) \in DOMAIN t /\ u[i] = t[i - Len(s)]
      <4>1. i - Len(s) < j - Len(s)
        BY <1>10, <2>1, <3>1, <3>3 DEF Before
      <4> QED BY <1>5, <3>1, <4>1
    <3> QED BY <1>2, <3>2, <3>3
  <2> QED BY <2>1 DEF Before
<1>11. ASSUME NEW J, NEW K, EndsWith(s, K, J), ~Has(t, J)
       PROVE  EndsWith(u, K, J)
  <2>1. PICK i \in DOMAIN s : s[i] \in K /\ \A j \in DOMAIN s : j > i => s[j] \notin J
    BY <1>11 DEF EndsWith
  <2>2. i \in DOMAIN u /\ u[i] \in K
    BY <1>3, <2>1
  <2>3. ASSUME NEW j \in DOMAIN u, j > i
        PROVE  u[j] \notin J
    BY <1>2, <1>11, <2>1, <2>3 DEF Has
  <2> QED BY <2>2, <2>3 DEF EndsWith
<1>12. ASSUME NEW J, NEW K, EndsWith(t, K, J)
       PROVE  EndsWith(u, K, J)
  <2>1. PICK i \in DOMAIN t : t[i] \in K /\ \A j \in DOMAIN t : j > i => t[j] \notin J
    BY <1>12 DEF EndsWith
  <2>2. Len(s) + i \in DOMAIN u /\ u[Len(s) + i] \in K /\ i \in Nat \ {0}
    BY <1>1, <1>4, <2>1
  <2>3. ASSUME NEW j \in DOMAIN u, j > Len(s) + i
        PROVE  u[j] \notin J
    <3>1. j > Len(s) /\ j \in Nat
      BY <1>5, <2>2, <2>3
    <3>2. j - Len(s) \in DOMAIN t /\ u[j] = t[j - Len(s)]
      BY <1>1, <3>1
    <3>3. j - Len(s) > i
      BY <1>5, <2>2, <2>3, <3>1
    <3> QED BY <2>1, <3>2, <3>3
  <2> QED BY <2>2, <2>3 DEF EndsWith
<1> QED BY <1>0, <1>1, <1>6, <1>7, <1>8, <1>9, <1>10, <1>11, <1>12

(* The first message of a Messager is taken.                               *)
LEMMA Taking ==
  ASSUME NEW S, NEW s \in Seq(S), s # << >>
  PROVE  /\ Tail(s) \in Seq(S) /\ Head(s) \in S
         /\ \A K : Has(s, K) <=> Head(s) \in K \/ Has(Tail(s), K)
         /\ \A K : Once(s, K) => Once(Tail(s), K)
         /\ \A K : Once(s, K) /\ Head(s) \in K => ~Has(Tail(s), K)
         /\ \A J, K : Before(s, J, K) => Before(Tail(s), J, K)
         /\ \A J, K : Before(s, J, K) /\ Head(s) \in K => ~Has(s, J)
         /\ \A J, K : EndsWith(s, K, J) /\ Head(s) \notin K => EndsWith(Tail(s), K, J)
         /\ \A J, K : EndsWith(s, K, J) => EndsWith(Tail(s), K, J) \/ ~Has(Tail(s), J)
<1>1. PICK u : u = Tail(s)
  OBVIOUS
<1>2. /\ Head(s) \in S /\ u \in Seq(S) /\ Len(u) = Len(s) - 1
      /\ \A i \in 1..Len(u) : u[i] = s[i + 1]
  BY <1>1, HeadTailProperties
<1>3. /\ DOMAIN s = 1..Len(s) /\ DOMAIN u = 1..Len(u) /\ Len(s) \in Nat \ {0} /\ Len(u) \in Nat
      /\ Head(s) = s[1]
  BY <1>2, LenProperties, EmptySeq
<1>4. 1 \in DOMAIN s
  BY <1>3
<1>5. \A i \in DOMAIN u : i \in Nat \ {0} /\ i + 1 \in DOMAIN s /\ u[i] = s[i + 1]
  BY <1>2, <1>3
<1>6. \A i \in DOMAIN s : i \in Nat /\ (i = 1 \/ (i > 1 /\ i - 1 \in DOMAIN u /\ u[i - 1] = s[i]))
  BY <1>2, <1>3
<1>7. ASSUME NEW K
      PROVE  Has(s, K) <=> Head(s) \in K \/ Has(u, K)
  <2>1. Has(s, K) => Head(s) \in K \/ Has(u, K)
    BY <1>3, <1>6 DEF Has
  <2>2. Head(s) \in K => Has(s, K)
    BY <1>3, <1>4 DEF Has
  <2>3. Has(u, K) => Has(s, K)
    BY <1>5 DEF Has
  <2> QED BY <2>1, <2>2, <2>3
<1>8. ASSUME NEW K, Once(s, K)
      PROVE  Once(u, K)
  <2>1. ASSUME NEW i \in DOMAIN u, NEW j \in DOMAIN u, u[i] \in K, u[j] \in K
        PROVE  i = j
    <3>1. i + 1 = j + 1
      BY <1>5, <1>8, <2>1 DEF Once
    <3> QED BY <1>5, <3>1
  <2> QED BY <2>1 DEF Once
<1>9. ASSUME NEW K, Once(s, K), Head(s) \in K, Has(u, K)
      PROVE  FALSE
  <2>1. PICK i \in DOMAIN u : u[i] \in K
    BY <1>9 DEF Has
  <2>2. i + 1 = 1
    BY <1>3, <1>4, <1>5, <1>9, <2>1 DEF Once
  <2> QED BY <1>5, <2>2
<1>10. ASSUME NEW J, NEW K, Before(s, J, K)
       PROVE  Before(u, J, K)
  <2>1. ASSUME NEW i \in DOMAIN u, NEW j \in DOMAIN u, u[i] \in J, u[j] \in K
        PROVE  i < j
    <3>1. i + 1 < j + 1
      BY <1>5, <1>10, <2>1 DEF Before
    <3> QED BY <1>5, <3>1
  <2> QED BY <2>1 DEF Before
<1>11. ASSUME NEW J, NEW K, Before(s, J, K), Head(s) \in K, Has(s, J)
       PROVE  FALSE
  <2>1. PICK i \in DOMAIN s : s[i] \in J
    BY <1>11 DEF Has
  <2>2. i < 1
    BY <1>3, <1>4, <1>11, <2>1 DEF Before
  <2> QED BY <1>3, <2>2
<1>12. ASSUME NEW J, NEW K, EndsWith(s, K, J)
       PROVE  /\ EndsWith(u, K, J) \/ ~Has(u, J)
              /\ Head(s) \notin K => EndsWith(u, K, J)
  <2>1. PICK i \in DOMAIN s : s[i] \in K /\ \A j \in DOMAIN s : j > i => s[j] \notin J
    BY <1>12 DEF EndsWith
  <2>2. \A j \in DOMAIN u : j + 1 > i => u[j] \notin J
    BY <1>5, <2>1
  <2>3. CASE i = 1
    <3>1. ~Has(u, J)
      BY <1>5, <2>2, <2>3 DEF Has
    <3> QED BY <1>3, <2>1, <2>3, <3>1
  <2>4. CASE i # 1
    <3>1. i - 1 \in DOMAIN u /\ u[i - 1] \in K /\ i \in Nat
      BY <1>6, <2>1, <2>4
    <3>2. \A j \in DOMAIN u : j > i - 1 => u[j] \notin J
      BY <1>5, <2>2, <3>1
    <3>3. EndsWith(u, K, J)
      BY <3>1, <3>2 DEF EndsWith
    <3> QED BY <3>3
  <2> QED BY <2>3, <2>4
<1> QED BY <1>1, <1>2, <1>7, <1>8, <1>9, <1>10, <1>11, <1>12

(* One message, two messages.                                              *)
LEMMA OneMessage ==
  ASSUME NEW S, NEW a \in S
  PROVE  /\ <<a>> \in Seq(S)
         /\ \A K : Has(<<a>>, K) <=> a \in K
         /\ \A K : Once(<<a>>, K)
         /\ \A J, K : a \notin J \/ a \notin K => Before(<<a>>, J, K)
         /\ \A J, K : a \in K => EndsWith(<<a>>, K, J)
<1>1. PICK s : s = <<a>>
  OBVIOUS
<1>2. s \in Seq(S) /\ Len(s) = 1 /\ s[1] = a
  BY <1>1
<1>3. DOMAIN s = {1}
  BY <1>2, LenProperties
<1>4. \A K : Has(s, K) <=> a \in K
  BY <1>2, <1>3 DEF Has
<1>5. \A K : Once(s, K)
  BY <1>3 DEF Once
<1>6. \A J, K : a \notin J \/ a \notin K => Before(s, J, K)
  BY <1>2, <1>3 DEF Before
<1>7. \A J, K : a \in K => EndsWith(s, K, J)
  BY <1>2, <1>3 DEF EndsWith
<1> QED BY <1>1, <1>2, <1>4, <1>5, <1>6, <1>7

LEMMA NoMessage ==
  ASSUME NEW S
  PROVE  /\ << >> \in Seq(S)
         /\ \A K : ~Has(<< >>, K) /\ Once(<< >>, K)
         /\ \A J, K : Before(<< >>, J, K)
<1>1. DOMAIN << >> = {}
  OBVIOUS
<1> QED BY <1>1 DEF Has, Once, Before

LEMMA TwoMessages ==
  ASSUME NEW S, NEW a \in S, NEW b \in S
  PROVE  /\ <<a, b>> \in Seq(S)
         /\ \A K : Has(<<a, b>>, K) <=> a \in K \/ b \in K
         /\ \A K : a \notin K \/ b \notin K => Once(<<a, b>>, K)
<1>1. PICK s : s = <<a, b>>
  OBVIOUS
<1>2. s \in Seq(S) /\ Len(s) = 2 /\ s[1] = a /\ s[2] = b
  BY <1>1
<1>3. DOMAIN s = {1, 2}
  BY <1>2, LenProperties
<1>4. \A K : Has(s, K) <=> a \in K \/ b \in K
  BY <1>2, <1>3 DEF Has
<1>5. \A K : a \notin K \/ b \notin K => Once(s, K)
  BY <1>2, <1>3 DEF Once
<1> QED BY <1>1, <1>2, <1>4, <1>5

LEMMA AppendIs ==
  ASSUME NEW S, NEW s \in Seq(S), NEW a \in S
  PROVE  Append(s, a) = s \o <<a>>
BY AppendIsConcat

-----------------------------------------------------------------------------
(* Types.                                                                  *)

Counts  == [Teams -> Nat]
Invites == [game : Games, stamp : Nat]
Infos   == [id : Games, open : BOOLEAN, invited : Counts]
Battles == [over : BOOLEAN, doomed : BOOLEAN, inFreeSlots : BOOLEAN,
            inside : SUBSET Players, invited : Counts]
Groups  == [players : SUBSET Players, invitedTo : Games \cup {NoGame}, team : Teams]

QueueMessages ==
    [type : {"join"}, players : SUBSET Players]
    \cup [type : {"port"}, player : Players, accept : BOOLEAN]
    \cup [type : {"remove"}, player : Players]
    \cup [type : {"expire"}, player : Players, event : Invites, update : BOOLEAN]
    \cup [type : {"status"}, game : Games, open : BOOLEAN]
    \cup [type : {"add free"}, info : Infos]
    \cup [type : {"remove free"}, game : Games]
    \cup [type : {"decrease"}, game : Games, team : Teams]
    \cup [type : {"schedule"}]
WorldMessages ==
    [type : {"joined"}, players : SUBSET Players]
    \cup [type : {"invite"}, player : Players, event : Invites]
    \cup [type : {"count"}, game : Games, team : Teams, count : Nat]
    \cup [type : {"create"}, game : Games, invited : Counts]
    \cup [type : {"enter"}, player : Players, game : Games]
    \cup [type : {"left"}, player : Players]
    \cup [type : {"expire"}, player : Players, event : Invites]

LEMMA QueueMessageIs ==
  /\ \A ps \in SUBSET Players : [type |-> "join", players |-> ps] \in QueueMessages
  /\ \A p \in Players, b \in BOOLEAN : [type |-> "port", player |-> p, accept |-> b] \in QueueMessages
  /\ \A p \in Players : [type |-> "remove", player |-> p] \in QueueMessages
  /\ \A p \in Players, e \in Invites, b \in BOOLEAN :
        [type |-> "expire", player |-> p, event |-> e, update |-> b] \in QueueMessages
  /\ \A g \in Games, b \in BOOLEAN : [type |-> "status", game |-> g, open |-> b] \in QueueMessages
  /\ \A i \in Infos : [type |-> "add free", info |-> i] \in QueueMessages
  /\ \A g \in Games : [type |-> "remove free", game |-> g] \in QueueMessages
  /\ \A g \in Games, t \in Teams : [type |-> "decrease", game |-> g, team |-> t] \in QueueMessages
  /\ [type |-> "schedule"] \in QueueMessages
BY DEF QueueMessages

LEMMA QueueMessageHas ==
  ASSUME NEW m \in QueueMessages
  PROVE  /\ m.type = "join" => m.players \in SUBSET Players
         /\ m.type = "port" => m.player \in Players /\ m.accept \in BOOLEAN
         /\ m.type = "remove" => m.player \in Players
         /\ m.type = "expire" => m.player \in Players /\ m.event \in Invites /\ m.update \in BOOLEAN
         /\ m.type = "status" => m.game \in Games /\ m.open \in BOOLEAN
         /\ m.type = "add free" => m.info \in Infos
         /\ m.type = "remove free" => m.game \in Games
         /\ m.type = "decrease" => m.game \in Games /\ m.team \in Teams
BY DEF QueueMessages

LEMMA WorldMessageIs ==
  /\ \A ps \in SUBSET Players : [type |-> "joined", players |-> ps] \in WorldMessages
  /\ \A p \in Players, e \in Invites : [type |-> "invite", player |-> p, event |-> e] \in WorldMessages
  /\ \A g \in Games, t \in Teams, n \in Nat :
        [type |-> "count", game |-> g, team |-> t, count |-> n] \in WorldMessages
  /\ \A g \in Games, c \in Counts : [type |-> "create", game |-> g, invited |-> c] \in WorldMessages
  /\ \A p \in Players, g \in Games : [type |-> "enter", player |-> p, game |-> g] \in WorldMessages
  /\ \A p \in Players : [type |-> "left", player |-> p] \in WorldMessages
  /\ \A p \in Players, e \in Invites : [type |-> "expire", player |-> p, event |-> e] \in WorldMessages
BY DEF WorldMessages

LEMMA WorldMessageHas ==
  ASSUME NEW m \in WorldMessages
  PROVE  /\ m.type = "joined" => m.players \in SUBSET Players
         /\ m.type = "invite" => m.player \in Players /\ m.event \in Invites
         /\ m.type = "count" => m.game \in Games /\ m.team \in Teams /\ m.count \in Nat
         /\ m.type = "create" => m.game \in Games /\ m.invited \in Counts
         /\ m.type = "enter" => m.player \in Players /\ m.game \in Games
         /\ m.type = "left" => m.player \in Players
         /\ m.type = "expire" => m.player \in Players /\ m.event \in Invites
BY DEF WorldMessages

-----------------------------------------------------------------------------
(* The entries of a game in a list f of BattleGroundInQueueInfo.           *)

NoneIn(f, g) == \A k \in DOMAIN f : f[k].id # g
OneIn(f, g) == \E i \in DOMAIN f : \A k \in DOMAIN f : f[k].id = g <=> k = i
TwoIn(f, g) == \E i, j \in DOMAIN f : i < j /\ \A k \in DOMAIN f : f[k].id = g <=> k = i \/ k = j
AllClosed(f, g) == \A k \in DOMAIN f : f[k].id = g => ~f[k].open

\* f2 has as many entries of g as f, and opens none.
Like(f, f2, g) ==
    /\ NoneIn(f, g) => NoneIn(f2, g)
    /\ OneIn(f, g) => OneIn(f2, g)
    /\ TwoIn(f, g) => TwoIn(f2, g)
    /\ AllClosed(f, g) => AllClosed(f2, g)

SameIds(f, f2) == DOMAIN f2 = DOMAIN f /\ \A k \in DOMAIN f : f2[k].id = f[k].id

LEMMA LikeIs ==
  ASSUME NEW f, NEW f2, NEW g, SameIds(f, f2)
  PROVE  /\ NoneIn(f, g) => NoneIn(f2, g)
         /\ OneIn(f, g) => OneIn(f2, g)
         /\ TwoIn(f, g) => TwoIn(f2, g)
         /\ (\A k \in DOMAIN f : f[k].id = g => f2[k].open = f[k].open) => Like(f, f2, g)
<1>1. NoneIn(f, g) => NoneIn(f2, g)
  BY DEF NoneIn, SameIds
<1>2. OneIn(f, g) => OneIn(f2, g)
  BY DEF OneIn, SameIds
<1>3. TwoIn(f, g) => TwoIn(f2, g)
  BY DEF TwoIn, SameIds
<1>4. (\A k \in DOMAIN f : f[k].id = g => f2[k].open = f[k].open) /\ AllClosed(f, g) => AllClosed(f2, g)
  BY DEF AllClosed, SameIds
<1> QED BY <1>1, <1>2, <1>3, <1>4 DEF Like

\* f2 is f with the entry x in front of the others.
IsFronted(f, x, f2) ==
    /\ f2[1] = x /\ 1 \in DOMAIN f2
    /\ DOMAIN f2 \subseteq Nat /\ DOMAIN f \subseteq Nat \ {0}
    /\ \A k \in DOMAIN f : k + 1 \in DOMAIN f2 /\ f2[k + 1] = f[k]
    /\ \A k \in DOMAIN f2 : k = 1 \/ (k - 1 \in DOMAIN f /\ f2[k] = f[k - 1])

LEMMA Fronted ==
  ASSUME NEW S, NEW f \in Seq(S), NEW x \in S, NEW f2, f2 = <<x>> \o f
  PROVE  f2 \in Seq(S) /\ IsFronted(f, x, f2)
<1>1. PICK o : o = <<x>>
  OBVIOUS
<1>2. o \in Seq(S) /\ Len(o) = 1 /\ o[1] = x
  BY <1>1
<1>3. f2 \in Seq(S) /\ Len(f2) = Len(o) + Len(f)
      /\ \A i \in 1..(Len(o) + Len(f)) : f2[i] = IF i <= Len(o) THEN o[i] ELSE f[i - Len(o)]
  BY <1>1, <1>2, ConcatProperties
<1>4. DOMAIN f2 = 1..(1 + Len(f)) /\ DOMAIN f = 1..Len(f) /\ Len(f) \in Nat
  BY <1>2, <1>3, LenProperties
<1>5. \A i \in DOMAIN f2 : f2[i] = IF i <= 1 THEN o[i] ELSE f[i - 1]
  BY <1>2, <1>3, <1>4
<1>6. \A k \in DOMAIN f : k + 1 \in DOMAIN f2 /\ f2[k + 1] = f[k]
  BY <1>4, <1>5
<1>7. \A k \in DOMAIN f2 : k = 1 \/ (k - 1 \in DOMAIN f /\ f2[k] = f[k - 1])
  BY <1>4, <1>5
<1>8. 1 \in DOMAIN f2 /\ DOMAIN f2 \subseteq Nat /\ DOMAIN f \subseteq Nat \ {0}
  BY <1>4
<1> QED BY <1>2, <1>3, <1>5, <1>6, <1>7, <1>8 DEF IsFronted

LEMMA FrontedLike ==
  ASSUME NEW f, NEW x, NEW f2, IsFronted(f, x, f2), NEW g
  PROVE  /\ x.id # g => Like(f, f2, g)
         /\ x.id = g /\ OneIn(f, g) => TwoIn(f2, g)
         /\ x.id = g /\ NoneIn(f, g) => OneIn(f2, g)
<1>1. /\ f2[1] = x /\ 1 \in DOMAIN f2
      /\ DOMAIN f2 \subseteq Nat /\ DOMAIN f \subseteq Nat \ {0}
      /\ \A k \in DOMAIN f : k + 1 \in DOMAIN f2 /\ f2[k + 1] = f[k]
      /\ \A k \in DOMAIN f2 : k = 1 \/ (k - 1 \in DOMAIN f /\ f2[k] = f[k - 1])
  BY DEF IsFronted
<1>2. \A i \in DOMAIN f, k \in DOMAIN f2 : k - 1 = i <=> k = i + 1
  BY <1>1
<1>3. CASE x.id # g
  <2>1. NoneIn(f, g) => NoneIn(f2, g)
    BY <1>1, <1>3 DEF NoneIn
  <2>2. AllClosed(f, g) => AllClosed(f2, g)
    BY <1>1, <1>3 DEF AllClosed
  <2>3. ASSUME OneIn(f, g) PROVE OneIn(f2, g)
    <3>1. PICK i \in DOMAIN f : \A k \in DOMAIN f : f[k].id = g <=> k = i
      BY <2>3 DEF OneIn
    <3>2. \A k \in DOMAIN f2 : f2[k].id = g <=> k = i + 1
      BY <1>1, <1>2, <1>3, <3>1
    <3> QED BY <1>1, <3>1, <3>2 DEF OneIn
  <2>4. ASSUME TwoIn(f, g) PROVE TwoIn(f2, g)
    <3>1. PICK i \in DOMAIN f, j \in DOMAIN f :
             i < j /\ \A k \in DOMAIN f : f[k].id = g <=> k = i \/ k = j
      BY <2>4 DEF TwoIn
    <3>2. \A k \in DOMAIN f2 : f2[k].id = g <=> k = i + 1 \/ k = j + 1
      BY <1>1, <1>2, <1>3, <3>1
    <3>3. i + 1 < j + 1
      BY <1>1, <3>1
    <3> QED BY <1>1, <3>1, <3>2, <3>3 DEF TwoIn
  <2> QED BY <1>3, <2>1, <2>2, <2>3, <2>4 DEF Like
<1>4. ASSUME x.id = g, OneIn(f, g) PROVE TwoIn(f2, g)
  <2>1. PICK i \in DOMAIN f : \A k \in DOMAIN f : f[k].id = g <=> k = i
    BY <1>4 DEF OneIn
  <2>2. \A k \in DOMAIN f2 : f2[k].id = g <=> k = 1 \/ k = i + 1
    BY <1>1, <1>2, <1>4, <2>1
  <2>3. 1 < i + 1 /\ i + 1 \in DOMAIN f2
    BY <1>1, <2>1
  <2> QED BY <1>1, <2>2, <2>3 DEF TwoIn
<1>5. ASSUME x.id = g, NoneIn(f, g) PROVE OneIn(f2, g)
  <2>1. \A k \in DOMAIN f2 : f2[k].id = g <=> k = 1
    BY <1>1, <1>5 DEF NoneIn
  <2> QED BY <1>1, <2>1 DEF OneIn
<1> QED BY <1>3, <1>4, <1>5

\* f2 is f without the entry k.
IsDropped(f, k, f2) ==
    /\ k \in DOMAIN f /\ DOMAIN f \subseteq Nat \ {0} /\ DOMAIN f2 \subseteq Nat \ {0}
    /\ \A i \in DOMAIN f : i < k => i \in DOMAIN f2 /\ f2[i] = f[i]
    /\ \A i \in DOMAIN f : i > k => i - 1 \in DOMAIN f2 /\ f2[i - 1] = f[i]
    /\ \A i \in DOMAIN f2 : IF i < k THEN i \in DOMAIN f /\ f2[i] = f[i]
                                     ELSE i + 1 \in DOMAIN f /\ f2[i] = f[i + 1]

LEMMA DroppedIs ==
  ASSUME NEW S, NEW f \in Seq(S), NEW k \in DOMAIN f, NEW a \in Seq(S), NEW b \in Seq(S),
         Len(a) = k - 1, Len(b) = Len(f) - k,
         \A i \in 1..(k - 1) : a[i] = f[i],
         \A i \in 1..(Len(f) - k) : b[i] = f[k + i]
  PROVE  a \o b \in Seq(S) /\ IsDropped(f, k, a \o b)
<1>1. DOMAIN f = 1..Len(f) /\ Len(f) \in Nat /\ k \in 1..Len(f)
  BY LenProperties
<1>2. PICK f2 : f2 = a \o b
  OBVIOUS
<1>8. f2 \in Seq(S) /\ Len(f2) = Len(a) + Len(b)
      /\ \A i \in 1..(Len(a) + Len(b)) : f2[i] = IF i <= Len(a) THEN a[i] ELSE b[i - Len(a)]
  BY <1>2, ConcatProperties
<1>9. DOMAIN f2 = 1..(Len(f) - 1)
  BY <1>1, <1>8, LenProperties
<1>10. \A i \in 1..(Len(f) - 1) : f2[i] = IF i < k THEN f[i] ELSE f[i + 1]
  <2> TAKE i \in 1..(Len(f) - 1)
  <2>1. f2[i] = IF i <= k - 1 THEN a[i] ELSE b[i - (k - 1)]
    BY <1>1, <1>8
  <2>2. CASE i < k
    BY <1>1, <2>1, <2>2
  <2>3. CASE ~(i < k)
    <3>1. i - (k - 1) \in 1..(Len(f) - k) /\ k + (i - (k - 1)) = i + 1
      BY <1>1, <2>3
    <3>2. b[i - (k - 1)] = f[k + (i - (k - 1))]
      BY <3>1
    <3>3. ~(i <= k - 1)
      BY <1>1, <2>3
    <3> QED BY <2>1, <2>3, <3>1, <3>2, <3>3
  <2> QED BY <2>2, <2>3
<1>11. \A i \in DOMAIN f : i < k => i \in DOMAIN f2 /\ f2[i] = f[i]
  BY <1>1, <1>9, <1>10
<1>12. \A i \in DOMAIN f : i > k => i - 1 \in DOMAIN f2 /\ f2[i - 1] = f[i]
  BY <1>1, <1>9, <1>10
<1>13. \A i \in DOMAIN f2 : IF i < k THEN i \in DOMAIN f /\ f2[i] = f[i]
                                     ELSE i + 1 \in DOMAIN f /\ f2[i] = f[i + 1]
  BY <1>1, <1>9, <1>10
<1>14. DOMAIN f \subseteq Nat \ {0} /\ DOMAIN f2 \subseteq Nat \ {0}
  BY <1>1, <1>9
<1> QED BY <1>2, <1>8, <1>11, <1>12, <1>13, <1>14 DEF IsDropped

LEMMA Dropped ==
  ASSUME NEW S, NEW f \in Seq(S), NEW k \in DOMAIN f
  PROVE  /\ SubSeq(f, 1, k - 1) \o SubSeq(f, k + 1, Len(f)) \in Seq(S)
         /\ IsDropped(f, k, SubSeq(f, 1, k - 1) \o SubSeq(f, k + 1, Len(f)))
<1>1. DOMAIN f = 1..Len(f) /\ Len(f) \in Nat /\ k \in 1..Len(f) /\ \A i \in 1..Len(f) : f[i] \in S
  BY LenProperties
<1>2. PICK a, b : a = SubSeq(f, 1, k - 1) /\ b = SubSeq(f, k + 1, Len(f))
  OBVIOUS
<1>3. k - 1 \in Int /\ k + 1 \in Int /\ 1 \in Int /\ Len(f) \in Int
      /\ (\A i \in 1..(k - 1) : f[i] \in S) /\ \A i \in (k + 1)..Len(f) : f[i] \in S
  BY <1>1
<1>4. a \in Seq(S) /\ Len(a) = (IF 1 <= k - 1 THEN k - 1 - 1 + 1 ELSE 0)
      /\ \A i \in 1..(k - 1 - 1 + 1) : a[i] = f[1 + i - 1]
  BY <1>2, <1>3, SubSeqProperties
<1>5. b \in Seq(S) /\ Len(b) = (IF k + 1 <= Len(f) THEN Len(f) - (k + 1) + 1 ELSE 0)
      /\ \A i \in 1..(Len(f) - (k + 1) + 1) : b[i] = f[k + 1 + i - 1]
  BY <1>2, <1>3, SubSeqProperties
<1>6. Len(a) = k - 1 /\ Len(b) = Len(f) - k
  BY <1>1, <1>4, <1>5
<1>7. /\ \A i \in 1..(k - 1) : a[i] = f[i]
      /\ \A i \in 1..(Len(f) - k) : b[i] = f[k + i]
  <2>1. \A i \in 1..(k - 1) : a[i] = f[i]
    BY <1>1, <1>4
  <2>2. \A i \in 1..(Len(f) - k) : i \in 1..(Len(f) - (k + 1) + 1) /\ k + 1 + i - 1 = k + i
    BY <1>1
  <2>3. \A i \in 1..(Len(f) - k) : b[i] = f[k + i]
    BY <1>5, <2>2
  <2> QED BY <2>1, <2>3
<1>8. a \o b \in Seq(S) /\ IsDropped(f, k, a \o b)
  BY <1>4, <1>5, <1>6, <1>7, DroppedIs
<1> QED BY <1>2, <1>8

LEMMA DroppedLike ==
  ASSUME NEW f, NEW k, NEW f2, IsDropped(f, k, f2), NEW g
  PROVE  /\ f[k].id # g => Like(f, f2, g)
         /\ f[k].id = g /\ TwoIn(f, g) => OneIn(f2, g)
<1>1. /\ k \in DOMAIN f /\ DOMAIN f \subseteq Nat \ {0} /\ DOMAIN f2 \subseteq Nat \ {0}
      /\ \A i \in DOMAIN f : i < k => i \in DOMAIN f2 /\ f2[i] = f[i]
      /\ \A i \in DOMAIN f : i > k => i - 1 \in DOMAIN f2 /\ f2[i - 1] = f[i]
      /\ \A i \in DOMAIN f2 : IF i < k THEN i \in DOMAIN f /\ f2[i] = f[i]
                                       ELSE i + 1 \in DOMAIN f /\ f2[i] = f[i + 1]
  BY DEF IsDropped
<1> DEFINE New(i) == IF i < k THEN i ELSE i - 1
           Old(i) == IF i < k THEN i ELSE i + 1
<1>2. \A i \in DOMAIN f : i # k => New(i) \in DOMAIN f2 /\ f2[New(i)] = f[i]
  BY <1>1
<1>3. \A i \in DOMAIN f2 : Old(i) \in DOMAIN f /\ Old(i) # k /\ f2[i] = f[Old(i)]
  BY <1>1
<1>4. \A j \in DOMAIN f, i \in DOMAIN f2 : j # k => (Old(i) = j <=> i = New(j))
  BY <1>1
<1>5. \A i, j \in DOMAIN f : i # k /\ j # k /\ i < j => New(i) < New(j)
  BY <1>1
<1> HIDE DEF New, Old
<1>6. CASE f[k].id # g
  <2>1. NoneIn(f, g) => NoneIn(f2, g)
    BY <1>3 DEF NoneIn
  <2>2. AllClosed(f, g) => AllClosed(f2, g)
    BY <1>3 DEF AllClosed
  <2>3. ASSUME OneIn(f, g) PROVE OneIn(f2, g)
    <3>1. PICK i \in DOMAIN f : \A j \in DOMAIN f : f[j].id = g <=> j = i
      BY <2>3 DEF OneIn
    <3>2. i # k
      BY <1>6, <3>1
    <3>3. \A j \in DOMAIN f2 : f2[j].id = g <=> j = New(i)
      BY <1>3, <1>4, <3>1, <3>2
    <3> QED BY <1>2, <3>2, <3>3 DEF OneIn
  <2>4. ASSUME TwoIn(f, g) PROVE TwoIn(f2, g)
    <3>1. PICK i \in DOMAIN f, j \in DOMAIN f :
             i < j /\ \A l \in DOMAIN f : f[l].id = g <=> l = i \/ l = j
      BY <2>4 DEF TwoIn
    <3>2. i # k /\ j # k
      BY <1>6, <3>1
    <3>3. \A l \in DOMAIN f2 : f2[l].id = g <=> l = New(i) \/ l = New(j)
      BY <1>3, <1>4, <3>1, <3>2
    <3>4. New(i) < New(j) /\ New(i) \in DOMAIN f2 /\ New(j) \in DOMAIN f2
      BY <1>2, <1>5, <3>1, <3>2
    <3> QED BY <3>3, <3>4 DEF TwoIn
  <2> QED BY <1>6, <2>1, <2>2, <2>3, <2>4 DEF Like
<1>7. ASSUME f[k].id = g, TwoIn(f, g) PROVE OneIn(f2, g)
  <2>1. PICK i \in DOMAIN f, j \in DOMAIN f :
           i < j /\ \A l \in DOMAIN f : f[l].id = g <=> l = i \/ l = j
    BY <1>7 DEF TwoIn
  <2>2. PICK l \in DOMAIN f : l # k /\ \A n \in DOMAIN f : n # k => (f[n].id = g <=> n = l)
    BY <1>1, <1>7, <2>1
  <2>3. \A n \in DOMAIN f2 : f2[n].id = g <=> n = New(l)
    BY <1>3, <1>4, <2>2
  <2> QED BY <1>2, <2>2, <2>3 DEF OneIn
<1> QED BY <1>6, <1>7

(* The messages about the entries of a game.                               *)
AddsFree(g)    == {m \in QueueMessages : m.type = "add free" /\ m.info.id = g}
RemovesFree(g) == {m \in QueueMessages : m.type = "remove free" /\ m.game = g}
Opens(g)       == {m \in QueueMessages : m.type = "status" /\ m.game = g /\ m.open}
Closes(g)      == {m \in QueueMessages : m.type = "status" /\ m.game = g /\ ~m.open}
Disturbing(g)  == AddsFree(g) \cup RemovesFree(g) \cup Opens(g)
Loud(g)        == Disturbing(g) \cup Closes(g)

LEMMA LoudIs ==
  ASSUME NEW q, NEW g
  PROVE  /\ Has(q, Disturbing(g)) <=> Has(q, AddsFree(g)) \/ Has(q, RemovesFree(g)) \/ Has(q, Opens(g))
         /\ Has(q, Loud(g)) <=> Has(q, Disturbing(g)) \/ Has(q, Closes(g))
BY DEF Has, Disturbing, Loud

LEMMA LoudMember ==
  ASSUME NEW m, NEW g
  PROVE  /\ m \in Disturbing(g) <=> m \in AddsFree(g) \/ m \in RemovesFree(g) \/ m \in Opens(g)
         /\ m \in Loud(g) <=> m \in Disturbing(g) \/ m \in Closes(g)
BY DEF Disturbing, Loud

(* A battleground bg with the id g, the messages q to the queue about it   *)
(* and its entries in f: at most one message adds an entry and at most one *)
(* removes it, in this order; with both taken into account the game has    *)
(* two entries while it believes itself in the list, and one otherwise.    *)
(* Once it is over either a message is on its way that closes all of it,   *)
(* or nothing is on its way and nothing is open.                           *)
GameOK(f, q, bg, g) ==
    /\ Once(q, AddsFree(g)) /\ Once(q, RemovesFree(g)) /\ Before(q, AddsFree(g), RemovesFree(g))
    /\ Has(q, RemovesFree(g)) => bg.over
    /\ bg.over => ~bg.inFreeSlots
    /\ Has(q, AddsFree(g)) => OneIn(f, g) /\ (bg.inFreeSlots \/ Has(q, RemovesFree(g)))
    /\ ~Has(q, AddsFree(g)) /\ (bg.inFreeSlots \/ Has(q, RemovesFree(g))) => TwoIn(f, g)
    /\ ~Has(q, AddsFree(g)) /\ ~bg.inFreeSlots /\ ~Has(q, RemovesFree(g)) => OneIn(f, g)
    /\ bg.over => \/ EndsWith(q, Closes(g), Disturbing(g))
                  \/ ~Has(q, Disturbing(g)) /\ AllClosed(f, g)

LEMMA LastHas ==
  ASSUME NEW q, NEW K, NEW J, EndsWith(q, K, J)
  PROVE  Has(q, K)
BY DEF EndsWith, Has

\* Nothing about g happens.
LEMMA GameSame ==
  ASSUME NEW f, NEW f2, NEW q, NEW bg, NEW bg2, NEW g, GameOK(f, q, bg, g), Like(f, f2, g),
         bg2.over = bg.over, bg2.inFreeSlots = bg.inFreeSlots
  PROVE  GameOK(f2, q, bg2, g)
BY DEF GameOK, Like

LEMMA GameTaken ==
  ASSUME NEW f, NEW q \in Seq(QueueMessages), q # << >>, NEW bg, NEW g,
         GameOK(f, q, bg, g), Head(q) \notin Loud(g)
  PROVE  GameOK(f, Tail(q), bg, g)
<1>1. /\ Head(q) \notin AddsFree(g) /\ Head(q) \notin RemovesFree(g) /\ Head(q) \notin Opens(g)
      /\ Head(q) \notin Closes(g) /\ Head(q) \notin Disturbing(g)
  BY LoudMember
<1>2. /\ Has(Tail(q), AddsFree(g)) <=> Has(q, AddsFree(g))
      /\ Has(Tail(q), RemovesFree(g)) <=> Has(q, RemovesFree(g))
      /\ Has(Tail(q), Disturbing(g)) <=> Has(q, Disturbing(g))
  BY <1>1, Taking
<1>3. /\ Once(q, AddsFree(g)) => Once(Tail(q), AddsFree(g))
      /\ Once(q, RemovesFree(g)) => Once(Tail(q), RemovesFree(g))
      /\ Before(q, AddsFree(g), RemovesFree(g)) => Before(Tail(q), AddsFree(g), RemovesFree(g))
      /\ EndsWith(q, Closes(g), Disturbing(g)) => EndsWith(Tail(q), Closes(g), Disturbing(g))
  BY <1>1, Taking
<1> QED BY <1>2, <1>3 DEF GameOK

LEMMA GamePosted ==
  ASSUME NEW f, NEW q \in Seq(QueueMessages), NEW t \in Seq(QueueMessages), NEW bg, NEW g,
         GameOK(f, q, bg, g), ~Has(t, Loud(g))
  PROVE  GameOK(f, q \o t, bg, g)
<1>1. /\ ~Has(t, AddsFree(g)) /\ ~Has(t, RemovesFree(g)) /\ ~Has(t, Disturbing(g))
  BY LoudIs
<1>2. /\ Has(q \o t, AddsFree(g)) <=> Has(q, AddsFree(g))
      /\ Has(q \o t, RemovesFree(g)) <=> Has(q, RemovesFree(g))
      /\ Has(q \o t, Disturbing(g)) <=> Has(q, Disturbing(g))
  BY <1>1, Posting
<1>3. /\ Once(q, AddsFree(g)) => Once(q \o t, AddsFree(g))
      /\ Once(q, RemovesFree(g)) => Once(q \o t, RemovesFree(g))
      /\ Before(q, AddsFree(g), RemovesFree(g)) => Before(q \o t, AddsFree(g), RemovesFree(g))
      /\ EndsWith(q, Closes(g), Disturbing(g)) => EndsWith(q \o t, Closes(g), Disturbing(g))
  BY <1>1, Posting
<1> QED BY <1>2, <1>3 DEF GameOK

\* The queue takes a message about g.
LEMMA GameAdded ==
  ASSUME NEW f, NEW f2, NEW q \in Seq(QueueMessages), q # << >>, NEW bg, NEW g,
         GameOK(f, q, bg, g), Head(q) \in AddsFree(g), OneIn(f, g) => TwoIn(f2, g)
  PROVE  GameOK(f2, Tail(q), bg, g)
<1>1. /\ Head(q) \notin RemovesFree(g) /\ Head(q) \notin Closes(g) /\ Head(q) \in Disturbing(g)
  BY LoudMember DEF AddsFree, RemovesFree, Closes
<1>2. /\ Has(q, AddsFree(g)) /\ Has(q, Disturbing(g))
      /\ Has(Tail(q), RemovesFree(g)) <=> Has(q, RemovesFree(g))
      /\ Once(q, AddsFree(g)) => ~Has(Tail(q), AddsFree(g))
      /\ Once(q, AddsFree(g)) => Once(Tail(q), AddsFree(g))
      /\ Once(q, RemovesFree(g)) => Once(Tail(q), RemovesFree(g))
      /\ Before(q, AddsFree(g), RemovesFree(g)) => Before(Tail(q), AddsFree(g), RemovesFree(g))
      /\ EndsWith(q, Closes(g), Disturbing(g)) => EndsWith(Tail(q), Closes(g), Disturbing(g))
  BY <1>1, Taking
<1> QED BY <1>2 DEF GameOK

LEMMA GameRemoved ==
  ASSUME NEW f, NEW f2, NEW q \in Seq(QueueMessages), q # << >>, NEW bg, NEW g,
         GameOK(f, q, bg, g), Head(q) \in RemovesFree(g), TwoIn(f, g) => OneIn(f2, g)
  PROVE  GameOK(f2, Tail(q), bg, g)
<1>1. /\ Head(q) \notin AddsFree(g) /\ Head(q) \notin Closes(g) /\ Head(q) \in Disturbing(g)
  BY LoudMember DEF AddsFree, RemovesFree, Closes
<1>2. /\ Has(q, RemovesFree(g)) /\ Has(q, Disturbing(g))
      /\ Has(Tail(q), AddsFree(g)) <=> Has(q, AddsFree(g))
      /\ Before(q, AddsFree(g), RemovesFree(g)) => ~Has(q, AddsFree(g))
      /\ Once(q, RemovesFree(g)) => ~Has(Tail(q), RemovesFree(g))
      /\ Once(q, AddsFree(g)) => Once(Tail(q), AddsFree(g))
      /\ Once(q, RemovesFree(g)) => Once(Tail(q), RemovesFree(g))
      /\ Before(q, AddsFree(g), RemovesFree(g)) => Before(Tail(q), AddsFree(g), RemovesFree(g))
      /\ EndsWith(q, Closes(g), Disturbing(g)) => EndsWith(Tail(q), Closes(g), Disturbing(g))
  BY <1>1, Taking
<1> QED BY <1>2 DEF GameOK

\* f2 is f with the first entry of g open or not, and nothing else changed.
LEMMA GameSet ==
  ASSUME NEW f, NEW f2, NEW q \in Seq(QueueMessages), q # << >>, NEW bg, NEW g,
         GameOK(f, q, bg, g), Head(q) \in Opens(g) \cup Closes(g), SameIds(f, f2),
         Head(q) \in Closes(g) /\ OneIn(f, g) => AllClosed(f2, g)
  PROVE  GameOK(f2, Tail(q), bg, g)
<1>1. /\ Head(q) \notin AddsFree(g) /\ Head(q) \notin RemovesFree(g)
      /\ Head(q) \in Opens(g) => Head(q) \in Disturbing(g) /\ Head(q) \notin Closes(g)
      /\ Head(q) \in Closes(g) => Head(q) \notin Disturbing(g)
  BY LoudMember DEF AddsFree, RemovesFree, Closes, Opens
<1>2. /\ Has(Tail(q), AddsFree(g)) <=> Has(q, AddsFree(g))
      /\ Has(Tail(q), RemovesFree(g)) <=> Has(q, RemovesFree(g))
      /\ Once(q, AddsFree(g)) => Once(Tail(q), AddsFree(g))
      /\ Once(q, RemovesFree(g)) => Once(Tail(q), RemovesFree(g))
      /\ Before(q, AddsFree(g), RemovesFree(g)) => Before(Tail(q), AddsFree(g), RemovesFree(g))
  BY <1>1, Taking
<1>3. /\ OneIn(f, g) => OneIn(f2, g)
      /\ TwoIn(f, g) => TwoIn(f2, g)
  BY LikeIs
<1>4. ASSUME bg.over
      PROVE  EndsWith(Tail(q), Closes(g), Disturbing(g)) \/ (~Has(Tail(q), Disturbing(g)) /\ AllClosed(f2, g))
  <2>1. CASE Head(q) \in Opens(g)
    <3>1. Has(q, Disturbing(g))
      BY <1>1, <2>1, Taking
    <3>2. EndsWith(q, Closes(g), Disturbing(g))
      BY <1>4, <3>1 DEF GameOK
    <3> QED BY <1>1, <2>1, <3>2, Taking
  <2>2. CASE Head(q) \in Closes(g)
    <3>1. CASE EndsWith(Tail(q), Closes(g), Disturbing(g))
      BY <3>1
    <3>2. CASE ~EndsWith(Tail(q), Closes(g), Disturbing(g))
      <4>1. ~Has(Tail(q), Disturbing(g))
        <5>1. EndsWith(q, Closes(g), Disturbing(g)) => ~Has(Tail(q), Disturbing(g))
          BY <3>2, Taking
        <5>2. ~Has(q, Disturbing(g)) => ~Has(Tail(q), Disturbing(g))
          BY Taking
        <5> QED BY <1>4, <5>1, <5>2 DEF GameOK
      <4>2. ~Has(q, AddsFree(g)) /\ ~Has(q, RemovesFree(g))
        BY <1>2, <4>1, LoudIs
      <4>3. OneIn(f, g)
        BY <1>4, <4>2 DEF GameOK
      <4> QED BY <2>2, <4>1, <4>3
    <3> QED BY <3>1, <3>2
  <2> QED BY <2>1, <2>2
<1> QED BY <1>2, <1>3, <1>4 DEF GameOK

\* A battleground posts.
LEMMA GameBorn ==
  ASSUME NEW f, NEW q \in Seq(QueueMessages), NEW t \in Seq(QueueMessages), NEW bg, NEW g,
         ~Has(q, Loud(g)), OneIn(f, g), ~bg.over, ~bg.inFreeSlots,
         ~Has(t, AddsFree(g)), ~Has(t, RemovesFree(g))
  PROVE  GameOK(f, q \o t, bg, g)
<1>1. ~Has(q, AddsFree(g)) /\ ~Has(q, RemovesFree(g))
  BY LoudIs
<1>2. Once(t, AddsFree(g)) /\ Once(t, RemovesFree(g)) /\ Before(t, AddsFree(g), RemovesFree(g))
  BY DEF Once, Before, Has
<1>3. /\ ~Has(q \o t, AddsFree(g)) /\ ~Has(q \o t, RemovesFree(g))
      /\ Once(q \o t, AddsFree(g)) /\ Once(q \o t, RemovesFree(g))
      /\ Before(q \o t, AddsFree(g), RemovesFree(g))
  BY <1>1, <1>2, Posting
<1> QED BY <1>3 DEF GameOK

LEMMA GameAdds ==
  ASSUME NEW f, NEW q \in Seq(QueueMessages), NEW t \in Seq(QueueMessages), NEW bg, NEW bg2, NEW g,
         GameOK(f, q, bg, g), ~bg.over, ~bg.inFreeSlots, bg2.over = bg.over, bg2.inFreeSlots,
         Has(t, AddsFree(g)), Once(t, AddsFree(g)), ~Has(t, RemovesFree(g))
  PROVE  GameOK(f, q \o t, bg2, g)
<1>1. ~Has(q, RemovesFree(g)) /\ ~Has(q, AddsFree(g)) /\ OneIn(f, g)
  BY DEF GameOK
<1>2. Once(t, RemovesFree(g)) /\ Before(t, AddsFree(g), RemovesFree(g))
  BY DEF Once, Before, Has
<1>3. /\ Has(q \o t, AddsFree(g)) /\ ~Has(q \o t, RemovesFree(g))
      /\ Once(q \o t, AddsFree(g)) /\ Once(q \o t, RemovesFree(g))
      /\ Before(q \o t, AddsFree(g), RemovesFree(g))
  BY <1>1, <1>2, Posting
<1> QED BY <1>1, <1>3 DEF GameOK

LEMMA GameEnds ==
  ASSUME NEW f, NEW q \in Seq(QueueMessages), NEW t \in Seq(QueueMessages), NEW bg, NEW bg2, NEW g,
         GameOK(f, q, bg, g), bg2.over, ~bg2.inFreeSlots,
         Has(t, RemovesFree(g)) <=> bg.inFreeSlots, Once(t, RemovesFree(g)), ~Has(t, AddsFree(g)),
         EndsWith(t, Closes(g), Disturbing(g))
  PROVE  GameOK(f, q \o t, bg2, g)
<1>1. bg.inFreeSlots => ~Has(q, RemovesFree(g))
  BY DEF GameOK
<1>2. Once(t, AddsFree(g)) /\ (~bg.inFreeSlots => ~Has(t, RemovesFree(g)))
  BY DEF Once, Has
<1>3. /\ Has(q \o t, AddsFree(g)) <=> Has(q, AddsFree(g))
      /\ Has(q \o t, RemovesFree(g)) <=> Has(q, RemovesFree(g)) \/ bg.inFreeSlots
      /\ EndsWith(q \o t, Closes(g), Disturbing(g))
  BY Posting
<1>4. Once(q \o t, AddsFree(g)) /\ Once(q \o t, RemovesFree(g))
  <2>1. Once(q, AddsFree(g)) /\ Once(q, RemovesFree(g))
    BY DEF GameOK
  <2> QED BY <1>1, <1>2, <2>1, Posting
<1>5. Before(q \o t, AddsFree(g), RemovesFree(g))
  <2>1. Before(q, AddsFree(g), RemovesFree(g))
    BY DEF GameOK
  <2> QED BY <2>1, Posting
<1> QED BY <1>3, <1>4, <1>5 DEF GameOK

-----------------------------------------------------------------------------
(* The invariant of the entries.                                           *)

PlayersType ==
    /\ online \subseteq Players /\ far \subseteq Players
    /\ slot \in [Players -> Games \cup {NoGame, NotQueued}]
    /\ bgId \in [Players -> Games \cup {NoGame}]
    /\ events \in [Players -> SUBSET Invites]
GamesType == game \in Seq(Battles)
QueueType ==
    /\ queuedPlayers \in [Players -> Nat]
    /\ \A i \in DOMAIN queuedGroups : queuedGroups[i] \in Groups
    /\ freeSlots \in Seq(Infos)
    /\ scheduled \in BOOLEAN /\ updating \in BOOLEAN /\ groups \in Nat
    /\ games \in Nat /\ games <= MaxGames
MessagesType == toQueue \in Seq(QueueMessages) /\ toWorld \in Seq(WorldMessages)
TypeInv == PlayersType /\ GamesType /\ QueueType /\ MessagesType

Creates(g) == {m \in WorldMessages : m.type = "create" /\ m.game = g}
Enters(g)  == {m \in WorldMessages : m.type = "enter" /\ m.game = g}

\* The games not yet created are those with a message on its way, in order; whoever
\* is sent to a game finds it created.
CreateInv ==
    /\ Len(game) <= games
    /\ \A g \in Games : Has(toWorld, Creates(g)) <=> Len(game) < g /\ g <= games
    /\ \A g \in Games : Once(toWorld, Creates(g))
    /\ \A g, h \in Games : g < h => Before(toWorld, Creates(g), Creates(h))
    /\ \A g \in Games : Has(toWorld, Enters(g)) => g <= games
    /\ \A g \in Games : Before(toWorld, Creates(g), Enters(g))
SentInv == \A p \in Players : bgId[p] # NoGame => Exists(bgId[p])

ListInv == \A g \in Games :
    IF Exists(g) THEN GameOK(freeSlots, toQueue, game[g], g)
    ELSE /\ ~Has(toQueue, Loud(g))
         /\ g <= games => OneIn(freeSlots, g)
         /\ ~(g <= games) => NoneIn(freeSlots, g)

\* Every player in the queue is in his group; a group is invited to a game that
\* was made.
GroupInv ==
    /\ DOMAIN queuedGroups \subseteq 1..groups
    /\ \A i \in DOMAIN queuedGroups : queuedGroups[i].invitedTo <= games
    /\ \A p \in Players : InQueue(p) => /\ queuedPlayers[p] \in DOMAIN queuedGroups
                                        /\ p \in queuedGroups[queuedPlayers[p]].players

-----------------------------------------------------------------------------
(* Helpers.                                                                *)

LEMMA TeamFacts ==
  /\ \A p : TeamOf(p) \in Teams
  /\ NoGame \notin Games /\ NoGame \in Nat /\ Games \subseteq Nat \ {0}
  /\ NotQueued \notin Games /\ NotQueued # NoGame
  /\ MaxGames \in Nat /\ Wrap \in Nat \ {0} /\ Games = 1..MaxGames
<1>1. \A p : TeamOf(p) \in Teams
  BY DEF TeamOf, Teams
<1>2. NoGame \notin Games /\ NoGame \in Nat /\ Games \subseteq Nat \ {0} /\ MaxGames \in Nat /\ Games = 1..MaxGames
  BY BgQueueAssumption DEF NoGame, Games
<1>3. NotQueued \notin Games /\ NotQueued # NoGame
  BY BgQueueAssumption
<1>4. Wrap \in Nat \ {0}
  BY BgQueueAssumption
<1> QED BY <1>1, <1>2, <1>3, <1>4

LEMMA DecNat ==
  ASSUME NEW n \in Nat
  PROVE  Dec(n) \in Nat
<1>1. Wrap \in Nat \ {0}
  BY TeamFacts
<1>2. n + Wrap - 1 \in Int
  BY <1>1
<1>3. \A k \in Int : k % Wrap \in Nat
  BY <1>1
<1> QED BY <1>2, <1>3 DEF Dec

LEMMA IsSeq ==
  ASSUME NEW S, NEW n \in Nat, NEW f \in [1..n -> S]
  PROVE  f \in Seq(S) /\ Len(f) = n /\ DOMAIN f = 1..n
<1>1. f \in Seq(S)
  BY SeqDef
<1> QED BY <1>1, LenProperties

(* Battlegrounds change one by one.                                        *)
LEMMA OneChanged ==
  ASSUME NEW S, NEW s \in Seq(S), NEW t, NEW i \in DOMAIN s, NEW x \in S,
         t = [s EXCEPT ![i] = x]
  PROVE  /\ t \in Seq(S) /\ DOMAIN t = DOMAIN s /\ Len(t) = Len(s)
         /\ t[i] = x /\ \A j \in DOMAIN s : j # i => t[j] = s[j]
<1>1. s \in [1..Len(s) -> S] /\ DOMAIN s = 1..Len(s) /\ Len(s) \in Nat
  BY LenProperties
<1>2. t \in [1..Len(s) -> S] /\ t[i] = x /\ \A j \in DOMAIN s : j # i => t[j] = s[j]
  BY <1>1
<1> QED BY <1>1, <1>2, IsSeq

-----------------------------------------------------------------------------
(* What the world's steps post to the queue, for one battleground.         *)

BattleStep(t, bg, bg2, g) ==
    \/ /\ ~Has(t, Loud(g))
       /\ bg2.over = bg.over /\ bg2.inFreeSlots = bg.inFreeSlots
    \/ /\ ~bg.over /\ ~bg.inFreeSlots /\ bg2.over = bg.over /\ bg2.inFreeSlots
       /\ Has(t, AddsFree(g)) /\ Once(t, AddsFree(g)) /\ ~Has(t, RemovesFree(g))
    \/ /\ bg2.over /\ ~bg2.inFreeSlots
       /\ Has(t, RemovesFree(g)) <=> bg.inFreeSlots
       /\ Once(t, RemovesFree(g)) /\ ~Has(t, AddsFree(g))
       /\ EndsWith(t, Closes(g), Disturbing(g))

LEMMA BattleStepOK ==
  ASSUME NEW f, NEW q \in Seq(QueueMessages), NEW t \in Seq(QueueMessages), NEW bg, NEW bg2, NEW g,
         GameOK(f, q, bg, g), BattleStep(t, bg, bg2, g)
  PROVE  GameOK(f, q \o t, bg2, g)
<1>1. CASE ~Has(t, Loud(g)) /\ bg2.over = bg.over /\ bg2.inFreeSlots = bg.inFreeSlots
  <2>1. GameOK(f, q \o t, bg, g)
    BY <1>1, GamePosted
  <2>2. Like(f, f, g)
    BY DEF Like
  <2> QED BY <1>1, <2>1, <2>2, GameSame
<1>2. CASE /\ ~bg.over /\ ~bg.inFreeSlots /\ bg2.over = bg.over /\ bg2.inFreeSlots
           /\ Has(t, AddsFree(g)) /\ Once(t, AddsFree(g)) /\ ~Has(t, RemovesFree(g))
  BY <1>2, GameAdds
<1>3. CASE /\ bg2.over /\ ~bg2.inFreeSlots
           /\ Has(t, RemovesFree(g)) <=> bg.inFreeSlots
           /\ Once(t, RemovesFree(g)) /\ ~Has(t, AddsFree(g))
           /\ EndsWith(t, Closes(g), Disturbing(g))
  BY <1>3, GameEnds
<1> QED BY <1>1, <1>2, <1>3 DEF BattleStep

\* A step of the world that creates no battleground posts t.
WorldPosts(t) ==
    /\ t \in Seq(QueueMessages) /\ toQueue' = toQueue \o t
    /\ game' \in Seq(Battles) /\ DOMAIN game' = DOMAIN game /\ Len(game') = Len(game)
    /\ \A g \in DOMAIN game : BattleStep(t, game[g], game'[g], g)
    /\ \A g \in Games : ~Exists(g) => ~Has(t, Loud(g))

LEMMA WorldPostsOK ==
  ASSUME TypeInv, ListInv, NEW t, WorldPosts(t), UNCHANGED <<freeSlots, games>>
  PROVE  toQueue' \in Seq(QueueMessages) /\ ListInv'
<1>1. toQueue \in Seq(QueueMessages) /\ t \in Seq(QueueMessages) /\ toQueue' = toQueue \o t
  BY DEF TypeInv, MessagesType, WorldPosts
<1>2. toQueue' \in Seq(QueueMessages)
  BY <1>1, Posting
<1>3. ASSUME NEW g \in Games, Exists(g)
      PROVE  GameOK(freeSlots', toQueue', game'[g], g)
  <2>1. GameOK(freeSlots, toQueue, game[g], g)
    BY <1>3 DEF ListInv
  <2>2. BattleStep(t, game[g], game'[g], g)
    BY <1>3 DEF WorldPosts, Exists
  <2>3. GameOK(freeSlots, toQueue \o t, game'[g], g)
    BY <1>1, <2>1, <2>2, BattleStepOK
  <2> QED BY <1>1, <2>3
<1>4. ASSUME NEW g \in Games, ~Exists(g)
      PROVE  ~Has(toQueue', Loud(g))
  <2>1. ~Has(toQueue, Loud(g)) /\ ~Has(t, Loud(g))
    BY <1>4 DEF ListInv, WorldPosts
  <2>2. ~Has(toQueue \o t, Loud(g))
    BY <1>1, <2>1, Posting
  <2> QED BY <1>1, <2>2
<1>5. \A g \in Games : Exists(g)' <=> Exists(g)
  BY DEF Exists, WorldPosts
<1>6. ListInv'
  <2> SUFFICES ASSUME NEW g \in Games
               PROVE  (IF Exists(g) THEN GameOK(freeSlots, toQueue, game[g], g)
                       ELSE /\ ~Has(toQueue, Loud(g))
                            /\ g <= games => OneIn(freeSlots, g)
                            /\ ~(g <= games) => NoneIn(freeSlots, g))'
    BY DEF ListInv
  <2>1. CASE Exists(g)
    BY <1>3, <1>5, <2>1
  <2>2. CASE ~Exists(g)
    BY <1>4, <1>5, <2>2 DEF ListInv
  <2> QED BY <2>1, <2>2
<1> QED BY <1>2, <1>6

(* Messages about no entry.                                                *)
LEMMA QuietMessage ==
  ASSUME NEW m, m.type \notin {"add free", "remove free", "status"}
  PROVE  \A g : /\ m \notin Loud(g) /\ m \notin AddsFree(g) /\ m \notin RemovesFree(g)
                /\ m \notin Opens(g) /\ m \notin Closes(g) /\ m \notin Disturbing(g)
BY DEF Loud, Disturbing, AddsFree, RemovesFree, Opens, Closes

SameFlags ==
    /\ game' \in Seq(Battles) /\ DOMAIN game' = DOMAIN game /\ Len(game') = Len(game)
    /\ \A g \in DOMAIN game : game'[g].over = game[g].over /\ game'[g].inFreeSlots = game[g].inFreeSlots

LEMMA GamesSame ==
  ASSUME TypeInv, UNCHANGED game
  PROVE  SameFlags
BY DEF SameFlags, TypeInv, GamesType

LEMMA NothingPosted ==
  ASSUME TypeInv, SameFlags, UNCHANGED toQueue
  PROVE  \E t : WorldPosts(t)
<1>1. << >> \in Seq(QueueMessages) /\ \A K : ~Has(<< >>, K)
  BY NoMessage
<1>2. toQueue' = toQueue \o << >>
  BY ConcatEmptySeq DEF TypeInv, MessagesType
<1>3. WorldPosts(<< >>)
  BY <1>1, <1>2 DEF WorldPosts, SameFlags, BattleStep
<1> QED BY <1>3

LEMMA OnePosted ==
  ASSUME TypeInv, SameFlags, NEW m \in QueueMessages,
         m.type \notin {"add free", "remove free", "status"}, toQueue' = Append(toQueue, m)
  PROVE  \E t : WorldPosts(t)
<1>1. <<m>> \in Seq(QueueMessages) /\ \A g : ~Has(<<m>>, Loud(g))
  BY OneMessage, QuietMessage
<1>2. toQueue' = toQueue \o <<m>>
  BY AppendIs DEF TypeInv, MessagesType
<1>3. WorldPosts(<<m>>)
  BY <1>1, <1>2 DEF WorldPosts, SameFlags, BattleStep
<1> QED BY <1>3

LEMMA BattleHas ==
  ASSUME GamesType, NEW g, Exists(g)
  PROVE  game[g] \in Battles /\ g \in Nat
BY LenProperties DEF GamesType, Exists

LEMMA GamesExist ==
  ASSUME TypeInv, CreateInv
  PROVE  /\ \A g : Exists(g) => g \in Games /\ g <= Len(game) /\ g <= games
         /\ \A g \in Games : Exists(g) <=> g <= Len(game)
         /\ Len(game) \in Nat /\ games \in Nat /\ games <= MaxGames
<1>1. DOMAIN game = 1..Len(game) /\ Len(game) \in Nat
  BY LenProperties DEF TypeInv, GamesType
<1>2. games \in Nat /\ games <= MaxGames /\ Len(game) <= games
  BY DEF TypeInv, QueueType, CreateInv
<1>3. Games = 1..MaxGames /\ MaxGames \in Nat
  BY TeamFacts
<1> QED BY <1>1, <1>2, <1>3 DEF Exists

(* RemovePlayerAtLeave.                                                    *)
LEMMA AfterLeaveType ==
  ASSUME GamesType, NEW g, Exists(g), NEW p
  PROVE  /\ AfterLeave(g, p) \in Battles
         /\ AfterLeave(g, p).over = game[g].over
         /\ AfterLeave(g, p).inFreeSlots = IF p \in game[g].inside THEN ~game[g].over ELSE game[g].inFreeSlots
         /\ AfterLeave(g, p).inside = game[g].inside \ {p}
         /\ p \notin game[g].inside => AfterLeave(g, p) = game[g]
<1>1. PICK bg \in Battles : bg = game[g]
  BY BattleHas
<1>2. CASE p \notin bg.inside
  <2>1. AfterLeave(g, p) = bg /\ bg.inside \ {p} = bg.inside
    BY <1>1, <1>2 DEF AfterLeave
  <2> QED BY <1>1, <1>2, <2>1
<1>3. CASE p \in bg.inside
  <2>1. PICK t \in Teams : t = TeamOf(p)
    BY TeamFacts
  <2>2. PICK a : a = [bg EXCEPT !.inside = @ \ {p}, !.invited[t] = Dec(@), !.inFreeSlots = ~bg.over]
    OBVIOUS
  <2>3. AfterLeave(g, p) = a
    BY <1>1, <1>3, <2>1, <2>2 DEF AfterLeave
  <2>4. bg.invited \in [Teams -> Nat] /\ bg.invited[t] \in Nat
    BY <1>1 DEF Battles, Counts
  <2>5. PICK n \in Nat : n = Dec(bg.invited[t])
    BY <2>4, DecNat
  <2>6. [bg.invited EXCEPT ![t] = n] \in [Teams -> Nat]
    BY <2>4
  <2>7. a \in Battles /\ a.over = bg.over /\ a.inFreeSlots = ~bg.over /\ a.inside = bg.inside \ {p}
    BY <1>1, <2>2, <2>5, <2>6 DEF Battles, Counts
  <2> QED BY <1>1, <1>3, <2>3, <2>7
<1> QED BY <1>1, <1>2, <1>3

LEMMA LeavePosts ==
  ASSUME TypeInv, ListInv, CreateInv, NEW g, Exists(g), NEW p, RemovePlayerAtLeave(g, p)
  PROVE  /\ WorldPosts(PostsAtLeave(g, p))
         /\ \A h \in DOMAIN game : game'[h].over = game[h].over
         /\ \A h \in DOMAIN game : game'[h].inside = IF h = g THEN game[h].inside \ {p} ELSE game[h].inside
<1>1. GamesType /\ game \in Seq(Battles) /\ g \in DOMAIN game /\ g \in Games
  BY GamesExist DEF TypeInv, GamesType, Exists
<1>2. game' = [game EXCEPT ![g] = AfterLeave(g, p)] /\ toQueue' = toQueue \o PostsAtLeave(g, p)
  BY DEF RemovePlayerAtLeave
<1>3. PICK x \in Battles : x = AfterLeave(g, p)
  BY <1>1, AfterLeaveType
<1>4. /\ game' \in Seq(Battles) /\ DOMAIN game' = DOMAIN game /\ Len(game') = Len(game)
      /\ game'[g] = x /\ \A h \in DOMAIN game : h # g => game'[h] = game[h]
  BY <1>1, <1>2, <1>3, OneChanged
<1>5. /\ x.over = game[g].over
      /\ x.inFreeSlots = IF p \in game[g].inside THEN ~game[g].over ELSE game[g].inFreeSlots
      /\ x.inside = game[g].inside \ {p}
  BY <1>1, <1>3, AfterLeaveType
<1>6. GameOK(freeSlots, toQueue, game[g], g)
  BY <1>1 DEF ListInv
<1>7. /\ PostsAtLeave(g, p) \in Seq(QueueMessages)
      /\ \A h : h # g => ~Has(PostsAtLeave(g, p), Loud(h))
      /\ BattleStep(PostsAtLeave(g, p), game[g], x, g)
  <2>1. CASE p \notin game[g].inside \/ game[g].over
    <3>1. PostsAtLeave(g, p) = << >>
      BY <2>1 DEF PostsAtLeave
    <3>2. x.inFreeSlots = game[g].inFreeSlots
      BY <1>1, <1>5, <1>6, <2>1, BattleHas DEF GameOK, Battles
    <3> QED BY <1>5, <3>1, <3>2, NoMessage DEF BattleStep
  <2>2. CASE p \in game[g].inside /\ ~game[g].over
    <3>1. PICK s : s = [type |-> "schedule"]
      OBVIOUS
    <3>2. s \in QueueMessages /\ \A h : s \notin Loud(h) /\ s \notin AddsFree(h) /\ s \notin RemovesFree(h)
      <4>1. s.type \notin {"add free", "remove free", "status"}
        BY <3>1
      <4> QED BY <3>1, <4>1, QueueMessageIs, QuietMessage
    <3>3. CASE game[g].inFreeSlots
      <4>1. PICK m : m = [type |-> "decrease", game |-> g, team |-> TeamOf(p)]
        OBVIOUS
      <4>2. m \in QueueMessages /\ \A h : m \notin Loud(h)
        <5>1. m.type \notin {"add free", "remove free", "status"}
          BY <4>1
        <5> QED BY <1>1, <4>1, <5>1, QueueMessageIs, QuietMessage, TeamFacts
      <4>3. PostsAtLeave(g, p) = <<m, s>>
        BY <2>2, <3>1, <3>3, <4>1 DEF PostsAtLeave
      <4>4. <<m, s>> \in Seq(QueueMessages) /\ \A h : ~Has(<<m, s>>, Loud(h))
        BY <3>2, <4>2, TwoMessages
      <4>5. x.inFreeSlots = game[g].inFreeSlots
        BY <1>5, <2>2, <3>3
      <4> QED BY <1>5, <4>3, <4>4, <4>5 DEF BattleStep
    <3>4. CASE ~game[g].inFreeSlots
      <4>1. PICK i : i = [id |-> g, open |-> TRUE, invited |-> x.invited]
        OBVIOUS
      <4>2. i \in Infos /\ i.id = g
        BY <1>1, <1>3, <4>1 DEF Infos, Battles
      <4>3. PICK m : m = [type |-> "add free", info |-> i]
        OBVIOUS
      <4>4. m \in QueueMessages /\ m \in AddsFree(g) /\ \A h : m \notin RemovesFree(h)
        BY <4>2, <4>3, QueueMessageIs DEF AddsFree, RemovesFree
      <4>5. \A h : h # g => m \notin Loud(h)
        BY <4>2, <4>3 DEF Loud, Disturbing, AddsFree, RemovesFree, Opens, Closes
      <4>6. PostsAtLeave(g, p) = <<m, s>>
        BY <1>3, <2>2, <3>1, <3>4, <4>1, <4>3 DEF PostsAtLeave, AddToBgFreeSlotQueue
      <4>7. /\ <<m, s>> \in Seq(QueueMessages) /\ \A h : h # g => ~Has(<<m, s>>, Loud(h))
            /\ Has(<<m, s>>, AddsFree(g)) /\ Once(<<m, s>>, AddsFree(g)) /\ ~Has(<<m, s>>, RemovesFree(g))
        BY <3>2, <4>4, <4>5, TwoMessages
      <4>8. x.inFreeSlots
        BY <1>5, <2>2
      <4> QED BY <1>5, <2>2, <3>4, <4>6, <4>7, <4>8 DEF BattleStep
    <3> QED BY <3>3, <3>4
  <2> QED BY <2>1, <2>2
<1>8. WorldPosts(PostsAtLeave(g, p))
  <2>1. ASSUME NEW h \in DOMAIN game
        PROVE  BattleStep(PostsAtLeave(g, p), game[h], game'[h], h)
    <3>1. CASE h = g
      BY <1>4, <1>7, <3>1
    <3>2. CASE h # g
      BY <1>4, <1>7, <2>1, <3>2 DEF BattleStep
    <3> QED BY <3>1, <3>2
  <2>2. \A h \in Games : ~Exists(h) => ~Has(PostsAtLeave(g, p), Loud(h))
    BY <1>7
  <2> QED BY <1>2, <1>4, <1>7, <2>1, <2>2 DEF WorldPosts
<1> QED BY <1>4, <1>5, <1>8

WorldEffect ==
    /\ PlayersType' /\ SentInv' /\ (\E t : WorldPosts(t))
    /\ UNCHANGED queueVars

EntryInv == TypeInv /\ CreateInv /\ SentInv /\ ListInv

LEMMA SentKept ==
  ASSUME TypeInv, SentInv, DOMAIN game' = DOMAIN game,
         \A p \in Players : bgId'[p] \in {bgId[p], NoGame}
  PROVE  SentInv'
BY DEF SentInv, Exists

LEMMA PartyIs ==
  \A ps \in Parties : ps \in SUBSET Players /\ ps # {} /\ (ps \subseteq Ali \/ ps \subseteq Horde)
<1>1. \A ps \in Parties : ps \in SUBSET Ali \/ ps \in SUBSET Horde
  BY DEF Parties
<1>2. \A ps \in Parties : ps # {}
  BY DEF Parties
<1> QED BY <1>1, <1>2 DEF Players

LEMMA JoinEffect ==
  ASSUME EntryInv, NEW ps \in Parties, HandleBattlemasterJoin(ps)
  PROVE  WorldEffect
<1>1. /\ toQueue' = Append(toQueue, [type |-> "join", players |-> ps])
      /\ UNCHANGED <<playerVars, game, queueVars>>
  BY DEF HandleBattlemasterJoin
<1>2. ps \in SUBSET Players
  BY PartyIs
<1>3. PICK m \in QueueMessages : m = [type |-> "join", players |-> ps]
  BY <1>2, QueueMessageIs
<1>4. m.type \notin {"add free", "remove free", "status"}
  BY <1>3
<1>5. \E t : WorldPosts(t)
  BY <1>1, <1>3, <1>4, GamesSame, OnePosted DEF EntryInv
<1> QED BY <1>1, <1>5 DEF WorldEffect, EntryInv, TypeInv, PlayersType, SentInv, Exists, playerVars

LEMMA PortEffect ==
  ASSUME EntryInv, NEW p \in Players, HandleBattlefieldPort(p)
  PROVE  WorldEffect
<1>1. PICK b \in BOOLEAN : toQueue' = Append(toQueue, [type |-> "port", player |-> p, accept |-> b])
  BY DEF HandleBattlefieldPort
<1>2. UNCHANGED <<playerVars, game, queueVars>>
  BY DEF HandleBattlefieldPort
<1>3. PICK m \in QueueMessages : m = [type |-> "port", player |-> p, accept |-> b]
  BY QueueMessageIs
<1>4. m.type \notin {"add free", "remove free", "status"}
  BY <1>3
<1>5. \E t : WorldPosts(t)
  BY <1>1, <1>2, <1>3, <1>4, GamesSame, OnePosted DEF EntryInv
<1> QED BY <1>2, <1>5 DEF WorldEffect, EntryInv, TypeInv, PlayersType, SentInv, Exists, playerVars

LEMMA LeaveEffect ==
  ASSUME EntryInv, NEW p \in Players, LeaveBattleground(p)
  PROVE  WorldEffect
<1>1. /\ bgId[p] # NoGame /\ RemovePlayerAtLeave(bgId[p], p)
      /\ slot' = [slot EXCEPT ![p] = IF p \in game[bgId[p]].inside THEN NotQueued ELSE @]
      /\ bgId' = [bgId EXCEPT ![p] = NoGame] /\ far' = far \cup {p}
      /\ UNCHANGED <<online, events, queueVars>>
  BY DEF LeaveBattleground
<1>2. Exists(bgId[p])
  BY <1>1 DEF EntryInv, SentInv
<1>3. \E t : WorldPosts(t)
  BY <1>1, <1>2, LeavePosts DEF EntryInv
<1>4. DOMAIN game' = DOMAIN game
  BY <1>3 DEF WorldPosts
<1>5. PlayersType' /\ \A q \in Players : bgId'[q] \in {bgId[q], NoGame}
  BY <1>1 DEF EntryInv, TypeInv, PlayersType
<1>6. SentInv'
  BY <1>4, <1>5, SentKept DEF EntryInv
<1> QED BY <1>1, <1>3, <1>5, <1>6 DEF WorldEffect

LEMMA TeleportEffect ==
  ASSUME EntryInv, NEW p \in Players, TeleportTo(p)
  PROVE  WorldEffect
<1>1. far' = far \cup {p} /\ UNCHANGED <<online, slot, bgId, events, game, queueVars, toQueue>>
  BY DEF TeleportTo
<1>2. \E t : WorldPosts(t)
  BY <1>1, GamesSame, NothingPosted DEF EntryInv
<1> QED BY <1>1, <1>2 DEF WorldEffect, EntryInv, TypeInv, PlayersType, SentInv, Exists

LEMMA ChangedTo ==
  ASSUME GamesType, NEW g, Exists(g), NEW x \in Battles, game' = [game EXCEPT ![g] = x]
  PROVE  /\ game' \in Seq(Battles) /\ DOMAIN game' = DOMAIN game /\ Len(game') = Len(game)
         /\ game'[g] = x /\ \A h \in DOMAIN game : h # g => game'[h] = game[h]
BY OneChanged DEF GamesType, Exists

(* A player is put on the list of a battleground.                          *)
LEMMA PutInside ==
  ASSUME TypeInv, NEW g, Exists(g), NEW p \in Players, game' = [game EXCEPT ![g].inside = @ \cup {p}]
  PROVE  /\ SameFlags
         /\ \A h \in DOMAIN game : game'[h].inside = IF h = g THEN game[h].inside \cup {p} ELSE game[h].inside
<1>1. game \in Seq(Battles) /\ g \in DOMAIN game
  BY DEF TypeInv, GamesType, Exists
<1>2. PICK bg \in Battles : bg = game[g]
  BY BattleHas DEF TypeInv
<1>3. PICK x : x = [bg EXCEPT !.inside = @ \cup {p}]
  OBVIOUS
<1>4. x \in Battles /\ x.over = bg.over /\ x.inFreeSlots = bg.inFreeSlots /\ x.inside = bg.inside \cup {p}
  BY <1>3 DEF Battles
<1>5. game' = [game EXCEPT ![g] = x]
  BY <1>2, <1>3
<1>6. /\ game' \in Seq(Battles) /\ DOMAIN game' = DOMAIN game /\ Len(game') = Len(game)
      /\ game'[g] = x /\ \A h \in DOMAIN game : h # g => game'[h] = game[h]
  BY <1>4, <1>5, ChangedTo DEF TypeInv
<1> QED BY <1>2, <1>4, <1>6 DEF SameFlags

LEMMA WorldportEffect ==
  ASSUME EntryInv, NEW p \in Players, HandleMoveWorldportAck(p)
  PROVE  WorldEffect
<1>1. /\ far' = far \ {p}
      /\ UNCHANGED <<online, slot, bgId, events, queueVars, toQueue>>
      /\ game' = IF bgId[p] # NoGame /\ slot[p] = bgId[p]
                 THEN [game EXCEPT ![bgId[p]].inside = @ \cup {p}] ELSE game
  BY DEF HandleMoveWorldportAck
<1>2. SameFlags
  <2>1. CASE bgId[p] # NoGame /\ slot[p] = bgId[p]
    <3>1. Exists(bgId[p])
      BY <2>1 DEF EntryInv, SentInv
    <3> QED BY <1>1, <2>1, <3>1, PutInside DEF EntryInv
  <2>2. CASE ~(bgId[p] # NoGame /\ slot[p] = bgId[p])
    BY <1>1, <2>2, GamesSame DEF EntryInv
  <2> QED BY <2>1, <2>2
<1>3. \E t : WorldPosts(t)
  BY <1>1, <1>2, NothingPosted DEF EntryInv
<1> QED BY <1>1, <1>2, <1>3 DEF WorldEffect, EntryInv, TypeInv, PlayersType, SentInv, Exists, SameFlags

LEMMA LogoutEffect ==
  ASSUME EntryInv, NEW p \in Players, LogoutPlayer(p)
  PROVE  WorldEffect
<1>1. /\ online' = online \ {p} /\ far' = far \ {p}
      /\ game' = IF bgId[p] # NoGame THEN [game EXCEPT ![bgId[p]].inside = @ \cup {p}] ELSE game
      /\ slot' = [slot EXCEPT ![p] = NotQueued]
      /\ events' = [events EXCEPT ![p] = {}]
      /\ toQueue' = IF slot[p] = NotQueued THEN toQueue
                    ELSE Append(toQueue, [type |-> "remove", player |-> p])
      /\ UNCHANGED <<bgId, queueVars>>
  BY DEF LogoutPlayer
<1>2. SameFlags
  <2>1. CASE bgId[p] # NoGame
    <3>1. Exists(bgId[p])
      BY <2>1 DEF EntryInv, SentInv
    <3> QED BY <1>1, <2>1, <3>1, PutInside DEF EntryInv
  <2>2. CASE bgId[p] = NoGame
    BY <1>1, <2>2, GamesSame DEF EntryInv
  <2> QED BY <2>1, <2>2
<1>3. \E t : WorldPosts(t)
  <2>1. CASE slot[p] = NotQueued
    BY <1>1, <1>2, <2>1, NothingPosted DEF EntryInv
  <2>2. CASE slot[p] # NotQueued
    <3>1. PICK m \in QueueMessages : m = [type |-> "remove", player |-> p]
      BY QueueMessageIs
    <3>2. m.type \notin {"add free", "remove free", "status"}
      BY <3>1
    <3> QED BY <1>1, <1>2, <2>2, <3>1, <3>2, OnePosted DEF EntryInv
  <2> QED BY <2>1, <2>2
<1>4. PlayersType'
  BY <1>1 DEF EntryInv, TypeInv, PlayersType
<1> QED BY <1>1, <1>2, <1>3, <1>4 DEF WorldEffect, EntryInv, SentInv, Exists, SameFlags

LEMMA LoadEffect ==
  ASSUME EntryInv, NEW p \in Players, LoadFromDB(p)
  PROVE  WorldEffect
<1> DEFINE g == bgId[p]
           back == g # NoGame /\ p \in game[g].inside /\ ~game[g].over
<1>1. /\ online' = online \cup {p}
      /\ slot' = [slot EXCEPT ![p] = IF back THEN g ELSE NotQueued]
      /\ bgId' = [bgId EXCEPT ![p] = IF back THEN g ELSE NoGame]
      /\ IF g = NoGame \/ back THEN UNCHANGED <<game, toQueue>> ELSE RemovePlayerAtLeave(g, p)
      /\ UNCHANGED <<far, events, queueVars>>
  BY DEF LoadFromDB
<1>2. g # NoGame => Exists(g)
  BY DEF EntryInv, SentInv
<1> HIDE DEF back
<1>3. \E t : WorldPosts(t)
  <2>1. CASE g = NoGame \/ back
    BY <1>1, <2>1, GamesSame, NothingPosted DEF EntryInv
  <2>2. CASE ~(g = NoGame \/ back)
    BY <1>1, <1>2, <2>2, LeavePosts DEF EntryInv
  <2> QED BY <2>1, <2>2
<1>4. DOMAIN game' = DOMAIN game
  BY <1>3 DEF WorldPosts
<1>5. PlayersType' /\ \A q \in Players : bgId'[q] \in {bgId[q], NoGame}
  BY <1>1 DEF EntryInv, TypeInv, PlayersType
<1>6. SentInv'
  BY <1>4, <1>5, SentKept DEF EntryInv
<1> QED BY <1>1, <1>3, <1>5, <1>6 DEF WorldEffect

LEMMA EventEffect ==
  ASSUME EntryInv, NEW p \in Players, RemoveEvent(p)
  PROVE  /\ WorldEffect
         /\ \E e \in events[p] : toWorld' = Append(toWorld, [type |-> "expire", player |-> p, event |-> e])
<1>1. PICK e \in events[p] :
         /\ events' = [events EXCEPT ![p] = @ \ {e}]
         /\ toWorld' = Append(toWorld, [type |-> "expire", player |-> p, event |-> e])
  BY DEF RemoveEvent
<1>2. UNCHANGED <<online, slot, bgId, far, game, queueVars, toQueue>>
  BY DEF RemoveEvent
<1>3. \E t : WorldPosts(t)
  BY <1>2, GamesSame, NothingPosted DEF EntryInv
<1>4. PlayersType'
  BY <1>1, <1>2 DEF EntryInv, TypeInv, PlayersType
<1> QED BY <1>1, <1>2, <1>3, <1>4 DEF WorldEffect, EntryInv, SentInv, Exists

(* A battleground that ends.                                               *)
LEMMA EndPosts ==
  ASSUME TypeInv, CreateInv, NEW g, Exists(g), NEW x \in Battles, x.over, ~x.inFreeSlots,
         game' = [game EXCEPT ![g] = x],
         toQueue' = toQueue \o RemovedFromBgFreeSlotQueue(g) \o SetStatus(g, FALSE)
  PROVE  /\ \E t : WorldPosts(t)
         /\ DOMAIN game' = DOMAIN game
<1>1. GamesType /\ game \in Seq(Battles) /\ g \in DOMAIN game /\ g \in Games
  BY GamesExist DEF TypeInv, GamesType, Exists
<1>2. /\ game' \in Seq(Battles) /\ DOMAIN game' = DOMAIN game /\ Len(game') = Len(game)
      /\ game'[g] = x /\ \A h \in DOMAIN game : h # g => game'[h] = game[h]
  BY <1>1, OneChanged
<1>3. PICK m : m = [type |-> "status", game |-> g, open |-> FALSE]
  OBVIOUS
<1>4. /\ m \in QueueMessages /\ m \in Closes(g) /\ \A h : m \notin Disturbing(h)
      /\ \A h : h # g => m \notin Loud(h)
      /\ \A h : m \notin RemovesFree(h) /\ m \notin AddsFree(h)
  BY <1>1, <1>3, QueueMessageIs DEF Loud, Disturbing, AddsFree, RemovesFree, Opens, Closes
<1>5. PICK b : b = SetStatus(g, FALSE)
  OBVIOUS
<1>6. b = <<m>>
  BY <1>3, <1>5 DEF SetStatus
<1>7. /\ b \in Seq(QueueMessages) /\ \A h : h # g => ~Has(b, Loud(h))
      /\ ~Has(b, RemovesFree(g)) /\ ~Has(b, AddsFree(g)) /\ EndsWith(b, Closes(g), Disturbing(g))
  BY <1>4, <1>6, OneMessage
<1>8. PICK a : a = RemovedFromBgFreeSlotQueue(g)
  OBVIOUS
<1>9. /\ a \in Seq(QueueMessages) /\ \A h : h # g => ~Has(a, Loud(h))
      /\ Has(a, RemovesFree(g)) <=> game[g].inFreeSlots
      /\ Once(a, RemovesFree(g)) /\ ~Has(a, AddsFree(g))
  <2>1. CASE game[g].inFreeSlots
    <3>1. PICK r : r = [type |-> "remove free", game |-> g]
      OBVIOUS
    <3>2. /\ r \in QueueMessages /\ r \in RemovesFree(g) /\ r \notin AddsFree(g)
          /\ \A h : h # g => r \notin Loud(h)
      BY <1>1, <3>1, QueueMessageIs DEF Loud, Disturbing, AddsFree, RemovesFree, Opens, Closes
    <3>3. a = <<r>>
      BY <1>8, <2>1, <3>1 DEF RemovedFromBgFreeSlotQueue
    <3> QED BY <2>1, <3>2, <3>3, OneMessage
  <2>2. CASE ~game[g].inFreeSlots
    <3>1. a = << >>
      BY <1>8, <2>2 DEF RemovedFromBgFreeSlotQueue
    <3> QED BY <2>2, <3>1, NoMessage
  <2> QED BY <2>1, <2>2
<1>10. PICK t : t = a \o b
  OBVIOUS
<1>11. /\ t \in Seq(QueueMessages) /\ \A h : h # g => ~Has(t, Loud(h))
       /\ Has(t, RemovesFree(g)) <=> game[g].inFreeSlots
       /\ Once(t, RemovesFree(g)) /\ ~Has(t, AddsFree(g)) /\ EndsWith(t, Closes(g), Disturbing(g))
  BY <1>7, <1>9, <1>10, Posting
<1>12. toQueue' = toQueue \o t
  <2>1. toQueue \in Seq(QueueMessages)
    BY DEF TypeInv, MessagesType
  <2>2. (toQueue \o a) \o b = toQueue \o (a \o b)
    BY <1>7, <1>9, <2>1, ConcatAssociative
  <2>3. toQueue' = (toQueue \o a) \o b
    BY <1>5, <1>8
  <2> QED BY <1>10, <2>2, <2>3
<1>13. ASSUME NEW h \in DOMAIN game
       PROVE  BattleStep(t, game[h], game'[h], h)
  <2>1. CASE h = g
    BY <1>2, <1>11, <2>1 DEF BattleStep
  <2>2. CASE h # g
    BY <1>2, <1>11, <2>2 DEF BattleStep
  <2> QED BY <2>1, <2>2
<1>14. \A h \in Games : ~Exists(h) => ~Has(t, Loud(h))
  BY <1>11
<1>15. WorldPosts(t)
  BY <1>2, <1>11, <1>12, <1>13, <1>14 DEF WorldPosts
<1> QED BY <1>2, <1>15

LEMMA EndEffect ==
  ASSUME EntryInv, NEW g, EndBattleGround(g)
  PROVE  WorldEffect
<1>1. /\ Exists(g) /\ UNCHANGED <<playerVars, queueVars>>
      /\ toQueue' = toQueue \o RemovedFromBgFreeSlotQueue(g) \o SetStatus(g, FALSE)
      /\ game' = [game EXCEPT ![g].over = TRUE, ![g].inFreeSlots = FALSE]
  BY DEF EndBattleGround
<1>2. PICK bg \in Battles : bg = game[g]
  BY <1>1, BattleHas DEF EntryInv, TypeInv
<1>3. PICK x : x = [bg EXCEPT !.over = TRUE, !.inFreeSlots = FALSE]
  OBVIOUS
<1>4. x \in Battles /\ x.over /\ ~x.inFreeSlots
  BY <1>3 DEF Battles
<1>5. game' = [game EXCEPT ![g] = x]
  BY <1>1, <1>2, <1>3 DEF EntryInv, TypeInv, GamesType, Exists
<1>6. (\E t : WorldPosts(t)) /\ DOMAIN game' = DOMAIN game
  BY <1>1, <1>4, <1>5, EndPosts DEF EntryInv
<1> QED BY <1>1, <1>6 DEF WorldEffect, EntryInv, TypeInv, PlayersType, SentInv, Exists, playerVars

LEMMA EndNowEffect ==
  ASSUME EntryInv, NEW g, EndNow(g)
  PROVE  WorldEffect
<1>1. /\ Exists(g) /\ UNCHANGED <<playerVars, queueVars>>
      /\ toQueue' = toQueue \o RemovedFromBgFreeSlotQueue(g) \o SetStatus(g, FALSE)
      /\ game' = [game EXCEPT ![g].over = TRUE, ![g].inFreeSlots = FALSE, ![g].doomed = TRUE]
  BY DEF EndNow
<1>2. PICK bg \in Battles : bg = game[g]
  BY <1>1, BattleHas DEF EntryInv, TypeInv
<1>3. PICK x : x = [bg EXCEPT !.over = TRUE, !.inFreeSlots = FALSE, !.doomed = TRUE]
  OBVIOUS
<1>4. x \in Battles /\ x.over /\ ~x.inFreeSlots
  BY <1>3 DEF Battles
<1>5. game' = [game EXCEPT ![g] = x]
  BY <1>1, <1>2, <1>3 DEF EntryInv, TypeInv, GamesType, Exists
<1>6. (\E t : WorldPosts(t)) /\ DOMAIN game' = DOMAIN game
  BY <1>1, <1>4, <1>5, EndPosts DEF EntryInv
<1> QED BY <1>1, <1>6 DEF WorldEffect, EntryInv, TypeInv, PlayersType, SentInv, Exists, playerVars

LEMMA RemoveAllEffect ==
  ASSUME EntryInv, NEW g, RemoveAll(g)
  PROVE  /\ WorldEffect /\ Exists(g) /\ game[g].over /\ SameFlags
         /\ game'[g].inside = {} /\ \A h \in DOMAIN game : h # g => game'[h] = game[h]
<1> DEFINE ps == game[g].inside
           here == {p \in ps : InWorld(p)}
           Left(t) == Cardinality({p \in ps : TeamOf(p) = t})
<1>1. /\ Exists(g) /\ game[g].over /\ UNCHANGED <<online, events, queueVars, toQueue>>
      /\ game' = [game EXCEPT ![g].inside = {},
                       ![g].invited = [t \in Teams |-> (@[t] + Wrap - Left(t)) % Wrap]]
      /\ slot' = [p \in Players |-> IF p \in here THEN NotQueued ELSE slot[p]]
      /\ bgId' = [p \in Players |-> IF p \in here THEN NoGame ELSE bgId[p]]
      /\ far' = far \cup here
  BY DEF RemoveAll
<1>2. PICK bg \in Battles : bg = game[g]
  BY <1>1, BattleHas DEF EntryInv, TypeInv
<1>3. bg.invited \in [Teams -> Nat] /\ ps \subseteq Players
  BY <1>2 DEF Battles, Counts
<1>4. \A t : Left(t) \in Nat
  <2> TAKE t
  <2>1. {p \in ps : TeamOf(p) = t} \subseteq Players
    BY <1>3
  <2>2. IsFiniteSet(Players)
    BY FS_Union, BgQueueAssumption DEF Players
  <2> QED BY <2>1, <2>2, FS_Subset, FS_CardinalityType
<1> HIDE DEF Left
<1>5. PICK c : c = [t \in Teams |-> (bg.invited[t] + Wrap - Left(t)) % Wrap]
  OBVIOUS
<1>6. c \in [Teams -> Nat]
  <2>1. Wrap \in Nat \ {0} /\ \A k \in Int : k % Wrap \in Nat
    BY TeamFacts
  <2>2. \A t \in Teams : bg.invited[t] + Wrap - Left(t) \in Int
    BY <1>3, <1>4, <2>1
  <2> QED BY <1>5, <2>1, <2>2
<1>7. PICK x : x = [bg EXCEPT !.inside = {}, !.invited = c]
  OBVIOUS
<1>8. x \in Battles /\ x.over = bg.over /\ x.inFreeSlots = bg.inFreeSlots /\ x.inside = {}
  BY <1>6, <1>7 DEF Battles, Counts
<1>9. game' = [game EXCEPT ![g] = x]
  BY <1>1, <1>2, <1>5, <1>7 DEF EntryInv, TypeInv, GamesType, Exists
<1>10. /\ game' \in Seq(Battles) /\ DOMAIN game' = DOMAIN game /\ Len(game') = Len(game)
       /\ game'[g] = x /\ \A h \in DOMAIN game : h # g => game'[h] = game[h]
  BY <1>1, <1>8, <1>9, ChangedTo DEF EntryInv, TypeInv
<1>11. SameFlags
  BY <1>2, <1>8, <1>10 DEF SameFlags
<1>12. \E t : WorldPosts(t)
  BY <1>1, <1>11, NothingPosted DEF EntryInv
<1>13. here \subseteq Players
  BY <1>3
<1> HIDE DEF here
<1>14. PlayersType' /\ \A q \in Players : bgId'[q] \in {bgId[q], NoGame}
  BY <1>1, <1>13 DEF EntryInv, TypeInv, PlayersType
<1>15. SentInv'
  BY <1>10, <1>14, SentKept DEF EntryInv
<1> QED BY <1>1, <1>8, <1>10, <1>11, <1>12, <1>14, <1>15 DEF WorldEffect

LEMMA OfflineEffect ==
  ASSUME EntryInv, NEW g, NEW p, RemoveOffline(g, p)
  PROVE  WorldEffect
<1>1. Exists(g) /\ RemovePlayerAtLeave(g, p) /\ UNCHANGED <<playerVars, queueVars>>
  BY DEF RemoveOffline
<1>2. \E t : WorldPosts(t)
  BY <1>1, LeavePosts DEF EntryInv
<1>3. DOMAIN game' = DOMAIN game
  BY <1>2 DEF WorldPosts
<1> QED BY <1>1, <1>2, <1>3 DEF WorldEffect, EntryInv, TypeInv, PlayersType, SentInv, Exists, playerVars

(* The messages to the world.                                              *)
LEMMA HeadIs ==
  ASSUME TypeInv, toWorld # << >>
  PROVE  /\ Head(toWorld) \in WorldMessages
         /\ \A g, h : Head(toWorld) \in Creates(g) \cup Enters(g) => g = Head(toWorld).game
BY Taking DEF TypeInv, MessagesType, Creates, Enters

LEMMA SentTo ==
  ASSUME TypeInv, CreateInv, toWorld # << >>, Head(toWorld).type = "enter"
  PROVE  Exists(Head(toWorld).game) /\ Head(toWorld).game \in Games
<1>1. PICK m \in WorldMessages : m = Head(toWorld)
  BY HeadIs
<1>2. PICK g \in Games : g = m.game
  BY <1>1, WorldMessageHas
<1>3. m \in Enters(g)
  BY <1>1, <1>2 DEF Enters
<1>4. toWorld \in Seq(WorldMessages)
  BY DEF TypeInv, MessagesType
<1>5. Has(toWorld, Enters(g))
  BY <1>1, <1>3, <1>4, Taking
<1>6. Before(toWorld, Creates(g), Enters(g)) => ~Has(toWorld, Creates(g))
  BY <1>1, <1>3, <1>4, Taking
<1>7. g <= games /\ ~(Len(game) < g /\ g <= games)
  BY <1>5, <1>6 DEF CreateInv
<1>8. Len(game) \in Nat /\ g \in Nat
  BY GamesExist, TeamFacts
<1>9. g <= Len(game)
  BY <1>7, <1>8
<1> QED BY <1>1, <1>2, <1>9, GamesExist

LEMMA JoinedEffect ==
  ASSUME EntryInv, NEW m \in WorldMessages, Joined(m), UNCHANGED queueVars
  PROVE  WorldEffect
<1>1. /\ slot' = [p \in Players |-> IF p \in m.players /\ InWorld(p) THEN NoGame ELSE slot[p]]
      /\ UNCHANGED <<online, bgId, far, events, game, toQueue>>
  BY DEF Joined
<1>2. \E t : WorldPosts(t)
  BY <1>1, GamesSame, NothingPosted DEF EntryInv
<1>3. PlayersType'
  BY <1>1 DEF EntryInv, TypeInv, PlayersType
<1> QED BY <1>1, <1>2, <1>3 DEF WorldEffect, EntryInv, SentInv, Exists

LEMMA InvitedEffect ==
  ASSUME EntryInv, NEW m \in WorldMessages, m.type = "invite", Invited(m), UNCHANGED queueVars
  PROVE  WorldEffect
<1>1. PICK p \in Players, e \in Invites : p = m.player /\ e = m.event
  BY WorldMessageHas
<1>2. /\ IF InWorld(p)
         THEN /\ slot' = [slot EXCEPT ![p] = IF @ = NotQueued THEN @ ELSE e.game]
              /\ events' = [events EXCEPT ![p] = @ \cup {e}]
         ELSE UNCHANGED <<slot, events>>
      /\ UNCHANGED <<online, bgId, far, game, toQueue>>
  BY <1>1 DEF Invited
<1>3. \E t : WorldPosts(t)
  BY <1>2, GamesSame, NothingPosted DEF EntryInv
<1>4. e.game \in Games
  BY DEF Invites
<1>5. slot' \in [Players -> Games \cup {NoGame, NotQueued}]
  <2>1. CASE InWorld(p)
    BY <1>2, <1>4, <2>1 DEF EntryInv, TypeInv, PlayersType
  <2>2. CASE ~InWorld(p)
    BY <1>2, <2>2 DEF EntryInv, TypeInv, PlayersType
  <2> QED BY <2>1, <2>2
<1>6. events' \in [Players -> SUBSET Invites]
  <2>1. CASE InWorld(p)
    BY <1>2, <2>1 DEF EntryInv, TypeInv, PlayersType
  <2>2. CASE ~InWorld(p)
    BY <1>2, <2>2 DEF EntryInv, TypeInv, PlayersType
  <2> QED BY <2>1, <2>2
<1>7. PlayersType'
  BY <1>2, <1>5, <1>6 DEF EntryInv, TypeInv, PlayersType
<1> QED BY <1>2, <1>3, <1>7 DEF WorldEffect, EntryInv, SentInv, Exists

LEMMA CountEffect ==
  ASSUME EntryInv, NEW m \in WorldMessages, m.type = "count", SetInvitedCount(m), UNCHANGED queueVars
  PROVE  WorldEffect /\ \A h \in DOMAIN game : game'[h].inside = game[h].inside
<1>1. PICK g \in Games, t \in Teams, n \in Nat : g = m.game /\ t = m.team /\ n = m.count
  BY WorldMessageHas
<1>2. /\ game' = IF Exists(g) THEN [game EXCEPT ![g].invited[t] = n] ELSE game
      /\ UNCHANGED <<playerVars, toQueue>>
  BY <1>1 DEF SetInvitedCount
<1>3. SameFlags /\ \A h \in DOMAIN game : game'[h].inside = game[h].inside
  <2>1. CASE Exists(g)
    <3>1. PICK bg \in Battles : bg = game[g]
      BY <2>1, BattleHas DEF EntryInv, TypeInv
    <3>2. bg.invited \in [Teams -> Nat]
      BY DEF Battles, Counts
    <3>3. PICK c : c = [bg.invited EXCEPT ![t] = n]
      OBVIOUS
    <3>4. c \in [Teams -> Nat]
      BY <3>2, <3>3
    <3>5. PICK x : x = [bg EXCEPT !.invited = c]
      OBVIOUS
    <3>6. x \in Battles /\ x.over = bg.over /\ x.inFreeSlots = bg.inFreeSlots /\ x.inside = bg.inside
      BY <3>4, <3>5 DEF Battles, Counts
    <3>7. game' = [game EXCEPT ![g] = x]
      BY <1>2, <2>1, <3>1, <3>3, <3>5
    <3>8. /\ game' \in Seq(Battles) /\ DOMAIN game' = DOMAIN game /\ Len(game') = Len(game)
          /\ game'[g] = x /\ \A h \in DOMAIN game : h # g => game'[h] = game[h]
      BY <2>1, <3>6, <3>7, ChangedTo DEF EntryInv, TypeInv
    <3> QED BY <3>1, <3>6, <3>8 DEF SameFlags
  <2>2. CASE ~Exists(g)
    BY <1>2, <2>2, GamesSame DEF EntryInv
  <2> QED BY <2>1, <2>2
<1>4. \E t0 : WorldPosts(t0)
  BY <1>2, <1>3, NothingPosted DEF EntryInv
<1> QED BY <1>2, <1>3, <1>4 DEF WorldEffect, EntryInv, TypeInv, PlayersType, SentInv, Exists, SameFlags, playerVars

LEMMA EnteredEffect ==
  ASSUME EntryInv, NEW m \in WorldMessages, m.type = "enter", Exists(m.game), Entered(m), UNCHANGED queueVars
  PROVE  WorldEffect
<1>1. PICK p \in Players, g \in Games : p = m.player /\ g = m.game
  BY WorldMessageHas
<1>2. PICK old : old = bgId[p]
  OBVIOUS
<1>3. CASE ~InWorld(p)
  <2>1. UNCHANGED <<playerVars, game, toQueue>>
    BY <1>1, <1>3 DEF Entered
  <2>2. \E t : WorldPosts(t)
    BY <2>1, GamesSame, NothingPosted DEF EntryInv
  <2> QED BY <2>1, <2>2 DEF WorldEffect, EntryInv, TypeInv, PlayersType, SentInv, Exists, playerVars
<1>4. CASE InWorld(p)
  <2>1. /\ IF old # NoGame THEN RemovePlayerAtLeave(old, p) ELSE UNCHANGED <<game, toQueue>>
        /\ slot' = IF old # NoGame /\ p \in game[old].inside
                   THEN [slot EXCEPT ![p] = NotQueued] ELSE slot
        /\ bgId' = [bgId EXCEPT ![p] = g] /\ far' = far \cup {p}
        /\ UNCHANGED <<online, events>>
    BY <1>1, <1>2, <1>4 DEF Entered
  <2>2. \E t : WorldPosts(t)
    <3>1. CASE old = NoGame
      BY <2>1, <3>1, GamesSame, NothingPosted DEF EntryInv
    <3>2. CASE old # NoGame
      <4>1. Exists(old)
        BY <1>2, <3>2 DEF EntryInv, SentInv
      <4> QED BY <2>1, <3>2, <4>1, LeavePosts DEF EntryInv
    <3> QED BY <3>1, <3>2
  <2>3. DOMAIN game' = DOMAIN game
    BY <2>2 DEF WorldPosts
  <2>4. g \in Games /\ Exists(g)
    BY <1>1, GamesExist DEF EntryInv
  <2>5. PlayersType'
    BY <2>1, <2>4 DEF EntryInv, TypeInv, PlayersType
  <2>6. \A q \in Players : bgId'[q] = IF q = p THEN g ELSE bgId[q]
    BY <2>1 DEF EntryInv, TypeInv, PlayersType
  <2>7. SentInv'
    BY <2>3, <2>4, <2>6 DEF EntryInv, SentInv, Exists
  <2> QED BY <2>2, <2>5, <2>7 DEF WorldEffect
<1> QED BY <1>3, <1>4

LEMMA LeftEffect ==
  ASSUME EntryInv, NEW m \in WorldMessages, m.type = "left", LeftQueue(m), UNCHANGED queueVars
  PROVE  WorldEffect
<1>1. PICK p \in Players : p = m.player
  BY WorldMessageHas
<1>2. /\ slot' = IF InWorld(p) THEN [slot EXCEPT ![p] = NotQueued] ELSE slot
      /\ UNCHANGED <<online, bgId, far, events, game, toQueue>>
  BY <1>1 DEF LeftQueue
<1>3. \E t : WorldPosts(t)
  BY <1>2, GamesSame, NothingPosted DEF EntryInv
<1>4. PlayersType'
  BY <1>2 DEF EntryInv, TypeInv, PlayersType
<1> QED BY <1>2, <1>3, <1>4 DEF WorldEffect, EntryInv, SentInv, Exists

LEMMA ExpiredEffect ==
  ASSUME EntryInv, NEW m \in WorldMessages, m.type = "expire", Expired(m), UNCHANGED queueVars
  PROVE  WorldEffect
<1>1. PICK p \in Players, e \in Invites : p = m.player /\ e = m.event
  BY WorldMessageHas
<1>2. /\ toQueue' = IF InWorld(p) /\ slot[p] # NotQueued
                    THEN Append(toQueue, [type |-> "expire", player |-> p, event |-> e,
                                          update |-> Exists(e.game) /\ ~game[e.game].over])
                    ELSE toQueue
      /\ UNCHANGED <<playerVars, game>>
  BY <1>1 DEF Expired
<1>3. \E t : WorldPosts(t)
  <2>1. CASE InWorld(p) /\ slot[p] # NotQueued
    <3>1. PICK b \in BOOLEAN : b = (Exists(e.game) /\ ~game[e.game].over)
      OBVIOUS
    <3>2. PICK q \in QueueMessages : q = [type |-> "expire", player |-> p, event |-> e, update |-> b]
      BY QueueMessageIs
    <3>3. q.type \notin {"add free", "remove free", "status"}
      BY <3>2
    <3>4. toQueue' = Append(toQueue, q)
      BY <1>2, <2>1, <3>1, <3>2
    <3> QED BY <1>2, <3>3, <3>4, GamesSame, OnePosted DEF EntryInv
  <2>2. CASE ~(InWorld(p) /\ slot[p] # NotQueued)
    BY <1>2, <2>2, GamesSame, NothingPosted DEF EntryInv
  <2> QED BY <2>1, <2>2
<1> QED BY <1>2, <1>3 DEF WorldEffect, EntryInv, TypeInv, PlayersType, SentInv, Exists, playerVars

LEMMA MessageEffect ==
  ASSUME EntryInv, WorldMessage, Head(toWorld).type # "create"
  PROVE  WorldEffect
<1>1. toWorld # << >> /\ UNCHANGED queueVars
  BY DEF WorldMessage
<1>2. PICK m \in WorldMessages : m = Head(toWorld)
  BY <1>1, HeadIs DEF EntryInv
<1>3. \/ m.type = "joined" /\ Joined(m)
      \/ m.type = "invite" /\ Invited(m)
      \/ m.type = "count" /\ SetInvitedCount(m)
      \/ m.type = "create" /\ CreateNewBattleGround(m)
      \/ m.type = "enter" /\ Entered(m)
      \/ m.type = "left" /\ LeftQueue(m)
      \/ m.type = "expire" /\ Expired(m)
  BY <1>2 DEF WorldMessage
<1>4. CASE m.type = "joined" /\ Joined(m)
  BY <1>1, <1>4, JoinedEffect
<1>5. CASE m.type = "invite" /\ Invited(m)
  BY <1>1, <1>5, InvitedEffect
<1>6. CASE m.type = "count" /\ SetInvitedCount(m)
  BY <1>1, <1>6, CountEffect
<1>7. CASE m.type = "enter" /\ Entered(m)
  <2>1. Exists(m.game)
    BY <1>1, <1>2, <1>7, SentTo DEF EntryInv
  <2> QED BY <1>1, <1>7, <2>1, EnteredEffect
<1>8. CASE m.type = "left" /\ LeftQueue(m)
  BY <1>1, <1>8, LeftEffect
<1>9. CASE m.type = "expire" /\ Expired(m)
  BY <1>1, <1>9, ExpiredEffect
<1> QED BY <1>2, <1>3, <1>4, <1>5, <1>6, <1>7, <1>8, <1>9

(* The battlegrounds come in the order of their ids.                       *)
LEMMA NextCreated ==
  ASSUME TypeInv, CreateInv, toWorld # << >>, Head(toWorld).type = "create"
  PROVE  /\ Head(toWorld) \in Creates(Len(game) + 1)
         /\ Len(game) + 1 \in Games /\ Len(game) + 1 <= games /\ Head(toWorld).game = Len(game) + 1
<1>1. PICK m \in WorldMessages : m = Head(toWorld)
  BY HeadIs
<1>2. PICK g \in Games : g = m.game
  BY <1>1, WorldMessageHas
<1>3. m \in Creates(g)
  BY <1>1, <1>2 DEF Creates
<1>4. toWorld \in Seq(WorldMessages)
  BY DEF TypeInv, MessagesType
<1>5. Has(toWorld, Creates(g))
  BY <1>1, <1>3, <1>4, Taking
<1>6. Len(game) < g /\ g <= games
  BY <1>5 DEF CreateInv
<1>7. Len(game) \in Nat /\ games \in Nat /\ games <= MaxGames /\ Games = 1..MaxGames /\ MaxGames \in Nat
  BY GamesExist, TeamFacts
<1>8. PICK h : h = Len(game) + 1
  OBVIOUS
<1>9. h \in Games /\ Len(game) < h /\ h <= g /\ h <= games /\ g \in Nat
  BY <1>6, <1>7, <1>8
<1>10. Has(toWorld, Creates(h))
  BY <1>9 DEF CreateInv
<1>11. h < g => Before(toWorld, Creates(h), Creates(g))
  BY <1>9 DEF CreateInv
<1>12. ~(h < g)
  <2>1. Before(toWorld, Creates(h), Creates(g)) => ~Has(toWorld, Creates(h))
    BY <1>1, <1>3, <1>4, Taking
  <2> QED BY <1>10, <1>11, <2>1
<1>13. h = g
  BY <1>9, <1>12
<1> QED BY <1>1, <1>2, <1>3, <1>8, <1>9, <1>13

LEMMA CreateEffect ==
  ASSUME EntryInv, WorldMessage, Head(toWorld).type = "create"
  PROVE  /\ PlayersType' /\ SentInv' /\ GamesType' /\ ListInv' /\ Len(game') = Len(game) + 1
         /\ toQueue' \in Seq(QueueMessages)
         /\ \A g \in DOMAIN game : g \in DOMAIN game' /\ game'[g] = game[g]
         /\ game'[Len(game) + 1].inside = {} /\ ~game'[Len(game) + 1].over
         /\ DOMAIN game' = 1..(Len(game) + 1) /\ UNCHANGED <<playerVars, queueVars>>
<1>1. toWorld # << >> /\ UNCHANGED queueVars
  BY DEF WorldMessage
<1>2. PICK m \in WorldMessages : m = Head(toWorld)
  BY <1>1, HeadIs DEF EntryInv
<1>3. CreateNewBattleGround(m)
  BY <1>2 DEF WorldMessage
<1>4. PICK g \in Games : g = Len(game) + 1 /\ g <= games /\ g = m.game
  BY <1>1, <1>2, NextCreated DEF EntryInv
<1>5. m.invited \in Counts
  BY <1>2, WorldMessageHas
<1>6. PICK bg : bg = [over |-> FALSE, doomed |-> FALSE, inFreeSlots |-> FALSE, inside |-> {}, invited |-> m.invited]
  OBVIOUS
<1>7. bg \in Battles /\ ~bg.over /\ ~bg.inFreeSlots /\ bg.inside = {}
  BY <1>5, <1>6 DEF Battles
<1>8. game' = Append(game, bg) /\ UNCHANGED playerVars /\ toQueue' = toQueue \o SetStatus(g, TRUE)
  BY <1>3, <1>4, <1>6 DEF CreateNewBattleGround
<1>9. game \in Seq(Battles) /\ DOMAIN game = 1..Len(game) /\ Len(game) \in Nat
  BY LenProperties DEF EntryInv, TypeInv, GamesType
<1>10. /\ game' \in Seq(Battles) /\ Len(game') = Len(game) + 1
       /\ \A i \in 1..Len(game) : game'[i] = game[i]
       /\ game'[Len(game) + 1] = bg
  BY <1>7, <1>8, <1>9, AppendProperties
<1>11. DOMAIN game' = 1..(Len(game) + 1)
  BY <1>10, LenProperties
<1>12. \A h \in DOMAIN game : h \in DOMAIN game' /\ game'[h] = game[h]
  BY <1>9, <1>10, <1>11
<1>13. PlayersType' /\ SentInv'
  BY <1>8, <1>12 DEF EntryInv, TypeInv, PlayersType, SentInv, Exists, playerVars
<1>14. PICK s : s = [type |-> "status", game |-> g, open |-> TRUE]
  OBVIOUS
<1>15. /\ s \in QueueMessages /\ s \notin AddsFree(g) /\ s \notin RemovesFree(g)
       /\ \A h : h # g => s \notin Loud(h)
  BY <1>14, QueueMessageIs DEF Loud, Disturbing, AddsFree, RemovesFree, Opens, Closes
<1>16. PICK t : t = <<s>>
  OBVIOUS
<1>17. /\ t \in Seq(QueueMessages) /\ ~Has(t, AddsFree(g)) /\ ~Has(t, RemovesFree(g))
       /\ \A h : h # g => ~Has(t, Loud(h))
  BY <1>15, <1>16, OneMessage
<1>18. toQueue' = toQueue \o t /\ toQueue \in Seq(QueueMessages)
  BY <1>8, <1>14, <1>16 DEF SetStatus, EntryInv, TypeInv, MessagesType
<1>19. toQueue' \in Seq(QueueMessages)
  BY <1>17, <1>18, Posting
<1>20. freeSlots' = freeSlots /\ games' = games
  BY <1>1 DEF queueVars
<1>21. ~Exists(g) /\ Exists(g)' /\ \A h : h # g => (Exists(h)' <=> Exists(h))
  BY <1>4, <1>9, <1>11 DEF Exists
<1>22. GameOK(freeSlots', toQueue', game'[g], g)
  <2>1. ~Has(toQueue, Loud(g)) /\ OneIn(freeSlots, g)
    BY <1>4, <1>21 DEF EntryInv, ListInv
  <2>2. GameOK(freeSlots, toQueue \o t, bg, g)
    BY <1>7, <1>17, <1>18, <2>1, GameBorn
  <2> QED BY <1>4, <1>10, <1>18, <1>20, <2>2
<1>23. ASSUME NEW h \in Games, h # g
       PROVE  IF Exists(h) THEN GameOK(freeSlots', toQueue', game'[h], h) ELSE ~Has(toQueue', Loud(h))
  <2>1. CASE Exists(h)
    <3>1. GameOK(freeSlots, toQueue, game[h], h)
      BY <2>1 DEF EntryInv, ListInv
    <3>2. GameOK(freeSlots, toQueue \o t, game[h], h)
      BY <1>17, <1>18, <1>23, <3>1, GamePosted
    <3> QED BY <1>12, <1>18, <1>20, <2>1, <3>2 DEF Exists
  <2>2. CASE ~Exists(h)
    <3>1. ~Has(toQueue, Loud(h))
      BY <2>2 DEF EntryInv, ListInv
    <3>2. ~Has(toQueue \o t, Loud(h))
      BY <1>17, <1>18, <1>23, <3>1, Posting
    <3> QED BY <1>18, <2>2, <3>2
  <2> QED BY <2>1, <2>2
<1>24. ListInv'
  <2> SUFFICES ASSUME NEW h \in Games
               PROVE  (IF Exists(h) THEN GameOK(freeSlots, toQueue, game[h], h)
                       ELSE /\ ~Has(toQueue, Loud(h))
                            /\ h <= games => OneIn(freeSlots, h)
                            /\ ~(h <= games) => NoneIn(freeSlots, h))'
    BY DEF ListInv
  <2>1. CASE h = g
    BY <1>21, <1>22, <2>1
  <2>2. CASE h # g
    BY <1>20, <1>21, <1>23, <2>2 DEF EntryInv, ListInv
  <2> QED BY <2>1, <2>2
<1> QED BY <1>1, <1>7, <1>8, <1>10, <1>11, <1>12, <1>13, <1>19, <1>24 DEF GamesType

(* GetFreeSlotInstance.                                                    *)
LEMMA FirstIs ==
  ASSUME QueueType, NEW g, Entries(g) # {}
  PROVE  /\ First(g) \in DOMAIN freeSlots /\ freeSlots[First(g)].id = g
         /\ \A i \in DOMAIN freeSlots : freeSlots[i].id = g => First(g) <= i
<1>1. DOMAIN freeSlots = 1..Len(freeSlots) /\ Len(freeSlots) \in Nat
  BY LenProperties DEF QueueType
<1>2. Entries(g) \subseteq Nat
  BY <1>1 DEF Entries
<1>3. PICK i \in Entries(g) : \A j \in Entries(g) : ~(j < i)
  BY <1>2, Least
<1>4. \A j \in Entries(g) : i <= j
  BY <1>2, <1>3
<1>5. First(g) \in Entries(g) /\ \A j \in Entries(g) : First(g) <= j
  BY <1>4 DEF First
<1> QED BY <1>5 DEF Entries

LEMMA NoEntries ==
  ASSUME QueueType, NEW g
  PROVE  Entries(g) = {} <=> NoneIn(freeSlots, g)
BY DEF Entries, NoneIn

SameEntries(f) ==
    /\ f \in Seq(Infos) /\ SameIds(freeSlots, f)
    /\ \A k \in DOMAIN freeSlots : f[k].open = freeSlots[k].open

\* DecreaseInvitedCount.
LEMMA DecreasedIs ==
  ASSUME QueueType, NEW g \in Games, NEW t \in Teams
  PROVE  /\ SameEntries(Decreased(g, t))
         /\ DecreasePosts(g, t) \in Seq(WorldMessages)
         /\ \A K : Has(DecreasePosts(g, t), K) => \E n \in Nat :
               [type |-> "count", game |-> g, team |-> t, count |-> n] \in K
<1>1. freeSlots \in Seq(Infos) /\ DOMAIN freeSlots = 1..Len(freeSlots) /\ Len(freeSlots) \in Nat
      /\ \A i \in DOMAIN freeSlots : freeSlots[i] \in Infos
  BY LenProperties DEF QueueType
<1>2. CASE Entries(g) = {}
  <2>1. Decreased(g, t) = freeSlots /\ DecreasePosts(g, t) = << >>
    BY <1>2 DEF Decreased, DecreasePosts
  <2> QED BY <1>1, <2>1, NoMessage DEF SameEntries, SameIds
<1>3. CASE Entries(g) # {}
  <2>1. PICK k \in DOMAIN freeSlots : k = First(g) /\ freeSlots[k].id = g
    BY <1>3, FirstIs
  <2>2. PICK e \in Infos : e = freeSlots[k]
    BY <1>1
  <2>3. e.invited \in [Teams -> Nat] /\ e.id \in Games
    BY DEF Infos, Counts
  <2>4. PICK n \in Nat : n = Dec(e.invited[t])
    BY <2>3, DecNat
  <2>5. PICK c : c = [e.invited EXCEPT ![t] = n]
    OBVIOUS
  <2>6. c \in [Teams -> Nat] /\ c[t] = n
    BY <2>3, <2>5
  <2>7. PICK x : x = [e EXCEPT !.invited = c]
    OBVIOUS
  <2>8. x \in Infos /\ x.id = e.id /\ x.open = e.open /\ x.invited = c
    BY <2>6, <2>7 DEF Infos, Counts
  <2>9. PICK f : f = Decreased(g, t)
    OBVIOUS
  <2>10. f = [freeSlots EXCEPT ![k] = x]
    BY <1>3, <2>1, <2>2, <2>4, <2>5, <2>7, <2>9 DEF Decreased
  <2>11. f \in Seq(Infos) /\ DOMAIN f = DOMAIN freeSlots /\ f[k] = x
         /\ \A j \in DOMAIN freeSlots : j # k => f[j] = freeSlots[j]
    BY <1>1, <2>8, <2>10, OneChanged
  <2>12. SameEntries(f)
    BY <2>2, <2>8, <2>11 DEF SameEntries, SameIds
  <2>13. PICK m \in WorldMessages : m = [type |-> "count", game |-> g, team |-> t, count |-> n]
    BY WorldMessageIs
  <2>14. DecreasePosts(g, t) = <<m>>
    BY <1>3, <2>1, <2>2, <2>6, <2>8, <2>9, <2>11, <2>13 DEF DecreasePosts, CountMessage
  <2> QED BY <2>9, <2>12, <2>13, <2>14, OneMessage
<1> QED BY <1>2, <1>3

(* An invited count of an entry.                                           *)
LEMMA PlayersFinite ==
  IsFiniteSet(Players) /\ \A S \in SUBSET Players : IsFiniteSet(S) /\ Cardinality(S) \in Nat
<1>1. IsFiniteSet(Players)
  BY FS_Union, BgQueueAssumption DEF Players
<1> QED BY <1>1, FS_Subset, FS_CardinalityType

LEMMA PlayersOfIs ==
  ASSUME QueueType, NEW is, is \subseteq DOMAIN queuedGroups
  PROVE  PlayersOf(is) \subseteq Players /\ IsFiniteSet(PlayersOf(is)) /\ Size(is) \in Nat
<1>1. \A i \in is : queuedGroups[i].players \subseteq Players
  BY DEF QueueType, Groups
<1>2. PlayersOf(is) \subseteq Players
  BY <1>1 DEF PlayersOf
<1> QED BY <1>2, PlayersFinite DEF Size

LEMMA WithInvitedIs ==
  ASSUME QueueType, NEW e \in Infos, NEW is, is \subseteq DOMAIN queuedGroups
  PROVE  WithInvited(e, is) \in Infos /\ WithInvited(e, is).id = e.id /\ WithInvited(e, is).open = e.open
<1> DEFINE New(t) == {i \in is : queuedGroups[i].team = t}
<1>1. \A t : Size(New(t)) \in Nat
  BY PlayersOfIs
<1> HIDE DEF New
<1>2. e.invited \in [Teams -> Nat]
  BY DEF Infos, Counts
<1>3. PICK c : c = [t \in Teams |-> (e.invited[t] + Size(New(t))) % Wrap]
  OBVIOUS
<1>4. c \in [Teams -> Nat]
  <2>1. Wrap \in Nat \ {0} /\ \A k \in Int : k % Wrap \in Nat
    BY TeamFacts
  <2>2. \A t \in Teams : e.invited[t] + Size(New(t)) \in Int
    BY <1>1, <1>2
  <2> QED BY <1>3, <2>1, <2>2
<1>5. WithInvited(e, is) = [e EXCEPT !.invited = c]
  BY <1>3 DEF WithInvited, New
<1>6. PICK x : x = [e EXCEPT !.invited = c]
  OBVIOUS
<1>7. x \in Infos /\ x.id = e.id /\ x.open = e.open
  BY <1>4, <1>6 DEF Infos, Counts
<1> QED BY <1>5, <1>6, <1>7

(* SetToSeq lists the elements of a finite set.                            *)
LEMMA SetToSeqIs ==
  ASSUME NEW S, IsFiniteSet(S)
  PROVE  /\ SetToSeq(S) \in Seq(S)
         /\ \A x \in S : In(x, SetToSeq(S))
<1>1. PICK n \in Nat : n = Cardinality(S)
  BY FS_CardinalityType
<1>2. ExistsBijection(1..n, S)
  BY <1>1, FS_CardinalityType
<1>3. PICK b \in Bijection(1..n, S) : TRUE
  BY <1>2 DEF ExistsBijection
<1>4. b \in [1..n -> S] /\ IsInjective(b)
  BY <1>3 DEF Bijection, Injection
<1>5. PICK f : f = SetToSeq(S)
  OBVIOUS
<1>6. f \in [1..n -> S] /\ IsInjective(f)
  BY <1>1, <1>4, <1>5 DEF SetToSeq
<1>7. f \in Injection(1..n, S)
  BY <1>6 DEF Injection
<1>8. IsFiniteSet(1..n) /\ Cardinality(1..n) = n
  <2>1. n \in Int /\ 1 \in Int
    OBVIOUS
  <2>2. IsFiniteSet(1..n) /\ Cardinality(1..n) = IF 1 > n THEN 0 ELSE n - 1 + 1
    BY <2>1, FS_Interval
  <2> QED BY <2>2
<1>9. f \in Surjection(1..n, S)
  BY <1>1, <1>7, <1>8, FS_Injection
<1>10. \A x \in S : \E i \in 1..n : f[i] = x
  BY <1>9 DEF Surjection
<1>11. f \in Seq(S) /\ DOMAIN f = 1..n
  BY <1>6, IsSeq
<1> QED BY <1>5, <1>10, <1>11 DEF In

(* The messages of InviteGroupToBg: an invitation for each player of the   *)
(* groups, with the stamp of his group, and counts.                        *)
Invitation(p, g) == [type |-> "invite", player |-> p, event |-> [game |-> g, stamp |-> queuedPlayers[p]]]

LEMMA InvitationIs ==
  ASSUME QueueType, NEW p \in Players, NEW g \in Games
  PROVE  Invitation(p, g) \in WorldMessages /\ [game |-> g, stamp |-> queuedPlayers[p]] \in Invites
<1>1. PICK e : e = [game |-> g, stamp |-> queuedPlayers[p]]
  OBVIOUS
<1>2. e \in Invites
  BY <1>1 DEF QueueType, Invites
<1>3. [type |-> "invite", player |-> p, event |-> e] \in WorldMessages
  BY <1>2, WorldMessageIs
<1> QED BY <1>1, <1>2, <1>3 DEF Invitation

InvitesOnly(w, ps, g) ==
    /\ w \in Seq(WorldMessages)
    /\ \A x : In(x, w) => x.type = "count" \/ \E p \in ps : x = Invitation(p, g)
    /\ \A p \in ps : In(Invitation(p, g), w)

LEMMA InvitePostsIs ==
  ASSUME QueueType, NEW e \in Infos, NEW is, is \subseteq DOMAIN queuedGroups
  PROVE  InvitesOnly(InvitePosts(e, is), PlayersOf(is), e.id)
<1>1. PICK S : S = PlayersOf(is)
  OBVIOUS
<1>2. S \subseteq Players /\ IsFiniteSet(S)
  BY <1>1, PlayersOfIs
<1>3. PICK ps : ps = SetToSeq(S)
  OBVIOUS
<1>4. ps \in Seq(S) /\ \A x \in S : In(x, ps)
  BY <1>2, <1>3, SetToSeqIs
<1>5. DOMAIN ps = 1..Len(ps) /\ Len(ps) \in Nat /\ \A n \in DOMAIN ps : ps[n] \in S
  BY <1>4, LenProperties
<1>6. PICK g \in Games : g = e.id
  BY DEF Infos
<1>7. e.invited \in [Teams -> Nat]
  BY DEF Infos, Counts
<1> DEFINE Count(n) == (e.invited[TeamOf(ps[n])]
                        + Cardinality({k \in 1..n : TeamOf(ps[k]) = TeamOf(ps[n])})) % Wrap
           Inv(n) == Invitation(ps[n], g)
           Cnt(n) == [type |-> "count", game |-> g, team |-> TeamOf(ps[n]), count |-> Count(n)]
<1>8. \A n \in DOMAIN ps : Count(n) \in Nat
  <2> SUFFICES ASSUME NEW n \in DOMAIN ps PROVE Count(n) \in Nat
    OBVIOUS
  <2> DEFINE K == {k \in 1..n : TeamOf(ps[k]) = TeamOf(ps[n])}
  <2>1. n \in Int /\ 1 \in Int
    BY <1>5
  <2>2. IsFiniteSet(1..n)
    BY <2>1, FS_Interval
  <2>3. K \in SUBSET (1..n)
    OBVIOUS
  <2> HIDE DEF K
  <2>4. IsFiniteSet(K)
    BY <2>2, <2>3, FS_Subset
  <2>5. Cardinality(K) \in Nat
    BY <2>4, FS_CardinalityType
  <2>6. e.invited[TeamOf(ps[n])] \in Nat
    BY <1>7, TeamFacts
  <2>7. Wrap \in Nat \ {0} /\ \A k \in Int : k % Wrap \in Nat
    BY TeamFacts
  <2>8. e.invited[TeamOf(ps[n])] + Cardinality(K) \in Int
    BY <2>5, <2>6
  <2>9. (e.invited[TeamOf(ps[n])] + Cardinality(K)) % Wrap \in Nat
    BY <2>7, <2>8
  <2> QED BY <2>9 DEF K
<1> HIDE DEF Count
<1>9. \A n \in DOMAIN ps : Inv(n) \in WorldMessages /\ Cnt(n) \in WorldMessages
  BY <1>2, <1>5, <1>8, InvitationIs, WorldMessageIs, TeamFacts
<1>10. \A n : Cnt(n).type = "count"
  OBVIOUS
<1> DEFINE ss == [n \in DOMAIN ps |-> <<Inv(n), Cnt(n)>>]
<1>11. InvitePosts(e, is) = FlattenSeq(ss)
  BY <1>1, <1>3, <1>6 DEF InvitePosts, Count, Invitation
<1> HIDE DEF Inv, Cnt
<1>12. \A n \in DOMAIN ps : ss[n] = <<Inv(n), Cnt(n)>>
  OBVIOUS
<1>13. \A n \in DOMAIN ps : /\ <<Inv(n), Cnt(n)>> \in Seq(WorldMessages)
                            /\ \A x : In(x, <<Inv(n), Cnt(n)>>) <=> x = Inv(n) \/ x = Cnt(n)
  <2> TAKE n \in DOMAIN ps
  <2>1. PICK a, b : a = Inv(n) /\ b = Cnt(n)
    OBVIOUS
  <2>2. a \in WorldMessages /\ b \in WorldMessages
    BY <1>9, <2>1
  <2>3. PICK s : s = <<a, b>>
    OBVIOUS
  <2>4. s \in Seq(WorldMessages) /\ Len(s) = 2 /\ s[1] = a /\ s[2] = b
    BY <2>2, <2>3
  <2>5. DOMAIN s = {1, 2}
    BY <2>4, LenProperties
  <2>6. \A x : In(x, s) <=> x = a \/ x = b
    BY <2>4, <2>5 DEF In
  <2> QED BY <2>1, <2>3, <2>4, <2>6
<1>14. ss \in Seq(Seq(WorldMessages)) /\ DOMAIN ss = DOMAIN ps
  <2>1. ss \in [1..Len(ps) -> Seq(WorldMessages)]
    BY <1>5, <1>13
  <2> QED BY <1>5, <2>1, IsSeq
<1>15. PICK w : w = FlattenSeq(ss)
  OBVIOUS
<1>16. w \in Seq(WorldMessages) /\ \A x : In(x, w) <=> \E k \in DOMAIN ss : In(x, ss[k])
  BY <1>14, <1>15, FlattenSeqIs
<1> HIDE DEF ss
<1>17. \A x : In(x, w) <=> \E n \in DOMAIN ps : x = Inv(n) \/ x = Cnt(n)
  BY <1>12, <1>13, <1>14, <1>16
<1>18. \A x : In(x, w) => x.type = "count" \/ \E p \in S : x = Invitation(p, g)
  BY <1>5, <1>10, <1>17 DEF Inv
<1>19. ASSUME NEW p \in S
       PROVE  In(Invitation(p, g), w)
  <2>1. PICK n \in DOMAIN ps : ps[n] = p
    BY <1>4 DEF In
  <2>2. Inv(n) = Invitation(p, g)
    BY <2>1 DEF Inv
  <2> QED BY <1>17, <2>2
<1> QED BY <1>1, <1>6, <1>11, <1>15, <1>16, <1>18, <1>19 DEF InvitesOnly

LEMMA HasIn ==
  ASSUME NEW w, NEW K
  PROVE  Has(w, K) <=> \E x \in K : In(x, w)
BY DEF Has, In

(* The invitations into the entries of freeSlots.                          *)
LEMMA FillPostsIs ==
  ASSUME QueueType, NEW into, into \in [DOMAIN freeSlots -> SUBSET DOMAIN queuedGroups]
  PROVE  LET w == FlattenSeq([i \in DOMAIN into |-> InvitePosts(freeSlots[i], into[i])])
         IN  /\ w \in Seq(WorldMessages)
             /\ \A x : In(x, w) => \/ x.type = "count"
                                   \/ \E i \in DOMAIN freeSlots : \E p \in PlayersOf(into[i]) :
                                         x = Invitation(p, freeSlots[i].id)
             /\ \A i \in DOMAIN freeSlots : \A p \in PlayersOf(into[i]) :
                   In(Invitation(p, freeSlots[i].id), w)
<1>1. /\ freeSlots \in Seq(Infos) /\ DOMAIN freeSlots = 1..Len(freeSlots) /\ Len(freeSlots) \in Nat
      /\ \A i \in DOMAIN freeSlots : freeSlots[i] \in Infos
  BY LenProperties DEF QueueType
<1> DEFINE Piece(i) == InvitePosts(freeSlots[i], into[i])
           ss == [i \in DOMAIN into |-> Piece(i)]
<1>2. DOMAIN into = DOMAIN freeSlots /\ \A i \in DOMAIN freeSlots : into[i] \subseteq DOMAIN queuedGroups
  OBVIOUS
<1>3. \A i \in DOMAIN freeSlots : InvitesOnly(Piece(i), PlayersOf(into[i]), freeSlots[i].id)
  BY <1>1, <1>2, InvitePostsIs
<1> HIDE DEF Piece
<1>4. \A i \in DOMAIN freeSlots : Piece(i) \in Seq(WorldMessages)
  BY <1>3 DEF InvitesOnly
<1>5. ss \in [1..Len(freeSlots) -> Seq(WorldMessages)]
  BY <1>1, <1>2, <1>4
<1>6. ss \in Seq(Seq(WorldMessages)) /\ DOMAIN ss = DOMAIN freeSlots
  BY <1>1, <1>5, IsSeq
<1>7. \A i \in DOMAIN freeSlots : ss[i] = Piece(i)
  BY <1>2
<1>8. PICK w : w = FlattenSeq(ss)
  OBVIOUS
<1> HIDE DEF ss
<1>9. w \in Seq(WorldMessages) /\ \A x : In(x, w) <=> \E k \in DOMAIN ss : In(x, ss[k])
  BY <1>6, <1>8, FlattenSeqIs
<1>10. \A x : In(x, w) <=> \E i \in DOMAIN freeSlots : In(x, Piece(i))
  BY <1>6, <1>7, <1>9
<1>11. \A x : In(x, w) => \/ x.type = "count"
                          \/ \E i \in DOMAIN freeSlots : \E p \in PlayersOf(into[i]) :
                                x = Invitation(p, freeSlots[i].id)
  <2> TAKE x
  <2> HAVE In(x, w)
  <2>1. PICK i \in DOMAIN freeSlots : In(x, Piece(i))
    BY <1>10
  <2>2. x.type = "count" \/ \E p \in PlayersOf(into[i]) : x = Invitation(p, freeSlots[i].id)
    BY <1>3, <2>1 DEF InvitesOnly
  <2> QED BY <2>2
<1>12. \A i \in DOMAIN freeSlots : \A p \in PlayersOf(into[i]) : In(Invitation(p, freeSlots[i].id), w)
  BY <1>3, <1>10 DEF InvitesOnly
<1> QED BY <1>8, <1>9, <1>11, <1>12 DEF ss, Piece

(* What a step leaves of CreateInv.                                        *)
LEMMA CreateKept ==
  ASSUME TypeInv, CreateInv, NEW w \in Seq(WorldMessages), toWorld' = toWorld \o w,
         \A g \in Games : ~Has(w, Creates(g)),
         \A g \in Games : Has(w, Enters(g)) => g <= games,
         Len(game') = Len(game), games' = games
  PROVE  CreateInv' /\ toWorld' \in Seq(WorldMessages)
<1>1. toWorld \in Seq(WorldMessages)
  BY DEF TypeInv, MessagesType
<1>2. toWorld \o w \in Seq(WorldMessages)
      /\ \A g \in Games : Has(toWorld \o w, Creates(g)) <=> Has(toWorld, Creates(g))
  BY <1>1, Posting
<1>3. \A g \in Games : Once(toWorld \o w, Creates(g))
  BY <1>1, Posting DEF CreateInv
<1>4. \A g, h \in Games : g < h => Before(toWorld \o w, Creates(g), Creates(h))
  <2> TAKE g, h \in Games
  <2>1. ~Has(w, Creates(g)) /\ (g < h => Before(toWorld, Creates(g), Creates(h)))
    BY DEF CreateInv
  <2> QED BY <1>1, <2>1, Posting
<1>5. \A g \in Games : Before(toWorld \o w, Creates(g), Enters(g))
  <2> TAKE g \in Games
  <2>1. ~Has(w, Creates(g)) /\ Before(toWorld, Creates(g), Enters(g))
    BY DEF CreateInv
  <2> QED BY <1>1, <2>1, Posting
<1>6. \A g \in Games : Has(toWorld \o w, Enters(g)) => g <= games
  BY <1>1, Posting DEF CreateInv
<1> QED BY <1>2, <1>3, <1>4, <1>5, <1>6 DEF CreateInv

LEMMA CreateTaken ==
  ASSUME TypeInv, CreateInv, toWorld # << >>, toWorld' = Tail(toWorld),
         IF Head(toWorld).type = "create" THEN Len(game') = Len(game) + 1 ELSE Len(game') = Len(game),
         games' = games
  PROVE  CreateInv' /\ toWorld' \in Seq(WorldMessages)
<1>1. toWorld \in Seq(WorldMessages) /\ Len(game) \in Nat /\ games \in Nat /\ Games \subseteq Nat
  BY GamesExist, TeamFacts DEF TypeInv, MessagesType
<1>2. Tail(toWorld) \in Seq(WorldMessages)
      /\ \A g \in Games : Once(Tail(toWorld), Creates(g))
  BY <1>1, Taking DEF CreateInv
<1>3. \A g, h \in Games : g < h => Before(Tail(toWorld), Creates(g), Creates(h))
  BY <1>1, Taking DEF CreateInv
<1>4. \A g \in Games : /\ Before(Tail(toWorld), Creates(g), Enters(g))
                       /\ Has(Tail(toWorld), Enters(g)) => g <= games
  BY <1>1, Taking DEF CreateInv
<1>5. CASE Head(toWorld).type # "create"
  <2>1. \A g \in Games : Head(toWorld) \notin Creates(g)
    BY <1>5 DEF Creates
  <2>2. \A g \in Games : Has(Tail(toWorld), Creates(g)) <=> Has(toWorld, Creates(g))
    BY <1>1, <2>1, Taking
  <2> QED BY <1>2, <1>3, <1>4, <1>5, <2>2 DEF CreateInv
<1>6. CASE Head(toWorld).type = "create"
  <2>1. /\ Head(toWorld) \in Creates(Len(game) + 1)
        /\ Len(game) + 1 \in Games /\ Len(game) + 1 <= games /\ Head(toWorld).game = Len(game) + 1
    BY <1>6, NextCreated
  <2>2. PICK n : n = Len(game) + 1
    OBVIOUS
  <2>3. \A g \in Games : g # n => Head(toWorld) \notin Creates(g)
    BY <2>1, <2>2 DEF Creates
  <2>4. \A g \in Games : g # n => (Has(Tail(toWorld), Creates(g)) <=> Has(toWorld, Creates(g)))
    BY <1>1, <2>3, Taking
  <2>5. ~Has(Tail(toWorld), Creates(n))
    <3>1. Once(toWorld, Creates(n))
      BY <2>1, <2>2 DEF CreateInv
    <3> QED BY <1>1, <2>1, <2>2, <3>1, Taking
  <2>6. ASSUME NEW g \in Games
        PROVE  Has(Tail(toWorld), Creates(g)) <=> n < g /\ g <= games
    <3>1. g \in Nat /\ n \in Nat
      BY <1>1, <2>2
    <3>2. CASE g = n
      BY <2>5, <3>1, <3>2
    <3>3. CASE g # n
      <4>1. n < g <=> Len(game) < g
        BY <1>1, <2>2, <3>1, <3>3
      <4> QED BY <2>4, <3>3, <4>1 DEF CreateInv
    <3> QED BY <3>2, <3>3
  <2> QED BY <1>2, <1>3, <1>4, <1>6, <2>1, <2>2, <2>6 DEF CreateInv
<1> QED BY <1>5, <1>6

(* A step of the world.                                                    *)
LEMMA WorldKeeps ==
  ASSUME EntryInv, WorldEffect,
         \/ UNCHANGED toWorld
         \/ \E m \in WorldMessages : m.type \notin {"create", "enter"} /\ toWorld' = Append(toWorld, m)
         \/ toWorld # << >> /\ toWorld' = Tail(toWorld) /\ Head(toWorld).type # "create"
  PROVE  EntryInv'
<1>1. PICK t : WorldPosts(t)
  BY DEF WorldEffect
<1>2. UNCHANGED <<queuedPlayers, queuedGroups, freeSlots, scheduled, updating, groups, games, aborted>>
  BY DEF WorldEffect, queueVars
<1>3. toQueue' \in Seq(QueueMessages) /\ ListInv'
  BY <1>1, <1>2, WorldPostsOK DEF EntryInv
<1>4. Len(game') = Len(game) /\ GamesType'
  BY <1>1 DEF WorldPosts, GamesType
<1>5. CreateInv' /\ toWorld' \in Seq(WorldMessages)
  <2>1. CASE UNCHANGED toWorld
    BY <1>2, <1>4, <2>1 DEF CreateInv, EntryInv, TypeInv, MessagesType
  <2>2. CASE \E m \in WorldMessages : m.type \notin {"create", "enter"} /\ toWorld' = Append(toWorld, m)
    <3>1. PICK m \in WorldMessages : m.type \notin {"create", "enter"} /\ toWorld' = Append(toWorld, m)
      BY <2>2
    <3>2. toWorld' = toWorld \o <<m>> /\ <<m>> \in Seq(WorldMessages)
      BY <3>1, AppendIs, OneMessage DEF EntryInv, TypeInv, MessagesType
    <3>3. \A g : m \notin Creates(g) /\ m \notin Enters(g)
      BY <3>1 DEF Creates, Enters
    <3>4. \A g : ~Has(<<m>>, Creates(g)) /\ ~Has(<<m>>, Enters(g))
      BY <3>3, OneMessage
    <3> QED BY <1>2, <1>4, <3>2, <3>4, CreateKept DEF EntryInv
  <2>3. CASE toWorld # << >> /\ toWorld' = Tail(toWorld) /\ Head(toWorld).type # "create"
    BY <1>2, <1>4, <2>3, CreateTaken DEF EntryInv
  <2> QED BY <2>1, <2>2, <2>3
<1>6. QueueType'
  BY <1>2 DEF EntryInv, TypeInv, QueueType
<1> QED BY <1>3, <1>4, <1>5, <1>6 DEF EntryInv, TypeInv, MessagesType, WorldEffect

LEMMA CreateKeeps ==
  ASSUME EntryInv, WorldMessage, Head(toWorld).type = "create"
  PROVE  EntryInv'
<1>1. /\ PlayersType' /\ SentInv' /\ GamesType' /\ ListInv' /\ Len(game') = Len(game) + 1
      /\ toQueue' \in Seq(QueueMessages) /\ UNCHANGED queueVars
  BY CreateEffect
<1>2. toWorld # << >> /\ toWorld' = Tail(toWorld)
  BY DEF WorldMessage
<1>3. UNCHANGED <<queuedPlayers, queuedGroups, freeSlots, scheduled, updating, groups, games, aborted>>
  BY <1>1 DEF queueVars
<1>4. CreateInv' /\ toWorld' \in Seq(WorldMessages)
  BY <1>1, <1>2, <1>3, CreateTaken DEF EntryInv
<1>5. QueueType'
  BY <1>3 DEF EntryInv, TypeInv, QueueType
<1> QED BY <1>1, <1>4, <1>5 DEF EntryInv, TypeInv, MessagesType

(* What a step of the queue leaves of ListInv.                             *)
LEMMA EntriesLike ==
  ASSUME NEW f, SameEntries(f)
  PROVE  \A g : Like(freeSlots, f, g)
BY LikeIs DEF SameEntries

LEMMA ListSame ==
  ASSUME ListInv, SameEntries(freeSlots'), UNCHANGED <<game, games, toQueue>>
  PROVE  ListInv'
<1> SUFFICES ASSUME NEW g \in Games
             PROVE  (IF Exists(g) THEN GameOK(freeSlots, toQueue, game[g], g)
                     ELSE /\ ~Has(toQueue, Loud(g))
                          /\ g <= games => OneIn(freeSlots, g)
                          /\ ~(g <= games) => NoneIn(freeSlots, g))'
  BY DEF ListInv
<1>1. Like(freeSlots, freeSlots', g)
  BY EntriesLike
<1>2. CASE Exists(g)
  <2>1. GameOK(freeSlots, toQueue, game[g], g)
    BY <1>2 DEF ListInv
  <2>2. GameOK(freeSlots', toQueue, game[g], g)
    BY <1>1, <2>1, GameSame
  <2> QED BY <1>2, <2>2 DEF Exists
<1>3. CASE ~Exists(g)
  BY <1>1, <1>3 DEF ListInv, Like, Exists
<1> QED BY <1>2, <1>3

\* The message taken is about the entries of h, or of none.
LEMMA ListTaken ==
  ASSUME TypeInv, ListInv, toQueue # << >>, toQueue' = Tail(toQueue), UNCHANGED <<game, games>>,
         NEW h,
         \A g : g # h => Head(toQueue) \notin Loud(g) /\ Like(freeSlots, freeSlots', g),
         h \in Games => \/ Head(toQueue) \notin Loud(h) /\ Like(freeSlots, freeSlots', h)
                        \/ Exists(h) /\ GameOK(freeSlots', Tail(toQueue), game[h], h)
  PROVE  ListInv'
<1>1. toQueue \in Seq(QueueMessages)
  BY DEF TypeInv, MessagesType
<1> SUFFICES ASSUME NEW g \in Games
             PROVE  (IF Exists(g) THEN GameOK(freeSlots, toQueue, game[g], g)
                     ELSE /\ ~Has(toQueue, Loud(g))
                          /\ g <= games => OneIn(freeSlots, g)
                          /\ ~(g <= games) => NoneIn(freeSlots, g))'
  BY DEF ListInv
<1>2. CASE g = h /\ Exists(h) /\ GameOK(freeSlots', Tail(toQueue), game[h], h)
  BY <1>2 DEF Exists
<1>3. CASE Head(toQueue) \notin Loud(g) /\ Like(freeSlots, freeSlots', g)
  <2>1. CASE Exists(g)
    <3>1. GameOK(freeSlots, toQueue, game[g], g)
      BY <2>1 DEF ListInv
    <3>2. GameOK(freeSlots, Tail(toQueue), game[g], g)
      BY <1>1, <1>3, <3>1, GameTaken
    <3>3. GameOK(freeSlots', Tail(toQueue), game[g], g)
      BY <1>3, <3>2, GameSame
    <3> QED BY <2>1, <3>3 DEF Exists
  <2>2. CASE ~Exists(g)
    <3>1. ~Has(Tail(toQueue), Loud(g))
      BY <1>1, <1>3, <2>2, Taking DEF ListInv
    <3> QED BY <1>3, <2>2, <3>1 DEF ListInv, Like, Exists
  <2> QED BY <2>1, <2>2
<1> QED BY <1>2, <1>3

LEMMA ListQuiet ==
  ASSUME TypeInv, ListInv, toQueue # << >>, toQueue' = Tail(toQueue), UNCHANGED <<game, games>>,
         Head(toQueue).type \notin {"add free", "remove free", "status"}, SameEntries(freeSlots')
  PROVE  ListInv'
<1>1. \A g : Head(toQueue) \notin Loud(g) /\ Like(freeSlots, freeSlots', g)
  BY QuietMessage, EntriesLike
<1> QED BY <1>1, ListTaken

LEMMA QueueHeadIs ==
  ASSUME TypeInv, toQueue # << >>
  PROVE  Head(toQueue) \in QueueMessages /\ Tail(toQueue) \in Seq(QueueMessages)
BY Taking DEF TypeInv, MessagesType

\* A message about the entries of a game finds the game created.
LEMMA LoudExists ==
  ASSUME TypeInv, ListInv, toQueue # << >>, NEW g \in Games, Head(toQueue) \in Loud(g)
  PROVE  Exists(g) /\ GameOK(freeSlots, toQueue, game[g], g)
<1>1. Has(toQueue, Loud(g))
  BY Taking DEF TypeInv, MessagesType
<1> QED BY <1>1 DEF ListInv

LEMMA StatusKeeps ==
  ASSUME TypeInv, ListInv, toQueue # << >>, toQueue' = Tail(toQueue), UNCHANGED <<game, games>>,
         NEW m, m = Head(toQueue), m.type = "status", Status(m)
  PROVE  ListInv' /\ freeSlots' \in Seq(Infos) /\ SameIds(freeSlots, freeSlots')
<1>1. m \in QueueMessages
  BY QueueHeadIs
<1>2. PICK g \in Games, o \in BOOLEAN : g = m.game /\ o = m.open
  BY <1>1, QueueMessageHas
<1>3. m \in Opens(g) \cup Closes(g) /\ m \in Loud(g) /\ \A h : h # g => m \notin Loud(h)
  BY <1>1, <1>2 DEF Opens, Closes, Loud, Disturbing, AddsFree, RemovesFree
<1>4. Exists(g) /\ GameOK(freeSlots, toQueue, game[g], g)
  BY <1>3, LoudExists
<1>5. QueueType /\ freeSlots \in Seq(Infos) /\ toQueue \in Seq(QueueMessages)
  BY DEF TypeInv, QueueType, MessagesType
<1>6. DOMAIN freeSlots = 1..Len(freeSlots) /\ Len(freeSlots) \in Nat /\ \A i \in DOMAIN freeSlots : freeSlots[i] \in Infos
  BY <1>5, LenProperties
<1>7. PICK f : f = freeSlots'
  OBVIOUS
<1>8. CASE Entries(g) = {}
  <2>1. f = freeSlots
    BY <1>2, <1>7, <1>8 DEF Status
  <2>2. NoneIn(freeSlots, g)
    BY <1>5, <1>8, NoEntries
  <2>3. FALSE
    BY <1>4, <2>2 DEF GameOK, NoneIn, OneIn, TwoIn
  <2> QED BY <2>3
<1>9. CASE Entries(g) # {}
  <2>1. PICK k \in DOMAIN freeSlots : k = First(g) /\ freeSlots[k].id = g
    BY <1>5, <1>9, FirstIs
  <2>2. PICK e \in Infos : e = freeSlots[k]
    BY <1>6
  <2>3. PICK x : x = [e EXCEPT !.open = o]
    OBVIOUS
  <2>4. x \in Infos /\ x.id = e.id /\ x.open = o
    BY <2>3 DEF Infos
  <2>5. f = [freeSlots EXCEPT ![k] = x]
    BY <1>2, <1>7, <1>9, <2>1, <2>2, <2>3 DEF Status
  <2>6. f \in Seq(Infos) /\ DOMAIN f = DOMAIN freeSlots /\ f[k] = x
        /\ \A j \in DOMAIN freeSlots : j # k => f[j] = freeSlots[j]
    BY <1>5, <2>4, <2>5, OneChanged
  <2>7. SameIds(freeSlots, f)
    BY <2>2, <2>4, <2>6 DEF SameIds
  <2>8. \A h : h # g => Like(freeSlots, f, h)
    <3> TAKE h
    <3> HAVE h # g
    <3>1. \A j \in DOMAIN freeSlots : freeSlots[j].id = h => f[j].open = freeSlots[j].open
      BY <2>1, <2>6
    <3> QED BY <2>7, <3>1, LikeIs
  <2>9. m \in Closes(g) /\ OneIn(freeSlots, g) => AllClosed(f, g)
    <3> HAVE m \in Closes(g) /\ OneIn(freeSlots, g)
    <3>1. ~o
      BY <1>2 DEF Closes
    <3>2. \A j \in DOMAIN freeSlots : freeSlots[j].id = g => j = k
      BY <2>1 DEF OneIn
    <3>3. ASSUME NEW j \in DOMAIN f, f[j].id = g PROVE ~f[j].open
      <4>1. j \in DOMAIN freeSlots /\ freeSlots[j].id = g
        BY <2>6, <2>7, <3>3 DEF SameIds
      <4>2. j = k
        BY <3>2, <4>1
      <4> QED BY <2>4, <2>6, <3>1, <4>2
    <3> QED BY <3>3 DEF AllClosed
  <2>10. GameOK(f, Tail(toQueue), game[g], g)
    BY <1>3, <1>4, <1>5, <2>7, <2>9, GameSet
  <2>11. \A h : h # g => Head(toQueue) \notin Loud(h) /\ Like(freeSlots, freeSlots', h)
    BY <1>3, <1>7, <2>8
  <2>12. ListInv'
    BY <1>4, <1>7, <2>10, <2>11, ListTaken
  <2> QED BY <1>7, <2>6, <2>7, <2>12
<1> QED BY <1>8, <1>9

LEMMA AddFreeKeeps ==
  ASSUME TypeInv, ListInv, toQueue # << >>, toQueue' = Tail(toQueue), UNCHANGED <<game, games>>,
         NEW m, m = Head(toQueue), m.type = "add free", AddFree(m)
  PROVE  ListInv' /\ freeSlots' \in Seq(Infos)
<1>1. m \in QueueMessages
  BY QueueHeadIs
<1>2. PICK x \in Infos : x = m.info
  BY <1>1, QueueMessageHas
<1>3. PICK g \in Games : g = x.id
  BY DEF Infos
<1>4. m \in AddsFree(g) /\ m \in Loud(g) /\ \A h : h # g => m \notin Loud(h)
  BY <1>1, <1>2, <1>3 DEF Opens, Closes, Loud, Disturbing, AddsFree, RemovesFree
<1>5. Exists(g) /\ GameOK(freeSlots, toQueue, game[g], g)
  BY <1>4, LoudExists
<1>6. freeSlots \in Seq(Infos) /\ toQueue \in Seq(QueueMessages)
  BY DEF TypeInv, QueueType, MessagesType
<1>7. PICK f : f = freeSlots'
  OBVIOUS
<1>8. f = <<x>> \o freeSlots
  BY <1>2, <1>7 DEF AddFree
<1>9. f \in Seq(Infos) /\ IsFronted(freeSlots, x, f)
  BY <1>6, <1>8, Fronted
<1>10. (\A h : h # g => Like(freeSlots, f, h)) /\ (OneIn(freeSlots, g) => TwoIn(f, g))
  BY <1>3, <1>9, FrontedLike
<1>11. GameOK(f, Tail(toQueue), game[g], g)
  BY <1>4, <1>5, <1>6, <1>10, GameAdded
<1>12. \A h : h # g => Head(toQueue) \notin Loud(h) /\ Like(freeSlots, freeSlots', h)
  BY <1>4, <1>7, <1>10
<1>13. ListInv'
  BY <1>5, <1>7, <1>11, <1>12, ListTaken
<1> QED BY <1>7, <1>9, <1>13

LEMMA RemoveFreeKeeps ==
  ASSUME TypeInv, ListInv, toQueue # << >>, toQueue' = Tail(toQueue), UNCHANGED <<game, games>>,
         NEW m, m = Head(toQueue), m.type = "remove free", RemoveFree(m)
  PROVE  ListInv' /\ freeSlots' \in Seq(Infos)
<1>1. m \in QueueMessages
  BY QueueHeadIs
<1>2. PICK g \in Games : g = m.game
  BY <1>1, QueueMessageHas
<1>3. m \in RemovesFree(g) /\ m \in Loud(g) /\ \A h : h # g => m \notin Loud(h)
  BY <1>1, <1>2 DEF Opens, Closes, Loud, Disturbing, AddsFree, RemovesFree
<1>4. Exists(g) /\ GameOK(freeSlots, toQueue, game[g], g)
  BY <1>3, LoudExists
<1>5. QueueType /\ freeSlots \in Seq(Infos) /\ toQueue \in Seq(QueueMessages)
  BY DEF TypeInv, QueueType, MessagesType
<1>6. PICK f : f = freeSlots'
  OBVIOUS
<1>7. Entries(g) # {}
  <2>1. ~NoneIn(freeSlots, g)
    BY <1>4 DEF GameOK, NoneIn, OneIn, TwoIn
  <2> QED BY <1>5, <2>1, NoEntries
<1>8. PICK k \in DOMAIN freeSlots : k = First(g) /\ freeSlots[k].id = g
  BY <1>5, <1>7, FirstIs
<1>9. f = SubSeq(freeSlots, 1, k - 1) \o SubSeq(freeSlots, k + 1, Len(freeSlots))
  BY <1>2, <1>6, <1>7, <1>8 DEF RemoveFree
<1>10. f \in Seq(Infos) /\ IsDropped(freeSlots, k, f)
  BY <1>5, <1>9, Dropped
<1>11. (\A h : h # g => Like(freeSlots, f, h)) /\ (TwoIn(freeSlots, g) => OneIn(f, g))
  BY <1>8, <1>10, DroppedLike
<1>12. GameOK(f, Tail(toQueue), game[g], g)
  BY <1>3, <1>4, <1>5, <1>11, GameRemoved
<1>13. \A h : h # g => Head(toQueue) \notin Loud(h) /\ Like(freeSlots, freeSlots', h)
  BY <1>3, <1>6, <1>11
<1>14. ListInv'
  BY <1>4, <1>6, <1>12, <1>13, ListTaken
<1> QED BY <1>6, <1>10, <1>14

(* The group of a player in the queue.                                     *)
LEMMA GroupIs ==
  ASSUME TypeInv, GroupInv, NEW p \in Players, InQueue(p)
  PROVE  /\ queuedPlayers[p] \in DOMAIN queuedGroups /\ GroupOf(p) = queuedGroups[queuedPlayers[p]]
         /\ GroupOf(p) \in Groups /\ p \in GroupOf(p).players /\ GroupOf(p).invitedTo <= games
         /\ GroupOf(p).team \in Teams /\ GroupOf(p).invitedTo \in Games \cup {NoGame}
         /\ GroupOf(p).players \subseteq Players
         /\ queuedPlayers[p] \in 1..groups
<1>1. /\ queuedPlayers[p] \in DOMAIN queuedGroups /\ GroupOf(p) = queuedGroups[queuedPlayers[p]]
      /\ p \in queuedGroups[queuedPlayers[p]].players
  BY DEF GroupInv, GroupOf
<1>2. GroupOf(p) \in Groups /\ GroupOf(p).invitedTo <= games /\ queuedPlayers[p] \in 1..groups
  BY <1>1 DEF TypeInv, QueueType, GroupInv
<1> QED BY <1>1, <1>2 DEF Groups

\* BattleGroundQueueItem::RemovePlayer: what it leaves of the groups.
GroupsAfter(p) ==
    /\ queuedPlayers' = [queuedPlayers EXCEPT ![p] = 0]
    /\ DOMAIN queuedGroups' \subseteq DOMAIN queuedGroups
    /\ \A i \in DOMAIN queuedGroups' :
          /\ queuedGroups'[i] \in Groups
          /\ queuedGroups'[i].invitedTo = queuedGroups[i].invitedTo
          /\ queuedGroups'[i].team = queuedGroups[i].team
          /\ queuedGroups'[i].players =
                IF i = queuedPlayers[p] THEN queuedGroups[i].players \ {p} ELSE queuedGroups[i].players
    /\ \A i \in DOMAIN queuedGroups :
          i # queuedPlayers[p] \/ queuedGroups[i].players \ {p} # {} => i \in DOMAIN queuedGroups'

LEMMA RemovePlayerIs ==
  ASSUME TypeInv, GroupInv, NEW p \in Players, InQueue(p), NEW d \in BOOLEAN, RemovePlayer(p, d)
  PROVE  GroupsAfter(p) /\ SameEntries(freeSlots')
<1>1. PICK id : id = queuedPlayers[p]
  OBVIOUS
<1>2. PICK grp \in Groups : grp = GroupOf(p) /\ grp = queuedGroups[id] /\ p \in grp.players
  BY <1>1, GroupIs
<1>3. /\ queuedPlayers' = [queuedPlayers EXCEPT ![p] = 0]
      /\ queuedGroups' = IF grp.players = {p} THEN Restrict(queuedGroups, DOMAIN queuedGroups \ {id})
                         ELSE [queuedGroups EXCEPT ![id].players = @ \ {p}]
      /\ freeSlots' = IF d /\ grp.invitedTo # NoGame THEN Decreased(grp.invitedTo, grp.team) ELSE freeSlots
  BY <1>1, <1>2 DEF RemovePlayer
<1>4. SameEntries(freeSlots')
  <2>1. grp.team \in Teams /\ grp.invitedTo \in Games \cup {NoGame}
    BY DEF Groups
  <2>2. CASE d /\ grp.invitedTo # NoGame
    BY <1>3, <2>1, <2>2, DecreasedIs DEF TypeInv
  <2>3. CASE ~(d /\ grp.invitedTo # NoGame)
    BY <1>3, <2>3 DEF SameEntries, SameIds, TypeInv, QueueType
  <2> QED BY <2>2, <2>3
<1>5. \A i \in DOMAIN queuedGroups : queuedGroups[i] \in Groups
  BY DEF TypeInv, QueueType
<1>6. id \in DOMAIN queuedGroups
  BY <1>1, GroupIs
<1>7. CASE grp.players = {p}
  <2>1. /\ DOMAIN queuedGroups' = DOMAIN queuedGroups \ {id}
        /\ \A i \in DOMAIN queuedGroups' : queuedGroups'[i] = queuedGroups[i]
    BY <1>3, <1>7 DEF Restrict
  <2>2. \A i \in DOMAIN queuedGroups : i # id \/ queuedGroups[i].players \ {p} # {} => i \in DOMAIN queuedGroups'
    BY <1>2, <1>7, <2>1
  <2> QED BY <1>1, <1>3, <1>4, <1>5, <2>1, <2>2 DEF GroupsAfter
<1>8. CASE grp.players # {p}
  <2>1. PICK x : x = [grp EXCEPT !.players = @ \ {p}]
    OBVIOUS
  <2>2. x \in Groups /\ x.players = grp.players \ {p} /\ x.invitedTo = grp.invitedTo /\ x.team = grp.team
    BY <2>1 DEF Groups
  <2>3. queuedGroups' = [queuedGroups EXCEPT ![id] = x]
    BY <1>2, <1>3, <1>8, <2>1
  <2>4. DOMAIN queuedGroups' = DOMAIN queuedGroups /\ queuedGroups'[id] = x
        /\ \A i \in DOMAIN queuedGroups : i # id => queuedGroups'[i] = queuedGroups[i]
    BY <1>6, <2>3
  <2>5. ASSUME NEW i \in DOMAIN queuedGroups
        PROVE  /\ queuedGroups'[i] \in Groups
               /\ queuedGroups'[i].invitedTo = queuedGroups[i].invitedTo
               /\ queuedGroups'[i].team = queuedGroups[i].team
               /\ queuedGroups'[i].players =
                     IF i = id THEN queuedGroups[i].players \ {p} ELSE queuedGroups[i].players
    BY <1>2, <1>5, <2>2, <2>4
  <2> QED BY <1>1, <1>3, <1>4, <2>4, <2>5 DEF GroupsAfter
<1> QED BY <1>7, <1>8

LEMMA GroupsKept ==
  ASSUME TypeInv, GroupInv, NEW p \in Players, GroupsAfter(p), UNCHANGED <<groups, games>>
  PROVE  /\ GroupInv' /\ queuedPlayers' \in [Players -> Nat]
         /\ \A i \in DOMAIN queuedGroups' : queuedGroups'[i] \in Groups
<1>1. queuedPlayers \in [Players -> Nat] /\ queuedPlayers' = [queuedPlayers EXCEPT ![p] = 0]
  BY DEF TypeInv, QueueType, GroupsAfter
<1>2. /\ DOMAIN queuedGroups' \subseteq 1..groups
      /\ \A i \in DOMAIN queuedGroups' : queuedGroups'[i].invitedTo <= games
  BY DEF GroupInv, GroupsAfter
<1>3. ASSUME NEW q \in Players, queuedPlayers'[q] # 0
      PROVE  /\ queuedPlayers'[q] \in DOMAIN queuedGroups'
             /\ q \in queuedGroups'[queuedPlayers'[q]].players
  <2>1. q # p /\ queuedPlayers'[q] = queuedPlayers[q] /\ queuedPlayers[q] # 0
    BY <1>1, <1>3
  <2>2. PICK j \in DOMAIN queuedGroups : j = queuedPlayers[q] /\ q \in queuedGroups[j].players
    BY <2>1 DEF GroupInv, InQueue
  <2>3. q \in queuedGroups[j].players \ {p}
    BY <2>1, <2>2
  <2>4. j \in DOMAIN queuedGroups'
    BY <2>3 DEF GroupsAfter
  <2>5. q \in queuedGroups'[j].players
    BY <2>2, <2>3, <2>4 DEF GroupsAfter
  <2> QED BY <2>1, <2>2, <2>4, <2>5
<1>4. GroupInv'
  BY <1>2, <1>3 DEF GroupInv, InQueue
<1>5. queuedPlayers' \in [Players -> Nat]
  BY <1>1
<1> QED BY <1>4, <1>5 DEF GroupsAfter

LEMMA RemovePostsIs ==
  ASSUME TypeInv, GroupInv, NEW p \in Players, InQueue(p)
  PROVE  /\ RemovePosts(p) \in Seq(WorldMessages)
         /\ \A K : (\A m \in K : m.type # "count") => ~Has(RemovePosts(p), K)
<1>1. PICK grp : grp = GroupOf(p)
  OBVIOUS
<1>2. grp.team \in Teams /\ grp.invitedTo \in Games \cup {NoGame}
  BY <1>1, GroupIs
<1>3. CASE grp.invitedTo # NoGame
  <2>1. PICK w : w = DecreasePosts(grp.invitedTo, grp.team)
    OBVIOUS
  <2>2. RemovePosts(p) = w
    BY <1>1, <1>3, <2>1 DEF RemovePosts
  <2>3. w \in Seq(WorldMessages)
        /\ \A K : Has(w, K) => \E n \in Nat :
              [type |-> "count", game |-> grp.invitedTo, team |-> grp.team, count |-> n] \in K
    BY <1>2, <1>3, <2>1, DecreasedIs DEF TypeInv
  <2>4. ASSUME NEW K, \A m \in K : m.type # "count", Has(w, K)
        PROVE  FALSE
    <3>1. PICK n \in Nat : [type |-> "count", game |-> grp.invitedTo, team |-> grp.team, count |-> n] \in K
      BY <2>3, <2>4
    <3> QED BY <2>4, <3>1
  <2> QED BY <2>2, <2>3, <2>4
<1>4. CASE grp.invitedTo = NoGame
  BY <1>1, <1>4, NoMessage DEF RemovePosts
<1> QED BY <1>3, <1>4

(* The steps of the queue.                                                 *)
QueueInv == GroupInv /\ ~aborted

\* What the queue may post: it creates no game, and sends to games that were made.
Sends(w) ==
    /\ w \in Seq(WorldMessages)
    /\ \A g \in Games : ~Has(w, Creates(g)) /\ (Has(w, Enters(g)) => g <= games)

LEMMA QuietSends ==
  ASSUME NEW w \in Seq(WorldMessages),
         \A K : (\A m \in K : m.type \in {"create", "enter"}) => ~Has(w, K)
  PROVE  Sends(w)
<1>1. \A g : /\ \A m \in Creates(g) : m.type \in {"create", "enter"}
             /\ \A m \in Enters(g) : m.type \in {"create", "enter"}
  BY DEF Creates, Enters
<1> QED BY <1>1 DEF Sends

LEMMA SendsBoth ==
  ASSUME NEW v, NEW w, Sends(v), Sends(w)
  PROVE  Sends(v \o w)
<1>1. v \in Seq(WorldMessages) /\ w \in Seq(WorldMessages)
  BY DEF Sends
<1> QED BY <1>1, Posting DEF Sends

LEMMA SendsNone == Sends(<< >>)
BY NoMessage, QuietSends

LEMMA SendsOne ==
  ASSUME NEW m \in WorldMessages, m.type \notin {"create", "enter"}
  PROVE  Sends(<<m>>)
BY OneMessage, QuietSends

LEMMA SendsRemoved ==
  ASSUME TypeInv, GroupInv, NEW p \in Players, InQueue(p)
  PROVE  Sends(RemovePosts(p))
<1>1. PICK w : w = RemovePosts(p)
  OBVIOUS
<1>2. w \in Seq(WorldMessages) /\ \A K : (\A m \in K : m.type # "count") => ~Has(w, K)
  BY <1>1, RemovePostsIs
<1>3. Sends(w)
  BY <1>2, QuietSends
<1> QED BY <1>1, <1>3

\* A message of the queue is carried out.
QueueDoes ==
    /\ QueueType' /\ QueueInv' /\ ListInv' /\ UNCHANGED games
    /\ \E w : Sends(w) /\ toWorld' = toWorld \o w

LEMMA QueueKeeps ==
  ASSUME EntryInv, QueueDoes, UNCHANGED <<playerVars, game>>, toQueue' \in Seq(QueueMessages)
  PROVE  EntryInv' /\ QueueInv'
<1>1. PICK w : Sends(w) /\ toWorld' = toWorld \o w
  BY DEF QueueDoes
<1>2. CreateInv' /\ toWorld' \in Seq(WorldMessages)
  BY <1>1, CreateKept DEF EntryInv, Sends, QueueDoes
<1>3. PlayersType' /\ SentInv' /\ GamesType'
  BY DEF EntryInv, TypeInv, PlayersType, GamesType, SentInv, playerVars, Exists
<1> QED BY <1>2, <1>3 DEF EntryInv, TypeInv, MessagesType, QueueDoes

LEMMA NothingSent ==
  ASSUME TypeInv, UNCHANGED toWorld
  PROVE  \E w : Sends(w) /\ toWorld' = toWorld \o w
<1>1. toWorld \o << >> = toWorld
  BY ConcatProperties DEF TypeInv, MessagesType
<1> QED BY <1>1, SendsNone

Taken(type) ==
    /\ toQueue # << >> /\ toQueue' = Tail(toQueue) /\ UNCHANGED <<bounds, playerVars, game, updating>>
    /\ Head(toQueue).type = type

LEMMA JoinDoes ==
  ASSUME EntryInv, QueueInv, Taken("join"), AddGroup(Head(toQueue))
  PROVE  QueueDoes
<1>1. PICK m \in QueueMessages : m = Head(toQueue) /\ m.type = "join"
  BY QueueHeadIs DEF Taken, EntryInv
<1>2. PICK ps \in SUBSET Players : ps = m.players
  BY <1>1, QueueMessageHas
<1>3. PICK new : new = [players |-> ps, invitedTo |-> NoGame, team |-> TeamOf(CHOOSE p \in ps : TRUE)]
  OBVIOUS
<1>4. new \in Groups /\ new.invitedTo = NoGame /\ new.players = ps
  BY <1>3, TeamFacts DEF Groups
<1>5. PICK k : k = groups + 1
  OBVIOUS
<1>6. /\ groups' = k
      /\ queuedPlayers' = [p \in Players |-> IF p \in ps THEN k ELSE queuedPlayers[p]]
      /\ queuedGroups' = [i \in DOMAIN queuedGroups \cup {k} |-> IF i # k THEN queuedGroups[i] ELSE new]
      /\ toWorld' = Append(toWorld, [type |-> "joined", players |-> ps])
      /\ scheduled' = TRUE
      /\ UNCHANGED <<freeSlots, games, aborted>>
  BY <1>1, <1>2, <1>3, <1>5 DEF AddGroup
<1>7. groups \in Nat /\ k \in Nat /\ games \in Nat
  BY <1>5 DEF EntryInv, TypeInv, QueueType
<1>8. DOMAIN queuedGroups \subseteq 1..groups
  BY DEF QueueInv, GroupInv
<1>9. k \notin DOMAIN queuedGroups
  BY <1>5, <1>7, <1>8
<1>10. queuedGroups' = [i \in DOMAIN queuedGroups \cup {k} |-> IF i # k THEN queuedGroups[i] ELSE new]
  BY <1>6
<1>13. /\ DOMAIN queuedGroups' = DOMAIN queuedGroups \cup {k}
       /\ queuedGroups'[k] = new
       /\ \A i \in DOMAIN queuedGroups : queuedGroups'[i] = queuedGroups[i]
  BY <1>9, <1>10
<1>14. QueueType'
  <2>1. queuedPlayers' \in [Players -> Nat]
    BY <1>6, <1>7 DEF EntryInv, TypeInv, QueueType
  <2>2. \A i \in DOMAIN queuedGroups' : queuedGroups'[i] \in Groups
    BY <1>4, <1>13 DEF EntryInv, TypeInv, QueueType
  <2> QED BY <1>6, <1>7, <2>1, <2>2 DEF EntryInv, TypeInv, QueueType, Taken
<1>15. QueueInv'
  <2>1. DOMAIN queuedGroups' \subseteq 1..k
    BY <1>5, <1>7, <1>8, <1>13
  <2>2. \A i \in DOMAIN queuedGroups' : queuedGroups'[i].invitedTo <= games
    <3>1. NoGame <= games
      BY <1>7 DEF NoGame
    <3> QED BY <1>4, <1>13, <3>1 DEF QueueInv, GroupInv
  <2>3. ASSUME NEW p \in Players, queuedPlayers'[p] # 0
        PROVE  /\ queuedPlayers'[p] \in DOMAIN queuedGroups'
               /\ p \in queuedGroups'[queuedPlayers'[p]].players
    <3>1. CASE p \in ps
      BY <1>4, <1>6, <1>13, <3>1
    <3>2. CASE p \notin ps
      <4>1. queuedPlayers'[p] = queuedPlayers[p]
        BY <1>6, <3>2
      <4>2. queuedPlayers[p] \in DOMAIN queuedGroups /\ p \in queuedGroups[queuedPlayers[p]].players
        BY <2>3, <4>1 DEF QueueInv, GroupInv, InQueue
      <4> QED BY <1>13, <4>1, <4>2
    <3> QED BY <3>1, <3>2
  <2> QED BY <1>6, <2>1, <2>2, <2>3 DEF QueueInv, GroupInv, InQueue
<1>16. ListInv'
  <2>1. SameEntries(freeSlots')
    BY <1>6 DEF EntryInv, TypeInv, QueueType, SameEntries, SameIds
  <2> QED BY <1>1, <1>6, <2>1, ListQuiet DEF EntryInv, Taken
<1>17. \E w : Sends(w) /\ toWorld' = toWorld \o w
  <2>1. PICK j \in WorldMessages : j = [type |-> "joined", players |-> ps]
    BY WorldMessageIs
  <2>2. toWorld' = toWorld \o <<j>>
    BY <1>6, <2>1, AppendIs DEF EntryInv, TypeInv, MessagesType
  <2> QED BY <2>1, <2>2, SendsOne
<1> QED BY <1>6, <1>14, <1>15, <1>16, <1>17 DEF QueueDoes

\* A player leaves the queue.
LEMMA Removed ==
  ASSUME EntryInv, QueueInv, NEW p \in Players, InQueue(p), NEW d \in BOOLEAN, RemovePlayer(p, d),
         toQueue # << >>, toQueue' = Tail(toQueue), UNCHANGED <<game, updating, groups, games, aborted>>,
         Head(toQueue).type \notin {"add free", "remove free", "status"}, scheduled' \in BOOLEAN
  PROVE  QueueType' /\ QueueInv' /\ ListInv'
<1>1. TypeInv /\ GroupInv /\ ListInv
  BY DEF EntryInv, QueueInv
<1>2. GroupsAfter(p) /\ SameEntries(freeSlots')
  BY <1>1, RemovePlayerIs
<1>3. /\ GroupInv' /\ queuedPlayers' \in [Players -> Nat]
      /\ \A i \in DOMAIN queuedGroups' : queuedGroups'[i] \in Groups
  BY <1>1, <1>2, GroupsKept
<1>4. freeSlots' \in Seq(Infos)
  BY <1>2 DEF SameEntries
<1>5. QueueType'
  BY <1>1, <1>3, <1>4 DEF TypeInv, QueueType
<1>6. ListInv'
  BY <1>1, <1>2, ListQuiet
<1> QED BY <1>3, <1>5, <1>6 DEF QueueInv

LEMMA NotDone ==
  ASSUME EntryInv, QueueInv, NEW type, Taken(type), type \notin {"add free", "remove free", "status"},
         UNCHANGED <<queuedPlayers, queuedGroups, freeSlots, groups, games, aborted, toWorld>>,
         scheduled' \in BOOLEAN
  PROVE  QueueDoes
<1>1. SameEntries(freeSlots')
  BY DEF EntryInv, TypeInv, QueueType, SameEntries, SameIds
<1>2. ListInv'
  BY <1>1, ListQuiet DEF EntryInv, Taken
<1>3. QueueType'
  BY DEF EntryInv, TypeInv, QueueType, Taken
<1>4. QueueInv'
  BY DEF QueueInv, GroupInv, InQueue
<1>5. \E w : Sends(w) /\ toWorld' = toWorld \o w
  BY NothingSent DEF EntryInv
<1> QED BY <1>2, <1>3, <1>4, <1>5 DEF QueueDoes

\* Whoever is invited finds the game in the list.
LEMMA Offered ==
  ASSUME EntryInv, NEW g \in Games, g <= games
  PROVE  Entries(g) # {} /\ ~NoneIn(freeSlots, g)
<1>1. ~NoneIn(freeSlots, g)
  <2>1. CASE Exists(g)
    <3>1. GameOK(freeSlots, toQueue, game[g], g)
      BY <2>1 DEF EntryInv, ListInv
    <3> QED BY <3>1 DEF GameOK, NoneIn, OneIn, TwoIn
  <2>2. CASE ~Exists(g)
    <3>1. OneIn(freeSlots, g)
      BY <2>2 DEF EntryInv, ListInv
    <3> QED BY <3>1 DEF NoneIn, OneIn
  <2> QED BY <2>1, <2>2
<1> QED BY <1>1, NoEntries DEF EntryInv, TypeInv

LEMMA Leaves ==
  ASSUME EntryInv, QueueInv, NEW p \in Players, InQueue(p),
         toWorld' = toWorld \o RemovePosts(p) \o <<[type |-> "left", player |-> p]>>
  PROVE  \E w : Sends(w) /\ toWorld' = toWorld \o w
<1>1. PICK v : v = RemovePosts(p) /\ Sends(v)
  BY SendsRemoved DEF EntryInv, QueueInv
<1>2. PICK m \in WorldMessages : m = [type |-> "left", player |-> p]
  BY WorldMessageIs
<1>3. Sends(<<m>>)
  BY <1>2, SendsOne
<1>4. Sends(v \o <<m>>)
  BY <1>1, <1>3, SendsBoth
<1>5. toWorld \in Seq(WorldMessages) /\ v \in Seq(WorldMessages) /\ <<m>> \in Seq(WorldMessages)
  BY <1>1, <1>3 DEF Sends, EntryInv, TypeInv, MessagesType
<1>6. (toWorld \o v) \o <<m>> = toWorld \o (v \o <<m>>)
  BY <1>5, ConcatAssociative
<1> QED BY <1>1, <1>2, <1>4, <1>6

LEMMA PortDoes ==
  ASSUME EntryInv, QueueInv, Taken("port"), Port(Head(toQueue))
  PROVE  QueueDoes
<1>1. PICK m \in QueueMessages : m = Head(toQueue) /\ m.type = "port"
  BY QueueHeadIs DEF Taken, EntryInv
<1>2. PICK p \in Players : p = m.player
  BY <1>1, QueueMessageHas
<1>3. UNCHANGED <<groups, games>> /\ scheduled \in BOOLEAN
  BY <1>1 DEF Port, EntryInv, TypeInv, QueueType
<1>4. CASE ~InQueue(p) \/ (m.accept /\ GroupOf(p).invitedTo = NoGame)
  BY <1>1, <1>2, <1>3, <1>4, NotDone DEF Port
<1>5. CASE InQueue(p) /\ m.accept /\ GroupOf(p).invitedTo # NoGame
  <2>1. Accept(p)
    BY <1>1, <1>2, <1>5 DEF Port
  <2>2. PICK g : g = GroupOf(p).invitedTo
    OBVIOUS
  <2>3. g \in Games /\ g <= games
    BY <1>5, <2>2, GroupIs DEF EntryInv, QueueInv
  <2>4. /\ RemovePlayer(p, FALSE)
        /\ toWorld' = Append(toWorld, [type |-> "enter", player |-> p, game |-> g])
        /\ UNCHANGED <<scheduled, aborted>>
    BY <2>1, <2>2, <2>3, Offered DEF Accept
  <2>5. QueueType' /\ QueueInv' /\ ListInv'
    BY <1>1, <1>3, <1>5, <2>4, Removed DEF Taken
  <2>6. PICK e \in WorldMessages : e = [type |-> "enter", player |-> p, game |-> g]
    BY <2>3, WorldMessageIs
  <2>7. toWorld' = toWorld \o <<e>>
    BY <2>4, <2>6, AppendIs DEF EntryInv, TypeInv, MessagesType
  <2>8. \A h : e \notin Creates(h) /\ (e \in Enters(h) => h = g)
    BY <2>6 DEF Creates, Enters
  <2>9. Sends(<<e>>)
    BY <2>3, <2>8, OneMessage DEF Sends
  <2> QED BY <1>3, <2>5, <2>7, <2>9 DEF QueueDoes
<1>6. CASE InQueue(p) /\ ~m.accept
  <2>1. Decline(p)
    BY <1>1, <1>2, <1>6 DEF Port
  <2>2. QueueType' /\ QueueInv' /\ ListInv'
    BY <1>1, <1>3, <1>6, <2>1, Removed DEF Taken, Decline
  <2>3. \E w : Sends(w) /\ toWorld' = toWorld \o w
    BY <1>6, <2>1, Leaves DEF Decline
  <2> QED BY <1>3, <2>2, <2>3 DEF QueueDoes
<1>7. m.accept \in BOOLEAN
  BY <1>1, QueueMessageHas
<1> QED BY <1>4, <1>5, <1>6, <1>7

LEMMA LogoutDoes ==
  ASSUME EntryInv, QueueInv, Taken("remove"), RemoveAtLogout(Head(toQueue))
  PROVE  QueueDoes
<1>1. PICK m \in QueueMessages : m = Head(toQueue) /\ m.type = "remove"
  BY QueueHeadIs DEF Taken, EntryInv
<1>2. PICK p \in Players : p = m.player
  BY <1>1, QueueMessageHas
<1>3. UNCHANGED <<scheduled, groups, games, aborted>> /\ scheduled \in BOOLEAN
  BY <1>1 DEF RemoveAtLogout, EntryInv, TypeInv, QueueType
<1>4. CASE ~InQueue(p)
  BY <1>1, <1>2, <1>3, <1>4, NotDone DEF RemoveAtLogout
<1>5. CASE InQueue(p)
  <2>1. RemovePlayer(p, TRUE) /\ toWorld' = toWorld \o RemovePosts(p)
    BY <1>1, <1>2, <1>5 DEF RemoveAtLogout
  <2>2. QueueType' /\ QueueInv' /\ ListInv'
    BY <1>1, <1>3, <1>5, <2>1, Removed DEF Taken
  <2>3. Sends(RemovePosts(p))
    BY <1>5, SendsRemoved DEF EntryInv, QueueInv
  <2> QED BY <1>3, <2>1, <2>2, <2>3 DEF QueueDoes
<1> QED BY <1>4, <1>5

LEMMA ExpireDoes ==
  ASSUME EntryInv, QueueInv, Taken("expire"), Expire(Head(toQueue))
  PROVE  QueueDoes
<1>1. PICK m \in QueueMessages : m = Head(toQueue) /\ m.type = "expire"
  BY QueueHeadIs DEF Taken, EntryInv
<1>2. PICK p \in Players : p = m.player /\ m.update \in BOOLEAN
  BY <1>1, QueueMessageHas
<1>3. UNCHANGED <<groups, games, aborted>> /\ scheduled \in BOOLEAN
  BY <1>1 DEF Expire, EntryInv, TypeInv, QueueType
<1>4. CASE ~IsPlayerInvited(p, m.event)
  BY <1>1, <1>2, <1>3, <1>4, NotDone DEF Expire
<1>5. CASE IsPlayerInvited(p, m.event)
  <2>1. /\ RemovePlayer(p, TRUE)
        /\ toWorld' = toWorld \o RemovePosts(p) \o <<[type |-> "left", player |-> p]>>
        /\ scheduled' = (scheduled \/ m.update)
    BY <1>1, <1>2, <1>5 DEF Expire
  <2>2. InQueue(p) /\ scheduled' \in BOOLEAN
    BY <1>2, <1>3, <1>5, <2>1 DEF IsPlayerInvited
  <2>3. QueueType' /\ QueueInv' /\ ListInv'
    BY <1>1, <1>3, <2>1, <2>2, Removed DEF Taken
  <2>4. \E w : Sends(w) /\ toWorld' = toWorld \o w
    BY <2>1, <2>2, Leaves
  <2> QED BY <1>3, <2>3, <2>4 DEF QueueDoes
<1> QED BY <1>4, <1>5

LEMMA OthersDo ==
  ASSUME EntryInv, QueueInv, NEW type, Taken(type),
         \/ type = "status" /\ Status(Head(toQueue))
         \/ type = "add free" /\ AddFree(Head(toQueue))
         \/ type = "remove free" /\ RemoveFree(Head(toQueue))
         \/ type = "decrease" /\ Decrease(Head(toQueue))
         \/ type = "schedule" /\ Schedule(Head(toQueue))
  PROVE  QueueDoes
<1>1. PICK m : m = Head(toQueue) /\ m.type = type /\ m \in QueueMessages
  BY QueueHeadIs DEF Taken, EntryInv
<1>2. TypeInv /\ ListInv /\ QueueType
  BY DEF EntryInv, TypeInv
<1>3. ASSUME UNCHANGED <<queuedPlayers, queuedGroups, groups, games, aborted>>
      PROVE  QueueInv'
  BY <1>3 DEF QueueInv, GroupInv, InQueue
<1>5. CASE \/ type = "status" /\ Status(m)
           \/ type = "add free" /\ AddFree(m)
           \/ type = "remove free" /\ RemoveFree(m)
  <2>1. UNCHANGED <<queuedPlayers, queuedGroups, scheduled, groups, games, aborted, toWorld>>
    BY <1>5 DEF Status, AddFree, RemoveFree
  <2>2. ListInv' /\ freeSlots' \in Seq(Infos)
    BY <1>1, <1>2, <1>5, <2>1, StatusKeeps, AddFreeKeeps, RemoveFreeKeeps DEF Taken
  <2>3. \E w : Sends(w) /\ toWorld' = toWorld \o w
    BY <1>2, <2>1, NothingSent
  <2> QED BY <1>2, <1>3, <2>1, <2>2, <2>3 DEF QueueDoes, QueueType, Taken
<1>6. CASE type = "decrease" /\ Decrease(m)
  <2>1. /\ UNCHANGED <<queuedPlayers, queuedGroups, scheduled, groups, games, aborted>>
        /\ freeSlots' = Decreased(m.game, m.team)
        /\ toWorld' = toWorld \o DecreasePosts(m.game, m.team)
    BY <1>6 DEF Decrease
  <2>2. PICK g \in Games, t \in Teams : g = m.game /\ t = m.team
    BY <1>1, <1>6, QueueMessageHas
  <2>3. PICK w : w = DecreasePosts(g, t)
    OBVIOUS
  <2>4. SameEntries(Decreased(g, t)) /\ w \in Seq(WorldMessages)
        /\ \A K : Has(w, K) => \E n \in Nat :
              [type |-> "count", game |-> g, team |-> t, count |-> n] \in K
    BY <1>2, <2>3, DecreasedIs
  <2>5. SameEntries(freeSlots') /\ freeSlots' \in Seq(Infos)
    BY <2>1, <2>2, <2>4 DEF SameEntries
  <2>6. ListInv'
    BY <1>1, <1>2, <1>6, <2>1, <2>5, ListQuiet DEF Taken
  <2>7. ASSUME NEW K, \A x \in K : x.type \in {"create", "enter"}
        PROVE  ~Has(w, K)
    <3>1. SUFFICES ASSUME Has(w, K) PROVE FALSE
      OBVIOUS
    <3>2. PICK n \in Nat : [type |-> "count", game |-> g, team |-> t, count |-> n] \in K
      BY <2>4, <3>1
    <3> QED BY <2>7, <3>2
  <2>8. Sends(w)
    BY <2>4, <2>7, QuietSends
  <2> QED BY <1>2, <1>3, <2>1, <2>2, <2>3, <2>5, <2>6, <2>8 DEF QueueDoes, QueueType, Taken
<1>7. CASE type = "schedule" /\ Schedule(m)
  <2>1. /\ UNCHANGED <<queuedPlayers, queuedGroups, freeSlots, groups, games, aborted, toWorld>>
        /\ scheduled' \in BOOLEAN
    BY <1>7 DEF Schedule
  <2> QED BY <1>7, <2>1, NotDone
<1> QED BY <1>1, <1>5, <1>6, <1>7

LEMMA QueueMessageKeeps ==
  ASSUME EntryInv, QueueInv, QueueMessage
  PROVE  EntryInv' /\ QueueInv'
<1>1. PICK m : m = Head(toQueue)
  OBVIOUS
<1>2. Taken(m.type) /\ UNCHANGED <<playerVars, game>>
  BY <1>1 DEF QueueMessage, Taken
<1>3. \/ m.type = "join" /\ AddGroup(m)
      \/ m.type = "port" /\ Port(m)
      \/ m.type = "remove" /\ RemoveAtLogout(m)
      \/ m.type = "expire" /\ Expire(m)
      \/ m.type = "status" /\ Status(m)
      \/ m.type = "add free" /\ AddFree(m)
      \/ m.type = "remove free" /\ RemoveFree(m)
      \/ m.type = "decrease" /\ Decrease(m)
      \/ m.type = "schedule" /\ Schedule(m)
  BY <1>1 DEF QueueMessage
<1>4. QueueDoes
  BY <1>1, <1>2, <1>3, JoinDoes, PortDoes, LogoutDoes, ExpireDoes, OthersDo
<1>5. toQueue' \in Seq(QueueMessages)
  BY <1>2, QueueHeadIs DEF Taken, EntryInv
<1> QED BY <1>2, <1>4, <1>5, QueueKeeps

(* The queue's search.                                                     *)

\* The entries of the list are of games that were made.
LEMMA ListedMade ==
  ASSUME EntryInv, NEW i \in DOMAIN freeSlots
  PROVE  freeSlots[i] \in Infos /\ freeSlots[i].id \in Games /\ freeSlots[i].id <= games
<1>1. freeSlots \in Seq(Infos)
  BY DEF EntryInv, TypeInv, QueueType
<1>2. freeSlots[i] \in Infos
  BY <1>1, LenProperties
<1>3. PICK g \in Games : g = freeSlots[i].id
  BY <1>2 DEF Infos
<1>4. ~NoneIn(freeSlots, g)
  BY <1>3 DEF NoneIn
<1>5. g <= games
  <2>1. CASE Exists(g)
    BY <2>1, GamesExist DEF EntryInv
  <2>2. CASE ~Exists(g)
    BY <1>4, <2>2 DEF EntryInv, ListInv
  <2> QED BY <2>1, <2>2
<1> QED BY <1>2, <1>3, <1>5

\* Groups are invited to games that were made.
LEMMA GroupsInvited ==
  ASSUME EntryInv, QueueInv, UNCHANGED <<queuedPlayers, groups, aborted>>,
         games \in Nat, games' \in Nat, games <= games',
         DOMAIN queuedGroups' = DOMAIN queuedGroups,
         \A i \in DOMAIN queuedGroups : \/ queuedGroups'[i] = queuedGroups[i]
                                        \/ \E g \in Games : /\ g <= games'
                                                            /\ queuedGroups'[i] = [queuedGroups[i] EXCEPT !.invitedTo = g]
  PROVE  /\ QueueInv' /\ \A i \in DOMAIN queuedGroups' : queuedGroups'[i] \in Groups
<1>1. \A i \in DOMAIN queuedGroups : queuedGroups[i] \in Groups
  BY DEF EntryInv, TypeInv, QueueType
<1>2. ASSUME NEW i \in DOMAIN queuedGroups
      PROVE  /\ queuedGroups'[i] \in Groups
             /\ queuedGroups'[i].players = queuedGroups[i].players
             /\ queuedGroups'[i].invitedTo <= games'
  <2>1. PICK old \in Groups : old = queuedGroups[i]
    BY <1>1
  <2>2. CASE queuedGroups'[i] = old
    <3>1. old.invitedTo \in Nat /\ old.invitedTo <= games
      BY <2>1, TeamFacts DEF Groups, QueueInv, GroupInv
    <3>2. old.invitedTo <= games'
      BY <3>1
    <3> QED BY <2>1, <2>2, <3>2
  <2>3. CASE queuedGroups'[i] # old
    <3>1. PICK g \in Games : g <= games' /\ queuedGroups'[i] = [old EXCEPT !.invitedTo = g]
      BY <2>1, <2>3
    <3>2. PICK x : x = [old EXCEPT !.invitedTo = g]
      OBVIOUS
    <3>3. x \in Groups /\ x.players = old.players /\ x.invitedTo = g
      BY <3>2 DEF Groups
    <3> QED BY <2>1, <3>1, <3>2, <3>3
  <2> QED BY <2>2, <2>3
<1>3. QueueInv'
  BY <1>2 DEF QueueInv, GroupInv, InQueue
<1> QED BY <1>2, <1>3

LEMMA FillKeeps ==
  ASSUME EntryInv, QueueInv, FillPlayersToBg
  PROVE  EntryInv' /\ QueueInv'
<1>1. QueueType /\ freeSlots \in Seq(Infos) /\ games \in Nat
  BY DEF EntryInv, TypeInv, QueueType
<1>2. /\ scheduled' = FALSE /\ updating' = TRUE
      /\ UNCHANGED <<playerVars, game, queuedPlayers, groups, games, aborted, toQueue>>
  BY DEF FillPlayersToBg
<1>3. PICK into \in [DOMAIN freeSlots -> SUBSET (Waiting("ali") \cup Waiting("horde"))] :
         /\ freeSlots' = [i \in DOMAIN freeSlots |-> WithInvited(freeSlots[i], into[i])]
         /\ queuedGroups' = [k \in DOMAIN queuedGroups |->
                IF k \in UNION Range(into)
                THEN [queuedGroups[k] EXCEPT !.invitedTo =
                        freeSlots[CHOOSE i \in DOMAIN into : k \in into[i]].id]
                ELSE queuedGroups[k]]
         /\ toWorld' = toWorld \o FlattenSeq([i \in DOMAIN into |-> InvitePosts(freeSlots[i], into[i])])
  BY DEF FillPlayersToBg
<1>4. into \in [DOMAIN freeSlots -> SUBSET DOMAIN queuedGroups]
  BY DEF Waiting
<1>5. SameEntries(freeSlots')
  <2>1. DOMAIN freeSlots = 1..Len(freeSlots) /\ Len(freeSlots) \in Nat
    BY <1>1, LenProperties
  <2>2. ASSUME NEW i \in DOMAIN freeSlots
        PROVE  /\ freeSlots'[i] \in Infos /\ freeSlots'[i].id = freeSlots[i].id
               /\ freeSlots'[i].open = freeSlots[i].open
    <3>1. freeSlots[i] \in Infos /\ into[i] \subseteq DOMAIN queuedGroups
      BY <1>4, ListedMade
    <3> QED BY <1>1, <1>3, <3>1, WithInvitedIs
  <2>3. DOMAIN freeSlots' = DOMAIN freeSlots
    BY <1>3
  <2>4. freeSlots' \in [1..Len(freeSlots) -> Infos]
    BY <1>3, <2>1, <2>2
  <2>5. freeSlots' \in Seq(Infos)
    BY <2>1, <2>4, IsSeq
  <2> QED BY <2>2, <2>3, <2>5 DEF SameEntries, SameIds
<1>6. ListInv'
  BY <1>2, <1>5, ListSame DEF EntryInv
<1>7. QueueInv' /\ \A i \in DOMAIN queuedGroups' : queuedGroups'[i] \in Groups
  <2>1. DOMAIN queuedGroups' = DOMAIN queuedGroups
    BY <1>3
  <2>2. ASSUME NEW k \in DOMAIN queuedGroups
        PROVE  \/ queuedGroups'[k] = queuedGroups[k]
               \/ \E g \in Games : /\ g <= games'
                                   /\ queuedGroups'[k] = [queuedGroups[k] EXCEPT !.invitedTo = g]
    <3>1. CASE k \in UNION Range(into)
      <4>1. \E i \in DOMAIN into : k \in into[i]
        BY <3>1 DEF Range
      <4>2. PICK i \in DOMAIN into : i = CHOOSE j \in DOMAIN into : k \in into[j]
        BY <4>1
      <4>3. i \in DOMAIN freeSlots
        BY <1>4
      <4>4. PICK g \in Games : g = freeSlots[i].id /\ g <= games
        BY <4>3, ListedMade
      <4>5. queuedGroups'[k] = [queuedGroups[k] EXCEPT !.invitedTo = g]
        BY <1>3, <3>1, <4>2, <4>4
      <4> QED BY <1>2, <4>4, <4>5
    <3>2. CASE k \notin UNION Range(into)
      BY <1>3, <3>2
    <3> QED BY <3>1, <3>2
  <2>3. games' \in Nat /\ games <= games'
    BY <1>1, <1>2
  <2> QED BY <1>1, <1>2, <2>1, <2>2, <2>3, GroupsInvited
<1>8. PICK w : w = FlattenSeq([i \in DOMAIN into |-> InvitePosts(freeSlots[i], into[i])])
  OBVIOUS
<1>9. /\ w \in Seq(WorldMessages)
      /\ \A x : In(x, w) => \/ x.type = "count"
                            \/ \E i \in DOMAIN freeSlots : \E p \in PlayersOf(into[i]) :
                                  x = Invitation(p, freeSlots[i].id)
  BY <1>1, <1>4, <1>8, FillPostsIs
<1>10. \A x : In(x, w) => x.type \notin {"create", "enter"}
  BY <1>9 DEF Invitation
<1>11. \A K : (\A m \in K : m.type \in {"create", "enter"}) => ~Has(w, K)
  BY <1>10, HasIn
<1>12. Sends(w)
  BY <1>9, <1>11, QuietSends
<1>13. QueueType'
  <2>1. freeSlots' \in Seq(Infos)
    BY <1>5 DEF SameEntries
  <2> QED BY <1>1, <1>2, <1>7, <2>1 DEF QueueType
<1>14. QueueDoes
  BY <1>2, <1>3, <1>6, <1>7, <1>8, <1>12, <1>13 DEF QueueDoes
<1>15. toQueue' \in Seq(QueueMessages)
  BY <1>2 DEF EntryInv, TypeInv, MessagesType
<1> QED BY <1>2, <1>14, <1>15, QueueKeeps

LEMMA NeverBefore ==
  ASSUME NEW s, NEW J, NEW K, ~Has(s, J) \/ ~Has(s, K)
  PROVE  Before(s, J, K)
BY DEF Has, Before

\* A game more is on its way.
LEMMA CreateMore ==
  ASSUME EntryInv, NEW n \in Games, n = games + 1, games' = n, UNCHANGED game,
         NEW v, Sends(v), \A g \in Games : ~Has(v, Enters(g)),
         NEW c \in Creates(n), NEW w, w = v \o <<c>>,
         NEW u, u = toWorld \o w, toWorld' = u
  PROVE  CreateInv' /\ toWorld' \in Seq(WorldMessages)
<1>1. toWorld \in Seq(WorldMessages) /\ v \in Seq(WorldMessages) /\ c \in WorldMessages
  BY DEF EntryInv, TypeInv, MessagesType, Sends, Creates
<1>2. \A g : (g # n => c \notin Creates(g)) /\ c \notin Enters(g)
  BY DEF Creates, Enters
<1>3. /\ <<c>> \in Seq(WorldMessages) /\ Once(<<c>>, Creates(n)) /\ Has(<<c>>, Creates(n))
      /\ \A g : (g # n => ~Has(<<c>>, Creates(g))) /\ ~Has(<<c>>, Enters(g))
  BY <1>1, <1>2, OneMessage
<1>5. /\ w \in Seq(WorldMessages) /\ Has(w, Creates(n))
      /\ \A g \in Games : (g # n => ~Has(w, Creates(g))) /\ ~Has(w, Enters(g))
  BY <1>1, <1>3, Posting DEF Sends
<1>6. Once(w, Creates(n))
  <2>1. ~Has(v, Creates(n))
    BY DEF Sends
  <2> QED BY <1>1, <1>3, <2>1, Posting
<1>7. Len(game) \in Nat /\ games \in Nat /\ Len(game) <= games /\ Games \subseteq Nat
  BY GamesExist, TeamFacts DEF EntryInv, CreateInv
<1>9. CreateInv
  BY DEF EntryInv
<1>10. /\ u \in Seq(WorldMessages)
       /\ \A K : Has(u, K) <=> Has(toWorld, K) \/ Has(w, K)
  BY <1>1, <1>5, Posting
<1>11. \A g \in Games : ~(g <= games) => ~Has(toWorld, Creates(g)) /\ ~Has(toWorld, Enters(g))
  BY <1>9 DEF CreateInv
<1>12. ~(n <= games)
  BY <1>7
<1>13. \A g \in Games : Has(u, Creates(g)) <=> Len(game') < g /\ g <= games'
  <2> TAKE g \in Games
  <2>1. Len(game') = Len(game) /\ games' = n
    OBVIOUS
  <2>2. CASE g = n
    <3>1. Len(game) < n /\ n <= n
      BY <1>7
    <3> QED BY <1>5, <1>10, <2>1, <2>2, <3>1
  <2>3. CASE g # n
    <3>1. g <= n <=> g <= games
      BY <1>7, <2>3
    <3> QED BY <1>5, <1>9, <1>10, <2>1, <2>3, <3>1 DEF CreateInv
  <2> QED BY <2>2, <2>3
<1>14. \A g \in Games : Once(u, Creates(g))
  <2> TAKE g \in Games
  <2>1. CASE g = n
    BY <1>1, <1>5, <1>6, <1>11, <1>12, <2>1, Posting
  <2>2. CASE g # n
    <3>1. Once(toWorld, Creates(g)) /\ ~Has(w, Creates(g))
      BY <1>5, <1>9, <2>2 DEF CreateInv
    <3> QED BY <1>1, <1>5, <3>1, Posting
  <2> QED BY <2>1, <2>2
<1>15. \A g, h \in Games : g < h => Before(u, Creates(g), Creates(h))
  <2> TAKE g, h \in Games
  <2> HAVE g < h
  <2>1. CASE g = n
    <3>1. ~(h <= games) /\ h # n
      BY <1>7, <2>1
    <3>2. ~Has(u, Creates(h))
      BY <1>5, <1>10, <1>11, <3>1
    <3> QED BY <3>2, NeverBefore
  <2>2. CASE g # n
    <3>1. Before(toWorld, Creates(g), Creates(h)) /\ ~Has(w, Creates(g))
      BY <1>5, <1>9, <2>2 DEF CreateInv
    <3> QED BY <1>1, <1>5, <3>1, Posting
  <2> QED BY <2>1, <2>2
<1>16. \A g \in Games : Has(u, Enters(g)) => g <= games'
  <2> TAKE g \in Games
  <2> HAVE Has(u, Enters(g))
  <2>1. g <= games
    BY <1>5, <1>9, <1>10 DEF CreateInv
  <2> QED BY <1>7, <2>1
<1>17. \A g \in Games : Before(u, Creates(g), Enters(g))
  <2> TAKE g \in Games
  <2>1. CASE g = n
    <3>1. ~Has(u, Enters(g))
      BY <1>5, <1>10, <1>11, <1>12, <2>1
    <3> QED BY <3>1, NeverBefore
  <2>2. CASE g # n
    <3>1. Before(toWorld, Creates(g), Enters(g)) /\ ~Has(w, Creates(g))
      BY <1>5, <1>9, <2>2 DEF CreateInv
    <3> QED BY <1>1, <1>5, <3>1, Posting
  <2> QED BY <2>1, <2>2
<1>18. Len(game') <= games'
  BY <1>7
<1> QED BY <1>10, <1>13, <1>14, <1>15, <1>16, <1>17, <1>18 DEF CreateInv

\* A game more is in the list.
LEMMA ListMore ==
  ASSUME EntryInv, NEW n \in Games, n = games + 1, games' = n, UNCHANGED <<game, toQueue>>,
         NEW x \in Infos, x.id = n, freeSlots' = <<x>> \o freeSlots
  PROVE  ListInv' /\ freeSlots' \in Seq(Infos)
<1>1. freeSlots \in Seq(Infos) /\ games \in Nat /\ Games \subseteq Nat
  BY TeamFacts DEF EntryInv, TypeInv, QueueType
<1>2. PICK f : f = freeSlots'
  OBVIOUS
<1>3. f \in Seq(Infos) /\ IsFronted(freeSlots, x, f)
  BY <1>1, <1>2, Fronted
<1>4. \A g : /\ g # n => Like(freeSlots, f, g)
             /\ NoneIn(freeSlots, n) => OneIn(f, n)
  BY <1>3, FrontedLike
<1>5. \A g : Exists(g) => g # n
  <2>1. \A g : Exists(g) => g \in Games /\ g <= games
    BY GamesExist DEF EntryInv
  <2>2. ~(n <= games)
    BY <1>1
  <2> QED BY <2>1, <2>2
<1> SUFFICES ASSUME NEW g \in Games
             PROVE  (IF Exists(g) THEN GameOK(freeSlots, toQueue, game[g], g)
                     ELSE /\ ~Has(toQueue, Loud(g))
                          /\ g <= games => OneIn(freeSlots, g)
                          /\ ~(g <= games) => NoneIn(freeSlots, g))'
  BY <1>2, <1>3 DEF ListInv
<1>6. CASE Exists(g)
  <2>1. GameOK(freeSlots, toQueue, game[g], g)
    BY <1>6 DEF EntryInv, ListInv
  <2>2. Like(freeSlots, f, g)
    BY <1>4, <1>5, <1>6
  <2>3. GameOK(f, toQueue, game[g], g)
    BY <2>1, <2>2, GameSame
  <2> QED BY <1>2, <1>6, <2>3 DEF Exists
<1>7. CASE ~Exists(g)
  <2>1. ~Has(toQueue, Loud(g))
    BY <1>7 DEF EntryInv, ListInv
  <2>2. CASE g = n
    <3>1. ~(g <= games)
      BY <1>1, <2>2
    <3>2. NoneIn(freeSlots, n)
      BY <1>7, <2>2, <3>1 DEF EntryInv, ListInv
    <3>3. OneIn(f, g) /\ g <= games'
      BY <1>1, <1>4, <2>2, <3>2
    <3> QED BY <1>2, <1>7, <2>1, <3>3 DEF Exists
  <2>3. CASE g # n
    <3>1. g <= games' <=> g <= games
      BY <1>1, <2>3
    <3>2. /\ g <= games => OneIn(freeSlots, g)
          /\ ~(g <= games) => NoneIn(freeSlots, g)
      BY <1>7 DEF EntryInv, ListInv
    <3>3. Like(freeSlots, f, g)
      BY <1>4, <2>3
    <3> QED BY <1>2, <1>7, <2>1, <3>1, <3>2, <3>3 DEF Exists, Like
  <2> QED BY <2>2, <2>3
<1> QED BY <1>6, <1>7

LEMMA MatchKeeps ==
  ASSUME EntryInv, QueueInv, NewMatch
  PROVE  EntryInv' /\ QueueInv'
<1>1. QueueType /\ games \in Nat /\ MaxGames \in Nat /\ Games = 1..MaxGames
  BY TeamFacts DEF EntryInv, TypeInv, QueueType
<1>2. /\ games < MaxGames /\ games' = games + 1
      /\ UNCHANGED <<playerVars, game, queuedPlayers, scheduled, updating, groups, aborted, toQueue>>
  BY DEF NewMatch
<1>3. PICK n \in Games : n = games + 1
  BY <1>1, <1>2
<1>4. PICK e : e = [id |-> n, open |-> FALSE, invited |-> [t \in Teams |-> 0]]
  OBVIOUS
<1>5. PICK a \in Pools("ali", MaxPerTeam), h \in Pools("horde", MaxPerTeam) :
         /\ queuedGroups' = Marked(a \cup h, e.id)
         /\ freeSlots' = <<WithInvited(e, a \cup h)>> \o freeSlots
         /\ toWorld' = toWorld \o InvitePosts(e, a \cup h)
                       \o <<[type |-> "create", game |-> e.id, invited |-> WithInvited(e, a \cup h).invited]>>
  BY <1>3, <1>4 DEF NewMatch
<1>6. PICK is : is = a \cup h
  OBVIOUS
<1>7. is \subseteq DOMAIN queuedGroups
  BY <1>6 DEF Pools, Waiting
<1>8. e \in Infos /\ e.id = n
  BY <1>4 DEF Infos, Counts
<1>9. PICK x \in Infos : x = WithInvited(e, is) /\ x.id = n
  BY <1>1, <1>7, <1>8, WithInvitedIs
<1>10. ListInv' /\ freeSlots' \in Seq(Infos)
  BY <1>2, <1>3, <1>5, <1>6, <1>9, ListMore
<1>11. QueueInv' /\ \A i \in DOMAIN queuedGroups' : queuedGroups'[i] \in Groups
  <2>1. queuedGroups' = [i \in DOMAIN queuedGroups |->
            IF i \in is THEN [queuedGroups[i] EXCEPT !.invitedTo = n] ELSE queuedGroups[i]]
    BY <1>5, <1>6, <1>8 DEF Marked
  <2>2. DOMAIN queuedGroups' = DOMAIN queuedGroups
        /\ \A i \in DOMAIN queuedGroups : \/ queuedGroups'[i] = queuedGroups[i]
                                          \/ queuedGroups'[i] = [queuedGroups[i] EXCEPT !.invitedTo = n]
    BY <2>1
  <2>3. games' \in Nat /\ games <= games' /\ n <= games'
    BY <1>1, <1>2, <1>3
  <2>4. \A i \in DOMAIN queuedGroups : \/ queuedGroups'[i] = queuedGroups[i]
                                       \/ \E g \in Games : /\ g <= games'
                                                           /\ queuedGroups'[i] = [queuedGroups[i] EXCEPT !.invitedTo = g]
    BY <2>2, <2>3
  <2> QED BY <1>1, <1>2, <2>2, <2>3, <2>4, GroupsInvited
<1>12. PICK v : v = InvitePosts(e, is)
  OBVIOUS
<1>13. /\ v \in Seq(WorldMessages)
       /\ \A y : In(y, v) => y.type = "count" \/ \E p \in PlayersOf(is) : y = Invitation(p, n)
  BY <1>1, <1>7, <1>8, <1>12, InvitePostsIs DEF InvitesOnly
<1>14. \A y : In(y, v) => y.type \notin {"create", "enter"}
  BY <1>13 DEF Invitation
<1>15. \A K : (\A m \in K : m.type \in {"create", "enter"}) => ~Has(v, K)
  BY <1>14, HasIn
<1>16. Sends(v) /\ \A g \in Games : ~Has(v, Enters(g))
  BY <1>13, <1>15, QuietSends DEF Enters
<1>17. PICK c \in WorldMessages : c = [type |-> "create", game |-> n, invited |-> x.invited]
  BY <1>9, WorldMessageIs DEF Infos
<1>18. c \in Creates(n)
  BY <1>17 DEF Creates
<1>19. PICK w, u : w = v \o <<c>> /\ u = toWorld \o w /\ toWorld' = u
  <2>1. toWorld' = (toWorld \o v) \o <<c>>
    BY <1>5, <1>6, <1>8, <1>9, <1>12, <1>17
  <2>2. toWorld \in Seq(WorldMessages) /\ <<c>> \in Seq(WorldMessages)
    BY <1>17, OneMessage DEF EntryInv, TypeInv, MessagesType
  <2>3. (toWorld \o v) \o <<c>> = toWorld \o (v \o <<c>>)
    BY <1>13, <2>2, ConcatAssociative
  <2> QED BY <2>1, <2>3
<1>20. CreateInv' /\ toWorld' \in Seq(WorldMessages)
  BY <1>2, <1>3, <1>16, <1>18, <1>19, CreateMore
<1>21. QueueType'
  <2>1. games' \in Nat /\ games' <= MaxGames
    BY <1>1, <1>2
  <2> QED BY <1>1, <1>2, <1>10, <1>11, <2>1 DEF QueueType
<1>22. PlayersType' /\ SentInv' /\ GamesType' /\ toQueue' \in Seq(QueueMessages)
  BY <1>2 DEF EntryInv, TypeInv, PlayersType, GamesType, SentInv, playerVars, Exists, MessagesType
<1> QED BY <1>10, <1>11, <1>20, <1>21, <1>22 DEF EntryInv, TypeInv, MessagesType

LEMMA EntrySame ==
  ASSUME EntryInv, QueueInv,
         UNCHANGED <<playerVars, game, queuedPlayers, queuedGroups, freeSlots, scheduled, groups, games,
                     aborted, toQueue, toWorld>>, updating' \in BOOLEAN
  PROVE  EntryInv' /\ QueueInv'
<1>1. PlayersType' /\ GamesType' /\ QueueType' /\ MessagesType'
  BY DEF EntryInv, TypeInv, PlayersType, GamesType, QueueType, MessagesType, playerVars
<1>2. CreateInv'
  BY DEF EntryInv, CreateInv
<1>3. SentInv'
  BY DEF EntryInv, SentInv, Exists, playerVars
<1>4. ListInv'
  BY DEF EntryInv, ListInv, Exists
<1>5. QueueInv'
  BY DEF QueueInv, GroupInv, InQueue
<1> QED BY <1>1, <1>2, <1>3, <1>4, <1>5 DEF EntryInv, TypeInv

(* All steps together.                                                     *)
LEMMA WorldKeepsQueue ==
  ASSUME QueueInv, UNCHANGED queueVars
  PROVE  QueueInv'
BY DEF QueueInv, GroupInv, InQueue, queueVars

LEMMA EntryStart == Init => EntryInv /\ QueueInv
<1> SUFFICES ASSUME Init PROVE EntryInv /\ QueueInv
  OBVIOUS
<1>1. /\ game = << >> /\ freeSlots = << >> /\ toQueue = << >> /\ toWorld = << >> /\ queuedGroups = << >>
      /\ groups = 0 /\ games = 0 /\ aborted = FALSE /\ scheduled = FALSE /\ updating = FALSE
      /\ queuedPlayers = [p \in Players |-> 0] /\ bgId = [p \in Players |-> NoGame]
      /\ events = [p \in Players |-> {}] /\ slot = [p \in Players |-> NotQueued]
      /\ online = Players /\ far = {}
  BY DEF Init
<1>2. DOMAIN << >> = {} /\ Len(<< >>) = 0
  OBVIOUS
<1>3. MaxGames \in Nat /\ Games \subseteq Nat \ {0}
  BY TeamFacts
<1>4. PlayersType /\ SentInv
  BY <1>1 DEF PlayersType, SentInv
<1>5. GamesType /\ MessagesType
  BY <1>1 DEF GamesType, MessagesType
<1>6. QueueType
  <2>1. freeSlots \in Seq(Infos)
    BY <1>1
  <2>2. queuedPlayers \in [Players -> Nat]
    BY <1>1
  <2>3. DOMAIN queuedGroups = {}
    BY <1>1
  <2>4. games \in Nat /\ groups \in Nat /\ games <= MaxGames
    <3>1. games = 0 /\ groups = 0
      BY <1>1
    <3> QED BY <1>3, <3>1
  <2>6. scheduled \in BOOLEAN /\ updating \in BOOLEAN
    <3>1. scheduled = FALSE /\ updating = FALSE
      BY <1>1
    <3> QED BY <3>1
  <2>5. \A i \in DOMAIN queuedGroups : queuedGroups[i] \in Groups
    BY <2>3
  <2> QED BY <2>1, <2>2, <2>4, <2>5, <2>6 DEF QueueType
<1>7. \A K : ~Has(toQueue, K) /\ ~Has(toWorld, K)
  BY <1>1, NoMessage
<1>8. CreateInv
  <2>1. \A J, K : Before(toWorld, J, K) /\ Once(toWorld, K)
    BY <1>1, NoMessage
  <2>2. Len(game) = 0
    BY <1>1, <1>2
  <2>3. \A g \in Games : ~(Len(game) < g /\ g <= games)
    BY <1>1, <1>3, <2>2
  <2>4. Len(game) <= games
    BY <1>1, <2>2
  <2> QED BY <1>7, <2>1, <2>3, <2>4 DEF CreateInv
<1>9. ListInv
  <2>1. \A g : ~Exists(g) /\ NoneIn(freeSlots, g)
    BY <1>1, <1>2 DEF Exists, NoneIn
  <2>2. \A g \in Games : ~(g <= games)
    BY <1>1, <1>3
  <2> QED BY <1>7, <2>1, <2>2 DEF ListInv
<1>10. GroupInv
  BY <1>1, <1>2 DEF GroupInv, InQueue
<1> QED BY <1>1, <1>4, <1>5, <1>6, <1>8, <1>9, <1>10 DEF EntryInv, TypeInv, QueueInv

LEMMA EntryStep ==
  ASSUME EntryInv, QueueInv, [Next]_vars
  PROVE  EntryInv' /\ QueueInv'
<1>1. ASSUME NEW ps \in Parties, HandleBattlemasterJoin(ps)
      PROVE  EntryInv' /\ QueueInv'
  <2>1. WorldEffect /\ UNCHANGED toWorld
    BY <1>1, JoinEffect DEF HandleBattlemasterJoin
  <2> QED BY <2>1, WorldKeeps, WorldKeepsQueue DEF WorldEffect
<1>2. ASSUME NEW p \in Players,
             \/ HandleBattlefieldPort(p) \/ LeaveBattleground(p) \/ TeleportTo(p)
             \/ HandleMoveWorldportAck(p) \/ LogoutPlayer(p) \/ LoadFromDB(p)
      PROVE  EntryInv' /\ QueueInv'
  <2>1. WorldEffect
    BY <1>2, PortEffect, LeaveEffect, TeleportEffect, WorldportEffect, LogoutEffect, LoadEffect
  <2>2. UNCHANGED toWorld
    BY <1>2 DEF HandleBattlefieldPort, LeaveBattleground, TeleportTo, HandleMoveWorldportAck, LogoutPlayer,
                LoadFromDB
  <2> QED BY <2>1, <2>2, WorldKeeps, WorldKeepsQueue DEF WorldEffect
<1>3. ASSUME NEW p \in Players, RemoveEvent(p)
      PROVE  EntryInv' /\ QueueInv'
  <2>1. WorldEffect /\ \E e \in events[p] : toWorld' = Append(toWorld, [type |-> "expire", player |-> p, event |-> e])
    BY <1>3, EventEffect
  <2>2. PICK e \in Invites : toWorld' = Append(toWorld, [type |-> "expire", player |-> p, event |-> e])
    BY <2>1 DEF EntryInv, TypeInv, PlayersType
  <2>3. PICK m \in WorldMessages : m = [type |-> "expire", player |-> p, event |-> e]
    BY WorldMessageIs
  <2>4. m.type \notin {"create", "enter"} /\ toWorld' = Append(toWorld, m)
    BY <2>2, <2>3
  <2> QED BY <2>1, <2>4, WorldKeeps, WorldKeepsQueue DEF WorldEffect
<1>4. ASSUME NEW g \in Games,
             \/ EndBattleGround(g) \/ EndNow(g) \/ RemoveAll(g) \/ \E p \in Players : RemoveOffline(g, p)
      PROVE  EntryInv' /\ QueueInv'
  <2>1. WorldEffect
    BY <1>4, EndEffect, EndNowEffect, RemoveAllEffect, OfflineEffect
  <2>2. UNCHANGED toWorld
    BY <1>4 DEF EndBattleGround, EndNow, RemoveAll, RemoveOffline
  <2> QED BY <2>1, <2>2, WorldKeeps, WorldKeepsQueue DEF WorldEffect
<1>5. CASE WorldMessage
  <2>1. CASE Head(toWorld).type = "create"
    <3>1. EntryInv' /\ UNCHANGED queueVars
      BY <1>5, <2>1, CreateKeeps, CreateEffect
    <3> QED BY <3>1, WorldKeepsQueue
  <2>2. CASE Head(toWorld).type # "create"
    <3>1. WorldEffect /\ toWorld # << >> /\ toWorld' = Tail(toWorld)
      BY <1>5, <2>2, MessageEffect DEF WorldMessage
    <3> QED BY <2>2, <3>1, WorldKeeps, WorldKeepsQueue DEF WorldEffect
  <2> QED BY <2>1, <2>2
<1>6. CASE QueueStep
  <2>1. CASE EndUpdate
    <3>1. updating' \in BOOLEAN /\
          UNCHANGED <<playerVars, game, queuedPlayers, queuedGroups, freeSlots, scheduled, groups, games,
                      aborted, toQueue, toWorld>>
      BY <2>1 DEF EndUpdate
    <3> QED BY <3>1, EntrySame
  <2> QED BY <1>6, <2>1, QueueMessageKeeps, FillKeeps, MatchKeeps DEF QueueStep
<1>7. CASE UNCHANGED vars
  <2>1. UNCHANGED <<playerVars, game, queuedPlayers, queuedGroups, freeSlots, scheduled, updating, groups,
                    games, aborted, toQueue, toWorld>>
    BY <1>7 DEF vars, queueVars
  <2>2. updating' \in BOOLEAN
    BY <2>1 DEF EntryInv, TypeInv, QueueType
  <2> QED BY <2>1, <2>2, EntrySame
<1> QED BY <1>1, <1>2, <1>3, <1>4, <1>5, <1>6, <1>7 DEF Next

(* In every reachable state, for any number of players and games: the      *)
(* entries of each battleground in the queue's list of free slots are one  *)
(* or two, as the battleground and the messages about it under way say;    *)
(* games are created in the order of their ids, before anyone is sent      *)
(* there; and groups are invited only to games that were made.             *)
THEOREM EntryInvariant == Spec => [](EntryInv /\ QueueInv)
<1>1. Init => EntryInv /\ QueueInv
  BY EntryStart
<1>2. EntryInv /\ QueueInv /\ [Next]_vars => (EntryInv /\ QueueInv)'
  BY EntryStep
<1> QED BY <1>1, <1>2, PTL DEF Spec

(* The assertion of HandleBattlefieldPortOpcode never fails: however late  *)
(* a player accepts, whatever he and the battleground have done meanwhile, *)
(* the battleground he was invited to is among those with free slots.      *)
THEOREM OffersAlwaysStand == Spec => []OffersStand
<1>1. EntryInv /\ QueueInv => OffersStand
  <2> SUFFICES ASSUME EntryInv, QueueInv PROVE OffersStand
    OBVIOUS
  <2>1. ASSUME NEW p \in Players, InQueue(p), GroupOf(p).invitedTo # NoGame
        PROVE  Entries(GroupOf(p).invitedTo) # {}
    <3>1. GroupOf(p).invitedTo \in Games /\ GroupOf(p).invitedTo <= games
      BY <2>1, GroupIs DEF EntryInv, QueueInv
    <3> QED BY <3>1, Offered
  <2> QED BY <2>1 DEF OffersStand, QueueInv
<1> QED BY <1>1, EntryInvariant, PTL

(* Once nothing is under way any more, no entry of a battleground that has *)
(* ended is open: SetStatus reaches the first entry only, but              *)
(* RemovedFromBgFreeSlotQueue has taken the other one away before it, in   *)
(* whatever order players leave meanwhile.                                 *)
THEOREM EndedNeverOffered == Spec => []EndedNotOffered
<1>1. EntryInv /\ QueueInv => EndedNotOffered
  <2> SUFFICES ASSUME EntryInv, Quiet, NEW i \in DOMAIN freeSlots, game[freeSlots[i].id].over
               PROVE  ~freeSlots[i].open
    BY DEF EndedNotOffered
  <2>1. PICK g : g = freeSlots[i].id
    OBVIOUS
  <2>2. g \in Games /\ g <= games
    BY <2>1, ListedMade
  <2>3. \A K : ~Has(toWorld, K) /\ ~Has(toQueue, K)
    BY NoMessage DEF Quiet
  <2>4. Exists(g)
    <3>1. ~(Len(game) < g)
      BY <2>2, <2>3 DEF EntryInv, CreateInv
    <3>2. Len(game) \in Nat /\ g \in Nat
      BY <2>2, GamesExist, TeamFacts DEF EntryInv
    <3>3. g <= Len(game)
      BY <3>1, <3>2
    <3> QED BY <2>2, <3>3, GamesExist DEF EntryInv
  <2>5. GameOK(freeSlots, toQueue, game[g], g)
    BY <2>2, <2>4 DEF EntryInv, ListInv
  <2>6. ~EndsWith(toQueue, Closes(g), Disturbing(g))
    BY <2>3, LastHas
  <2>7. AllClosed(freeSlots, g)
    BY <2>1, <2>5, <2>6 DEF GameOK
  <2> QED BY <2>1, <2>7 DEF AllClosed
<1> QED BY <1>1, EntryInvariant, PTL

-----------------------------------------------------------------------------
(* What one player goes through.  All that is said of a player p is said   *)
(* of the messages q to the queue and w to the world, and of his view v:   *)
(* what the world and the queue have of him.                               *)
Views == [online : BOOLEAN, here : BOOLEAN, slot : Games \cup {NoGame, NotQueued},
          bg : Games \cup {NoGame}, inside : BOOLEAN, events : SUBSET Invites,
          stamp : Nat, invited : Games \cup {NoGame}]
View(p) ==
    [online |-> p \in online, here |-> InWorld(p), slot |-> slot[p], bg |-> bgId[p],
     inside |-> bgId[p] # NoGame /\ p \in game[bgId[p]].inside, events |-> events[p],
     stamp |-> queuedPlayers[p], invited |-> IF InQueue(p) THEN GroupOf(p).invitedTo ELSE NoGame]

\* The messages about p.
Joins(p)       == {m \in QueueMessages : m.type = "join" /\ p \in m.players}
Ports(p)       == {m \in QueueMessages : m.type = "port" /\ m.player = p}
Removes(p)     == {m \in QueueMessages : m.type = "remove" /\ m.player = p}
Lapses(p)      == {m \in QueueMessages : m.type = "expire" /\ m.player = p}
Joineds(p)     == {m \in WorldMessages : m.type = "joined" /\ p \in m.players}
Offers(p)      == {m \in WorldMessages : m.type = "invite" /\ m.player = p}
EntersOf(p)    == {m \in WorldMessages : m.type = "enter" /\ m.player = p}
Lefts(p)       == {m \in WorldMessages : m.type = "left" /\ m.player = p}
Expiries(p)    == {m \in WorldMessages : m.type = "expire" /\ m.player = p}
\* p is sent, or invited, to another game than g.
Strays(p, g)    == {m \in EntersOf(p) : m.game # g}
Elsewhere(p, g) == {m \in Offers(p) : m.event.game # g}
\* Those among K of the invitation e, and of the groups since the n-th.
Of(K, e)    == {m \in K : m.event = e}
Since(K, n) == {m \in K : ~(m.event.stamp < n)}
Older(K, n) == {m \in K : m.event.stamp < n}

Offer(v) == [game |-> v.invited, stamp |-> v.stamp]
Remembered(p, q, w, v) ==
    Offer(v) \in v.events \/ Has(w, Of(Expiries(p), Offer(v))) \/ Has(q, Of(Lapses(p), Offer(v)))

(* The phases of a player who waits for answers.                           *)
Resting(p, q, w, v) ==
    /\ v.slot = NotQueued
    /\ ~Has(q, Joins(p)) /\ ~Has(w, Joineds(p)) /\ ~Has(w, EntersOf(p))
    /\ v.stamp # 0 => Has(q, Removes(p)) /\ ~Has(q, Ports(p))
    /\ v.bg # NoGame => ~v.online /\ v.stamp = 0 /\ ~Has(w, Offers(p)) /\ ~Has(w, Lefts(p))
Asking(p, q, w, v) ==
    /\ v.slot = NotQueued /\ v.here /\ v.bg = NoGame
    /\ Has(q, Joins(p)) /\ Once(q, Joins(p)) /\ ~Has(q, Ports(p))
    /\ Before(q, Removes(p), Joins(p))
    /\ ~Has(w, Joineds(p)) /\ ~Has(w, EntersOf(p))
    /\ v.stamp # 0 => Has(q, Removes(p))
Told(p, q, w, v) ==
    /\ v.slot = NotQueued /\ v.here /\ v.bg = NoGame /\ v.stamp # 0
    /\ ~Has(q, Joins(p)) /\ ~Has(q, Ports(p)) /\ ~Has(q, Removes(p)) /\ ~Has(w, EntersOf(p))
    /\ Has(w, Joineds(p)) /\ Once(w, Joineds(p)) /\ Before(w, Lefts(p), Joineds(p))
    /\ Before(w, Older(Offers(p), v.stamp), Joineds(p))
    /\ Before(w, Joineds(p), Since(Offers(p), v.stamp))
    /\ ~Has(w, Since(Offers(p), v.stamp) \ Of(Offers(p), Offer(v)))
    /\ v.invited # NoGame <=> Has(w, Of(Offers(p), Offer(v)))
    /\ \A e \in v.events : e.stamp < v.stamp
    /\ ~Has(w, Since(Expiries(p), v.stamp)) /\ ~Has(q, Since(Lapses(p), v.stamp))
Queued(p, q, w, v) ==
    /\ v.here /\ v.bg = NoGame /\ v.stamp # 0
    /\ ~Has(q, Joins(p)) /\ Once(q, Ports(p)) /\ ~Has(q, Removes(p))
    /\ ~Has(w, Joineds(p)) /\ ~Has(w, EntersOf(p)) /\ ~Has(w, Lefts(p))
    /\ v.slot \in {NoGame, v.invited}
    /\ ~Has(w, Offers(p) \ Of(Offers(p), Offer(v)))
    /\ IF v.invited = NoGame THEN ~Has(w, Offers(p))
       ELSE Has(w, Offers(p)) \/ (v.slot = v.invited /\ Remembered(p, q, w, v))
\* p is sent to the game g.
EnteringGame(p, q, w, v, g) ==
    /\ v.here /\ v.bg = NoGame /\ v.stamp = 0 /\ v.slot # NotQueued
    /\ ~Has(q, Joins(p)) /\ ~Has(q, Ports(p)) /\ ~Has(q, Removes(p))
    /\ ~Has(w, Joineds(p)) /\ ~Has(w, Lefts(p))
    /\ Has(w, EntersOf(p)) /\ Once(w, EntersOf(p)) /\ Before(w, Offers(p), EntersOf(p))
    /\ ~Has(w, Strays(p, g)) /\ ~Has(w, Elsewhere(p, g))
    /\ Has(w, Offers(p)) \/ v.slot = g
Entering(p, q, w, v) == \E g \in Games : EnteringGame(p, q, w, v, g)
Leaving(p, q, w, v) ==
    /\ v.here /\ v.bg = NoGame /\ v.stamp = 0 /\ v.slot # NotQueued
    /\ ~Has(q, Joins(p)) /\ ~Has(q, Removes(p))
    /\ ~Has(w, Joineds(p)) /\ ~Has(w, EntersOf(p))
    /\ Has(w, Lefts(p)) /\ Before(w, Offers(p), Lefts(p))
Fighting(p, q, w, v) ==
    /\ v.online /\ v.bg # NoGame /\ v.slot = v.bg /\ v.stamp = 0
    /\ v.here => v.inside
    /\ ~Has(q, Joins(p))
    /\ ~Has(w, Joineds(p)) /\ ~Has(w, EntersOf(p)) /\ ~Has(w, Lefts(p)) /\ ~Has(w, Offers(p))
Phase(p, q, w, v) ==
    \/ Resting(p, q, w, v) \/ Asking(p, q, w, v) \/ Told(p, q, w, v) \/ Queued(p, q, w, v)
    \/ Entering(p, q, w, v) \/ Leaving(p, q, w, v) \/ Fighting(p, q, w, v)

\* Where he is.
At(in, g) == [in |-> in, game |-> g]
Seat(p, w, v) ==
    IF v.bg # NoGame /\ (v.online \/ v.inside) THEN At("battle", v.bg)
    ELSE IF Has(w, EntersOf(p)) THEN At("battle", w[CHOOSE i \in DOMAIN w : w[i] \in EntersOf(p)].game)
    ELSE IF v.stamp # 0 THEN At("queue", v.invited)
    ELSE At("idle", NoGame)
Moves(s, t) ==
    \/ t = s
    \/ s = At("idle", NoGame) /\ t = At("queue", NoGame)
    \/ \E g \in Games : \/ s = At("queue", NoGame) /\ t = At("queue", g)
                        \/ s = At("queue", g) /\ t = At("battle", g)
    \/ t = At("idle", NoGame)
\* What becomes of him.
Goes(p, q, w, v, q2, w2, v2) == Phase(p, q2, w2, v2) /\ Moves(Seat(p, w, v), Seat(p, w2, v2))

InsideInv == \A g \in DOMAIN game : \A p \in game[g].inside : bgId[p] = g
OwnGroup == \A i \in DOMAIN queuedGroups : \A p \in queuedGroups[i].players \cap Steady : queuedPlayers[p] = i
\* Messages about groups after the n-th.
LateW(n) == {m \in WorldMessages : m.type \in {"invite", "expire"} /\ ~(m.event.stamp <= n)}
LateQ(n) == {m \in QueueMessages : m.type = "expire" /\ ~(m.event.stamp <= n)}
StampInv ==
    /\ \A p \in Players : queuedPlayers[p] <= groups /\ \A e \in events[p] : e.stamp <= groups
    /\ ~Has(toWorld, LateW(groups)) /\ ~Has(toQueue, LateQ(groups))
PhaseInv == \A p \in Steady : Phase(p, toQueue, toWorld, View(p))
PlayerInv == InsideInv /\ OwnGroup /\ StampInv /\ PhaseInv
BgInv == EntryInv /\ QueueInv /\ PlayerInv

(* What a sequence s of messages becomes, as far as those in A go: nothing *)
(* happens, m is posted, m is taken.                                       *)
Alike(s, t, A) ==
    /\ \A K \in SUBSET A : (Has(s, K) <=> Has(t, K)) /\ (Once(s, K) => Once(t, K))
    /\ \A J, K \in SUBSET A : Before(s, J, K) => Before(t, J, K)
Posts(s, t, m, A) ==
    /\ \A K \in SUBSET A : /\ Has(t, K) <=> Has(s, K) \/ m \in K
                           /\ Once(s, K) /\ m \notin K => Once(t, K)
                           /\ ~Has(s, K) => Once(t, K)
    /\ \A J, K \in SUBSET A : /\ Before(s, J, K) /\ m \notin J => Before(t, J, K)
                              /\ ~Has(s, K) /\ m \notin J => Before(t, J, K)
Takes(s, t, m, A) ==
    /\ \A K \in SUBSET A : /\ Has(s, K) <=> m \in K \/ Has(t, K)
                           /\ Once(s, K) => Once(t, K)
                           /\ Once(s, K) /\ m \in K => ~Has(t, K)
    /\ \A J, K \in SUBSET A : /\ Before(s, J, K) => Before(t, J, K)
                              /\ Before(s, J, K) /\ m \in K => ~Has(s, J)

LEMMA AlikeSame ==
  ASSUME NEW s, NEW A
  PROVE  Alike(s, s, A)
BY DEF Alike

LEMMA HasMore ==
  ASSUME NEW s, NEW J, NEW K, J \subseteq K, Has(s, J)
  PROVE  Has(s, K)
BY DEF Has

LEMMA AlikePosted ==
  ASSUME NEW S, NEW s \in Seq(S), NEW t \in Seq(S), NEW A, ~Has(t, A)
  PROVE  Alike(s, s \o t, A)
<1>1. PICK u : u = s \o t
  OBVIOUS
<1>2. \A K \in SUBSET A : ~Has(t, K)
  BY HasMore
<1>3. /\ \A K : Has(u, K) <=> Has(s, K) \/ Has(t, K)
      /\ \A K : Once(s, K) /\ ~Has(t, K) => Once(u, K)
      /\ \A J, K : Before(s, J, K) /\ ~Has(t, J) => Before(u, J, K)
  BY <1>1, Posting
<1>4. Alike(s, u, A)
  BY <1>2, <1>3 DEF Alike
<1> QED BY <1>1, <1>4

LEMMA AlikeTaken ==
  ASSUME NEW S, NEW s \in Seq(S), s # << >>, NEW A, Head(s) \notin A
  PROVE  Alike(s, Tail(s), A)
<1>1. PICK u, m : u = Tail(s) /\ m = Head(s)
  OBVIOUS
<1>2. /\ \A K : Has(s, K) <=> m \in K \/ Has(u, K)
      /\ \A K : Once(s, K) => Once(u, K)
      /\ \A J, K : Before(s, J, K) => Before(u, J, K)
  BY <1>1, Taking
<1>3. \A K \in SUBSET A : m \notin K
  BY <1>1
<1>4. Alike(s, u, A)
  BY <1>2, <1>3 DEF Alike
<1> QED BY <1>1, <1>4

LEMMA PostsIs ==
  ASSUME NEW S, NEW s \in Seq(S), NEW m \in S, NEW A
  PROVE  Posts(s, s \o <<m>>, m, A)
<1>1. PICK u, t : u = s \o t /\ t = <<m>>
  OBVIOUS
<1>2. /\ t \in Seq(S)
      /\ \A K : Has(t, K) <=> m \in K
      /\ \A K : Once(t, K)
      /\ \A J, K : m \notin J \/ m \notin K => Before(t, J, K)
  BY <1>1, OneMessage
<1>3. /\ \A K : Has(u, K) <=> Has(s, K) \/ Has(t, K)
      /\ \A K : Once(s, K) /\ ~Has(t, K) => Once(u, K)
      /\ \A K : ~Has(s, K) /\ Once(t, K) => Once(u, K)
      /\ \A J, K : Before(s, J, K) /\ ~Has(t, J) => Before(u, J, K)
      /\ \A J, K : ~Has(s, K) /\ Before(t, J, K) => Before(u, J, K)
  BY <1>1, <1>2, Posting
<1>4. Posts(s, u, m, A)
  BY <1>2, <1>3 DEF Posts
<1> QED BY <1>1, <1>4

LEMMA TakesIs ==
  ASSUME NEW S, NEW s \in Seq(S), s # << >>, NEW A
  PROVE  Takes(s, Tail(s), Head(s), A)
<1>1. PICK u, m : u = Tail(s) /\ m = Head(s)
  OBVIOUS
<1>2. /\ \A K : Has(s, K) <=> m \in K \/ Has(u, K)
      /\ \A K : Once(s, K) => Once(u, K)
      /\ \A K : Once(s, K) /\ m \in K => ~Has(u, K)
      /\ \A J, K : Before(s, J, K) => Before(u, J, K)
      /\ \A J, K : Before(s, J, K) /\ m \in K => ~Has(s, J)
  BY <1>1, Taking
<1>3. Takes(s, u, m, A)
  BY <1>2 DEF Takes
<1> QED BY <1>1, <1>3

\* Something else is posted first.
LEMMA PostsAfter ==
  ASSUME NEW s, NEW t, NEW u, NEW m, NEW A, Alike(s, t, A), Posts(t, u, m, A)
  PROVE  Posts(s, u, m, A)
<1>1. \A K \in SUBSET A : /\ Has(u, K) <=> Has(s, K) \/ m \in K
                          /\ Once(s, K) /\ m \notin K => Once(u, K)
                          /\ ~Has(s, K) => Once(u, K)
  BY DEF Alike, Posts
<1>2. \A J, K \in SUBSET A : /\ Before(s, J, K) /\ m \notin J => Before(u, J, K)
                             /\ ~Has(s, K) /\ m \notin J => Before(u, J, K)
  BY DEF Alike, Posts
<1> QED BY <1>1, <1>2 DEF Posts

(* All messages about p, and those that are answered.                      *)
QAnswers(p) == Joins(p) \cup Ports(p) \cup Removes(p)
QAbout(p)   == QAnswers(p) \cup Lapses(p)
WAnswers(p) == Joineds(p) \cup Offers(p) \cup EntersOf(p) \cup Lefts(p)
WAbout(p)   == WAnswers(p) \cup Expiries(p)

LEMMA Narrower ==
  ASSUME NEW p, NEW s, NEW t
  PROVE  /\ Alike(s, t, QAbout(p)) => Alike(s, t, QAnswers(p))
         /\ Alike(s, t, WAbout(p)) => Alike(s, t, WAnswers(p))
<1>1. SUBSET QAnswers(p) \subseteq SUBSET QAbout(p) /\ SUBSET WAnswers(p) \subseteq SUBSET WAbout(p)
  BY DEF QAbout, WAbout
<1> QED BY <1>1 DEF Alike

LEMMA QClasses ==
  ASSUME NEW p
  PROVE  /\ Joins(p) \in SUBSET QAnswers(p) /\ Ports(p) \in SUBSET QAnswers(p)
         /\ Removes(p) \in SUBSET QAnswers(p)
         /\ Joins(p) \in SUBSET QAbout(p) /\ Ports(p) \in SUBSET QAbout(p)
         /\ Removes(p) \in SUBSET QAbout(p) /\ Lapses(p) \in SUBSET QAbout(p)
         /\ \A e : Of(Lapses(p), e) \in SUBSET QAbout(p)
         /\ \A n : Since(Lapses(p), n) \in SUBSET QAbout(p)
BY DEF QAnswers, QAbout, Of, Since

LEMMA WClasses ==
  ASSUME NEW p
  PROVE  /\ Joineds(p) \in SUBSET WAnswers(p) /\ Offers(p) \in SUBSET WAnswers(p)
         /\ EntersOf(p) \in SUBSET WAnswers(p) /\ Lefts(p) \in SUBSET WAnswers(p)
         /\ \A g : Strays(p, g) \in SUBSET WAnswers(p) /\ Elsewhere(p, g) \in SUBSET WAnswers(p)
BY DEF WAnswers, Strays, Elsewhere

LEMMA WClassesAll ==
  ASSUME NEW p
  PROVE  /\ Joineds(p) \in SUBSET WAbout(p) /\ Offers(p) \in SUBSET WAbout(p)
         /\ EntersOf(p) \in SUBSET WAbout(p) /\ Lefts(p) \in SUBSET WAbout(p)
         /\ Expiries(p) \in SUBSET WAbout(p)
         /\ \A e : Of(Offers(p), e) \in SUBSET WAbout(p) /\ Of(Expiries(p), e) \in SUBSET WAbout(p)
                   /\ Offers(p) \ Of(Offers(p), e) \in SUBSET WAbout(p)
         /\ \A n : Older(Offers(p), n) \in SUBSET WAbout(p) /\ Since(Offers(p), n) \in SUBSET WAbout(p)
                   /\ Since(Expiries(p), n) \in SUBSET WAbout(p)
         /\ \A n, e : Since(Offers(p), n) \ Of(Offers(p), e) \in SUBSET WAbout(p)
         /\ \A g : Strays(p, g) \in SUBSET WAbout(p) /\ Elsewhere(p, g) \in SUBSET WAbout(p)
BY DEF WAbout, WAnswers, Of, Older, Since, Strays, Elsewhere

LEMMA QKinds ==
  ASSUME NEW p, NEW m
  PROVE  /\ m \in Joins(p) => m \notin Ports(p) /\ m \notin Removes(p) /\ m \notin Lapses(p)
         /\ m \in Ports(p) => m \notin Removes(p) /\ m \notin Lapses(p)
         /\ m \in Removes(p) => m \notin Lapses(p)
         /\ \A e : m \in Of(Lapses(p), e) => m \in Lapses(p) /\ m.event = e
         /\ \A n : m \in Since(Lapses(p), n) => m \in Lapses(p) /\ ~(m.event.stamp < n)
<1>1. /\ m \in Joins(p) => m.type = "join"
      /\ m \in Ports(p) => m.type = "port"
      /\ m \in Removes(p) => m.type = "remove"
      /\ m \in Lapses(p) => m.type = "expire"
  BY DEF Joins, Ports, Removes, Lapses
<1>2. /\ \A e : m \in Of(Lapses(p), e) => m \in Lapses(p) /\ m.event = e
      /\ \A n : m \in Since(Lapses(p), n) => m \in Lapses(p) /\ ~(m.event.stamp < n)
  BY DEF Of, Since
<1> QED BY <1>1, <1>2

LEMMA WKinds ==
  ASSUME NEW p, NEW m
  PROVE  /\ m \in Joineds(p) => /\ m \notin Offers(p) /\ m \notin EntersOf(p)
                                /\ m \notin Lefts(p) /\ m \notin Expiries(p)
         /\ m \in Offers(p) => m \notin EntersOf(p) /\ m \notin Lefts(p) /\ m \notin Expiries(p)
         /\ m \in EntersOf(p) => m \notin Lefts(p) /\ m \notin Expiries(p)
         /\ m \in Lefts(p) => m \notin Expiries(p)
         /\ \A e : /\ m \in Of(Offers(p), e) <=> m \in Offers(p) /\ m.event = e
                   /\ m \in Of(Expiries(p), e) <=> m \in Expiries(p) /\ m.event = e
         /\ \A n : /\ m \in Older(Offers(p), n) <=> m \in Offers(p) /\ m.event.stamp < n
                   /\ m \in Since(Offers(p), n) <=> m \in Offers(p) /\ ~(m.event.stamp < n)
                   /\ m \in Since(Expiries(p), n) <=> m \in Expiries(p) /\ ~(m.event.stamp < n)
         /\ \A g : /\ m \in Strays(p, g) <=> m \in EntersOf(p) /\ m.game # g
                   /\ m \in Elsewhere(p, g) <=> m \in Offers(p) /\ m.event.game # g
<1>1. /\ m \in Joineds(p) => m.type = "joined"
      /\ m \in Offers(p) => m.type = "invite"
      /\ m \in EntersOf(p) => m.type = "enter"
      /\ m \in Lefts(p) => m.type = "left"
      /\ m \in Expiries(p) => m.type = "expire"
  BY DEF Joineds, Offers, EntersOf, Lefts, Expiries
<1>2. \A e : /\ m \in Of(Offers(p), e) <=> m \in Offers(p) /\ m.event = e
             /\ m \in Of(Expiries(p), e) <=> m \in Expiries(p) /\ m.event = e
  BY DEF Of
<1>3. \A n : /\ m \in Older(Offers(p), n) <=> m \in Offers(p) /\ m.event.stamp < n
             /\ m \in Since(Offers(p), n) <=> m \in Offers(p) /\ ~(m.event.stamp < n)
             /\ m \in Since(Expiries(p), n) <=> m \in Expiries(p) /\ ~(m.event.stamp < n)
  BY DEF Older, Since
<1>4. \A g : /\ m \in Strays(p, g) <=> m \in EntersOf(p) /\ m.game # g
             /\ m \in Elsewhere(p, g) <=> m \in Offers(p) /\ m.event.game # g
  BY DEF Strays, Elsewhere
<1> QED BY <1>1, <1>2, <1>3, <1>4

(* The messages of a kind are some of it.                                  *)
LEMMA SomeOf ==
  ASSUME NEW p, NEW w
  PROVE  /\ \A e : Has(w, Of(Offers(p), e)) => Has(w, Offers(p))
         /\ \A e : Has(w, Offers(p)) => Has(w, Of(Offers(p), e)) \/ Has(w, Offers(p) \ Of(Offers(p), e))
         /\ \A n : Has(w, Offers(p)) => Has(w, Older(Offers(p), n)) \/ Has(w, Since(Offers(p), n))
         /\ \A n, e : Has(w, Since(Offers(p), n)) =>
               Has(w, Of(Offers(p), e)) \/ Has(w, Since(Offers(p), n) \ Of(Offers(p), e))
BY DEF Has, Of, Older, Since

(* Where he is.                                                            *)
LEMMA SeatIs ==
  ASSUME NEW p, NEW w, NEW v
  PROVE  /\ v.bg # NoGame /\ v.online => Seat(p, w, v) = At("battle", v.bg)
         /\ v.bg # NoGame /\ v.inside => Seat(p, w, v) = At("battle", v.bg)
         /\ ~Has(w, EntersOf(p)) /\ (v.bg = NoGame \/ (~v.online /\ ~v.inside)) =>
               /\ v.stamp # 0 => Seat(p, w, v) = At("queue", v.invited)
               /\ v.stamp = 0 => Seat(p, w, v) = At("idle", NoGame)
BY DEF Seat

LEMMA SeatEntering ==
  ASSUME NEW p, NEW q, NEW w, NEW v, NEW g, EnteringGame(p, q, w, v, g)
  PROVE  Seat(p, w, v) = At("battle", g)
<1>1. PICK i \in DOMAIN w : w[i] \in EntersOf(p)
  BY DEF EnteringGame, Has
<1>2. PICK j : j = CHOOSE k \in DOMAIN w : w[k] \in EntersOf(p)
  OBVIOUS
<1>3. j \in DOMAIN w /\ w[j] \in EntersOf(p)
  BY <1>1, <1>2
<1>4. w[j].game = g
  BY <1>3 DEF EnteringGame, Has, Strays
<1>5. Seat(p, w, v) = At("battle", w[j].game)
  BY <1>2 DEF Seat, EnteringGame
<1> QED BY <1>4, <1>5

(* Nothing about p happens.                                                *)
SameWorld(v, u) == /\ u.online = v.online /\ u.here = v.here /\ u.slot = v.slot
                   /\ u.bg = v.bg /\ u.inside = v.inside
SameQueue(v, u) == u.stamp = v.stamp /\ u.invited = v.invited

LEMMA SeatSame ==
  ASSUME NEW p, NEW w, NEW v, NEW w2, NEW u, SameWorld(v, u), SameQueue(v, u),
         ~Has(w, EntersOf(p)), ~Has(w2, EntersOf(p))
  PROVE  Moves(Seat(p, w, v), Seat(p, w2, u))
<1>1. Seat(p, w, v) = IF v.bg # NoGame /\ (v.online \/ v.inside) THEN At("battle", v.bg)
                      ELSE IF v.stamp # 0 THEN At("queue", v.invited)
                      ELSE At("idle", NoGame)
  BY DEF Seat
<1>2. Seat(p, w2, u) = IF u.bg # NoGame /\ (u.online \/ u.inside) THEN At("battle", u.bg)
                       ELSE IF u.stamp # 0 THEN At("queue", u.invited)
                       ELSE At("idle", NoGame)
  BY DEF Seat
<1>3. Seat(p, w2, u) = Seat(p, w, v)
  BY <1>1, <1>2 DEF SameWorld, SameQueue
<1> QED BY <1>3 DEF Moves

LEMMA RestingSame ==
  ASSUME NEW p, NEW q, NEW w, NEW v, NEW q2, NEW w2, NEW u, SameWorld(v, u), SameQueue(v, u),
         Alike(q, q2, QAnswers(p)), Alike(w, w2, WAnswers(p)), Resting(p, q, w, v)
  PROVE  Goes(p, q, w, v, q2, w2, u)
<1>1. Resting(p, q2, w2, u)
  BY QClasses, WClasses DEF Resting, Alike, SameWorld, SameQueue
<1>2. Moves(Seat(p, w, v), Seat(p, w2, u))
  BY <1>1, SeatSame DEF Resting
<1> QED BY <1>1, <1>2 DEF Goes, Phase

LEMMA AskingSame ==
  ASSUME NEW p, NEW q, NEW w, NEW v, NEW q2, NEW w2, NEW u, SameWorld(v, u), SameQueue(v, u),
         Alike(q, q2, QAnswers(p)), Alike(w, w2, WAnswers(p)), Asking(p, q, w, v)
  PROVE  Goes(p, q, w, v, q2, w2, u)
<1>1. Asking(p, q2, w2, u)
  BY QClasses, WClasses DEF Asking, Alike, SameWorld, SameQueue
<1>2. Moves(Seat(p, w, v), Seat(p, w2, u))
  BY <1>1, SeatSame DEF Asking
<1> QED BY <1>1, <1>2 DEF Goes, Phase

LEMMA EnteringSame ==
  ASSUME NEW p, NEW q, NEW w, NEW v, NEW q2, NEW w2, NEW u, SameWorld(v, u), SameQueue(v, u),
         Alike(q, q2, QAnswers(p)), Alike(w, w2, WAnswers(p)), Entering(p, q, w, v)
  PROVE  Goes(p, q, w, v, q2, w2, u)
<1>1. PICK g \in Games : EnteringGame(p, q, w, v, g)
  BY DEF Entering
<1>2. EnteringGame(p, q2, w2, u, g)
  BY <1>1, QClasses, WClasses DEF EnteringGame, Alike, SameWorld, SameQueue
<1>3. Moves(Seat(p, w, v), Seat(p, w2, u))
  BY <1>1, <1>2, SeatEntering DEF Moves
<1> QED BY <1>2, <1>3 DEF Goes, Phase, Entering

LEMMA LeavingSame ==
  ASSUME NEW p, NEW q, NEW w, NEW v, NEW q2, NEW w2, NEW u, SameWorld(v, u), SameQueue(v, u),
         Alike(q, q2, QAnswers(p)), Alike(w, w2, WAnswers(p)), Leaving(p, q, w, v)
  PROVE  Goes(p, q, w, v, q2, w2, u)
<1>1. Leaving(p, q2, w2, u)
  BY QClasses, WClasses DEF Leaving, Alike, SameWorld, SameQueue
<1>2. Moves(Seat(p, w, v), Seat(p, w2, u))
  BY <1>1, SeatSame DEF Leaving
<1> QED BY <1>1, <1>2 DEF Goes, Phase

LEMMA FightingSame ==
  ASSUME NEW p, NEW q, NEW w, NEW v, NEW q2, NEW w2, NEW u, SameWorld(v, u), SameQueue(v, u),
         Alike(q, q2, QAnswers(p)), Alike(w, w2, WAnswers(p)), Fighting(p, q, w, v)
  PROVE  Goes(p, q, w, v, q2, w2, u)
<1>1. Fighting(p, q2, w2, u)
  BY QClasses, WClasses DEF Fighting, Alike, SameWorld, SameQueue
<1>2. Moves(Seat(p, w, v), Seat(p, w2, u))
  BY <1>1, SeatSame DEF Fighting
<1> QED BY <1>1, <1>2 DEF Goes, Phase

LEMMA ToldSame ==
  ASSUME NEW p, NEW q, NEW w, NEW v, NEW q2, NEW w2, NEW u, SameWorld(v, u), SameQueue(v, u),
         u.events = v.events,
         Alike(q, q2, QAbout(p)), Alike(w, w2, WAbout(p)), Told(p, q, w, v)
  PROVE  Goes(p, q, w, v, q2, w2, u)
<1>1. Offer(u) = Offer(v) /\ u.stamp = v.stamp /\ u.invited = v.invited
  BY DEF Offer, SameQueue
<1>2. Told(p, q2, w2, u)
  BY <1>1, QClasses, WClassesAll DEF Told, Alike, SameWorld
<1>3. Moves(Seat(p, w, v), Seat(p, w2, u))
  BY <1>2, SeatSame DEF Told
<1> QED BY <1>2, <1>3 DEF Goes, Phase

LEMMA QueuedSame ==
  ASSUME NEW p, NEW q, NEW w, NEW v, NEW q2, NEW w2, NEW u, SameWorld(v, u), SameQueue(v, u),
         u.events = v.events,
         Alike(q, q2, QAbout(p)), Alike(w, w2, WAbout(p)), Queued(p, q, w, v)
  PROVE  Goes(p, q, w, v, q2, w2, u)
<1>1. Offer(u) = Offer(v) /\ u.stamp = v.stamp /\ u.invited = v.invited
  BY DEF Offer, SameQueue
<1>2. Remembered(p, q, w, v) => Remembered(p, q2, w2, u)
  BY <1>1, QClasses, WClassesAll DEF Remembered, Alike
<1>3. Queued(p, q2, w2, u)
  BY <1>1, <1>2, QClasses, WClassesAll DEF Queued, Alike, SameWorld
<1>4. Moves(Seat(p, w, v), Seat(p, w2, u))
  BY <1>3, SeatSame DEF Queued
<1> QED BY <1>3, <1>4 DEF Goes, Phase

LEMMA Untouched ==
  ASSUME NEW p, NEW q, NEW w, NEW v, NEW q2, NEW w2, NEW u, SameWorld(v, u), SameQueue(v, u),
         u.events = v.events,
         Alike(q, q2, QAbout(p)), Alike(w, w2, WAbout(p)), Phase(p, q, w, v)
  PROVE  Goes(p, q, w, v, q2, w2, u)
<1>1. Alike(q, q2, QAnswers(p)) /\ Alike(w, w2, WAnswers(p))
  BY Narrower
<1> QED BY <1>1, RestingSame, AskingSame, EnteringSame, LeavingSame, FightingSame, ToldSame, QueuedSame
        DEF Phase

(* What p asks for, and what the world does with him.  Free: no answer is  *)
(* under way.                                                              *)
Free(p, q, w) ==
    /\ ~Has(q, Joins(p)) /\ ~Has(q, Ports(p))
    /\ ~Has(w, Joineds(p)) /\ ~Has(w, EntersOf(p)) /\ ~Has(w, Lefts(p))

LEMMA FreePhase ==
  ASSUME NEW p, NEW q, NEW w, NEW v, Phase(p, q, w, v), Free(p, q, w)
  PROVE  Resting(p, q, w, v) \/ Queued(p, q, w, v) \/ Fighting(p, q, w, v)
BY DEF Phase, Free, Asking, Told, Entering, EnteringGame, Leaving

LEMMA SlotPhase ==
  ASSUME NEW p, NEW q, NEW w, NEW v \in Views, Phase(p, q, w, v)
  PROVE  /\ Resting(p, q, w, v) => v.slot = NotQueued
         /\ Queued(p, q, w, v) => v.slot # NotQueued
         /\ Fighting(p, q, w, v) => v.slot # NotQueued
<1>1. v.invited \in Games \cup {NoGame} /\ v.bg \in Games \cup {NoGame}
  BY DEF Views
<1> QED BY <1>1, TeamFacts DEF Resting, Queued, Fighting

LEMMA Asks ==
  ASSUME NEW p, NEW q, NEW w, NEW v \in Views, Phase(p, q, w, v), Free(p, q, w),
         v.here, v.online, v.slot = NotQueued, NEW m \in Joins(p), NEW q2, Posts(q, q2, m, QAbout(p))
  PROVE  Goes(p, q, w, v, q2, w, v)
<1>1. Resting(p, q, w, v)
  BY FreePhase, SlotPhase
<1>2. m \notin Ports(p) /\ m \notin Removes(p)
  BY QKinds
<1>3. Asking(p, q2, w, v)
  BY <1>1, <1>2, QClasses DEF Resting, Asking, Posts, Free
<1> QED BY <1>3 DEF Goes, Phase, Moves

LEMMA Answers ==
  ASSUME NEW p, NEW q, NEW w, NEW v \in Views, Phase(p, q, w, v), Free(p, q, w),
         v.slot # NotQueued, NEW m \in Ports(p), NEW q2, Posts(q, q2, m, QAbout(p))
  PROVE  Goes(p, q, w, v, q2, w, v)
<1>1. Queued(p, q, w, v) \/ Fighting(p, q, w, v)
  BY FreePhase, SlotPhase
<1>2. m \notin Joins(p) /\ m \notin Removes(p)
  BY QKinds
<1>3. CASE Queued(p, q, w, v)
  <2>1. Remembered(p, q, w, v) => Remembered(p, q2, w, v)
    BY QClasses DEF Remembered, Posts
  <2>2. Queued(p, q2, w, v)
    BY <1>2, <1>3, <2>1, QClasses DEF Queued, Posts, Free
  <2> QED BY <2>2 DEF Goes, Phase, Moves
<1>4. CASE Fighting(p, q, w, v)
  <2>1. Fighting(p, q2, w, v)
    BY <1>2, <1>4, QClasses DEF Fighting, Posts
  <2> QED BY <2>1 DEF Goes, Phase, Moves
<1> QED BY <1>1, <1>3, <1>4

\* In the world and in a battleground.
LEMMA InBattle ==
  ASSUME NEW p, NEW q, NEW w, NEW v, Phase(p, q, w, v), v.online, v.bg # NoGame
  PROVE  Fighting(p, q, w, v)
BY DEF Phase, Resting, Asking, Told, Queued, Entering, EnteringGame, Leaving

\* He leaves the battleground.
LEMMA Retires ==
  ASSUME NEW p, NEW q, NEW w, NEW v, Fighting(p, q, w, v), NEW q2, Alike(q, q2, QAbout(p)),
         NEW u, u.slot = NotQueued, u.bg = NoGame, SameQueue(v, u)
  PROVE  Goes(p, q, w, v, q2, w, u)
<1>1. Alike(q, q2, QAnswers(p))
  BY Narrower
<1>2. Resting(p, q2, w, u)
  BY <1>1, QClasses DEF Resting, Fighting, Alike, SameQueue
<1>3. Seat(p, w, u) = At("idle", NoGame)
  BY SeatIs DEF Fighting, SameQueue
<1> QED BY <1>2, <1>3 DEF Goes, Phase, Moves

\* He changes maps outside the battlegrounds.
LEMMA Travels ==
  ASSUME NEW p, NEW q, NEW w, NEW v \in Views, Phase(p, q, w, v), Free(p, q, w),
         v.slot = NotQueued, v.bg = NoGame, NEW u, SameQueue(v, u),
         u.slot = v.slot, u.bg = v.bg
  PROVE  Goes(p, q, w, v, q, w, u)
<1>1. Resting(p, q, w, v)
  BY FreePhase, SlotPhase
<1>2. Resting(p, q, w, u)
  BY <1>1 DEF Resting, SameQueue
<1>3. Seat(p, w, u) = Seat(p, w, v)
  BY <1>1, SeatIs DEF Resting, SameQueue
<1> QED BY <1>2, <1>3 DEF Goes, Phase, Moves

\* He arrives: on the list of the battleground, if it is one.
LEMMA Arrives ==
  ASSUME NEW p, NEW q, NEW w, NEW v, Phase(p, q, w, v), v.online, ~v.here,
         NEW u, SameQueue(v, u), u.slot = v.slot, u.bg = v.bg, u.online,
         v.bg # NoGame /\ v.slot = v.bg => u.inside
  PROVE  Goes(p, q, w, v, q, w, u)
<1>1. Resting(p, q, w, v) \/ Fighting(p, q, w, v)
  BY DEF Phase, Asking, Told, Queued, Entering, EnteringGame, Leaving
<1>2. CASE Resting(p, q, w, v)
  <2>1. v.bg = NoGame
    BY <1>2 DEF Resting
  <2>2. Resting(p, q, w, u)
    BY <1>2, <2>1 DEF Resting, SameQueue
  <2>3. Seat(p, w, u) = Seat(p, w, v)
    BY <1>2, <2>1, SeatIs DEF Resting, SameQueue
  <2> QED BY <2>2, <2>3 DEF Goes, Phase, Moves
<1>3. CASE Fighting(p, q, w, v)
  <2>1. Fighting(p, q, w, u)
    BY <1>3 DEF Fighting, SameQueue
  <2>2. Seat(p, w, u) = Seat(p, w, v)
    BY <1>3, <2>1, SeatIs DEF Fighting
  <2> QED BY <2>1, <2>2 DEF Goes, Phase, Moves
<1> QED BY <1>1, <1>2, <1>3

\* He logs out: a battleground keeps him, the queue is told.
LEMMA LogsOut ==
  ASSUME NEW p, NEW q, NEW w, NEW v \in Views, Phase(p, q, w, v), Free(p, q, w), v.online,
         NEW u, SameQueue(v, u), ~u.online, u.slot = NotQueued, u.bg = v.bg, v.bg # NoGame => u.inside,
         NEW q2, IF v.slot = NotQueued THEN q2 = q ELSE \E m \in Removes(p) : Posts(q, q2, m, QAbout(p))
  PROVE  Goes(p, q, w, v, q2, w, u)
<1>1. Resting(p, q, w, v) \/ Queued(p, q, w, v) \/ Fighting(p, q, w, v)
  BY FreePhase
<1>2. CASE Resting(p, q, w, v)
  <2>1. v.slot = NotQueued /\ q2 = q /\ v.bg = NoGame
    BY <1>2 DEF Resting
  <2>2. Resting(p, q2, w, u)
    BY <1>2, <2>1 DEF Resting, SameQueue
  <2>3. Seat(p, w, u) = Seat(p, w, v)
    BY <1>2, <2>1, SeatIs DEF Resting, SameQueue
  <2> QED BY <2>2, <2>3 DEF Goes, Phase, Moves
<1>3. CASE Queued(p, q, w, v) \/ Fighting(p, q, w, v)
  <2>1. v.slot # NotQueued
    BY <1>3, SlotPhase
  <2>2. PICK m \in Removes(p) : Posts(q, q2, m, QAbout(p))
    BY <2>1
  <2>3. m \notin Joins(p) /\ m \notin Ports(p)
    BY <2>2, QKinds
  <2>4. Has(q2, Removes(p)) /\ ~Has(q2, Joins(p)) /\ ~Has(q2, Ports(p))
    BY <2>2, <2>3, QClasses DEF Posts, Free
  <2>5. CASE Queued(p, q, w, v)
    <3>1. Resting(p, q2, w, u)
      BY <2>4, <2>5 DEF Resting, Queued, SameQueue
    <3>2. Seat(p, w, u) = Seat(p, w, v)
      BY <2>5, SeatIs DEF Queued, SameQueue
    <3> QED BY <3>1, <3>2 DEF Goes, Phase, Moves
  <2>6. CASE Fighting(p, q, w, v)
    <3>1. Resting(p, q2, w, u)
      BY <2>4, <2>6 DEF Resting, Fighting, SameQueue
    <3>2. Seat(p, w, u) = Seat(p, w, v)
      BY <2>6, SeatIs DEF Fighting
    <3> QED BY <3>1, <3>2 DEF Goes, Phase, Moves
  <2> QED BY <1>3, <2>5, <2>6
<1> QED BY <1>1, <1>2, <1>3

\* Only one who rests may be out of the world.
LEMMA Offline ==
  ASSUME NEW p, NEW q, NEW w, NEW v \in Views, Phase(p, q, w, v), ~v.online, v.here => v.online
  PROVE  Resting(p, q, w, v)
BY DEF Phase, Asking, Told, Queued, Entering, EnteringGame, Leaving, Fighting

\* He logs in, back into the battleground or not.
LEMMA LogsIn ==
  ASSUME NEW p, NEW q, NEW w, NEW v, Resting(p, q, w, v), ~v.online,
         NEW q2, Alike(q, q2, QAbout(p)), NEW u, SameQueue(v, u), u.online,
         \/ v.bg # NoGame /\ u.bg = v.bg /\ u.slot = v.bg /\ u.inside /\ v.inside
         \/ u.bg = NoGame /\ u.slot = NotQueued
  PROVE  Goes(p, q, w, v, q2, w, u)
<1>1. Alike(q, q2, QAnswers(p))
  BY Narrower
<1>2. CASE v.bg # NoGame /\ u.bg = v.bg /\ u.slot = v.bg /\ u.inside /\ v.inside
  <2>1. Fighting(p, q2, w, u)
    BY <1>1, <1>2, QClasses DEF Resting, Fighting, Alike, SameQueue
  <2>2. Seat(p, w, u) = Seat(p, w, v)
    BY <1>2, SeatIs
  <2> QED BY <2>1, <2>2 DEF Goes, Phase, Moves
<1>3. CASE u.bg = NoGame /\ u.slot = NotQueued
  <2>1. Resting(p, q2, w, u)
    BY <1>1, <1>3, QClasses DEF Resting, Alike, SameQueue
  <2>2. CASE v.bg = NoGame
    <3>1. Seat(p, w, u) = Seat(p, w, v)
      BY <1>3, <2>2, SeatIs DEF Resting, SameQueue
    <3> QED BY <2>1, <3>1 DEF Goes, Phase, Moves
  <2>3. CASE v.bg # NoGame
    <3>1. Seat(p, w, u) = At("idle", NoGame)
      BY <1>3, <2>3, SeatIs DEF Resting, SameQueue
    <3> QED BY <2>1, <3>1 DEF Goes, Phase, Moves
  <2> QED BY <2>2, <2>3
<1> QED BY <1>2, <1>3

\* A battleground takes him off its list while he is not in the world.
LEMMA Forgotten ==
  ASSUME NEW p, NEW q, NEW w, NEW v \in Views, Phase(p, q, w, v), ~v.here, v.bg # NoGame,
         NEW q2, Alike(q, q2, QAbout(p)), NEW u, SameQueue(v, u),
         u.online = v.online, u.here = v.here, u.slot = v.slot, u.bg = v.bg, ~u.inside
  PROVE  Goes(p, q, w, v, q2, w, u)
<1>1. Alike(q, q2, QAnswers(p))
  BY Narrower
<1>2. CASE v.online
  <2>1. Fighting(p, q, w, v)
    BY <1>2, InBattle
  <2>2. Fighting(p, q2, w, u)
    BY <1>1, <2>1, QClasses DEF Fighting, Alike, SameQueue
  <2>3. Seat(p, w, u) = Seat(p, w, v)
    BY <1>2, SeatIs
  <2> QED BY <2>2, <2>3 DEF Goes, Phase, Moves
<1>3. CASE ~v.online
  <2>1. Resting(p, q, w, v)
    BY <1>3, Offline
  <2>2. Resting(p, q2, w, u)
    BY <1>1, <2>1, QClasses DEF Resting, Alike, SameQueue
  <2>3. Seat(p, w, u) = At("idle", NoGame)
    BY <1>3, <2>1, <2>2, SeatIs DEF Resting, SameQueue
  <2> QED BY <2>2, <2>3 DEF Goes, Phase, Moves
<1> QED BY <1>2, <1>3

(* What a message to the world does with p.                                *)
LEMMA HearsJoined ==
  ASSUME NEW p, NEW q, NEW w, NEW v, Phase(p, q, w, v),
         NEW m \in Joineds(p), NEW w2, Takes(w, w2, m, WAbout(p)),
         NEW u, SameQueue(v, u), v.here => u.slot = NoGame,
         u.online = v.online, u.here = v.here, u.bg = v.bg, u.inside = v.inside, u.events = v.events
  PROVE  Goes(p, q, w, v, q, w2, u)
<1>1. Has(w, Joineds(p))
  BY WClassesAll DEF Takes
<1>2. Told(p, q, w, v)
  BY <1>1 DEF Phase, Resting, Asking, Queued, Entering, EnteringGame, Leaving, Fighting
<1>3. ~Has(w2, Joineds(p)) /\ ~Has(w, Lefts(p)) /\ ~Has(w2, EntersOf(p)) /\ ~Has(w2, Lefts(p))
  BY <1>2, WClassesAll DEF Told, Takes
<1>4. ~Has(w, Older(Offers(p), v.stamp))
  BY <1>2, WClassesAll DEF Told, Takes
<1>5. Has(w, Offers(p)) => Has(w, Of(Offers(p), Offer(v)))
  BY <1>2, <1>4, SomeOf DEF Told
<1>6. ~Has(w, Offers(p) \ Of(Offers(p), Offer(v)))
  <2>1. Offers(p) \ Of(Offers(p), Offer(v)) \subseteq
          Older(Offers(p), v.stamp) \cup (Since(Offers(p), v.stamp) \ Of(Offers(p), Offer(v)))
    BY DEF Of, Older, Since
  <2> QED BY <1>2, <1>4, <2>1 DEF Told, Has
<1>7. /\ m \notin Offers(p) /\ m \notin Of(Offers(p), Offer(v))
      /\ m \notin Offers(p) \ Of(Offers(p), Offer(v))
  BY WKinds
<1>8. /\ Has(w2, Offers(p)) <=> Has(w, Offers(p))
      /\ ~Has(w2, Offers(p) \ Of(Offers(p), Offer(v)))
  BY <1>6, <1>7, WClassesAll DEF Takes
<1>9. Offer(u) = Offer(v) /\ u.slot = NoGame
  BY <1>2 DEF Offer, SameQueue, Told
<1>10. Once(q, Ports(p))
  BY <1>2 DEF Told, Once, Has
<1>11. Has(w, Of(Offers(p), Offer(v))) => Has(w, Offers(p))
  BY SomeOf
<1>12. Queued(p, q, w2, u)
  <2>1. v.invited = NoGame => ~Has(w2, Offers(p))
    BY <1>2, <1>5, <1>8 DEF Told
  <2>2. v.invited # NoGame => Has(w2, Offers(p))
    BY <1>2, <1>8, <1>11 DEF Told
  <2> QED BY <1>2, <1>3, <1>8, <1>9, <1>10, <2>1, <2>2 DEF Queued, Told, SameQueue
<1>13. Seat(p, w2, u) = Seat(p, w, v)
  BY <1>2, <1>3, SeatIs DEF Told, SameQueue
<1> QED BY <1>12, <1>13 DEF Goes, Phase, Moves

LEMMA HearsOffer ==
  ASSUME NEW p, NEW q, NEW w, NEW v \in Views, Phase(p, q, w, v), v.here => v.online,
         NEW m \in Offers(p), m.event \in Invites, NEW w2, Takes(w, w2, m, WAbout(p)),
         NEW u, SameQueue(v, u),
         u.slot = IF ~v.here \/ v.slot = NotQueued THEN v.slot ELSE m.event.game,
         u.events = IF v.here THEN v.events \cup {m.event} ELSE v.events,
         u.online = v.online, u.here = v.here, u.bg = v.bg, u.inside = v.inside
  PROVE  Goes(p, q, w, v, q, w2, u)
<1>1. Has(w, Offers(p))
  BY WClassesAll DEF Takes
<1>2. m \notin Joineds(p) /\ m \notin EntersOf(p) /\ m \notin Lefts(p) /\ m \notin Expiries(p)
  BY WKinds
<1>3. /\ Has(w2, Joineds(p)) <=> Has(w, Joineds(p))
      /\ Has(w2, EntersOf(p)) <=> Has(w, EntersOf(p))
      /\ Has(w2, Lefts(p)) <=> Has(w, Lefts(p))
      /\ Has(w2, Offers(p)) => Has(w, Offers(p))
  BY <1>2, WClassesAll DEF Takes
<1>4. CASE Resting(p, q, w, v)
  <2>1. u.slot = NotQueued
    BY <1>4 DEF Resting
  <2>2. Resting(p, q, w2, u)
    BY <1>3, <1>4, <2>1 DEF Resting, SameQueue
  <2>3. Moves(Seat(p, w, v), Seat(p, w2, u))
    BY <1>4, <2>1, <2>2, SeatSame DEF Resting, SameWorld
  <2> QED BY <2>2, <2>3 DEF Goes, Phase
<1>5. CASE Asking(p, q, w, v)
  <2>1. u.slot = NotQueued
    BY <1>5 DEF Asking
  <2>2. Asking(p, q, w2, u)
    BY <1>3, <1>5, <2>1 DEF Asking, SameQueue
  <2>3. Moves(Seat(p, w, v), Seat(p, w2, u))
    BY <1>5, <2>1, <2>2, SeatSame DEF Asking, SameWorld
  <2> QED BY <2>2, <2>3 DEF Goes, Phase
<1>6. CASE Told(p, q, w, v)
  <2>1. u.slot = NotQueued /\ u.stamp = v.stamp /\ u.invited = v.invited /\ Offer(u) = Offer(v)
    BY <1>6 DEF Told, SameQueue, Offer
  <2>2. m \notin Since(Offers(p), v.stamp)
    BY <1>6, WClassesAll DEF Told, Takes
  <2>3. m.event.stamp < v.stamp
    BY <2>2, WKinds
  <2>4. m \notin Of(Offers(p), Offer(v))
    <3>1. m.event = Offer(v) => m.event.stamp = v.stamp
      BY DEF Offer
    <3>2. v.stamp \in Nat
      BY DEF Views
    <3> QED BY <2>3, <3>1, <3>2, WKinds
  <2>5. \A e \in u.events : e.stamp < u.stamp
    BY <1>6, <2>1, <2>3 DEF Told
  <2>6. /\ Has(w2, Of(Offers(p), Offer(v))) <=> Has(w, Of(Offers(p), Offer(v)))
        /\ ~Has(w2, Since(Offers(p), v.stamp) \ Of(Offers(p), Offer(v)))
        /\ ~Has(w2, Since(Expiries(p), v.stamp))
    BY <1>6, <2>4, WClassesAll DEF Told, Takes
  <2>7. /\ Once(w2, Joineds(p)) /\ Before(w2, Lefts(p), Joineds(p))
        /\ Before(w2, Older(Offers(p), v.stamp), Joineds(p))
        /\ Before(w2, Joineds(p), Since(Offers(p), v.stamp))
    BY <1>6, WClassesAll DEF Told, Takes
  <2>8. Told(p, q, w2, u)
    BY <1>3, <1>6, <2>1, <2>5, <2>6, <2>7 DEF Told
  <2>9. Moves(Seat(p, w, v), Seat(p, w2, u))
    BY <1>6, <2>1, <2>8, SeatSame DEF Told, SameWorld
  <2> QED BY <2>8, <2>9 DEF Goes, Phase
<1>7. CASE Queued(p, q, w, v)
  <2>1. m \in Of(Offers(p), Offer(v))
    BY <1>7, WClassesAll DEF Queued, Takes
  <2>2. m.event = Offer(v)
    BY <2>1, WKinds
  <2>3. v.slot # NotQueued
    BY <1>7, SlotPhase
  <2>4. u.slot = v.invited /\ Offer(u) = Offer(v) /\ Offer(u) \in u.events
    BY <1>7, <2>2, <2>3 DEF Offer, SameQueue, Queued
  <2>5. v.invited # NoGame
    BY <1>1, <1>7 DEF Queued
  <2>6. Remembered(p, q, w2, u)
    BY <2>4 DEF Remembered
  <2>7. ~Has(w2, Offers(p) \ Of(Offers(p), Offer(v)))
    BY <1>7, WClassesAll DEF Queued, Takes
  <2>8. Queued(p, q, w2, u)
    BY <1>3, <1>7, <2>4, <2>5, <2>6, <2>7 DEF Queued, SameQueue
  <2>9. Seat(p, w2, u) = Seat(p, w, v)
    BY <1>7, <2>8, SeatIs DEF Queued, SameQueue
  <2> QED BY <2>8, <2>9 DEF Goes, Phase, Moves
<1>8. CASE Entering(p, q, w, v)
  <2>1. PICK g \in Games : EnteringGame(p, q, w, v, g)
    BY <1>8 DEF Entering
  <2>2. m \notin Elsewhere(p, g)
    BY <2>1, WClassesAll DEF EnteringGame, Takes
  <2>3. m.event.game = g
    BY <2>2, WKinds
  <2>4. u.slot = g /\ u.slot # NotQueued
    BY <2>1, <2>3, TeamFacts DEF EnteringGame
  <2>5. /\ ~Has(w2, Strays(p, g)) /\ ~Has(w2, Elsewhere(p, g))
        /\ Once(w2, EntersOf(p)) /\ Before(w2, Offers(p), EntersOf(p))
    BY <2>1, WClassesAll DEF EnteringGame, Takes
  <2>6. EnteringGame(p, q, w2, u, g)
    BY <1>3, <2>1, <2>4, <2>5 DEF EnteringGame, SameQueue
  <2>7. Moves(Seat(p, w, v), Seat(p, w2, u))
    BY <2>1, <2>6, SeatEntering DEF Moves
  <2> QED BY <2>6, <2>7 DEF Goes, Phase, Entering
<1>9. CASE Leaving(p, q, w, v)
  <2>1. u.slot # NotQueued
    <3>1. m.event.game \in Games
      BY DEF Invites
    <3> QED BY <1>9, <3>1, TeamFacts DEF Leaving
  <2>2. Before(w2, Offers(p), Lefts(p))
    BY <1>9, WClassesAll DEF Leaving, Takes
  <2>3. Leaving(p, q, w2, u)
    BY <1>3, <1>9, <2>1, <2>2 DEF Leaving, SameQueue
  <2>4. Seat(p, w2, u) = Seat(p, w, v)
    BY <1>9, <2>3, SeatIs DEF Leaving, SameQueue
  <2> QED BY <2>3, <2>4 DEF Goes, Phase, Moves
<1>10. ~Fighting(p, q, w, v)
  BY <1>1 DEF Fighting
<1> QED BY <1>4, <1>5, <1>6, <1>7, <1>8, <1>9, <1>10 DEF Phase

\* He is sent to the game he was invited to.
LEMMA IsSent ==
  ASSUME NEW p, NEW q, NEW w, NEW v, Phase(p, q, w, v), Has(w, EntersOf(p))
  PROVE  Entering(p, q, w, v) /\ v.here /\ v.bg = NoGame
<1>1. Entering(p, q, w, v)
  BY DEF Phase, Resting, Asking, Told, Queued, Leaving, Fighting
<1> QED BY <1>1 DEF Entering, EnteringGame

LEMMA HearsEnter ==
  ASSUME NEW p, NEW q, NEW w, NEW v, Phase(p, q, w, v),
         NEW m \in EntersOf(p), NEW w2, Takes(w, w2, m, WAbout(p)),
         NEW u, SameQueue(v, u), u.slot = v.slot, u.bg = m.game, u.online, ~u.here
  PROVE  Goes(p, q, w, v, q, w2, u)
<1>1. Has(w, EntersOf(p))
  BY WClassesAll DEF Takes
<1>2. PICK g \in Games : EnteringGame(p, q, w, v, g)
  BY <1>1, IsSent DEF Entering
<1>3. m \notin Strays(p, g)
  BY <1>2, WClassesAll DEF EnteringGame, Takes
<1>4. m.game = g
  BY <1>3, WKinds
<1>5. ~Has(w, Offers(p)) /\ v.slot = g
  BY <1>2, WClassesAll DEF EnteringGame, Takes
<1>6. ~Has(w2, Offers(p)) /\ ~Has(w2, EntersOf(p)) /\ ~Has(w2, Joineds(p)) /\ ~Has(w2, Lefts(p))
  BY <1>2, <1>5, WClassesAll DEF EnteringGame, Takes
<1>7. Fighting(p, q, w2, u)
  BY <1>2, <1>4, <1>5, <1>6, TeamFacts DEF EnteringGame, Fighting, SameQueue
<1>8. Seat(p, w, v) = At("battle", g)
  BY <1>2, SeatEntering
<1>9. Seat(p, w2, u) = At("battle", g)
  BY <1>4, SeatIs, TeamFacts
<1> QED BY <1>7, <1>8, <1>9 DEF Goes, Phase, Moves

LEMMA HearsLeft ==
  ASSUME NEW p, NEW q, NEW w, NEW v, Phase(p, q, w, v), v.here => v.online,
         NEW m \in Lefts(p), NEW w2, Takes(w, w2, m, WAbout(p)),
         NEW u, SameQueue(v, u), u.slot = IF v.here THEN NotQueued ELSE v.slot,
         u.online = v.online, u.here = v.here, u.bg = v.bg, u.inside = v.inside, u.events = v.events
  PROVE  Goes(p, q, w, v, q, w2, u)
<1>1. Has(w, Lefts(p))
  BY WClassesAll DEF Takes
<1>2. m \notin Joineds(p) /\ m \notin EntersOf(p) /\ m \notin Offers(p) /\ m \notin Expiries(p)
  BY WKinds
<1>3. /\ Has(w2, Joineds(p)) <=> Has(w, Joineds(p))
      /\ Has(w2, EntersOf(p)) <=> Has(w, EntersOf(p))
      /\ Has(w2, Offers(p)) <=> Has(w, Offers(p))
      /\ Has(w2, Lefts(p)) => Has(w, Lefts(p))
  BY <1>2, WClassesAll DEF Takes
<1>4. CASE Resting(p, q, w, v)
  <2>1. u.slot = NotQueued
    BY <1>4 DEF Resting
  <2>2. Resting(p, q, w2, u)
    BY <1>3, <1>4, <2>1 DEF Resting, SameQueue
  <2>3. Moves(Seat(p, w, v), Seat(p, w2, u))
    BY <1>4, <2>1, <2>2, SeatSame DEF Resting, SameWorld
  <2> QED BY <2>2, <2>3 DEF Goes, Phase
<1>5. CASE Asking(p, q, w, v)
  <2>1. u.slot = NotQueued
    BY <1>5 DEF Asking
  <2>2. Asking(p, q, w2, u)
    BY <1>3, <1>5, <2>1 DEF Asking, SameQueue
  <2>3. Moves(Seat(p, w, v), Seat(p, w2, u))
    BY <1>5, <2>1, <2>2, SeatSame DEF Asking, SameWorld
  <2> QED BY <2>2, <2>3 DEF Goes, Phase
<1>6. CASE Told(p, q, w, v)
  <2>1. u.slot = NotQueued /\ u.stamp = v.stamp /\ u.invited = v.invited /\ Offer(u) = Offer(v)
    BY <1>6 DEF Told, SameQueue, Offer
  <2>2. m \notin Of(Offers(p), Offer(v)) /\ m \notin Since(Expiries(p), v.stamp)
    BY <1>2, WKinds
  <2>3. /\ Has(w2, Of(Offers(p), Offer(v))) <=> Has(w, Of(Offers(p), Offer(v)))
        /\ ~Has(w2, Since(Offers(p), v.stamp) \ Of(Offers(p), Offer(v)))
        /\ ~Has(w2, Since(Expiries(p), v.stamp))
    BY <1>6, <2>2, WClassesAll DEF Told, Takes
  <2>4. /\ Once(w2, Joineds(p)) /\ Before(w2, Lefts(p), Joineds(p))
        /\ Before(w2, Older(Offers(p), v.stamp), Joineds(p))
        /\ Before(w2, Joineds(p), Since(Offers(p), v.stamp))
    BY <1>6, WClassesAll DEF Told, Takes
  <2>5. Told(p, q, w2, u)
    BY <1>3, <1>6, <2>1, <2>3, <2>4 DEF Told
  <2>6. Moves(Seat(p, w, v), Seat(p, w2, u))
    BY <1>6, <2>1, <2>5, SeatSame DEF Told, SameWorld
  <2> QED BY <2>5, <2>6 DEF Goes, Phase
<1>7. CASE Leaving(p, q, w, v)
  <2>1. u.slot = NotQueued
    BY <1>7 DEF Leaving
  <2>2. Resting(p, q, w2, u)
    BY <1>3, <1>7, <2>1 DEF Leaving, Resting, SameQueue
  <2>3. Seat(p, w2, u) = Seat(p, w, v)
    BY <1>3, <1>7, SeatIs DEF Leaving, SameQueue
  <2> QED BY <2>2, <2>3 DEF Goes, Phase, Moves
<1>8. ~Queued(p, q, w, v) /\ ~Entering(p, q, w, v) /\ ~Fighting(p, q, w, v)
  BY <1>1 DEF Queued, Entering, EnteringGame, Fighting
<1> QED BY <1>4, <1>5, <1>6, <1>7, <1>8 DEF Phase

\* The time of an invitation is over: he must know of it, or the queue will.
LEMMA HearsExpiry ==
  ASSUME NEW p, NEW q, NEW w, NEW v \in Views, Phase(p, q, w, v),
         NEW m \in Expiries(p), NEW w2, Takes(w, w2, m, WAbout(p)), NEW q2,
         IF v.here /\ v.slot # NotQueued
         THEN \E n \in Of(Lapses(p), m.event) : Posts(q, q2, n, QAbout(p))
         ELSE q2 = q
  PROVE  Goes(p, q, w, v, q2, w2, v)
<1>1. m \notin Joineds(p) /\ m \notin EntersOf(p) /\ m \notin Offers(p) /\ m \notin Lefts(p)
  BY WKinds
<1>2. Alike(w, w2, WAnswers(p))
  <2>1. \A K \in SUBSET WAnswers(p) : m \notin K
    BY <1>1 DEF WAnswers
  <2>2. SUBSET WAnswers(p) \subseteq SUBSET WAbout(p)
    BY DEF WAbout
  <2> QED BY <2>1, <2>2 DEF Takes, Alike
<1>3. \A n \in Lapses(p), K \in SUBSET QAnswers(p) : n \notin K
  <2>1. \A n \in Lapses(p) : n \notin QAnswers(p)
    BY QKinds DEF QAnswers
  <2> QED BY <2>1
<1>4. Alike(q, q2, QAnswers(p))
  <2>1. CASE q2 = q
    BY <2>1, AlikeSame
  <2>2. ASSUME NEW n \in Of(Lapses(p), m.event), Posts(q, q2, n, QAbout(p))
        PROVE  Alike(q, q2, QAnswers(p))
    <3>1. SUBSET QAnswers(p) \subseteq SUBSET QAbout(p)
      BY DEF QAbout
    <3>2. n \in Lapses(p)
      BY DEF Of
    <3>3. \A K \in SUBSET QAnswers(p) : n \notin K
      BY <1>3, <3>2
    <3> QED BY <2>2, <3>1, <3>3 DEF Posts, Alike
  <2> QED BY <2>1, <2>2
<1>5. SameWorld(v, v) /\ SameQueue(v, v)
  BY DEF SameWorld, SameQueue
<1>6. CASE Told(p, q, w, v)
  <2>1. q2 = q
    BY <1>6 DEF Told
  <2>2. m \notin Of(Offers(p), Offer(v))
    BY <1>1, WKinds
  <2>3. /\ Has(w2, Joineds(p)) /\ ~Has(w2, EntersOf(p))
        /\ Has(w2, Of(Offers(p), Offer(v))) <=> Has(w, Of(Offers(p), Offer(v)))
        /\ ~Has(w2, Since(Offers(p), v.stamp) \ Of(Offers(p), Offer(v)))
        /\ ~Has(w2, Since(Expiries(p), v.stamp))
    BY <1>1, <1>6, <2>2, WClassesAll DEF Told, Takes
  <2>4. /\ Once(w2, Joineds(p)) /\ Before(w2, Lefts(p), Joineds(p))
        /\ Before(w2, Older(Offers(p), v.stamp), Joineds(p))
        /\ Before(w2, Joineds(p), Since(Offers(p), v.stamp))
    BY <1>6, WClassesAll DEF Told, Takes
  <2>5. Told(p, q2, w2, v)
    BY <1>6, <2>1, <2>3, <2>4 DEF Told
  <2>6. Moves(Seat(p, w, v), Seat(p, w2, v))
    BY <1>5, <1>6, <2>5, SeatSame DEF Told
  <2> QED BY <2>5, <2>6 DEF Goes, Phase
<1>7. CASE Queued(p, q, w, v)
  <2>1. PICK n \in Of(Lapses(p), m.event) : Posts(q, q2, n, QAbout(p))
    BY <1>7, SlotPhase DEF Queued
  <2>2. n \in Lapses(p) /\ n.event = m.event
    BY <2>1, QKinds
  <2>3. Remembered(p, q, w, v) => Remembered(p, q2, w2, v)
    <3>1. CASE Offer(v) \in v.events
      BY <3>1 DEF Remembered
    <3>2. CASE Has(w, Of(Expiries(p), Offer(v)))
      <4>1. CASE m \in Of(Expiries(p), Offer(v))
        <5>1. n \in Of(Lapses(p), Offer(v))
          <6>1. m.event = Offer(v)
            BY <4>1, WKinds
          <6> QED BY <2>1, <6>1
        <5> QED BY <2>1, <5>1, QClasses DEF Remembered, Posts
      <4>2. CASE m \notin Of(Expiries(p), Offer(v))
        BY <3>2, <4>2, WClassesAll DEF Remembered, Takes
      <4> QED BY <4>1, <4>2
    <3>3. CASE Has(q, Of(Lapses(p), Offer(v)))
      BY <2>1, <3>3, QClasses DEF Remembered, Posts
    <3> QED BY <3>1, <3>2, <3>3 DEF Remembered
  <2>4. ~Has(w2, Offers(p) \ Of(Offers(p), Offer(v)))
    BY <1>7, WClassesAll DEF Queued, Takes
  <2>5. Queued(p, q2, w2, v)
    BY <1>2, <1>4, <1>7, <2>3, <2>4, QClasses, WClasses DEF Queued, Alike
  <2>6. Moves(Seat(p, w, v), Seat(p, w2, v))
    BY <1>5, <1>7, <2>5, SeatSame DEF Queued
  <2> QED BY <2>5, <2>6 DEF Goes, Phase
<1> QED BY <1>2, <1>4, <1>5, <1>6, <1>7, RestingSame, AskingSame, EnteringSame, LeavingSame, FightingSame
        DEF Phase

(* What a message to the queue does with p.                                *)
LEMMA JoinHeard ==
  ASSUME NEW p, NEW q, NEW w, NEW v, Phase(p, q, w, v),
         NEW m \in Joins(p), NEW q2, Takes(q, q2, m, QAbout(p))
  PROVE  Asking(p, q, w, v) /\ v.stamp = 0
<1>1. Has(q, Joins(p))
  BY QClasses DEF Takes
<1>2. Asking(p, q, w, v)
  BY <1>1 DEF Phase, Resting, Told, Queued, Entering, EnteringGame, Leaving, Fighting
<1>3. ~Has(q, Removes(p))
  BY <1>2, QClasses DEF Asking, Takes
<1> QED BY <1>2, <1>3 DEF Asking

LEMMA QueueHearsJoin ==
  ASSUME NEW p, NEW q, NEW w, NEW v, Phase(p, q, w, v),
         NEW m \in Joins(p), NEW q2, Takes(q, q2, m, QAbout(p)),
         NEW n \in Joineds(p), NEW w2, Posts(w, w2, n, WAbout(p)),
         NEW u, SameWorld(v, u), u.events = v.events, u.stamp \in Nat \ {0}, u.invited = NoGame,
         ~Has(w, Since(Offers(p), u.stamp)), ~Has(w, Since(Expiries(p), u.stamp)),
         ~Has(q, Since(Lapses(p), u.stamp)), \A e \in v.events : e.stamp < u.stamp
  PROVE  Goes(p, q, w, v, q2, w2, u)
<1>1. Asking(p, q, w, v) /\ v.stamp = 0
  BY JoinHeard
<1>2. /\ ~Has(q2, Joins(p)) /\ ~Has(q2, Ports(p)) /\ ~Has(q2, Removes(p))
      /\ ~Has(q2, Since(Lapses(p), u.stamp))
  <2>1. ~Has(q, Removes(p))
    BY <1>1, QClasses DEF Asking, Takes
  <2> QED BY <1>1, <2>1, QClasses DEF Asking, Takes
<1>3. n \notin EntersOf(p) /\ n \notin Offers(p) /\ n \notin Lefts(p) /\ n \notin Expiries(p)
  BY WKinds
<1>4. /\ n \notin Since(Offers(p), u.stamp) /\ n \notin Older(Offers(p), u.stamp)
      /\ n \notin Since(Expiries(p), u.stamp)
      /\ n \notin Since(Offers(p), u.stamp) \ Of(Offers(p), Offer(u))
      /\ n \notin Of(Offers(p), Offer(u))
  BY <1>3, WKinds
<1>5. ~Has(w, Of(Offers(p), Offer(u))) /\ ~Has(w, Since(Offers(p), u.stamp) \ Of(Offers(p), Offer(u)))
  <2>1. Of(Offers(p), Offer(u)) \subseteq Since(Offers(p), u.stamp)
    <3>1. Offer(u).stamp = u.stamp
      BY DEF Offer
    <3>2. ~(u.stamp < u.stamp)
      OBVIOUS
    <3> QED BY <3>1, <3>2 DEF Of, Since
  <2> QED BY <2>1, HasMore
<1>6. /\ ~Has(w2, EntersOf(p)) /\ Has(w2, Joineds(p)) /\ Once(w2, Joineds(p))
      /\ ~Has(w2, Since(Offers(p), u.stamp)) /\ ~Has(w2, Since(Expiries(p), u.stamp))
      /\ ~Has(w2, Since(Offers(p), u.stamp) \ Of(Offers(p), Offer(u)))
      /\ ~Has(w2, Of(Offers(p), Offer(u)))
  BY <1>1, <1>3, <1>4, <1>5, WClassesAll DEF Asking, Posts
<1>7. /\ Before(w2, Lefts(p), Joineds(p))
      /\ Before(w2, Older(Offers(p), u.stamp), Joineds(p))
  BY <1>1, <1>3, <1>4, WClassesAll DEF Asking, Posts
<1>8. Before(w2, Joineds(p), Since(Offers(p), u.stamp))
  BY <1>6, NeverBefore
<1>9. Told(p, q2, w2, u)
  BY <1>1, <1>2, <1>6, <1>7, <1>8 DEF Told, Asking, SameWorld
<1>10. Seat(p, w, v) = At("idle", NoGame)
  BY <1>1, SeatIs DEF Asking
<1>11. Seat(p, w2, u) = At("queue", NoGame)
  BY <1>9, SeatIs DEF Told
<1> QED BY <1>9, <1>10, <1>11 DEF Goes, Phase, Moves

\* Who is in the queue.
LEMMA PortHeard ==
  ASSUME NEW p, NEW q, NEW w, NEW v, Phase(p, q, w, v),
         NEW m \in Ports(p), NEW q2, Takes(q, q2, m, QAbout(p)), v.stamp # 0
  PROVE  Queued(p, q, w, v)
<1>1. Has(q, Ports(p))
  BY QClasses DEF Takes
<1> QED BY <1>1 DEF Phase, Resting, Asking, Told, Entering, EnteringGame, Leaving, Fighting

LEMMA RememberedTaken ==
  ASSUME NEW p, NEW q, NEW w, NEW v, NEW m, NEW q2, Takes(q, q2, m, QAbout(p)),
         m \notin Of(Lapses(p), Offer(v)), Remembered(p, q, w, v)
  PROVE  Remembered(p, q2, w, v)
BY QClasses DEF Remembered, Takes

LEMMA QueueIgnoresPort ==
  ASSUME NEW p, NEW q, NEW w, NEW v, Phase(p, q, w, v),
         NEW m \in Ports(p), NEW q2, Takes(q, q2, m, QAbout(p))
  PROVE  Goes(p, q, w, v, q2, w, v)
<1>1. Has(q, Ports(p))
  BY QClasses DEF Takes
<1>2. m \notin Joins(p) /\ m \notin Removes(p) /\ m \notin Lapses(p) /\ m \notin Of(Lapses(p), Offer(v))
  BY QKinds
<1>3. /\ Has(q2, Joins(p)) <=> Has(q, Joins(p))
      /\ Has(q2, Removes(p)) <=> Has(q, Removes(p))
      /\ Once(q, Ports(p)) => Once(q2, Ports(p))
  BY <1>2, QClasses DEF Takes
<1>4. CASE Resting(p, q, w, v)
  <2>1. Resting(p, q2, w, v)
    BY <1>1, <1>3, <1>4 DEF Resting
  <2> QED BY <2>1 DEF Goes, Phase, Moves
<1>5. CASE Queued(p, q, w, v)
  <2>1. Remembered(p, q, w, v) => Remembered(p, q2, w, v)
    BY <1>2, RememberedTaken
  <2>2. Queued(p, q2, w, v)
    BY <1>3, <1>5, <2>1 DEF Queued
  <2> QED BY <2>2 DEF Goes, Phase, Moves
<1>6. CASE Leaving(p, q, w, v)
  <2>1. Leaving(p, q2, w, v)
    BY <1>3, <1>6 DEF Leaving
  <2> QED BY <2>1 DEF Goes, Phase, Moves
<1>7. CASE Fighting(p, q, w, v)
  <2>1. Fighting(p, q2, w, v)
    BY <1>3, <1>7 DEF Fighting
  <2> QED BY <2>1 DEF Goes, Phase, Moves
<1>8. ~Asking(p, q, w, v) /\ ~Told(p, q, w, v) /\ ~Entering(p, q, w, v)
  BY <1>1 DEF Asking, Told, Entering, EnteringGame
<1> QED BY <1>4, <1>5, <1>6, <1>7, <1>8 DEF Phase

\* He accepts the invitation to the game g.
LEMMA QueueSends ==
  ASSUME NEW p, NEW q, NEW w, NEW v \in Views, Phase(p, q, w, v),
         NEW m \in Ports(p), NEW q2, Takes(q, q2, m, QAbout(p)),
         NEW g \in Games, v.stamp # 0, v.invited = g,
         NEW n \in EntersOf(p), n.game = g, NEW w2, Posts(w, w2, n, WAbout(p)),
         NEW u, SameWorld(v, u), u.stamp = 0
  PROVE  Goes(p, q, w, v, q2, w2, u)
<1>1. Queued(p, q, w, v)
  BY PortHeard
<1>2. m \notin Joins(p) /\ m \notin Removes(p)
  BY QKinds
<1>3. ~Has(q2, Joins(p)) /\ ~Has(q2, Ports(p)) /\ ~Has(q2, Removes(p))
  BY <1>1, <1>2, QClasses DEF Queued, Takes
<1>4. n \notin Joineds(p) /\ n \notin Offers(p) /\ n \notin Lefts(p)
  BY WKinds
<1>5. n \notin Strays(p, g) /\ n \notin Elsewhere(p, g)
  BY <1>4, WKinds
<1>6. ~Has(w, Strays(p, g))
  <2>1. Strays(p, g) \subseteq EntersOf(p)
    BY DEF Strays
  <2> QED BY <1>1, <2>1, HasMore DEF Queued
<1>7. ~Has(w, Elsewhere(p, g))
  <2>1. Elsewhere(p, g) \subseteq Offers(p) \ Of(Offers(p), Offer(v))
    <3>1. Offer(v).game = g
      BY DEF Offer
    <3> QED BY <3>1 DEF Elsewhere, Of
  <2> QED BY <1>1, <2>1, HasMore DEF Queued
<1>8. /\ ~Has(w2, Joineds(p)) /\ ~Has(w2, Lefts(p)) /\ Has(w2, EntersOf(p)) /\ Once(w2, EntersOf(p))
      /\ Has(w2, Offers(p)) <=> Has(w, Offers(p))
      /\ ~Has(w2, Strays(p, g)) /\ ~Has(w2, Elsewhere(p, g))
  BY <1>1, <1>4, <1>5, <1>6, <1>7, WClassesAll DEF Queued, Posts
<1>9. Before(w2, Offers(p), EntersOf(p))
  BY <1>1, <1>4, WClassesAll DEF Queued, Posts
<1>10. EnteringGame(p, q2, w2, u, g)
  <2>1. v.slot # NotQueued
    BY <1>1, SlotPhase
  <2>2. Has(w, Offers(p)) \/ v.slot = g
    BY <1>1, TeamFacts DEF Queued
  <2> QED BY <1>1, <1>3, <1>8, <1>9, <2>1, <2>2 DEF EnteringGame, Queued, SameWorld
<1>11. Seat(p, w2, u) = At("battle", g)
  BY <1>10, SeatEntering
<1>12. Seat(p, w, v) = At("queue", g)
  BY <1>1, SeatIs DEF Queued
<1> QED BY <1>10, <1>11, <1>12 DEF Goes, Phase, Entering, Moves

\* He is taken out of the queue, and told so.
LEMMA OutOfQueue ==
  ASSUME NEW p, NEW q, NEW w, NEW v \in Views, Queued(p, q, w, v),
         NEW q2, ~Has(q2, Joins(p)), ~Has(q2, Removes(p)),
         NEW n \in Lefts(p), NEW w2, Posts(w, w2, n, WAbout(p)),
         NEW u, SameWorld(v, u), u.stamp = 0
  PROVE  Goes(p, q, w, v, q2, w2, u)
<1>1. n \notin Joineds(p) /\ n \notin Offers(p) /\ n \notin EntersOf(p)
  BY WKinds
<1>2. /\ ~Has(w2, Joineds(p)) /\ ~Has(w2, EntersOf(p)) /\ Has(w2, Lefts(p))
      /\ Before(w2, Offers(p), Lefts(p))
  BY <1>1, WClassesAll DEF Queued, Posts
<1>3. v.slot # NotQueued
  BY SlotPhase DEF Phase
<1>4. Leaving(p, q2, w2, u)
  BY <1>2, <1>3 DEF Leaving, Queued, SameWorld
<1>5. Seat(p, w2, u) = At("idle", NoGame)
  BY <1>4, SeatIs DEF Leaving
<1> QED BY <1>4, <1>5 DEF Goes, Phase, Moves

LEMMA QueueHearsDecline ==
  ASSUME NEW p, NEW q, NEW w, NEW v \in Views, Phase(p, q, w, v),
         NEW m \in Ports(p), NEW q2, Takes(q, q2, m, QAbout(p)), v.stamp # 0,
         NEW n \in Lefts(p), NEW w2, Posts(w, w2, n, WAbout(p)),
         NEW u, SameWorld(v, u), u.stamp = 0
  PROVE  Goes(p, q, w, v, q2, w2, u)
<1>1. Queued(p, q, w, v)
  BY PortHeard
<1>2. ~Has(q2, Joins(p)) /\ ~Has(q2, Removes(p))
  BY <1>1, QClasses DEF Queued, Takes
<1> QED BY <1>1, <1>2, OutOfQueue

\* After his logout.
LEMMA QueueHearsRemove ==
  ASSUME NEW p, NEW q, NEW w, NEW v, Phase(p, q, w, v),
         NEW m \in Removes(p), NEW q2, Takes(q, q2, m, QAbout(p)),
         NEW w2, Alike(w, w2, WAbout(p)), NEW u, SameWorld(v, u), u.stamp = 0
  PROVE  Goes(p, q, w, v, q2, w2, u)
<1>1. Has(q, Removes(p))
  BY QClasses DEF Takes
<1>2. m \notin Joins(p) /\ m \notin Ports(p)
  BY QKinds
<1>3. /\ Has(q2, Joins(p)) <=> Has(q, Joins(p))
      /\ Has(q2, Ports(p)) <=> Has(q, Ports(p))
      /\ Once(q, Joins(p)) => Once(q2, Joins(p))
      /\ Before(q, Removes(p), Joins(p)) => Before(q2, Removes(p), Joins(p))
  BY <1>2, QClasses DEF Takes
<1>4. Alike(w, w2, WAnswers(p))
  BY Narrower
<1>5. /\ Has(w2, Joineds(p)) <=> Has(w, Joineds(p))
      /\ Has(w2, EntersOf(p)) <=> Has(w, EntersOf(p))
      /\ Has(w2, Lefts(p)) <=> Has(w, Lefts(p))
      /\ Has(w2, Offers(p)) <=> Has(w, Offers(p))
  BY <1>4, WClasses DEF Alike
<1>6. CASE Resting(p, q, w, v)
  <2>1. Resting(p, q2, w2, u)
    BY <1>3, <1>5, <1>6 DEF Resting, SameWorld
  <2>2. Moves(Seat(p, w, v), Seat(p, w2, u))
    <3>1. CASE v.bg # NoGame /\ v.inside
      <4>1. Seat(p, w, v) = At("battle", v.bg) /\ Seat(p, w2, u) = At("battle", v.bg)
        BY <3>1, SeatIs DEF SameWorld
      <4> QED BY <4>1 DEF Moves
    <3>2. CASE ~(v.bg # NoGame /\ v.inside)
      <4>1. Seat(p, w2, u) = At("idle", NoGame)
        BY <2>1, <3>2, SeatIs DEF Resting, SameWorld
      <4> QED BY <4>1 DEF Moves
    <3> QED BY <3>1, <3>2
  <2> QED BY <2>1, <2>2 DEF Goes, Phase
<1>7. CASE Asking(p, q, w, v)
  <2>1. Asking(p, q2, w2, u)
    BY <1>3, <1>5, <1>7 DEF Asking, SameWorld
  <2>2. Seat(p, w2, u) = At("idle", NoGame)
    BY <2>1, SeatIs DEF Asking
  <2> QED BY <2>1, <2>2 DEF Goes, Phase, Moves
<1>8. CASE Fighting(p, q, w, v)
  <2>1. Fighting(p, q2, w2, u)
    BY <1>3, <1>5, <1>8 DEF Fighting, SameWorld
  <2>2. Seat(p, w2, u) = Seat(p, w, v)
    BY <1>8, SeatIs DEF Fighting, SameWorld
  <2> QED BY <2>1, <2>2 DEF Goes, Phase, Moves
<1>9. ~Told(p, q, w, v) /\ ~Queued(p, q, w, v) /\ ~Entering(p, q, w, v) /\ ~Leaving(p, q, w, v)
  BY <1>1 DEF Told, Queued, Entering, EnteringGame, Leaving
<1> QED BY <1>6, <1>7, <1>8, <1>9 DEF Phase

\* The time to answer is over: this concerns him.
LEMMA LapseTaken ==
  ASSUME NEW p, NEW m \in Lapses(p), NEW q, NEW q2, Takes(q, q2, m, QAbout(p))
  PROVE  Alike(q, q2, QAnswers(p))
<1>1. m \notin QAnswers(p)
  BY QKinds DEF QAnswers
<1>2. \A K \in SUBSET QAnswers(p) : m \notin K
  BY <1>1
<1>3. SUBSET QAnswers(p) \subseteq SUBSET QAbout(p)
  BY DEF QAbout
<1> QED BY <1>2, <1>3 DEF Takes, Alike

LEMMA QueueHearsLapse ==
  ASSUME NEW p, NEW q, NEW w, NEW v \in Views, Phase(p, q, w, v),
         NEW m \in Lapses(p), NEW q2, Takes(q, q2, m, QAbout(p)), m.event = Offer(v), v.stamp # 0,
         NEW n \in Lefts(p), NEW w2, Posts(w, w2, n, WAbout(p)),
         NEW u, SameWorld(v, u), u.stamp = 0
  PROVE  Goes(p, q, w, v, q2, w2, u)
<1>1. Alike(q, q2, QAnswers(p))
  BY LapseTaken
<1>2. n \notin Joineds(p) /\ n \notin Offers(p) /\ n \notin EntersOf(p)
  BY WKinds
<1>3. /\ Has(w2, Joineds(p)) <=> Has(w, Joineds(p))
      /\ Has(w2, EntersOf(p)) <=> Has(w, EntersOf(p))
      /\ Has(w2, Offers(p)) <=> Has(w, Offers(p))
  BY <1>2, WClassesAll DEF Posts
<1>4. ~Told(p, q, w, v)
  <2>1. m \notin Since(Lapses(p), v.stamp) \/ ~Told(p, q, w, v)
    BY QClasses DEF Told, Takes
  <2>2. m.event.stamp = v.stamp /\ v.stamp \in Nat
    BY DEF Offer, Views
  <2>3. m \in Since(Lapses(p), v.stamp)
    BY <2>2 DEF Since
  <2> QED BY <2>1, <2>3
<1>5. CASE Resting(p, q, w, v)
  <2>1. v.bg = NoGame
    BY <1>5 DEF Resting
  <2>2. Resting(p, q2, w2, u)
    BY <1>1, <1>3, <1>5, <2>1, QClasses DEF Resting, SameWorld, Alike
  <2>3. Seat(p, w2, u) = At("idle", NoGame)
    BY <2>1, <2>2, SeatIs DEF Resting, SameWorld
  <2> QED BY <2>2, <2>3 DEF Goes, Phase, Moves
<1>6. CASE Asking(p, q, w, v)
  <2>1. Asking(p, q2, w2, u)
    BY <1>1, <1>3, <1>6, QClasses DEF Asking, SameWorld, Alike
  <2>2. Seat(p, w2, u) = At("idle", NoGame)
    BY <2>1, SeatIs DEF Asking
  <2> QED BY <2>1, <2>2 DEF Goes, Phase, Moves
<1>7. CASE Queued(p, q, w, v)
  <2>1. ~Has(q2, Joins(p)) /\ ~Has(q2, Removes(p))
    BY <1>1, <1>7, QClasses DEF Queued, Alike
  <2> QED BY <1>7, <2>1, OutOfQueue
<1>8. ~Entering(p, q, w, v) /\ ~Leaving(p, q, w, v) /\ ~Fighting(p, q, w, v)
  BY DEF Entering, EnteringGame, Leaving, Fighting
<1> QED BY <1>4, <1>5, <1>6, <1>7, <1>8 DEF Phase

\* It does not: he has answered, or has joined again.
LEMMA QueueIgnoresLapse ==
  ASSUME NEW p, NEW q, NEW w, NEW v, Phase(p, q, w, v),
         NEW m \in Lapses(p), NEW q2, Takes(q, q2, m, QAbout(p)),
         v.stamp = 0 \/ m.event # Offer(v)
  PROVE  Goes(p, q, w, v, q2, w, v)
<1>1. Alike(q, q2, QAnswers(p))
  BY LapseTaken
<1>2. SameWorld(v, v) /\ SameQueue(v, v) /\ Alike(w, w, WAnswers(p))
  BY AlikeSame DEF SameWorld, SameQueue
<1>3. CASE Told(p, q, w, v)
  <2>1. ~Has(q2, Since(Lapses(p), v.stamp))
    BY <1>3, QClasses DEF Told, Takes
  <2>2. Told(p, q2, w, v)
    BY <1>1, <1>3, <2>1, QClasses DEF Told, Alike
  <2> QED BY <2>2 DEF Goes, Phase, Moves
<1>4. CASE Queued(p, q, w, v)
  <2>1. m \notin Of(Lapses(p), Offer(v))
    BY <1>4, QKinds DEF Queued
  <2>2. Remembered(p, q, w, v) => Remembered(p, q2, w, v)
    BY <2>1, RememberedTaken
  <2>3. Queued(p, q2, w, v)
    BY <1>1, <1>4, <2>2, QClasses DEF Queued, Alike
  <2> QED BY <2>3 DEF Goes, Phase, Moves
<1> QED BY <1>1, <1>2, <1>3, <1>4, RestingSame, AskingSame, EnteringSame, LeavingSame, FightingSame
        DEF Phase

(* Many messages are posted, of those in A only such as are in L.          *)
PostsMany(s, t, L, A) ==
    /\ \A K \in SUBSET A : /\ Has(t, K) => Has(s, K) \/ L \cap K # {}
                           /\ Has(s, K) => Has(t, K)
                           /\ Once(s, K) /\ L \cap K = {} => Once(t, K)
    /\ \A J, K \in SUBSET A : /\ Before(s, J, K) /\ L \cap J = {} => Before(t, J, K)
                              /\ ~Has(s, K) /\ L \cap J = {} => Before(t, J, K)

LEMMA PostsManyIs ==
  ASSUME NEW S, NEW s \in Seq(S), NEW t \in Seq(S), NEW A, NEW L, \A x : In(x, t) => x \notin A \/ x \in L
  PROVE  PostsMany(s, s \o t, L, A)
<1>1. PICK u : u = s \o t
  OBVIOUS
<1>2. /\ \A K : Has(u, K) <=> Has(s, K) \/ Has(t, K)
      /\ \A K : Once(s, K) /\ ~Has(t, K) => Once(u, K)
      /\ \A J, K : Before(s, J, K) /\ ~Has(t, J) => Before(u, J, K)
      /\ \A J, K : ~Has(s, K) /\ Before(t, J, K) => Before(u, J, K)
  BY <1>1, Posting
<1>3. ASSUME NEW K \in SUBSET A, L \cap K = {}
      PROVE  ~Has(t, K)
  <2>1. ASSUME NEW x \in K, In(x, t)
        PROVE  FALSE
    BY <1>3, <2>1
  <2> QED BY <2>1, HasIn
<1>4. \A K \in SUBSET A : L \cap K = {} => ~Has(t, K) /\ \A J : Before(t, K, J)
  BY <1>3, NeverBefore
<1>5. PostsMany(s, u, L, A)
  BY <1>2, <1>4 DEF PostsMany
<1> QED BY <1>1, <1>5

(* The queue invites p to the game g.                                      *)
LEMMA QueueInvites ==
  ASSUME NEW p, NEW q, NEW w, NEW v \in Views, Phase(p, q, w, v), v.stamp # 0, v.invited = NoGame,
         NEW g \in Games, NEW u, SameWorld(v, u), u.events = v.events, u.stamp = v.stamp, u.invited = g,
         NEW w2, PostsMany(w, w2, Of(Offers(p), Offer(u)), WAbout(p)), Has(w2, Of(Offers(p), Offer(u)))
  PROVE  Goes(p, q, w, v, q, w2, u)
<1> DEFINE L == Of(Offers(p), Offer(u))
<1>1. /\ L \cap Joineds(p) = {} /\ L \cap EntersOf(p) = {} /\ L \cap Lefts(p) = {}
      /\ L \cap Expiries(p) = {} /\ L \subseteq Offers(p)
  BY WKinds
<1>2. Offer(u).stamp = v.stamp /\ Offer(v).stamp = v.stamp /\ Offer(u).game = g /\ v.stamp \in Nat
  BY DEF Offer, Views
<1>3. /\ L \cap Older(Offers(p), v.stamp) = {} /\ L \cap Since(Expiries(p), v.stamp) = {}
      /\ L \cap (Since(Offers(p), v.stamp) \ L) = {}
      /\ L \cap (Offers(p) \ L) = {}
      /\ \A e : L \cap Of(Expiries(p), e) = {}
  BY <1>1, <1>2 DEF Older, Since, Of
<1>4. L \in SUBSET WAbout(p) /\ Offers(p) \ L \in SUBSET WAbout(p)
      /\ Since(Offers(p), v.stamp) \ L \in SUBSET WAbout(p)
  BY WClassesAll
<1> HIDE DEF L
<1>5. PostsMany(w, w2, L, WAbout(p)) /\ Has(w2, L)
  BY DEF L
<1>6. /\ Has(w2, Joineds(p)) <=> Has(w, Joineds(p))
      /\ Has(w2, EntersOf(p)) <=> Has(w, EntersOf(p))
      /\ Has(w2, Lefts(p)) <=> Has(w, Lefts(p))
      /\ Has(w2, Since(Expiries(p), v.stamp)) <=> Has(w, Since(Expiries(p), v.stamp))
      /\ Once(w, Joineds(p)) => Once(w2, Joineds(p))
  BY <1>1, <1>3, <1>5, WClassesAll DEF PostsMany
<1>7. CASE Resting(p, q, w, v)
  <2>1. Resting(p, q, w2, u)
    BY <1>6, <1>7 DEF Resting, SameWorld
  <2>2. Seat(p, w, v) = At("queue", NoGame) /\ Seat(p, w2, u) = At("queue", g)
    BY <1>7, <2>1, SeatIs DEF Resting
  <2> QED BY <2>1, <2>2 DEF Goes, Phase, Moves
<1>8. CASE Asking(p, q, w, v)
  <2>1. Asking(p, q, w2, u)
    BY <1>6, <1>8 DEF Asking, SameWorld
  <2>2. Seat(p, w, v) = At("queue", NoGame) /\ Seat(p, w2, u) = At("queue", g)
    BY <1>8, <2>1, SeatIs DEF Asking
  <2> QED BY <2>1, <2>2 DEF Goes, Phase, Moves
<1>9. CASE Told(p, q, w, v)
  <2>1. ~Has(w, Since(Offers(p), v.stamp))
    BY <1>9, SomeOf DEF Told
  <2>2. ~Has(w, Since(Offers(p), v.stamp) \ L)
    <3>1. Since(Offers(p), v.stamp) \ L \subseteq Since(Offers(p), v.stamp)
      OBVIOUS
    <3> QED BY <2>1, <3>1, HasMore
  <2>3. ~Has(w2, Since(Offers(p), v.stamp) \ L)
    BY <1>3, <1>4, <1>5, <2>2 DEF PostsMany
  <2>4. /\ Before(w2, Lefts(p), Joineds(p))
        /\ Before(w2, Older(Offers(p), v.stamp), Joineds(p))
        /\ Before(w2, Joineds(p), Since(Offers(p), v.stamp))
    BY <1>1, <1>3, <1>5, <1>9, <2>1, WClassesAll DEF Told, PostsMany
  <2>5. g # NoGame
    BY TeamFacts
  <2>6. Told(p, q, w2, u)
    BY <1>5, <1>6, <1>9, <2>3, <2>4, <2>5 DEF Told, SameWorld, L
  <2>7. Seat(p, w, v) = At("queue", NoGame) /\ Seat(p, w2, u) = At("queue", g)
    BY <1>9, <2>6, SeatIs DEF Told
  <2> QED BY <2>6, <2>7 DEF Goes, Phase, Moves
<1>10. CASE Queued(p, q, w, v)
  <2>1. ~Has(w, Offers(p)) /\ v.slot = NoGame
    BY <1>10 DEF Queued
  <2>2. ~Has(w, Offers(p) \ L)
    <3>1. Offers(p) \ L \subseteq Offers(p)
      OBVIOUS
    <3> QED BY <2>1, <3>1, HasMore
  <2>3. ~Has(w2, Offers(p) \ L)
    BY <1>3, <1>4, <1>5, <2>2 DEF PostsMany
  <2>4. Has(w2, Offers(p))
    BY <1>1, <1>5, HasMore
  <2>5. g # NoGame
    BY TeamFacts
  <2>6. Queued(p, q, w2, u)
    BY <1>6, <1>10, <2>1, <2>3, <2>4, <2>5 DEF Queued, SameWorld, L
  <2>7. Seat(p, w, v) = At("queue", NoGame) /\ Seat(p, w2, u) = At("queue", g)
    BY <1>10, <2>6, SeatIs DEF Queued
  <2> QED BY <2>6, <2>7 DEF Goes, Phase, Moves
<1>11. ~Entering(p, q, w, v) /\ ~Leaving(p, q, w, v) /\ ~Fighting(p, q, w, v)
  BY DEF Entering, EnteringGame, Leaving, Fighting
<1> QED BY <1>7, <1>8, <1>9, <1>10, <1>11 DEF Phase

-----------------------------------------------------------------------------
(* What the properties take from the phases.                               *)
LEMMA AtRest ==
  ASSUME NEW p, NEW q, NEW w, NEW v \in Views, Phase(p, q, w, v), \A K : ~Has(q, K) /\ ~Has(w, K)
  PROVE  /\ v.online => IF Seat(p, w, v).in = "idle" THEN v.slot = NotQueued
                        ELSE v.slot = Seat(p, w, v).game
         /\ v.stamp # 0 /\ v.invited # NoGame => Offer(v) \in v.events
<1>1. \A in, g : At(in, g).in = in /\ At(in, g).game = g
  BY DEF At
<1>2. CASE Resting(p, q, w, v)
  <2>1. v.stamp = 0
    BY <1>2 DEF Resting
  <2>2. v.online => Seat(p, w, v) = At("idle", NoGame)
    BY <1>2, <2>1, SeatIs DEF Resting
  <2> QED BY <1>1, <1>2, <2>1, <2>2 DEF Resting
<1>3. CASE Queued(p, q, w, v)
  <2>1. Seat(p, w, v) = At("queue", v.invited)
    BY <1>3, SeatIs DEF Queued
  <2>2. v.slot = v.invited
    BY <1>3 DEF Queued
  <2>3. v.invited # NoGame => Offer(v) \in v.events
    BY <1>3 DEF Queued, Remembered
  <2> QED BY <1>1, <2>1, <2>2, <2>3
<1>4. CASE Fighting(p, q, w, v)
  <2>1. Seat(p, w, v) = At("battle", v.bg)
    BY <1>4, SeatIs DEF Fighting
  <2> QED BY <1>1, <1>4, <2>1 DEF Fighting
<1>5. ~Asking(p, q, w, v) /\ ~Told(p, q, w, v) /\ ~Entering(p, q, w, v) /\ ~Leaving(p, q, w, v)
  BY DEF Asking, Told, Entering, EnteringGame, Leaving
<1> QED BY <1>2, <1>3, <1>4, <1>5 DEF Phase

-----------------------------------------------------------------------------
(* The steps of the program, as a player sees them.                        *)
Stepped(p) == Goes(p, toQueue, toWorld, View(p), toQueue', toWorld', View(p)')

LEMMA Person ==
  ASSUME BgInv, NEW p \in Steady, NEW v, v = View(p)
  PROVE  /\ p \in Players /\ p \notin Hasty /\ v \in Views /\ Phase(p, toQueue, toWorld, v)
         /\ v.online <=> p \in online
         /\ v.here <=> InWorld(p)
         /\ v.here => v.online
         /\ v.slot = slot[p] /\ v.bg = bgId[p] /\ v.events = events[p] /\ v.stamp = queuedPlayers[p]
         /\ v.inside <=> bgId[p] # NoGame /\ p \in game[bgId[p]].inside
         /\ v.stamp # 0 => v.invited = GroupOf(p).invitedTo
         /\ v.stamp = 0 => v.invited = NoGame
<1>1. p \in Players /\ p \notin Hasty
  BY DEF Steady
<1>2. InQueue(p) => GroupOf(p).invitedTo \in Games \cup {NoGame}
  BY <1>1, GroupIs DEF BgInv, EntryInv, QueueInv
<1>3. /\ slot[p] \in Games \cup {NoGame, NotQueued} /\ bgId[p] \in Games \cup {NoGame}
      /\ events[p] \in SUBSET Invites /\ queuedPlayers[p] \in Nat
  BY <1>1 DEF BgInv, EntryInv, TypeInv, PlayersType, QueueType
<1>4. v \in Views
  <2>1. PICK i : i = IF InQueue(p) THEN GroupOf(p).invitedTo ELSE NoGame
    OBVIOUS
  <2>2. i \in Games \cup {NoGame}
    BY <1>2, <2>1
  <2>3. v = [online |-> p \in online, here |-> p \in online \ far, slot |-> slot[p], bg |-> bgId[p],
             inside |-> bgId[p] # NoGame /\ p \in game[bgId[p]].inside, events |-> events[p],
             stamp |-> queuedPlayers[p], invited |-> i]
    BY <2>1 DEF View, InWorld
  <2> QED BY <1>3, <2>2, <2>3 DEF Views
<1>5. Phase(p, toQueue, toWorld, v)
  BY DEF BgInv, PlayerInv, PhaseInv
<1>6. /\ v.online <=> p \in online
      /\ v.here <=> InWorld(p)
      /\ v.inside <=> bgId[p] # NoGame /\ p \in game[bgId[p]].inside
  BY DEF View
<1>7. /\ v.slot = slot[p] /\ v.bg = bgId[p] /\ v.events = events[p] /\ v.stamp = queuedPlayers[p]
      /\ v.stamp # 0 => v.invited = GroupOf(p).invitedTo
      /\ v.stamp = 0 => v.invited = NoGame
  BY DEF View, InQueue
<1>8. InWorld(p) => p \in online
  BY DEF InWorld
<1> QED BY <1>1, <1>4, <1>5, <1>6, <1>7, <1>8

LEMMA PersonNext ==
  ASSUME NEW p, NEW u, u = View(p)'
  PROVE  /\ u.online <=> p \in online'
         /\ u.here <=> p \in online' /\ p \notin far'
         /\ u.slot = slot'[p] /\ u.bg = bgId'[p] /\ u.events = events'[p] /\ u.stamp = queuedPlayers'[p]
         /\ u.inside <=> bgId'[p] # NoGame /\ p \in game'[bgId'[p]].inside
         /\ u.stamp # 0 => u.invited = queuedGroups'[queuedPlayers'[p]].invitedTo
         /\ u.stamp = 0 => u.invited = NoGame
<1>1. /\ u.online <=> p \in online'
      /\ u.here <=> p \in online' /\ p \notin far'
      /\ u.inside <=> bgId'[p] # NoGame /\ p \in game'[bgId'[p]].inside
  BY DEF View, InWorld
<1>2. /\ u.slot = slot'[p] /\ u.bg = bgId'[p] /\ u.events = events'[p] /\ u.stamp = queuedPlayers'[p]
      /\ u.stamp # 0 => u.invited = queuedGroups'[queuedPlayers'[p]].invitedTo
      /\ u.stamp = 0 => u.invited = NoGame
  BY DEF View, InQueue, GroupOf
<1> QED BY <1>1, <1>2

LEMMA ViewSame ==
  ASSUME NEW p, UNCHANGED <<playerVars, game, queuedPlayers, queuedGroups>>
  PROVE  View(p)' = View(p)
BY DEF View, playerVars, InWorld, InQueue, GroupOf

\* A step of the world leaves alone what the queue has of him.
LEMMA QueueSideSame ==
  ASSUME NEW p, UNCHANGED queueVars
  PROVE  SameQueue(View(p), View(p)')
BY DEF View, SameQueue, queueVars, InQueue, GroupOf

LEMMA WorldSideSame ==
  ASSUME NEW p, slot'[p] = slot[p], bgId'[p] = bgId[p], events'[p] = events[p],
         p \in online' <=> p \in online, p \in far' <=> p \in far,
         bgId[p] # NoGame => (p \in game'[bgId[p]].inside <=> p \in game[bgId[p]].inside)
  PROVE  SameWorld(View(p), View(p)') /\ View(p).events = View(p)'.events
<1>1. PICK v, u : v = View(p) /\ u = View(p)'
  OBVIOUS
<1>2. u.slot = v.slot /\ u.bg = v.bg /\ u.events = v.events
  BY <1>1 DEF View
<1>3. u.online = v.online
  BY <1>1 DEF View
<1>4. u.here = v.here
  BY <1>1 DEF View, InWorld
<1>5. u.inside = v.inside
  BY <1>1 DEF View
<1> QED BY <1>1, <1>2, <1>3, <1>4, <1>5 DEF SameWorld

\* Nothing about him happens.
LEMMA NotConcerned ==
  ASSUME BgInv, NEW p \in Steady, UNCHANGED queueVars,
         slot'[p] = slot[p], bgId'[p] = bgId[p], events'[p] = events[p],
         p \in online' <=> p \in online, p \in far' <=> p \in far,
         bgId[p] # NoGame => (p \in game'[bgId[p]].inside <=> p \in game[bgId[p]].inside),
         Alike(toQueue, toQueue', QAbout(p)), Alike(toWorld, toWorld', WAbout(p))
  PROVE  Stepped(p)
<1>1. PICK v, u : v = View(p) /\ u = View(p)'
  OBVIOUS
<1>2. Phase(p, toQueue, toWorld, v)
  BY <1>1, Person
<1>3. SameWorld(v, u) /\ u.events = v.events /\ SameQueue(v, u)
  BY <1>1, WorldSideSame, QueueSideSame
<1> QED BY <1>1, <1>2, <1>3, Untouched DEF Stepped

LEMMA FreeIs ==
  ASSUME TypeInv, NEW p, ~Unanswered(p)
  PROVE  Free(p, toQueue, toWorld)
<1>1. \A i \in DOMAIN toQueue : toQueue[i] \notin Joins(p) /\ toQueue[i] \notin Ports(p)
  BY DEF Unanswered, Range, Joins, Ports
<1>2. \A i \in DOMAIN toWorld : /\ toWorld[i] \notin Joineds(p) /\ toWorld[i] \notin EntersOf(p)
                                /\ toWorld[i] \notin Lefts(p)
  BY DEF Unanswered, Range, Joineds, EntersOf, Lefts
<1> QED BY <1>1, <1>2 DEF Free, Has

(* Messages about no player.                                               *)
Quietly == \E t \in Seq(QueueMessages) :
    /\ toQueue' = toQueue \o t
    /\ \A m : In(m, t) => m.type \notin {"join", "port", "remove", "expire"}

LEMMA NotAbout ==
  ASSUME NEW m, m.type \notin {"join", "port", "remove", "expire"}
  PROVE  (\A p : m \notin QAbout(p)) /\ (\A n : m \notin LateQ(n))
BY DEF QAbout, QAnswers, Joins, Ports, Removes, Lapses, LateQ

LEMMA QuietlyIs ==
  ASSUME TypeInv, Quietly
  PROVE  /\ \A p : Alike(toQueue, toQueue', QAbout(p))
         /\ \A n : ~Has(toQueue, LateQ(n)) => ~Has(toQueue', LateQ(n))
<1>1. PICK t \in Seq(QueueMessages) :
          /\ toQueue' = toQueue \o t
          /\ \A m : In(m, t) => m.type \notin {"join", "port", "remove", "expire"}
  BY DEF Quietly
<1>2. toQueue \in Seq(QueueMessages)
  BY DEF TypeInv, MessagesType
<1>3. \A p : ~Has(t, QAbout(p))
  BY <1>1, NotAbout, HasIn
<1>4. \A n : ~Has(t, LateQ(n))
  BY <1>1, NotAbout, HasIn
<1>5. \A p : Alike(toQueue, toQueue \o t, QAbout(p))
  BY <1>2, <1>3, AlikePosted
<1>6. \A K : Has(toQueue \o t, K) <=> Has(toQueue, K) \/ Has(t, K)
  BY <1>2, Posting
<1> QED BY <1>1, <1>4, <1>5, <1>6

LEMMA NothingIsQuiet ==
  ASSUME TypeInv, UNCHANGED toQueue
  PROVE  Quietly
<1>1. toQueue \in Seq(QueueMessages)
  BY DEF TypeInv, MessagesType
<1>2. << >> \in Seq(QueueMessages) /\ toQueue' = toQueue \o << >> /\ \A m : ~In(m, << >>)
  BY <1>1 DEF In
<1> QED BY <1>2 DEF Quietly

\* One such message.
LEMMA OneIsQuiet ==
  ASSUME NEW a \in QueueMessages, toQueue' = toQueue \o <<a>>,
         a.type \notin {"join", "port", "remove", "expire"}
  PROVE  Quietly
<1>1. <<a>> \in Seq(QueueMessages) /\ \A m : In(m, <<a>>) => m = a
  BY DEF In
<1> QED BY <1>1 DEF Quietly

LEMMA LeaveIsQuiet ==
  ASSUME BgInv, NEW g, Exists(g), NEW p, RemovePlayerAtLeave(g, p)
  PROVE  /\ Quietly
         /\ \A h \in DOMAIN game : game'[h].inside = IF h = g THEN game[h].inside \ {p} ELSE game[h].inside
         /\ DOMAIN game' = DOMAIN game
<1>1. PICK t : t = PostsAtLeave(g, p)
  OBVIOUS
<1>2. /\ WorldPosts(t)
      /\ \A h \in DOMAIN game : game'[h].inside = IF h = g THEN game[h].inside \ {p} ELSE game[h].inside
  BY <1>1, LeavePosts DEF BgInv, EntryInv
<1>3. t \in Seq(QueueMessages) /\ toQueue' = toQueue \o t /\ DOMAIN game' = DOMAIN game
  BY <1>2 DEF WorldPosts
<1>4. \A m : In(m, t) => m.type \notin {"join", "port", "remove", "expire"}
  <2>1. CASE t = << >>
    BY <2>1 DEF In
  <2>2. ASSUME t # << >>
        PROVE  \A m : In(m, t) => m.type \in {"decrease", "add free", "schedule"}
    <3>1. PICK a, b : /\ a = IF game[g].inFreeSlots THEN [type |-> "decrease", game |-> g, team |-> TeamOf(p)]
                             ELSE AddToBgFreeSlotQueue(g, AfterLeave(g, p))
                      /\ b = [type |-> "schedule"]
      OBVIOUS
    <3>2. t = <<a, b>>
      BY <1>1, <2>2, <3>1 DEF PostsAtLeave
    <3>3. a.type \in {"decrease", "add free"} /\ b.type = "schedule"
      BY <3>1 DEF AddToBgFreeSlotQueue
    <3>4. DOMAIN t = {1, 2} /\ t[1] = a /\ t[2] = b
      BY <3>2
    <3> QED BY <3>3, <3>4 DEF In
  <2> QED BY <2>1, <2>2
<1> QED BY <1>2, <1>3, <1>4 DEF Quietly

LEMMA OneElement ==
  ASSUME NEW S, NEW a \in S
  PROVE  <<a>> \in Seq(S) /\ \A m : In(m, <<a>>) <=> m = a
BY DEF In

LEMMA EndIsQuiet ==
  ASSUME TypeInv, NEW g \in Games,
         toQueue' = toQueue \o RemovedFromBgFreeSlotQueue(g) \o SetStatus(g, FALSE)
  PROVE  Quietly
<1>1. PICK n : n = [type |-> "status", game |-> g, open |-> FALSE]
  OBVIOUS
<1>2. PICK r : r = [type |-> "remove free", game |-> g]
  OBVIOUS
<1>3. n \in QueueMessages /\ r \in QueueMessages /\ n.type = "status" /\ r.type = "remove free"
  BY <1>1, <1>2, QueueMessageIs
<1>4. PICK b : b = SetStatus(g, FALSE)
  OBVIOUS
<1>5. b = <<n>>
  BY <1>1, <1>4 DEF SetStatus
<1>6. b \in Seq(QueueMessages) /\ \A m : In(m, b) => m = n
  BY <1>3, <1>5, OneElement
<1>7. PICK a : a = RemovedFromBgFreeSlotQueue(g)
  OBVIOUS
<1>8. a = << >> \/ a = <<r>>
  BY <1>2, <1>7 DEF RemovedFromBgFreeSlotQueue
<1>9. a \in Seq(QueueMessages) /\ \A m : In(m, a) => m = r
  <2>1. CASE a = << >>
    BY <2>1 DEF In
  <2>2. CASE a = <<r>>
    BY <1>3, <2>2, OneElement
  <2> QED BY <1>8, <2>1, <2>2
<1>10. PICK t : t = a \o b
  OBVIOUS
<1>11. t \in Seq(QueueMessages) /\ \A m : In(m, t) <=> In(m, a) \/ In(m, b)
  BY <1>6, <1>9, <1>10, ConcatElements
<1>12. \A m : In(m, t) => m.type \notin {"join", "port", "remove", "expire"}
  BY <1>3, <1>6, <1>9, <1>11
<1>13. toQueue' = toQueue \o t
  <2>1. toQueue \in Seq(QueueMessages)
    BY DEF TypeInv, MessagesType
  <2>2. (toQueue \o a) \o b = toQueue \o (a \o b)
    BY <1>6, <1>9, <2>1, ConcatAssociative
  <2>3. toQueue' = (toQueue \o a) \o b
    BY <1>4, <1>7
  <2> QED BY <1>10, <2>2, <2>3
<1> QED BY <1>11, <1>12, <1>13 DEF Quietly

(* One message is posted.                                                  *)
LEMMA OnePost ==
  ASSUME NEW S, NEW s \in Seq(S), NEW m \in S, NEW t, t = Append(s, m)
  PROVE  /\ \A A : Posts(s, t, m, A)
         /\ \A A : m \notin A => Alike(s, t, A)
         /\ \A K : Has(t, K) <=> Has(s, K) \/ m \in K
<1>1. PICK u : u = <<m>>
  OBVIOUS
<1>2. u \in Seq(S) /\ \A K : Has(u, K) <=> m \in K
  BY <1>1, OneMessage
<1>3. t = s \o u
  BY <1>1, AppendIs
<1>4. \A A : Posts(s, t, m, A)
  BY <1>1, <1>3, PostsIs
<1>5. \A A : m \notin A => Alike(s, t, A)
  BY <1>2, <1>3, AlikePosted
<1>6. \A K : Has(t, K) <=> Has(s, K) \/ m \in K
  BY <1>2, <1>3, Posting
<1> QED BY <1>4, <1>5, <1>6

(* A step of the world.                                                    *)
WorldStep == UNCHANGED queueVars /\ InsideInv' /\ StampInv' /\ \A p \in Steady : Stepped(p)

LEMMA WorldStepKeeps ==
  ASSUME BgInv, WorldStep
  PROVE  PlayerInv'
<1>1. OwnGroup'
  BY DEF BgInv, PlayerInv, OwnGroup, WorldStep, queueVars
<1>2. PhaseInv'
  BY DEF WorldStep, Stepped, Goes, PhaseInv
<1> QED BY <1>1, <1>2 DEF WorldStep, PlayerInv

LEMMA StampsKept ==
  ASSUME BgInv, UNCHANGED queueVars, \A p \in Players : \A e \in events'[p] : e.stamp <= groups,
         ~Has(toWorld', LateW(groups)), ~Has(toQueue', LateQ(groups))
  PROVE  StampInv'
<1>1. groups' = groups /\ queuedPlayers' = queuedPlayers
  BY DEF queueVars
<1>2. \A p \in Players : queuedPlayers[p] <= groups
  BY DEF BgInv, PlayerInv, StampInv
<1>3. ~Has(toWorld', LateW(groups')) /\ ~Has(toQueue', LateQ(groups'))
  BY <1>1
<1>4. \A p \in Players : queuedPlayers'[p] <= groups' /\ \A e \in events'[p] : e.stamp <= groups'
  BY <1>1, <1>2
<1> QED BY <1>3, <1>4 DEF StampInv

LEMMA StampsAre ==
  ASSUME BgInv
  PROVE  /\ \A p \in Players : \A e \in events[p] : e.stamp <= groups
         /\ ~Has(toWorld, LateW(groups)) /\ ~Has(toQueue, LateQ(groups))
         /\ toQueue \in Seq(QueueMessages) /\ toWorld \in Seq(WorldMessages)
         /\ TypeInv /\ EntryInv
BY DEF BgInv, PlayerInv, StampInv, EntryInv, TypeInv, MessagesType

\* Nothing happens to the messages to the world.
LEMMA WorldAlike ==
  ASSUME UNCHANGED toWorld
  PROVE  \A A : Alike(toWorld, toWorld', A)
<1>1. \A A : Alike(toWorld, toWorld, A)
  BY AlikeSame
<1> QED BY <1>1

LEMMA QueueAlike ==
  ASSUME UNCHANGED toQueue
  PROVE  \A A : Alike(toQueue, toQueue', A)
<1>1. \A A : Alike(toQueue, toQueue, A)
  BY AlikeSame
<1> QED BY <1>1

(* The requests.                                                           *)
LEMMA JoinMoves ==
  ASSUME BgInv, NEW ps \in Parties, HandleBattlemasterJoin(ps)
  PROVE  WorldStep
<1>1. /\ toQueue' = Append(toQueue, [type |-> "join", players |-> ps])
      /\ UNCHANGED <<playerVars, game, queueVars, toWorld>>
      /\ \A p \in ps : /\ p \in online /\ slot[p] = NotQueued
                       /\ p \in Hasty \/ (InWorld(p) /\ ~Unanswered(p))
  BY DEF HandleBattlemasterJoin
<1>2. PICK m : m = [type |-> "join", players |-> ps]
  OBVIOUS
<1>3. m \in QueueMessages /\ m.type = "join" /\ m.players = ps
  BY <1>2, PartyIs, QueueMessageIs
<1>4. /\ \A A : Posts(toQueue, toQueue', m, A)
      /\ \A A : m \notin A => Alike(toQueue, toQueue', A)
      /\ \A K : Has(toQueue', K) <=> Has(toQueue, K) \/ m \in K
  <2>1. toQueue' = Append(toQueue, m) /\ toQueue \in Seq(QueueMessages)
    BY <1>1, <1>2, StampsAre
  <2> QED BY <1>3, <2>1, OnePost
<1>5. InsideInv'
  BY <1>1 DEF BgInv, PlayerInv, InsideInv, playerVars
<1>6. StampInv'
  <2>1. m \notin LateQ(groups)
    BY <1>3 DEF LateQ
  <2>2. ~Has(toQueue', LateQ(groups))
    BY <1>4, <2>1, StampsAre
  <2>3. ~Has(toWorld', LateW(groups)) /\ \A p \in Players : \A e \in events'[p] : e.stamp <= groups
    BY <1>1, StampsAre DEF playerVars
  <2> QED BY <1>1, <2>2, <2>3, StampsKept
<1>7. ASSUME NEW p \in Steady
      PROVE  Stepped(p)
  <2>1. PICK v : v = View(p)
    OBVIOUS
  <2>2. /\ v \in Views /\ Phase(p, toQueue, toWorld, v) /\ v.slot = slot[p] /\ p \notin Hasty
        /\ v.online <=> p \in online
        /\ v.here <=> InWorld(p)
    BY <2>1, Person
  <2>3. View(p)' = v
    BY <1>1, <2>1, ViewSame DEF queueVars
  <2>4. CASE p \in ps
    <3>4. InWorld(p) /\ p \in online /\ slot[p] = NotQueued /\ ~Unanswered(p)
      BY <1>1, <2>2, <2>4
    <3>5. Free(p, toQueue, toWorld)
      BY <3>4, FreeIs, StampsAre
    <3>1. Free(p, toQueue, toWorld) /\ v.here /\ v.online /\ v.slot = NotQueued
      BY <2>2, <3>4, <3>5
    <3>2. m \in Joins(p)
      BY <1>3, <2>4 DEF Joins
    <3>3. Goes(p, toQueue, toWorld, v, toQueue', toWorld, v)
      BY <1>4, <2>2, <3>1, <3>2, Asks
    <3> QED BY <1>1, <2>1, <2>3, <3>3 DEF Stepped
  <2>5. CASE p \notin ps
    <3>1. m \notin QAbout(p)
      BY <1>3, <2>5 DEF QAbout, QAnswers, Joins, Ports, Removes, Lapses
    <3>2. Alike(toQueue, toQueue', QAbout(p)) /\ Alike(toWorld, toWorld', WAbout(p))
      BY <1>1, <1>4, <3>1, WorldAlike
    <3> QED BY <1>1, <3>2, NotConcerned DEF playerVars
  <2> QED BY <2>4, <2>5
<1> QED BY <1>1, <1>5, <1>6, <1>7 DEF WorldStep

LEMMA PortMoves ==
  ASSUME BgInv, NEW x \in Players, HandleBattlefieldPort(x)
  PROVE  WorldStep
<1>1. /\ UNCHANGED <<playerVars, game, queueVars, toWorld>>
      /\ slot[x] # NotQueued /\ (x \in Hasty \/ ~Unanswered(x))
  BY DEF HandleBattlefieldPort, MayAct
<1>2. PICK b \in BOOLEAN : toQueue' = Append(toQueue, [type |-> "port", player |-> x, accept |-> b])
  BY DEF HandleBattlefieldPort
<1>3. PICK m : m = [type |-> "port", player |-> x, accept |-> b]
  OBVIOUS
<1>4. m \in QueueMessages /\ m.type = "port" /\ m.player = x
  BY <1>3, QueueMessageIs
<1>5. /\ \A A : Posts(toQueue, toQueue', m, A)
      /\ \A A : m \notin A => Alike(toQueue, toQueue', A)
      /\ \A K : Has(toQueue', K) <=> Has(toQueue, K) \/ m \in K
  <2>1. toQueue' = Append(toQueue, m) /\ toQueue \in Seq(QueueMessages)
    BY <1>2, <1>3, StampsAre
  <2> QED BY <1>4, <2>1, OnePost
<1>6. InsideInv'
  BY <1>1 DEF BgInv, PlayerInv, InsideInv, playerVars
<1>7. StampInv'
  <2>1. m \notin LateQ(groups)
    BY <1>4 DEF LateQ
  <2>2. ~Has(toQueue', LateQ(groups))
    BY <1>5, <2>1, StampsAre
  <2>3. ~Has(toWorld', LateW(groups)) /\ \A p \in Players : \A e \in events'[p] : e.stamp <= groups
    BY <1>1, StampsAre DEF playerVars
  <2> QED BY <1>1, <2>2, <2>3, StampsKept
<1>8. ASSUME NEW p \in Steady
      PROVE  Stepped(p)
  <2>1. PICK v : v = View(p)
    OBVIOUS
  <2>2. v \in Views /\ Phase(p, toQueue, toWorld, v) /\ v.slot = slot[p] /\ p \notin Hasty
    BY <2>1, Person
  <2>3. View(p)' = v
    BY <1>1, <2>1, ViewSame DEF queueVars
  <2>4. CASE p = x
    <3>1. Free(p, toQueue, toWorld) /\ v.slot # NotQueued
      BY <1>1, <2>2, <2>4, FreeIs, StampsAre
    <3>2. m \in Ports(p)
      BY <1>4, <2>4 DEF Ports
    <3>3. Goes(p, toQueue, toWorld, v, toQueue', toWorld, v)
      BY <1>5, <2>2, <3>1, <3>2, Answers
    <3> QED BY <1>1, <2>1, <2>3, <3>3 DEF Stepped
  <2>5. CASE p # x
    <3>1. m \notin QAbout(p)
      BY <1>4, <2>5 DEF QAbout, QAnswers, Joins, Ports, Removes, Lapses
    <3>2. Alike(toQueue, toQueue', QAbout(p)) /\ Alike(toWorld, toWorld', WAbout(p))
      BY <1>1, <1>5, <3>1, WorldAlike
    <3> QED BY <1>1, <3>2, NotConcerned DEF playerVars
  <2> QED BY <2>4, <2>5
<1> QED BY <1>1, <1>6, <1>7, <1>8 DEF WorldStep

LEMMA QuietStamps ==
  ASSUME BgInv, UNCHANGED <<queueVars, toWorld>>, ~Has(toQueue', LateQ(groups)),
         \A p \in Players : events'[p] \subseteq events[p]
  PROVE  StampInv'
<1>1. ~Has(toWorld', LateW(groups)) /\ \A p \in Players : \A e \in events'[p] : e.stamp <= groups
  BY StampsAre
<1> QED BY <1>1, StampsKept

\* What a player has of the battlegrounds.
LEMMA GameFacts ==
  ASSUME BgInv
  PROVE  /\ \A p \in Players : bgId[p] # NoGame => Exists(bgId[p])
         /\ \A g \in DOMAIN game : \A p \in game[g].inside : bgId[p] = g
         /\ \A g \in DOMAIN game : game[g].inside \subseteq Players /\ g # NoGame
         /\ slot \in [Players -> Games \cup {NoGame, NotQueued}]
         /\ bgId \in [Players -> Games \cup {NoGame}]
         /\ events \in [Players -> SUBSET Invites]
<1>1. \A p \in Players : bgId[p] # NoGame => Exists(bgId[p])
  BY DEF BgInv, EntryInv, SentInv
<1>2. \A g \in DOMAIN game : \A p \in game[g].inside : bgId[p] = g
  BY DEF BgInv, PlayerInv, InsideInv
<1>3. \A g \in DOMAIN game : game[g].inside \subseteq Players /\ g # NoGame
  <2> TAKE g \in DOMAIN game
  <2>1. game[g] \in Battles /\ g \in Games
    BY BattleHas, GamesExist DEF BgInv, EntryInv, TypeInv, Exists
  <2> QED BY <2>1, TeamFacts DEF Battles
<1>4. /\ slot \in [Players -> Games \cup {NoGame, NotQueued}]
      /\ bgId \in [Players -> Games \cup {NoGame}]
      /\ events \in [Players -> SUBSET Invites]
  BY DEF BgInv, EntryInv, TypeInv, PlayersType
<1> QED BY <1>1, <1>2, <1>3, <1>4

LEMMA LeaveMoves ==
  ASSUME BgInv, NEW x \in Players, LeaveBattleground(x)
  PROVE  WorldStep
<1>1. /\ UNCHANGED <<online, events, queueVars, toWorld>>
      /\ bgId[x] # NoGame /\ InWorld(x)
      /\ slot' = [slot EXCEPT ![x] = IF x \in game[bgId[x]].inside THEN NotQueued ELSE @]
      /\ bgId' = [bgId EXCEPT ![x] = NoGame] /\ far' = far \cup {x}
  BY DEF LeaveBattleground, MayAct
<1>2. PICK g : g = bgId[x]
  OBVIOUS
<1>3. Exists(g) /\ RemovePlayerAtLeave(g, x)
  BY <1>1, <1>2, GameFacts DEF LeaveBattleground
<1>4. /\ Quietly /\ DOMAIN game' = DOMAIN game
      /\ \A h \in DOMAIN game : game'[h].inside = IF h = g THEN game[h].inside \ {x} ELSE game[h].inside
  BY <1>3, LeaveIsQuiet
<1>5. /\ \A p : Alike(toQueue, toQueue', QAbout(p))
      /\ \A n : ~Has(toQueue, LateQ(n)) => ~Has(toQueue', LateQ(n))
  BY <1>4, QuietlyIs, StampsAre
<1>6. InsideInv'
  BY <1>1, <1>2, <1>4, GameFacts DEF InsideInv
<1>7. StampInv'
  BY <1>1, <1>5, QuietStamps, StampsAre
<1>8. ASSUME NEW p \in Steady
      PROVE  Stepped(p)
  <2>1. PICK v, u : v = View(p) /\ u = View(p)'
    OBVIOUS
  <2>2. /\ p \in Players /\ v \in Views /\ Phase(p, toQueue, toWorld, v) /\ v.bg = bgId[p]
        /\ v.online <=> p \in online
        /\ v.here <=> InWorld(p)
        /\ v.here => v.online
        /\ v.inside <=> bgId[p] # NoGame /\ p \in game[bgId[p]].inside
    BY <2>1, Person
  <2>3. u.slot = slot'[p] /\ u.bg = bgId'[p]
    BY <2>1, PersonNext
  <2>4. CASE p = x
    <3>1. Fighting(p, toQueue, toWorld, v) /\ v.here
      BY <1>1, <2>2, <2>4, InBattle
    <3>2. p \in game[bgId[p]].inside
      BY <2>2, <3>1 DEF Fighting
    <3>3. u.slot = NotQueued /\ u.bg = NoGame
      BY <1>1, <2>2, <2>3, <2>4, <3>2, GameFacts
    <3>4. SameQueue(v, u)
      BY <1>1, <2>1, QueueSideSame
    <3>5. Goes(p, toQueue, toWorld, v, toQueue', toWorld, u)
      BY <1>5, <3>1, <3>3, <3>4, Retires
    <3> QED BY <1>1, <2>1, <3>5 DEF Stepped
  <2>5. CASE p # x
    <3>1. slot'[p] = slot[p] /\ bgId'[p] = bgId[p] /\ events'[p] = events[p]
      BY <1>1, <2>2, <2>5, GameFacts
    <3>2. (p \in online' <=> p \in online) /\ (p \in far' <=> p \in far)
      BY <1>1, <2>5
    <3>3. ASSUME bgId[p] # NoGame
          PROVE  p \in game'[bgId[p]].inside <=> p \in game[bgId[p]].inside
      <4>1. bgId[p] \in DOMAIN game
        BY <2>2, <3>3, GameFacts DEF Exists
      <4> QED BY <1>4, <2>5, <4>1
    <3>4. Alike(toQueue, toQueue', QAbout(p)) /\ Alike(toWorld, toWorld', WAbout(p))
      BY <1>1, <1>5, WorldAlike
    <3> QED BY <1>1, <3>1, <3>2, <3>3, <3>4, NotConcerned
  <2> QED BY <2>4, <2>5
<1> QED BY <1>1, <1>6, <1>7, <1>8 DEF WorldStep

LEMMA TeleportMoves ==
  ASSUME BgInv, NEW x \in Players, TeleportTo(x)
  PROVE  WorldStep
<1>1. /\ far' = far \cup {x}
      /\ UNCHANGED <<online, slot, bgId, events, game, queueVars, toQueue, toWorld>>
      /\ bgId[x] = NoGame /\ (x \in Hasty \/ (slot[x] = NotQueued /\ ~Unanswered(x)))
  BY DEF TeleportTo, MayAct
<1>2. InsideInv'
  BY <1>1 DEF BgInv, PlayerInv, InsideInv
<1>3. StampInv'
  BY <1>1, QuietStamps, StampsAre
<1>4. ASSUME NEW p \in Steady
      PROVE  Stepped(p)
  <2>1. PICK v, u : v = View(p) /\ u = View(p)'
    OBVIOUS
  <2>2. /\ p \in Players /\ p \notin Hasty /\ v \in Views /\ Phase(p, toQueue, toWorld, v)
        /\ v.bg = bgId[p] /\ v.slot = slot[p]
    BY <2>1, Person
  <2>3. u.slot = slot'[p] /\ u.bg = bgId'[p]
    BY <2>1, PersonNext
  <2>4. CASE p = x
    <3>1. Free(p, toQueue, toWorld)
      BY <1>1, <2>2, <2>4, FreeIs, StampsAre
    <3>2. v.slot = NotQueued /\ v.bg = NoGame /\ u.slot = v.slot /\ u.bg = v.bg
      BY <1>1, <2>2, <2>3, <2>4
    <3>3. SameQueue(v, u)
      BY <1>1, <2>1, QueueSideSame
    <3>4. Goes(p, toQueue, toWorld, v, toQueue, toWorld, u)
      BY <2>2, <3>1, <3>2, <3>3, Travels
    <3> QED BY <1>1, <2>1, <3>4 DEF Stepped
  <2>5. CASE p # x
    <3>1. (p \in online' <=> p \in online) /\ (p \in far' <=> p \in far)
      BY <1>1, <2>5
    <3>2. Alike(toQueue, toQueue', QAbout(p)) /\ Alike(toWorld, toWorld', WAbout(p))
      BY <1>1, WorldAlike, QueueAlike
    <3> QED BY <1>1, <3>1, <3>2, NotConcerned
  <2> QED BY <2>4, <2>5
<1> QED BY <1>1, <1>2, <1>3, <1>4 DEF WorldStep

\* At most x has come in, to the battleground that is his.
ComesIn(x) ==
    /\ DOMAIN game' = DOMAIN game
    /\ \A h \in DOMAIN game : \/ game'[h].inside = game[h].inside
                              \/ h = bgId[x] /\ game'[h].inside = game[h].inside \cup {x}

LEMMA ComesInIs ==
  ASSUME BgInv, NEW x \in Players, NEW b \in BOOLEAN, b => bgId[x] # NoGame,
         game' = IF b THEN [game EXCEPT ![bgId[x]].inside = @ \cup {x}] ELSE game
  PROVE  ComesIn(x) /\ (b => x \in game'[bgId[x]].inside)
<1>1. CASE b
  <2>1. PICK g : g = bgId[x]
    OBVIOUS
  <2>2. Exists(g) /\ game' = [game EXCEPT ![g].inside = @ \cup {x}]
    BY <1>1, <2>1, GameFacts
  <2>3. /\ SameFlags
        /\ \A h \in DOMAIN game : game'[h].inside = IF h = g THEN game[h].inside \cup {x} ELSE game[h].inside
    BY <2>2, PutInside, StampsAre
  <2> QED BY <2>1, <2>2, <2>3 DEF ComesIn, SameFlags, Exists
<1>2. CASE ~b
  BY <1>2 DEF ComesIn
<1> QED BY <1>1, <1>2

LEMMA ComesInInside ==
  ASSUME BgInv, NEW x \in Players, ComesIn(x), UNCHANGED bgId
  PROVE  InsideInv'
BY GameFacts DEF InsideInv, ComesIn

LEMMA ComesInOther ==
  ASSUME BgInv, NEW x \in Players, ComesIn(x), NEW p \in Players, p # x, bgId[p] # NoGame
  PROVE  p \in game'[bgId[p]].inside <=> p \in game[bgId[p]].inside
<1>1. bgId[p] \in DOMAIN game
  BY GameFacts DEF Exists
<1> QED BY <1>1 DEF ComesIn

LEMMA WorldportMoves ==
  ASSUME BgInv, NEW x \in Players, HandleMoveWorldportAck(x)
  PROVE  WorldStep
<1>1. /\ UNCHANGED <<online, slot, bgId, events, queueVars, toQueue, toWorld>>
      /\ x \in online \cap far /\ far' = far \ {x}
  BY DEF HandleMoveWorldportAck
<1>2. PICK b \in BOOLEAN : b <=> bgId[x] # NoGame /\ slot[x] = bgId[x]
  OBVIOUS
<1>3. game' = IF b THEN [game EXCEPT ![bgId[x]].inside = @ \cup {x}] ELSE game
  BY <1>2 DEF HandleMoveWorldportAck
<1>4. ComesIn(x) /\ (b => x \in game'[bgId[x]].inside)
  BY <1>2, <1>3, ComesInIs
<1>5. InsideInv'
  BY <1>1, <1>4, ComesInInside
<1>6. StampInv'
  BY <1>1, QuietStamps, StampsAre
<1>7. ASSUME NEW p \in Steady
      PROVE  Stepped(p)
  <2>1. PICK v, u : v = View(p) /\ u = View(p)'
    OBVIOUS
  <2>2. /\ p \in Players /\ v \in Views /\ Phase(p, toQueue, toWorld, v)
        /\ v.bg = bgId[p] /\ v.slot = slot[p]
        /\ v.online <=> p \in online
        /\ v.here <=> InWorld(p)
    BY <2>1, Person
  <2>3. /\ u.slot = slot'[p] /\ u.bg = bgId'[p]
        /\ u.online <=> p \in online'
        /\ u.inside <=> bgId'[p] # NoGame /\ p \in game'[bgId'[p]].inside
    BY <2>1, PersonNext
  <2>4. CASE p = x
    <3>1. v.online /\ ~v.here
      BY <1>1, <2>2, <2>4 DEF InWorld
    <3>2. u.online /\ u.slot = v.slot /\ u.bg = v.bg
      BY <1>1, <2>2, <2>3, <2>4
    <3>3. v.bg # NoGame /\ v.slot = v.bg => u.inside
      BY <1>1, <1>2, <1>4, <2>2, <2>3, <2>4
    <3>4. SameQueue(v, u)
      BY <1>1, <2>1, QueueSideSame
    <3>5. Goes(p, toQueue, toWorld, v, toQueue, toWorld, u)
      BY <2>2, <3>1, <3>2, <3>3, <3>4, Arrives
    <3> QED BY <1>1, <2>1, <3>5 DEF Stepped
  <2>5. CASE p # x
    <3>1. (p \in online' <=> p \in online) /\ (p \in far' <=> p \in far)
      BY <1>1, <2>5
    <3>2. Alike(toQueue, toQueue', QAbout(p)) /\ Alike(toWorld, toWorld', WAbout(p))
      BY <1>1, WorldAlike, QueueAlike
    <3>3. bgId[p] # NoGame => (p \in game'[bgId[p]].inside <=> p \in game[bgId[p]].inside)
      BY <1>4, <2>2, <2>5, ComesInOther
    <3> QED BY <1>1, <3>1, <3>2, <3>3, NotConcerned
  <2> QED BY <2>4, <2>5
<1> QED BY <1>1, <1>5, <1>6, <1>7 DEF WorldStep

LEMMA LogoutMoves ==
  ASSUME BgInv, NEW x \in Players, LogoutPlayer(x)
  PROVE  WorldStep
<1>1. /\ UNCHANGED <<bgId, queueVars, toWorld>>
      /\ x \in online /\ (x \in Hasty \/ ~Unanswered(x))
      /\ online' = online \ {x} /\ far' = far \ {x}
      /\ slot' = [slot EXCEPT ![x] = NotQueued] /\ events' = [events EXCEPT ![x] = {}]
  BY DEF LogoutPlayer
<1>2. PICK m : m = [type |-> "remove", player |-> x]
  OBVIOUS
<1>3. m \in QueueMessages /\ m.type = "remove" /\ m.player = x
  BY <1>2, QueueMessageIs
<1>4. toQueue' = IF slot[x] = NotQueued THEN toQueue ELSE Append(toQueue, m)
  BY <1>2 DEF LogoutPlayer
<1>5. /\ slot[x] # NotQueued => \A A : Posts(toQueue, toQueue', m, A)
      /\ \A A : m \notin A => Alike(toQueue, toQueue', A)
      /\ \A K : m \notin K /\ ~Has(toQueue, K) => ~Has(toQueue', K)
  <2>1. CASE slot[x] = NotQueued
    BY <1>4, <2>1, AlikeSame
  <2>2. CASE slot[x] # NotQueued
    BY <1>3, <1>4, <2>2, OnePost, StampsAre
  <2> QED BY <2>1, <2>2
<1>6. PICK b \in BOOLEAN : b <=> bgId[x] # NoGame
  OBVIOUS
<1>7. game' = IF b THEN [game EXCEPT ![bgId[x]].inside = @ \cup {x}] ELSE game
  BY <1>6 DEF LogoutPlayer
<1>8. ComesIn(x) /\ (b => x \in game'[bgId[x]].inside)
  BY <1>6, <1>7, ComesInIs
<1>9. InsideInv'
  BY <1>1, <1>8, ComesInInside
<1>10. StampInv'
  <2>1. m \notin LateQ(groups)
    BY <1>3 DEF LateQ
  <2>2. \A p \in Players : events'[p] \subseteq events[p]
    BY <1>1, GameFacts
  <2> QED BY <1>1, <1>5, <2>1, <2>2, QuietStamps, StampsAre
<1>11. ASSUME NEW p \in Steady
       PROVE  Stepped(p)
  <2>1. PICK v, u : v = View(p) /\ u = View(p)'
    OBVIOUS
  <2>2. /\ p \in Players /\ p \notin Hasty /\ v \in Views /\ Phase(p, toQueue, toWorld, v)
        /\ v.bg = bgId[p] /\ v.slot = slot[p]
        /\ v.online <=> p \in online
    BY <2>1, Person
  <2>3. /\ u.slot = slot'[p] /\ u.bg = bgId'[p]
        /\ u.online <=> p \in online'
        /\ u.inside <=> bgId'[p] # NoGame /\ p \in game'[bgId'[p]].inside
    BY <2>1, PersonNext
  <2>4. CASE p = x
    <3>1. Free(p, toQueue, toWorld) /\ v.online
      BY <1>1, <2>2, <2>4, FreeIs, StampsAre
    <3>2. ~u.online /\ u.slot = NotQueued /\ u.bg = v.bg
      BY <1>1, <2>2, <2>3, <2>4, GameFacts
    <3>3. v.bg # NoGame => u.inside
      BY <1>1, <1>6, <1>8, <2>2, <2>3, <2>4
    <3>4. SameQueue(v, u)
      BY <1>1, <2>1, QueueSideSame
    <3>5. IF v.slot = NotQueued THEN toQueue' = toQueue
          ELSE \E n \in Removes(p) : Posts(toQueue, toQueue', n, QAbout(p))
      <4>1. m \in Removes(p)
        BY <1>3, <2>4 DEF Removes
      <4> QED BY <1>4, <1>5, <2>2, <2>4, <4>1
    <3>6. Goes(p, toQueue, toWorld, v, toQueue', toWorld, u)
      BY <2>2, <3>1, <3>2, <3>3, <3>4, <3>5, LogsOut
    <3> QED BY <1>1, <2>1, <3>6 DEF Stepped
  <2>5. CASE p # x
    <3>1. (p \in online' <=> p \in online) /\ (p \in far' <=> p \in far)
      BY <1>1, <2>5
    <3>2. Alike(toQueue, toQueue', QAbout(p)) /\ Alike(toWorld, toWorld', WAbout(p))
      <4>1. m \notin QAbout(p)
        BY <1>3, <2>5 DEF QAbout, QAnswers, Joins, Ports, Removes, Lapses
      <4> QED BY <1>1, <1>5, <4>1, WorldAlike
    <3>3. bgId[p] # NoGame => (p \in game'[bgId[p]].inside <=> p \in game[bgId[p]].inside)
      BY <1>8, <2>2, <2>5, ComesInOther
    <3>4. slot'[p] = slot[p] /\ bgId'[p] = bgId[p] /\ events'[p] = events[p]
      BY <1>1, <2>2, <2>5, GameFacts
    <3> QED BY <1>1, <3>1, <3>2, <3>3, <3>4, NotConcerned
  <2> QED BY <2>4, <2>5
<1> QED BY <1>1, <1>9, <1>10, <1>11 DEF WorldStep

LEMMA LoadMoves ==
  ASSUME BgInv, NEW x \in Players, LoadFromDB(x)
  PROVE  WorldStep
<1>1. PICK g : g = bgId[x]
  OBVIOUS
<1>2. PICK b \in BOOLEAN : b <=> g # NoGame /\ x \in game[g].inside /\ ~game[g].over
  OBVIOUS
<1>3. /\ UNCHANGED <<far, events, queueVars, toWorld>>
      /\ x \notin online /\ online' = online \cup {x}
      /\ slot' = [slot EXCEPT ![x] = IF b THEN g ELSE NotQueued]
      /\ bgId' = [bgId EXCEPT ![x] = IF b THEN g ELSE NoGame]
      /\ IF g = NoGame \/ b THEN UNCHANGED <<game, toQueue>> ELSE RemovePlayerAtLeave(g, x)
  BY <1>1, <1>2 DEF LoadFromDB
<1>4. /\ Quietly /\ DOMAIN game' = DOMAIN game
      /\ \A h \in DOMAIN game : game'[h].inside = IF h = g /\ ~b THEN game[h].inside \ {x} ELSE game[h].inside
  <2>1. CASE g = NoGame \/ b
    <3>1. Quietly /\ game' = game
      BY <1>3, <2>1, NothingIsQuiet, StampsAre
    <3> QED BY <2>1, <3>1, GameFacts
  <2>2. CASE ~(g = NoGame \/ b)
    <3>1. Exists(g) /\ RemovePlayerAtLeave(g, x)
      BY <1>1, <1>3, <2>2, GameFacts
    <3> QED BY <2>2, <3>1, LeaveIsQuiet
  <2> QED BY <2>1, <2>2
<1>5. /\ \A p : Alike(toQueue, toQueue', QAbout(p))
      /\ \A n : ~Has(toQueue, LateQ(n)) => ~Has(toQueue', LateQ(n))
  BY <1>4, QuietlyIs, StampsAre
<1>6. InsideInv'
  <2> SUFFICES ASSUME NEW h \in DOMAIN game, NEW y \in game'[h].inside
               PROVE  bgId'[y] = h
    BY <1>4 DEF InsideInv
  <2>1. y \in game[h].inside /\ (h = g /\ ~b => y # x)
    BY <1>4
  <2>2. bgId[y] = h /\ y \in Players /\ h # NoGame
    BY <2>1, GameFacts
  <2>3. CASE y # x
    BY <1>3, <2>2, <2>3, GameFacts
  <2>4. CASE y = x
    <3>1. h = g /\ b
      BY <1>1, <2>1, <2>2, <2>4
    <3> QED BY <1>3, <2>2, <2>4, <3>1, GameFacts
  <2> QED BY <2>3, <2>4
<1>7. StampInv'
  BY <1>3, <1>5, QuietStamps, StampsAre
<1>8. ASSUME NEW p \in Steady
      PROVE  Stepped(p)
  <2>1. PICK v, u : v = View(p) /\ u = View(p)'
    OBVIOUS
  <2>2. /\ p \in Players /\ v \in Views /\ Phase(p, toQueue, toWorld, v) /\ v.bg = bgId[p]
        /\ v.online <=> p \in online
        /\ v.here => v.online
        /\ v.inside <=> bgId[p] # NoGame /\ p \in game[bgId[p]].inside
    BY <2>1, Person
  <2>3. /\ u.slot = slot'[p] /\ u.bg = bgId'[p]
        /\ u.online <=> p \in online'
        /\ u.inside <=> bgId'[p] # NoGame /\ p \in game'[bgId'[p]].inside
    BY <2>1, PersonNext
  <2>4. CASE p = x
    <3>1. Resting(p, toQueue, toWorld, v) /\ ~v.online
      BY <1>3, <2>2, <2>4, Offline
    <3>2. u.online /\ u.slot = (IF b THEN g ELSE NotQueued) /\ u.bg = IF b THEN g ELSE NoGame
      BY <1>3, <2>2, <2>3, <2>4, GameFacts
    <3>3. b => g # NoGame /\ v.bg = g /\ v.inside
      BY <1>1, <1>2, <2>2, <2>4
    <3>4. b => u.inside
      <4> HAVE b
      <4>1. bgId'[p] = g /\ g \in DOMAIN game /\ g # NoGame /\ p \in game[g].inside
        BY <1>1, <1>2, <2>3, <2>4, <3>2, GameFacts DEF Exists
      <4>2. game'[g].inside = game[g].inside
        BY <1>4, <4>1
      <4> QED BY <2>3, <4>1, <4>2
    <3>5. SameQueue(v, u)
      BY <1>3, <2>1, QueueSideSame
    <3>6. \/ v.bg # NoGame /\ u.bg = v.bg /\ u.slot = v.bg /\ u.inside /\ v.inside
          \/ u.bg = NoGame /\ u.slot = NotQueued
      BY <3>2, <3>3, <3>4
    <3>7. Goes(p, toQueue, toWorld, v, toQueue', toWorld, u)
      BY <1>5, <3>1, <3>2, <3>5, <3>6, LogsIn
    <3> QED BY <1>3, <2>1, <3>7 DEF Stepped
  <2>5. CASE p # x
    <3>1. (p \in online' <=> p \in online) /\ (p \in far' <=> p \in far)
      BY <1>3, <2>5
    <3>2. Alike(toQueue, toQueue', QAbout(p)) /\ Alike(toWorld, toWorld', WAbout(p))
      BY <1>3, <1>5, WorldAlike
    <3>3. ASSUME bgId[p] # NoGame
          PROVE  p \in game'[bgId[p]].inside <=> p \in game[bgId[p]].inside
      <4>1. bgId[p] \in DOMAIN game
        BY <2>2, <3>3, GameFacts DEF Exists
      <4> QED BY <1>4, <2>5, <4>1
    <3>4. slot'[p] = slot[p] /\ bgId'[p] = bgId[p] /\ events'[p] = events[p]
      BY <1>3, <2>2, <2>5, GameFacts
    <3> QED BY <1>3, <3>1, <3>2, <3>3, <3>4, NotConcerned
  <2> QED BY <2>4, <2>5
<1> QED BY <1>3, <1>6, <1>7, <1>8 DEF WorldStep

\* Nothing happens to the players or to who is inside.
LEMMA NobodyMoves ==
  ASSUME BgInv, UNCHANGED <<playerVars, queueVars, toWorld>>, Quietly, DOMAIN game' = DOMAIN game,
         \A h \in DOMAIN game : game'[h].inside = game[h].inside
  PROVE  WorldStep
<1>1. /\ \A p : Alike(toQueue, toQueue', QAbout(p))
      /\ \A n : ~Has(toQueue, LateQ(n)) => ~Has(toQueue', LateQ(n))
  BY QuietlyIs, StampsAre
<1>2. UNCHANGED <<online, slot, bgId, far, events>>
  BY DEF playerVars
<1>3. InsideInv'
  BY <1>2, GameFacts DEF InsideInv
<1>4. StampInv'
  BY <1>1, <1>2, QuietStamps, StampsAre
<1>5. ASSUME NEW p \in Steady
      PROVE  Stepped(p)
  <2>1. Alike(toQueue, toQueue', QAbout(p)) /\ Alike(toWorld, toWorld', WAbout(p))
    BY <1>1, WorldAlike
  <2>2. ASSUME bgId[p] # NoGame
        PROVE  p \in game'[bgId[p]].inside <=> p \in game[bgId[p]].inside
    <3>1. bgId[p] \in DOMAIN game
      BY <2>2, GameFacts DEF Exists, Steady
    <3> QED BY <3>1
  <2> QED BY <1>2, <2>1, <2>2, NotConcerned
<1> QED BY <1>3, <1>4, <1>5 DEF WorldStep

LEMMA EndMoves ==
  ASSUME BgInv, NEW g \in Games, EndBattleGround(g) \/ EndNow(g)
  PROVE  WorldStep
<1>1. /\ Exists(g) /\ UNCHANGED <<playerVars, queueVars, toWorld>>
      /\ toQueue' = toQueue \o RemovedFromBgFreeSlotQueue(g) \o SetStatus(g, FALSE)
  BY DEF EndBattleGround, EndNow
<1>2. PICK bg \in Battles : bg = game[g]
  BY <1>1, BattleHas, StampsAre DEF TypeInv
<1>3. \E x \in Battles : x.inside = bg.inside /\ game' = [game EXCEPT ![g] = x]
  <2>1. CASE EndBattleGround(g)
    <3>1. game' = [game EXCEPT ![g].over = TRUE, ![g].inFreeSlots = FALSE]
      BY <2>1 DEF EndBattleGround
    <3>2. PICK x : x = [bg EXCEPT !.over = TRUE, !.inFreeSlots = FALSE]
      OBVIOUS
    <3>3. x \in Battles /\ x.inside = bg.inside
      BY <3>2 DEF Battles
    <3>4. game' = [game EXCEPT ![g] = x]
      BY <1>1, <1>2, <3>1, <3>2, StampsAre DEF TypeInv, GamesType, Exists
    <3> QED BY <3>3, <3>4
  <2>2. CASE EndNow(g)
    <3>1. game' = [game EXCEPT ![g].over = TRUE, ![g].inFreeSlots = FALSE, ![g].doomed = TRUE]
      BY <2>2 DEF EndNow
    <3>2. PICK x : x = [bg EXCEPT !.over = TRUE, !.inFreeSlots = FALSE, !.doomed = TRUE]
      OBVIOUS
    <3>3. x \in Battles /\ x.inside = bg.inside
      BY <3>2 DEF Battles
    <3>4. game' = [game EXCEPT ![g] = x]
      BY <1>1, <1>2, <3>1, <3>2, StampsAre DEF TypeInv, GamesType, Exists
    <3> QED BY <3>3, <3>4
  <2> QED BY <2>1, <2>2
<1>4. DOMAIN game' = DOMAIN game /\ \A h \in DOMAIN game : game'[h].inside = game[h].inside
  BY <1>1, <1>2, <1>3, ChangedTo, StampsAre DEF TypeInv
<1>5. Quietly
  BY <1>1, EndIsQuiet, StampsAre
<1> QED BY <1>1, <1>4, <1>5, NobodyMoves

LEMMA OfflineMoves ==
  ASSUME BgInv, NEW g \in Games, NEW x \in Players, RemoveOffline(g, x)
  PROVE  WorldStep
<1>1. /\ Exists(g) /\ x \in game[g].inside \ online /\ RemovePlayerAtLeave(g, x)
      /\ UNCHANGED <<playerVars, queueVars, toWorld>>
  BY DEF RemoveOffline
<1>2. /\ Quietly /\ DOMAIN game' = DOMAIN game
      /\ \A h \in DOMAIN game : game'[h].inside = IF h = g THEN game[h].inside \ {x} ELSE game[h].inside
  BY <1>1, LeaveIsQuiet
<1>3. /\ \A p : Alike(toQueue, toQueue', QAbout(p))
      /\ \A n : ~Has(toQueue, LateQ(n)) => ~Has(toQueue', LateQ(n))
  BY <1>2, QuietlyIs, StampsAre
<1>4. UNCHANGED <<online, slot, bgId, far, events>>
  BY <1>1 DEF playerVars
<1>5. InsideInv'
  BY <1>2, <1>4, GameFacts DEF InsideInv
<1>6. StampInv'
  BY <1>1, <1>3, <1>4, QuietStamps, StampsAre
<1>7. ASSUME NEW p \in Steady
      PROVE  Stepped(p)
  <2>1. PICK v, u : v = View(p) /\ u = View(p)'
    OBVIOUS
  <2>2. /\ p \in Players /\ v \in Views /\ Phase(p, toQueue, toWorld, v) /\ v.bg = bgId[p] /\ v.slot = slot[p]
        /\ v.online <=> p \in online
        /\ v.here <=> InWorld(p)
        /\ v.here => v.online
    BY <2>1, Person
  <2>3. /\ u.slot = slot'[p] /\ u.bg = bgId'[p]
        /\ u.inside <=> bgId'[p] # NoGame /\ p \in game'[bgId'[p]].inside
    BY <2>1, PersonNext
  <2>4. CASE p = x
    <3>1. bgId[p] = g /\ g # NoGame /\ g \in DOMAIN game
      BY <1>1, <2>4, GameFacts DEF Exists
    <3>2. ~v.here /\ v.bg # NoGame
      BY <1>1, <2>2, <2>4, <3>1
    <3>3. ~u.inside
      BY <1>2, <1>4, <2>3, <2>4, <3>1
    <3>4. SameQueue(v, u)
      BY <1>1, <2>1, QueueSideSame
    <3>5. u.online = v.online /\ u.here = v.here /\ u.slot = v.slot /\ u.bg = v.bg
      BY <1>4, <2>1 DEF View, InWorld
    <3>6. Goes(p, toQueue, toWorld, v, toQueue', toWorld, u)
      BY <1>3, <2>2, <3>2, <3>3, <3>4, <3>5, Forgotten
    <3> QED BY <1>1, <2>1, <3>6 DEF Stepped
  <2>5. CASE p # x
    <3>1. Alike(toQueue, toQueue', QAbout(p)) /\ Alike(toWorld, toWorld', WAbout(p))
      BY <1>1, <1>3, WorldAlike
    <3>2. ASSUME bgId[p] # NoGame
          PROVE  p \in game'[bgId[p]].inside <=> p \in game[bgId[p]].inside
      <4>1. bgId[p] \in DOMAIN game
        BY <2>2, <3>2, GameFacts DEF Exists
      <4> QED BY <1>2, <2>5, <4>1
    <3> QED BY <1>1, <1>4, <3>1, <3>2, NotConcerned
  <2> QED BY <2>4, <2>5
<1> QED BY <1>1, <1>5, <1>6, <1>7 DEF WorldStep

LEMMA RemoveAllMoves ==
  ASSUME BgInv, NEW g \in Games, RemoveAll(g)
  PROVE  WorldStep
<1>1. PICK here : here = {p \in game[g].inside : InWorld(p)}
  OBVIOUS
<1>2. /\ UNCHANGED <<online, events, queueVars, toQueue, toWorld>>
      /\ slot' = [p \in Players |-> IF p \in here THEN NotQueued ELSE slot[p]]
      /\ bgId' = [p \in Players |-> IF p \in here THEN NoGame ELSE bgId[p]]
      /\ far' = far \cup here
  BY <1>1 DEF RemoveAll
<1>3. /\ Exists(g) /\ DOMAIN game' = DOMAIN game
      /\ game'[g].inside = {} /\ \A h \in DOMAIN game : h # g => game'[h] = game[h]
  BY RemoveAllEffect, StampsAre DEF SameFlags
<1>4. g \in DOMAIN game /\ \A p \in game[g].inside : bgId[p] = g
  BY <1>3, GameFacts DEF Exists
<1>5. InsideInv'
  <2> SUFFICES ASSUME NEW h \in DOMAIN game, NEW y \in game'[h].inside
               PROVE  bgId'[y] = h
    BY <1>3 DEF InsideInv
  <2>1. h # g /\ y \in game[h].inside
    BY <1>3
  <2>2. bgId[y] = h /\ y \in Players
    BY <2>1, GameFacts
  <2>3. y \notin here
    BY <1>1, <1>4, <2>1, <2>2
  <2> QED BY <1>2, <2>2, <2>3
<1>6. StampInv'
  BY <1>2, QuietStamps, StampsAre
<1>7. ASSUME NEW p \in Steady
      PROVE  Stepped(p)
  <2>1. PICK v, u : v = View(p) /\ u = View(p)'
    OBVIOUS
  <2>2. /\ p \in Players /\ v \in Views /\ Phase(p, toQueue, toWorld, v) /\ v.bg = bgId[p] /\ v.slot = slot[p]
        /\ v.online <=> p \in online
        /\ v.here <=> InWorld(p)
        /\ v.here => v.online
    BY <2>1, Person
  <2>3. /\ u.slot = slot'[p] /\ u.bg = bgId'[p]
        /\ u.inside <=> bgId'[p] # NoGame /\ p \in game'[bgId'[p]].inside
    BY <2>1, PersonNext
  <2>4. SameQueue(v, u)
    BY <1>2, <2>1, QueueSideSame
  <2>5. Alike(toQueue, toQueue', QAbout(p)) /\ Alike(toWorld, toWorld', WAbout(p))
    BY <1>2, WorldAlike, QueueAlike
  <2>6. CASE p \in here
    <3>1. bgId[p] = g /\ g # NoGame /\ InWorld(p)
      BY <1>1, <1>4, <2>6, GameFacts
    <3>2. Fighting(p, toQueue, toWorld, v)
      BY <2>2, <3>1, InBattle
    <3>3. u.slot = NotQueued /\ u.bg = NoGame
      BY <1>2, <2>2, <2>3, <2>6
    <3>4. Goes(p, toQueue, toWorld, v, toQueue', toWorld, u)
      BY <2>4, <2>5, <3>2, <3>3, Retires
    <3> QED BY <1>2, <2>1, <3>4 DEF Stepped
  <2>7. ASSUME p \notin here
        PROVE  /\ slot'[p] = slot[p] /\ bgId'[p] = bgId[p] /\ events'[p] = events[p]
               /\ p \in online' <=> p \in online
               /\ p \in far' <=> p \in far
    BY <1>2, <2>2, <2>7
  <2>8. CASE p \in game[g].inside /\ p \notin here
    <3>1. bgId[p] = g /\ g # NoGame /\ ~InWorld(p)
      BY <1>1, <1>4, <2>8, GameFacts
    <3>2. ~v.here /\ v.bg # NoGame
      BY <2>2, <3>1
    <3>3. ~u.inside
      BY <1>3, <2>3, <2>7, <2>8, <3>1
    <3>4. u.online = v.online /\ u.here = v.here /\ u.slot = v.slot /\ u.bg = v.bg
      BY <2>1, <2>7, <2>8 DEF View, InWorld
    <3>5. Goes(p, toQueue, toWorld, v, toQueue', toWorld, u)
      BY <2>2, <2>4, <2>5, <3>2, <3>3, <3>4, Forgotten
    <3> QED BY <1>2, <2>1, <3>5 DEF Stepped
  <2>9. CASE p \notin game[g].inside
    <3>1. p \notin here
      BY <1>1, <2>9
    <3>2. ASSUME bgId[p] # NoGame
          PROVE  p \in game'[bgId[p]].inside <=> p \in game[bgId[p]].inside
      <4>1. bgId[p] \in DOMAIN game
        BY <2>2, <3>2, GameFacts DEF Exists
      <4> QED BY <1>3, <2>9, <4>1
    <3> QED BY <1>2, <2>5, <2>7, <3>1, <3>2, NotConcerned
  <2> QED BY <2>6, <2>8, <2>9
<1> QED BY <1>2, <1>5, <1>6, <1>7 DEF WorldStep

\* The time of his invitation e is over.
LEMMA EventFires ==
  ASSUME NEW p, NEW q, NEW w, NEW v \in Views, Phase(p, q, w, v), NEW e \in v.events,
         NEW m \in Of(Expiries(p), e), NEW w2, Posts(w, w2, m, WAbout(p)),
         NEW u, SameWorld(v, u), SameQueue(v, u), u.events = v.events \ {e}
  PROVE  Goes(p, q, w, v, q, w2, u)
<1>1. m \in Expiries(p) /\ m.event = e
  BY DEF Of
<1>2. m \notin Joineds(p) /\ m \notin EntersOf(p) /\ m \notin Offers(p) /\ m \notin Lefts(p)
  BY <1>1, WKinds
<1>3. Alike(w, w2, WAnswers(p))
  <2>1. \A K \in SUBSET WAnswers(p) : m \notin K
    BY <1>2 DEF WAnswers
  <2>2. SUBSET WAnswers(p) \subseteq SUBSET WAbout(p)
    BY DEF WAbout
  <2> QED BY <2>1, <2>2 DEF Posts, Alike
<1>4. Alike(q, q, QAnswers(p))
  BY AlikeSame
<1>5. Offer(u) = Offer(v) /\ u.stamp = v.stamp /\ u.invited = v.invited
  BY DEF Offer, SameQueue
<1>6. CASE Told(p, q, w, v)
  <2>1. e.stamp < v.stamp
    BY <1>6 DEF Told
  <2>2. m \notin Since(Expiries(p), v.stamp)
    BY <1>1, <2>1, WKinds
  <2>3. m \notin Of(Offers(p), Offer(v)) /\ m \notin Older(Offers(p), v.stamp) /\ m \notin Since(Offers(p), v.stamp)
        /\ m \notin Since(Offers(p), v.stamp) \ Of(Offers(p), Offer(v))
    BY <1>2, WKinds
  <2>4. /\ Has(w2, Joineds(p)) /\ ~Has(w2, EntersOf(p))
        /\ Has(w2, Of(Offers(p), Offer(v))) <=> Has(w, Of(Offers(p), Offer(v)))
        /\ ~Has(w2, Since(Offers(p), v.stamp) \ Of(Offers(p), Offer(v)))
        /\ ~Has(w2, Since(Expiries(p), v.stamp))
    BY <1>2, <1>6, <2>2, <2>3, WClassesAll DEF Told, Posts
  <2>5. /\ Once(w2, Joineds(p)) /\ Before(w2, Lefts(p), Joineds(p))
        /\ Before(w2, Older(Offers(p), v.stamp), Joineds(p))
        /\ Before(w2, Joineds(p), Since(Offers(p), v.stamp))
    BY <1>2, <1>6, <2>3, WClassesAll DEF Told, Posts
  <2>6. Told(p, q, w2, u)
    BY <1>5, <1>6, <2>4, <2>5 DEF Told, SameWorld
  <2>7. Moves(Seat(p, w, v), Seat(p, w2, u))
    BY <1>6, <2>6, SeatSame DEF Told
  <2> QED BY <2>6, <2>7 DEF Goes, Phase
<1>7. CASE Queued(p, q, w, v)
  <2>1. Remembered(p, q, w, v) => Remembered(p, q, w2, u)
    <3>1. CASE Offer(v) = e
      <4>1. Has(w2, Of(Expiries(p), Offer(u)))
        BY <1>5, <3>1, WClassesAll DEF Posts
      <4> QED BY <4>1 DEF Remembered
    <3>2. CASE Offer(v) # e /\ Offer(v) \in v.events
      BY <1>5, <3>2 DEF Remembered
    <3>3. CASE Has(w, Of(Expiries(p), Offer(v)))
      BY <1>5, <3>3, WClassesAll DEF Remembered, Posts
    <3>4. CASE Has(q, Of(Lapses(p), Offer(v)))
      BY <1>5, <3>4 DEF Remembered
    <3> QED BY <3>1, <3>2, <3>3, <3>4 DEF Remembered
  <2>2. ~Has(w2, Offers(p) \ Of(Offers(p), Offer(v)))
    BY <1>2, <1>7, WClassesAll DEF Queued, Posts
  <2>3. Queued(p, q, w2, u)
    BY <1>3, <1>5, <1>7, <2>1, <2>2, WClasses DEF Queued, Alike, SameWorld
  <2>4. Moves(Seat(p, w, v), Seat(p, w2, u))
    BY <1>7, <2>3, SeatSame DEF Queued
  <2> QED BY <2>3, <2>4 DEF Goes, Phase
<1> QED BY <1>3, <1>4, <1>6, <1>7, RestingSame, AskingSame, EnteringSame, LeavingSame, FightingSame
        DEF Phase

LEMMA EventMoves ==
  ASSUME BgInv, NEW x \in Players, RemoveEvent(x)
  PROVE  WorldStep
<1>1. PICK e \in events[x] : /\ events' = [events EXCEPT ![x] = @ \ {e}]
                             /\ toWorld' = Append(toWorld, [type |-> "expire", player |-> x, event |-> e])
  BY DEF RemoveEvent
<1>2. UNCHANGED <<online, slot, bgId, far, game, queueVars, toQueue>>
  BY DEF RemoveEvent
<1>3. e \in Invites /\ e.stamp <= groups
  BY GameFacts, StampsAre
<1>4. PICK m : m = [type |-> "expire", player |-> x, event |-> e]
  OBVIOUS
<1>5. m \in WorldMessages /\ m.type = "expire" /\ m.player = x /\ m.event = e
  BY <1>3, <1>4, WorldMessageIs
<1>6. /\ \A A : Posts(toWorld, toWorld', m, A)
      /\ \A A : m \notin A => Alike(toWorld, toWorld', A)
      /\ \A K : Has(toWorld', K) <=> Has(toWorld, K) \/ m \in K
  <2>1. toWorld' = Append(toWorld, m) /\ toWorld \in Seq(WorldMessages)
    BY <1>1, <1>4, StampsAre
  <2> QED BY <1>5, <2>1, OnePost
<1>7. InsideInv'
  BY <1>2 DEF BgInv, PlayerInv, InsideInv
<1>8. StampInv'
  <2>1. m \notin LateW(groups)
    BY <1>3, <1>5 DEF LateW
  <2>2. ~Has(toWorld', LateW(groups)) /\ ~Has(toQueue', LateQ(groups))
    BY <1>2, <1>6, <2>1, StampsAre
  <2>3. \A p \in Players : \A f \in events'[p] : f.stamp <= groups
    <3>1. \A p \in Players : events'[p] \subseteq events[p]
      BY <1>1, GameFacts
    <3> QED BY <3>1, StampsAre
  <2> QED BY <1>2, <2>2, <2>3, StampsKept
<1>9. ASSUME NEW p \in Steady
      PROVE  Stepped(p)
  <2>1. PICK v, u : v = View(p) /\ u = View(p)'
    OBVIOUS
  <2>2. p \in Players /\ v \in Views /\ Phase(p, toQueue, toWorld, v) /\ v.events = events[p]
    BY <2>1, Person
  <2>3. u.events = events'[p]
    BY <2>1, PersonNext
  <2>4. CASE p = x
    <3>1. u.events = v.events \ {e} /\ e \in v.events
      BY <1>1, <2>2, <2>3, <2>4, GameFacts
    <3>2. SameQueue(v, u)
      BY <1>2, <2>1, QueueSideSame
    <3>3. SameWorld(v, u)
      BY <1>2, <2>1 DEF SameWorld, View, InWorld
    <3>4. m \in Of(Expiries(p), e)
      BY <1>5, <2>4 DEF Of, Expiries
    <3>5. Goes(p, toQueue, toWorld, v, toQueue, toWorld', u)
      BY <1>6, <2>2, <3>1, <3>2, <3>3, <3>4, EventFires
    <3> QED BY <1>2, <2>1, <3>5 DEF Stepped
  <2>5. CASE p # x
    <3>1. m \notin WAbout(p)
      BY <1>5, <2>5 DEF WAbout, WAnswers, Joineds, Offers, EntersOf, Lefts, Expiries
    <3>2. Alike(toQueue, toQueue', QAbout(p)) /\ Alike(toWorld, toWorld', WAbout(p))
      BY <1>2, <1>6, <3>1, QueueAlike
    <3>3. events'[p] = events[p]
      BY <1>1, <2>2, <2>5, GameFacts
    <3> QED BY <1>2, <3>2, <3>3, NotConcerned
  <2> QED BY <2>4, <2>5
<1> QED BY <1>2, <1>7, <1>8, <1>9 DEF WorldStep

(* The world takes a message.                                              *)
Hearing(m) == /\ toWorld # << >> /\ m = Head(toWorld) /\ toWorld' = Tail(toWorld)
              /\ UNCHANGED queueVars

LEMMA HeadTaken ==
  ASSUME BgInv, NEW m, Hearing(m)
  PROVE  /\ m \in WorldMessages /\ UNCHANGED queueVars
         /\ \A A : Takes(toWorld, toWorld', m, A)
         /\ \A A : m \notin A => Alike(toWorld, toWorld', A)
         /\ \A K : ~Has(toWorld, K) => ~Has(toWorld', K) /\ m \notin K
         /\ ~Has(toWorld', LateW(groups))
         /\ m.type \in {"invite", "expire"} => m.event.stamp <= groups
<1>1. /\ toWorld # << >> /\ m = Head(toWorld) /\ toWorld' = Tail(toWorld) /\ UNCHANGED queueVars
      /\ toWorld \in Seq(WorldMessages)
  BY StampsAre DEF Hearing
<1>2. /\ m \in WorldMessages
      /\ \A K : Has(toWorld, K) <=> m \in K \/ Has(toWorld', K)
  BY <1>1, Taking
<1>3. \A A : Takes(toWorld, toWorld', m, A)
  BY <1>1, TakesIs
<1>4. \A A : m \notin A => Alike(toWorld, toWorld', A)
  BY <1>1, AlikeTaken
<1>5. m \notin LateW(groups) /\ ~Has(toWorld', LateW(groups))
  BY <1>2, StampsAre
<1>6. m.type \in {"invite", "expire"} => m.event.stamp <= groups
  BY <1>2, <1>5 DEF LateW
<1> QED BY <1>1, <1>2, <1>3, <1>4, <1>5, <1>6

\* A message about no player.
LEMMA NobodyHears ==
  ASSUME BgInv, NEW m, Hearing(m), m.type \in {"count", "create"},
         UNCHANGED playerVars, Quietly,
         \A h \in DOMAIN game : h \in DOMAIN game' /\ game'[h].inside = game[h].inside,
         \A h \in DOMAIN game' : h \notin DOMAIN game => game'[h].inside = {}
  PROVE  WorldStep
<1>1. /\ \A p : Alike(toQueue, toQueue', QAbout(p))
      /\ \A n : ~Has(toQueue, LateQ(n)) => ~Has(toQueue', LateQ(n))
  BY QuietlyIs, StampsAre
<1>2. UNCHANGED <<online, slot, bgId, far, events>>
  BY DEF playerVars
<1>3. InsideInv'
  <2> SUFFICES ASSUME NEW h \in DOMAIN game', NEW y \in game'[h].inside
               PROVE  bgId'[y] = h
    BY DEF InsideInv
  <2>1. h \in DOMAIN game /\ y \in game[h].inside
    OBVIOUS
  <2> QED BY <1>2, <2>1, GameFacts
<1>4. UNCHANGED queueVars /\ ~Has(toWorld', LateW(groups))
  BY HeadTaken
<1>5. StampInv'
  BY <1>1, <1>2, <1>4, StampsKept, StampsAre
<1>6. ASSUME NEW p \in Steady
      PROVE  Stepped(p)
  <2>1. m \notin WAbout(p)
    BY DEF WAbout, WAnswers, Joineds, Offers, EntersOf, Lefts, Expiries
  <2>2. Alike(toQueue, toQueue', QAbout(p)) /\ Alike(toWorld, toWorld', WAbout(p))
    BY <1>1, <2>1, HeadTaken
  <2>3. ASSUME bgId[p] # NoGame
        PROVE  p \in game'[bgId[p]].inside <=> p \in game[bgId[p]].inside
    <3>1. bgId[p] \in DOMAIN game
      BY <2>3, GameFacts DEF Exists, Steady
    <3> QED BY <3>1
  <2> QED BY <1>2, <1>4, <2>2, <2>3, NotConcerned
<1> QED BY <1>3, <1>4, <1>5, <1>6 DEF WorldStep

LEMMA CountMoves ==
  ASSUME BgInv, NEW m, Hearing(m), m.type = "count", SetInvitedCount(m)
  PROVE  WorldStep
<1>1. m \in WorldMessages /\ UNCHANGED queueVars
  BY HeadTaken
<1>2. WorldEffect /\ \A h \in DOMAIN game : game'[h].inside = game[h].inside
  BY <1>1, CountEffect, StampsAre
<1>3. DOMAIN game' = DOMAIN game
  BY <1>2 DEF WorldEffect, WorldPosts
<1>4. UNCHANGED <<playerVars, toQueue>>
  BY DEF SetInvitedCount
<1>5. Quietly
  BY <1>4, NothingIsQuiet, StampsAre
<1> QED BY <1>2, <1>3, <1>4, <1>5, NobodyHears

LEMMA CreateMoves ==
  ASSUME BgInv, NEW m, Hearing(m), m.type = "create", CreateNewBattleGround(m), WorldMessage
  PROVE  WorldStep
<1>1. m \in WorldMessages /\ m = Head(toWorld)
  BY HeadTaken DEF Hearing
<1>2. /\ \A g \in DOMAIN game : g \in DOMAIN game' /\ game'[g] = game[g]
      /\ game'[Len(game) + 1].inside = {} /\ DOMAIN game' = 1..(Len(game) + 1)
  BY <1>1, CreateEffect, StampsAre
<1>3. UNCHANGED playerVars /\ toQueue' = toQueue \o SetStatus(m.game, TRUE)
  BY DEF CreateNewBattleGround
<1>4. m.game \in Games
  BY <1>1, WorldMessageHas
<1>5. PICK a : a = [type |-> "status", game |-> m.game, open |-> TRUE]
  OBVIOUS
<1>6. a \in QueueMessages /\ a.type = "status"
  BY <1>4, <1>5, QueueMessageIs
<1>7. toQueue' = toQueue \o <<a>>
  BY <1>3, <1>5 DEF SetStatus
<1>8. Quietly
  BY <1>6, <1>7, OneIsQuiet
<1>9. \A h \in DOMAIN game' : h \notin DOMAIN game => game'[h].inside = {}
  <2>1. DOMAIN game = 1..Len(game) /\ Len(game) \in Nat
    BY StampsAre DEF TypeInv, GamesType
  <2>2. \A h \in DOMAIN game' : h \notin DOMAIN game => h = Len(game) + 1
    BY <1>2, <2>1
  <2> QED BY <1>2, <2>2
<1> QED BY <1>2, <1>3, <1>8, <1>9, NobodyHears

LEMMA JoinedMoves ==
  ASSUME BgInv, NEW m, Hearing(m), m.type = "joined", Joined(m)
  PROVE  WorldStep
<1>1. /\ slot' = [p \in Players |-> IF p \in m.players /\ InWorld(p) THEN NoGame ELSE slot[p]]
      /\ UNCHANGED <<online, bgId, far, events, game, toQueue>>
  BY DEF Joined
<1>2. /\ m \in WorldMessages /\ UNCHANGED queueVars
      /\ \A A : Takes(toWorld, toWorld', m, A)
      /\ \A A : m \notin A => Alike(toWorld, toWorld', A)
      /\ ~Has(toWorld', LateW(groups))
  BY HeadTaken
<1>3. InsideInv'
  BY <1>1 DEF BgInv, PlayerInv, InsideInv
<1>4. StampInv'
  BY <1>1, <1>2, StampsKept, StampsAre
<1>5. ASSUME NEW p \in Steady
      PROVE  Stepped(p)
  <2>1. PICK v, u : v = View(p) /\ u = View(p)'
    OBVIOUS
  <2>2. p \in Players /\ Phase(p, toQueue, toWorld, v) /\ (v.here <=> InWorld(p))
    BY <2>1, Person
  <2>3. u.slot = slot'[p]
    BY <2>1, PersonNext
  <2>4. CASE p \in m.players
    <3>1. v.here => u.slot = NoGame
      BY <1>1, <2>2, <2>3, <2>4
    <3>2. SameQueue(v, u)
      BY <1>2, <2>1, QueueSideSame
    <3>3. u.online = v.online /\ u.here = v.here /\ u.bg = v.bg /\ u.inside = v.inside /\ u.events = v.events
      BY <1>1, <2>1 DEF View, InWorld
    <3>4. m \in Joineds(p)
      BY <1>2, <2>4 DEF Joineds
    <3>5. Goes(p, toQueue, toWorld, v, toQueue, toWorld', u)
      BY <1>2, <2>2, <3>1, <3>2, <3>3, <3>4, HearsJoined
    <3> QED BY <1>1, <2>1, <3>5 DEF Stepped
  <2>5. CASE p \notin m.players
    <3>1. m \notin WAbout(p)
      BY <2>5 DEF WAbout, WAnswers, Joineds, Offers, EntersOf, Lefts, Expiries
    <3>2. Alike(toQueue, toQueue', QAbout(p)) /\ Alike(toWorld, toWorld', WAbout(p))
      BY <1>1, <1>2, <3>1, QueueAlike
    <3>3. slot'[p] = slot[p]
      BY <1>1, <2>2, <2>5
    <3> QED BY <1>1, <1>2, <3>2, <3>3, NotConcerned
  <2> QED BY <2>4, <2>5
<1> QED BY <1>2, <1>3, <1>4, <1>5 DEF WorldStep

LEMMA InvitedMoves ==
  ASSUME BgInv, NEW m, Hearing(m), m.type = "invite", Invited(m)
  PROVE  WorldStep
<1>1. /\ m \in WorldMessages /\ UNCHANGED queueVars
      /\ \A A : Takes(toWorld, toWorld', m, A)
      /\ \A A : m \notin A => Alike(toWorld, toWorld', A)
      /\ ~Has(toWorld', LateW(groups))
      /\ m.event.stamp <= groups
  BY HeadTaken
<1>2. PICK x \in Players, e \in Invites : x = m.player /\ e = m.event
  BY <1>1, WorldMessageHas
<1>3. /\ IF InWorld(x) THEN /\ slot' = [slot EXCEPT ![x] = IF @ = NotQueued THEN @ ELSE e.game]
                            /\ events' = [events EXCEPT ![x] = @ \cup {e}]
         ELSE UNCHANGED <<slot, events>>
      /\ UNCHANGED <<online, bgId, far, game, toQueue>>
  BY <1>2 DEF Invited
<1>4. InsideInv'
  BY <1>3 DEF BgInv, PlayerInv, InsideInv
<1>5. StampInv'
  <2>1. \A p \in Players : \A f \in events'[p] : f.stamp <= groups
    <3>1. \A p \in Players : \A f \in events'[p] : f \in events[p] \/ f = e
      BY <1>3, GameFacts
    <3> QED BY <1>1, <1>2, <3>1, StampsAre
  <2> QED BY <1>1, <1>3, <2>1, StampsKept, StampsAre
<1>6. ASSUME NEW p \in Steady
      PROVE  Stepped(p)
  <2>1. PICK v, u : v = View(p) /\ u = View(p)'
    OBVIOUS
  <2>2. /\ p \in Players /\ v \in Views /\ Phase(p, toQueue, toWorld, v)
        /\ v.here <=> InWorld(p)
        /\ v.here => v.online
        /\ v.slot = slot[p] /\ v.events = events[p]
    BY <2>1, Person
  <2>3. u.slot = slot'[p] /\ u.events = events'[p]
    BY <2>1, PersonNext
  <2>4. CASE p = x
    <3>1. u.slot = IF ~v.here \/ v.slot = NotQueued THEN v.slot ELSE m.event.game
      BY <1>2, <1>3, <2>2, <2>3, <2>4, GameFacts
    <3>2. u.events = IF v.here THEN v.events \cup {m.event} ELSE v.events
      BY <1>2, <1>3, <2>2, <2>3, <2>4, GameFacts
    <3>3. SameQueue(v, u)
      BY <1>1, <2>1, QueueSideSame
    <3>4. u.online = v.online /\ u.here = v.here /\ u.bg = v.bg /\ u.inside = v.inside
      BY <1>3, <2>1 DEF View, InWorld
    <3>5. m \in Offers(p) /\ m.event \in Invites
      BY <1>1, <1>2, <2>4 DEF Offers
    <3>6. Goes(p, toQueue, toWorld, v, toQueue, toWorld', u)
      BY <1>1, <2>2, <3>1, <3>2, <3>3, <3>4, <3>5, HearsOffer
    <3> QED BY <1>3, <2>1, <3>6 DEF Stepped
  <2>5. CASE p # x
    <3>1. m \notin WAbout(p)
      BY <1>2, <2>5 DEF WAbout, WAnswers, Joineds, Offers, EntersOf, Lefts, Expiries
    <3>2. Alike(toQueue, toQueue', QAbout(p)) /\ Alike(toWorld, toWorld', WAbout(p))
      BY <1>1, <1>3, <3>1, QueueAlike
    <3>3. slot'[p] = slot[p] /\ events'[p] = events[p]
      BY <1>3, <2>2, <2>5, GameFacts
    <3> QED BY <1>1, <1>3, <3>2, <3>3, NotConcerned
  <2> QED BY <2>4, <2>5
<1> QED BY <1>1, <1>4, <1>5, <1>6 DEF WorldStep

LEMMA LeftMoves ==
  ASSUME BgInv, NEW m, Hearing(m), m.type = "left", LeftQueue(m)
  PROVE  WorldStep
<1>1. /\ m \in WorldMessages /\ UNCHANGED queueVars
      /\ \A A : Takes(toWorld, toWorld', m, A)
      /\ \A A : m \notin A => Alike(toWorld, toWorld', A)
      /\ ~Has(toWorld', LateW(groups))
  BY HeadTaken
<1>2. PICK x \in Players : x = m.player
  BY <1>1, WorldMessageHas
<1>3. /\ slot' = IF InWorld(x) THEN [slot EXCEPT ![x] = NotQueued] ELSE slot
      /\ UNCHANGED <<online, bgId, far, events, game, toQueue>>
  BY <1>2 DEF LeftQueue
<1>4. InsideInv'
  BY <1>3 DEF BgInv, PlayerInv, InsideInv
<1>5. StampInv'
  BY <1>1, <1>3, StampsKept, StampsAre
<1>6. ASSUME NEW p \in Steady
      PROVE  Stepped(p)
  <2>1. PICK v, u : v = View(p) /\ u = View(p)'
    OBVIOUS
  <2>2. /\ p \in Players /\ Phase(p, toQueue, toWorld, v)
        /\ v.here <=> InWorld(p)
        /\ v.here => v.online
        /\ v.slot = slot[p]
    BY <2>1, Person
  <2>3. u.slot = slot'[p]
    BY <2>1, PersonNext
  <2>4. CASE p = x
    <3>1. u.slot = IF v.here THEN NotQueued ELSE v.slot
      BY <1>3, <2>2, <2>3, <2>4, GameFacts
    <3>2. SameQueue(v, u)
      BY <1>1, <2>1, QueueSideSame
    <3>3. u.online = v.online /\ u.here = v.here /\ u.bg = v.bg /\ u.inside = v.inside /\ u.events = v.events
      BY <1>3, <2>1 DEF View, InWorld
    <3>4. m \in Lefts(p)
      BY <1>1, <1>2, <2>4 DEF Lefts
    <3>5. Goes(p, toQueue, toWorld, v, toQueue, toWorld', u)
      BY <1>1, <2>2, <3>1, <3>2, <3>3, <3>4, HearsLeft
    <3> QED BY <1>3, <2>1, <3>5 DEF Stepped
  <2>5. CASE p # x
    <3>1. m \notin WAbout(p)
      BY <1>2, <2>5 DEF WAbout, WAnswers, Joineds, Offers, EntersOf, Lefts, Expiries
    <3>2. Alike(toQueue, toQueue', QAbout(p)) /\ Alike(toWorld, toWorld', WAbout(p))
      BY <1>1, <1>3, <3>1, QueueAlike
    <3>3. slot'[p] = slot[p]
      BY <1>3, <2>2, <2>5, GameFacts
    <3> QED BY <1>1, <1>3, <3>2, <3>3, NotConcerned
  <2> QED BY <2>4, <2>5
<1> QED BY <1>1, <1>4, <1>5, <1>6 DEF WorldStep

LEMMA ExpiredMoves ==
  ASSUME BgInv, NEW m, Hearing(m), m.type = "expire", Expired(m)
  PROVE  WorldStep
<1>1. /\ m \in WorldMessages /\ UNCHANGED queueVars
      /\ \A A : Takes(toWorld, toWorld', m, A)
      /\ \A A : m \notin A => Alike(toWorld, toWorld', A)
      /\ ~Has(toWorld', LateW(groups))
      /\ m.event.stamp <= groups
  BY HeadTaken
<1>2. PICK x \in Players, e \in Invites : x = m.player /\ e = m.event
  BY <1>1, WorldMessageHas
<1>3. PICK b \in BOOLEAN : b <=> Exists(e.game) /\ ~game[e.game].over
  OBVIOUS
<1>4. PICK n : n = [type |-> "expire", player |-> x, event |-> e, update |-> b]
  OBVIOUS
<1>5. n \in QueueMessages /\ n.type = "expire" /\ n.player = x /\ n.event = e
  BY <1>4, QueueMessageIs
<1>6. /\ toQueue' = IF InWorld(x) /\ slot[x] # NotQueued THEN Append(toQueue, n) ELSE toQueue
      /\ UNCHANGED <<playerVars, game>>
  <2>1. n = [type |-> "expire", player |-> x, event |-> e, update |-> Exists(e.game) /\ ~game[e.game].over]
    BY <1>3, <1>4
  <2> QED BY <1>2, <2>1 DEF Expired
<1>7. /\ InWorld(x) /\ slot[x] # NotQueued => \A A : Posts(toQueue, toQueue', n, A)
      /\ \A A : n \notin A => Alike(toQueue, toQueue', A)
      /\ \A K : n \notin K /\ ~Has(toQueue, K) => ~Has(toQueue', K)
  <2>1. CASE InWorld(x) /\ slot[x] # NotQueued
    BY <1>5, <1>6, <2>1, OnePost, StampsAre
  <2>2. CASE ~(InWorld(x) /\ slot[x] # NotQueued)
    BY <1>6, <2>2, AlikeSame
  <2> QED BY <2>1, <2>2
<1>8. InsideInv'
  BY <1>6 DEF BgInv, PlayerInv, InsideInv, playerVars
<1>9. StampInv'
  <2>1. n \notin LateQ(groups)
    BY <1>1, <1>2, <1>5 DEF LateQ
  <2>2. \A p \in Players : \A f \in events'[p] : f.stamp <= groups
    BY <1>6, StampsAre DEF playerVars
  <2> QED BY <1>1, <1>7, <2>1, <2>2, StampsKept, StampsAre
<1>10. ASSUME NEW p \in Steady
       PROVE  Stepped(p)
  <2>1. PICK v : v = View(p)
    OBVIOUS
  <2>2. /\ v \in Views /\ Phase(p, toQueue, toWorld, v) /\ v.slot = slot[p]
        /\ v.here <=> InWorld(p)
    BY <2>1, Person
  <2>3. View(p)' = v
    BY <1>1, <1>6, <2>1, ViewSame DEF queueVars
  <2>4. CASE p = x
    <3>1. m \in Expiries(p)
      BY <1>1, <1>2, <2>4 DEF Expiries
    <3>2. n \in Of(Lapses(p), m.event)
      BY <1>2, <1>5, <2>4 DEF Of, Lapses
    <3>3. IF v.here /\ v.slot # NotQueued
          THEN \E k \in Of(Lapses(p), m.event) : Posts(toQueue, toQueue', k, QAbout(p))
          ELSE toQueue' = toQueue
      BY <1>6, <1>7, <2>2, <2>4, <3>2
    <3>4. Goes(p, toQueue, toWorld, v, toQueue', toWorld', v)
      BY <1>1, <2>2, <3>1, <3>3, HearsExpiry
    <3> QED BY <2>1, <2>3, <3>4 DEF Stepped
  <2>5. CASE p # x
    <3>1. m \notin WAbout(p)
      BY <1>2, <2>5 DEF WAbout, WAnswers, Joineds, Offers, EntersOf, Lefts, Expiries
    <3>2. n \notin QAbout(p)
      BY <1>5, <2>5 DEF QAbout, QAnswers, Joins, Ports, Removes, Lapses
    <3>3. Alike(toQueue, toQueue', QAbout(p)) /\ Alike(toWorld, toWorld', WAbout(p))
      BY <1>1, <1>7, <3>1, <3>2
    <3> QED BY <1>1, <1>6, <3>3, NotConcerned DEF playerVars
  <2> QED BY <2>4, <2>5
<1> QED BY <1>1, <1>8, <1>9, <1>10 DEF WorldStep

LEMMA EnteredMoves ==
  ASSUME BgInv, NEW m, Hearing(m), m.type = "enter", Entered(m)
  PROVE  WorldStep
<1>1. /\ m \in WorldMessages /\ UNCHANGED queueVars
      /\ \A A : Takes(toWorld, toWorld', m, A)
      /\ \A A : m \notin A => Alike(toWorld, toWorld', A)
      /\ ~Has(toWorld', LateW(groups))
  BY HeadTaken
<1>2. PICK x \in Players, g \in Games : x = m.player /\ g = m.game
  BY <1>1, WorldMessageHas
<1>3. PICK old : old = bgId[x]
  OBVIOUS
<1>4. IF ~InWorld(x) THEN UNCHANGED <<playerVars, game, toQueue>>
      ELSE /\ IF old # NoGame THEN RemovePlayerAtLeave(old, x) ELSE UNCHANGED <<game, toQueue>>
           /\ slot' = IF old # NoGame /\ x \in game[old].inside
                      THEN [slot EXCEPT ![x] = NotQueued] ELSE slot
           /\ bgId' = [bgId EXCEPT ![x] = g] /\ far' = far \cup {x}
           /\ UNCHANGED <<online, events>>
  BY <1>2, <1>3 DEF Entered
<1>5. /\ Quietly /\ DOMAIN game' = DOMAIN game
      /\ \A h \in DOMAIN game : game'[h].inside = IF InWorld(x) /\ h = old THEN game[h].inside \ {x}
                                                  ELSE game[h].inside
  <2>1. CASE InWorld(x) /\ old # NoGame
    <3>1. Exists(old) /\ RemovePlayerAtLeave(old, x)
      BY <1>3, <1>4, <2>1, GameFacts
    <3> QED BY <2>1, <3>1, LeaveIsQuiet
  <2>2. CASE ~(InWorld(x) /\ old # NoGame)
    <3>1. UNCHANGED <<game, toQueue>>
      BY <1>4, <2>2
    <3>2. Quietly
      BY <3>1, NothingIsQuiet, StampsAre
    <3> QED BY <2>2, <3>1, <3>2, GameFacts
  <2> QED BY <2>1, <2>2
<1>6. /\ \A p : Alike(toQueue, toQueue', QAbout(p))
      /\ \A n : ~Has(toQueue, LateQ(n)) => ~Has(toQueue', LateQ(n))
  BY <1>5, QuietlyIs, StampsAre
<1>7. /\ UNCHANGED <<online, events>>
      /\ \A p \in Players : p # x => /\ slot'[p] = slot[p] /\ bgId'[p] = bgId[p]
                                     /\ p \in far' <=> p \in far
  BY <1>4, GameFacts DEF playerVars
<1>8. InsideInv'
  <2> SUFFICES ASSUME NEW h \in DOMAIN game, NEW y \in game'[h].inside
               PROVE  bgId'[y] = h
    BY <1>5 DEF InsideInv
  <2>1. y \in game[h].inside /\ (InWorld(x) /\ h = old => y # x)
    BY <1>5
  <2>2. bgId[y] = h /\ y \in Players
    BY <2>1, GameFacts
  <2>3. CASE y = x
    <3>1. ~InWorld(x)
      BY <1>3, <2>1, <2>2, <2>3
    <3> QED BY <1>4, <2>2, <3>1 DEF playerVars
  <2> QED BY <1>7, <2>2, <2>3
<1>9. StampInv'
  BY <1>1, <1>6, <1>7, StampsKept, StampsAre
<1>10. ASSUME NEW p \in Steady
       PROVE  Stepped(p)
  <2>1. PICK v, u : v = View(p) /\ u = View(p)'
    OBVIOUS
  <2>2. /\ p \in Players /\ Phase(p, toQueue, toWorld, v) /\ v.slot = slot[p] /\ v.bg = bgId[p]
        /\ v.online <=> p \in online
        /\ v.here <=> InWorld(p)
        /\ v.here => v.online
    BY <2>1, Person
  <2>3. /\ u.slot = slot'[p] /\ u.bg = bgId'[p]
        /\ u.online <=> p \in online'
        /\ u.here <=> p \in online' /\ p \notin far'
    BY <2>1, PersonNext
  <2>4. CASE p = x
    <3>1. m \in EntersOf(p)
      BY <1>1, <1>2, <2>4 DEF EntersOf
    <3>2. Has(toWorld, EntersOf(p))
      BY <1>1, <3>1, WClassesAll DEF Takes
    <3>3. v.here /\ v.bg = NoGame
      BY <2>2, <3>2, IsSent
    <3>4. InWorld(x) /\ old = NoGame
      BY <1>3, <2>2, <2>4, <3>3
    <3>5. slot' = slot /\ bgId' = [bgId EXCEPT ![x] = g] /\ far' = far \cup {x} /\ UNCHANGED <<online, game, toQueue>>
      BY <1>4, <3>4
    <3>6. u.slot = v.slot /\ u.bg = m.game /\ u.online /\ ~u.here
      BY <1>2, <2>2, <2>3, <2>4, <3>3, <3>5, GameFacts
    <3>7. SameQueue(v, u)
      BY <1>1, <2>1, QueueSideSame
    <3>8. Goes(p, toQueue, toWorld, v, toQueue, toWorld', u)
      BY <1>1, <2>2, <3>1, <3>6, <3>7, HearsEnter
    <3> QED BY <2>1, <3>5, <3>8 DEF Stepped
  <2>5. CASE p # x
    <3>1. m \notin WAbout(p)
      BY <1>2, <2>5 DEF WAbout, WAnswers, Joineds, Offers, EntersOf, Lefts, Expiries
    <3>2. Alike(toQueue, toQueue', QAbout(p)) /\ Alike(toWorld, toWorld', WAbout(p))
      BY <1>1, <1>6, <3>1
    <3>3. ASSUME bgId[p] # NoGame
          PROVE  p \in game'[bgId[p]].inside <=> p \in game[bgId[p]].inside
      <4>1. bgId[p] \in DOMAIN game
        BY <2>2, <3>3, GameFacts DEF Exists
      <4> QED BY <1>5, <2>5, <4>1
    <3>4. slot'[p] = slot[p] /\ bgId'[p] = bgId[p] /\ (p \in far' <=> p \in far)
      BY <1>7, <2>2, <2>5
    <3> QED BY <1>1, <1>7, <3>2, <3>3, <3>4, NotConcerned
  <2> QED BY <2>4, <2>5
<1> QED BY <1>1, <1>8, <1>9, <1>10 DEF WorldStep

LEMMA MessageMoves ==
  ASSUME BgInv, WorldMessage
  PROVE  WorldStep
<1>1. PICK m : m = Head(toWorld)
  OBVIOUS
<1>2. Hearing(m)
  BY <1>1 DEF WorldMessage, Hearing
<1>3. \/ m.type = "joined" /\ Joined(m)
      \/ m.type = "invite" /\ Invited(m)
      \/ m.type = "count" /\ SetInvitedCount(m)
      \/ m.type = "create" /\ CreateNewBattleGround(m)
      \/ m.type = "enter" /\ Entered(m)
      \/ m.type = "left" /\ LeftQueue(m)
      \/ m.type = "expire" /\ Expired(m)
  BY <1>1 DEF WorldMessage
<1> QED BY <1>2, <1>3, JoinedMoves, InvitedMoves, CountMoves, CreateMoves, EnteredMoves, LeftMoves, ExpiredMoves

(* A step of the queue.                                                    *)
QueueMoves == UNCHANGED <<playerVars, game>> /\ OwnGroup' /\ StampInv' /\ \A p \in Steady : Stepped(p)

LEMMA QueueMovesKeeps ==
  ASSUME BgInv, QueueMoves
  PROVE  PlayerInv'
<1>1. InsideInv'
  BY DEF BgInv, PlayerInv, InsideInv, QueueMoves, playerVars
<1>2. PhaseInv'
  BY DEF QueueMoves, Stepped, Goes, PhaseInv
<1> QED BY <1>1, <1>2 DEF QueueMoves, PlayerInv

LEMMA WorldUnmoved ==
  ASSUME NEW p, UNCHANGED <<playerVars, game>>
  PROVE  SameWorld(View(p), View(p)') /\ View(p)'.events = View(p).events
<1>1. UNCHANGED <<online, slot, bgId, far, events, game>>
  BY DEF playerVars
<1> QED BY <1>1 DEF View, SameWorld, InWorld

LEMMA QueueNotConcerned ==
  ASSUME BgInv, NEW p \in Steady, UNCHANGED <<playerVars, game>>, queuedPlayers'[p] = queuedPlayers[p],
         InQueue(p) => queuedGroups'[queuedPlayers[p]].invitedTo = queuedGroups[queuedPlayers[p]].invitedTo,
         Alike(toQueue, toQueue', QAbout(p)), Alike(toWorld, toWorld', WAbout(p))
  PROVE  Stepped(p)
<1>1. PICK v, u : v = View(p) /\ u = View(p)'
  OBVIOUS
<1>2. Phase(p, toQueue, toWorld, v) /\ SameWorld(v, u) /\ u.events = v.events
  BY <1>1, Person, WorldUnmoved
<1>3. SameQueue(v, u)
  BY <1>1 DEF View, SameQueue, InQueue, GroupOf
<1> QED BY <1>1, <1>2, <1>3, Untouched DEF Stepped

LEMMA LaterIsLate ==
  ASSUME NEW n \in Nat
  PROVE  /\ LateW(n + 1) \subseteq LateW(n) /\ LateQ(n + 1) \subseteq LateQ(n)
         /\ \A p : /\ Since(Offers(p), n + 1) \subseteq LateW(n) /\ Since(Expiries(p), n + 1) \subseteq LateW(n)
                   /\ Since(Lapses(p), n + 1) \subseteq LateQ(n)
<1>1. \A m \in WorldMessages : m.type \in {"invite", "expire"} => m.event.stamp \in Nat
  BY WorldMessageHas DEF Invites
<1>2. \A m \in QueueMessages : m.type = "expire" => m.event.stamp \in Nat
  BY QueueMessageHas DEF Invites
<1>3. \A k \in Nat : (~(k < n + 1) => ~(k <= n)) /\ (~(k <= n + 1) => ~(k <= n))
  OBVIOUS
<1>4. LateW(n + 1) \subseteq LateW(n)
  BY <1>1, <1>3 DEF LateW
<1>5. LateQ(n + 1) \subseteq LateQ(n)
  BY <1>2, <1>3 DEF LateQ
<1>6. \A p : Since(Offers(p), n + 1) \subseteq LateW(n)
  BY <1>1, <1>3 DEF LateW, Since, Offers
<1>7. \A p : Since(Expiries(p), n + 1) \subseteq LateW(n)
  BY <1>1, <1>3 DEF LateW, Since, Expiries
<1>8. \A p : Since(Lapses(p), n + 1) \subseteq LateQ(n)
  BY <1>2, <1>3 DEF LateQ, Since, Lapses
<1> QED BY <1>4, <1>5, <1>6, <1>7, <1>8

(* The queue takes a message.                                              *)
QueueHearing(m) == /\ toQueue # << >> /\ m = Head(toQueue) /\ toQueue' = Tail(toQueue)
                   /\ UNCHANGED <<playerVars, game>>

LEMMA QueueHeadTaken ==
  ASSUME BgInv, NEW m, QueueHearing(m)
  PROVE  /\ m \in QueueMessages /\ UNCHANGED <<playerVars, game>>
         /\ \A A : Takes(toQueue, toQueue', m, A)
         /\ \A A : m \notin A => Alike(toQueue, toQueue', A)
         /\ \A K : ~Has(toQueue, K) => ~Has(toQueue', K) /\ m \notin K
         /\ ~Has(toQueue', LateQ(groups))
<1>1. /\ toQueue # << >> /\ m = Head(toQueue) /\ toQueue' = Tail(toQueue)
      /\ toQueue \in Seq(QueueMessages)
  BY StampsAre DEF QueueHearing
<1>2. /\ m \in QueueMessages
      /\ \A K : Has(toQueue, K) <=> m \in K \/ Has(toQueue', K)
  BY <1>1, Taking
<1>3. \A A : Takes(toQueue, toQueue', m, A)
  BY <1>1, TakesIs
<1>4. \A A : m \notin A => Alike(toQueue, toQueue', A)
  BY <1>1, AlikeTaken
<1>5. UNCHANGED <<playerVars, game>>
  BY DEF QueueHearing
<1> QED BY <1>2, <1>3, <1>4, <1>5, StampsAre

LEMMA StampsKeptByQueue ==
  ASSUME BgInv, UNCHANGED <<playerVars, groups>>, \A p \in Players : queuedPlayers'[p] \in {queuedPlayers[p], 0},
         ~Has(toWorld', LateW(groups)), ~Has(toQueue', LateQ(groups))
  PROVE  StampInv'
<1>1. groups \in Nat /\ \A p \in Players : queuedPlayers[p] <= groups
  BY DEF BgInv, PlayerInv, StampInv, EntryInv, TypeInv, QueueType
<1>2. \A p \in Players : queuedPlayers'[p] <= groups
  <2>1. 0 <= groups
    BY <1>1
  <2> QED BY <1>1, <2>1
<1>3. \A p \in Players : \A e \in events'[p] : e.stamp <= groups
  BY StampsAre DEF playerVars
<1>4. ~Has(toWorld', LateW(groups')) /\ ~Has(toQueue', LateQ(groups'))
  OBVIOUS
<1> QED BY <1>2, <1>3, <1>4 DEF StampInv

LEMMA JoinStep ==
  ASSUME BgInv, NEW m, QueueHearing(m), m.type = "join", AddGroup(m)
  PROVE  QueueMoves
<1>1. /\ m \in QueueMessages /\ UNCHANGED <<playerVars, game>>
      /\ \A A : Takes(toQueue, toQueue', m, A)
      /\ \A A : m \notin A => Alike(toQueue, toQueue', A)
      /\ ~Has(toQueue', LateQ(groups))
  BY QueueHeadTaken
<1>2. PICK ps \in SUBSET Players : ps = m.players
  BY <1>1, QueueMessageHas
<1>3. PICK k : k = groups + 1
  OBVIOUS
<1>4. PICK new : new = [players |-> ps, invitedTo |-> NoGame, team |-> TeamOf(CHOOSE p \in ps : TRUE)]
  OBVIOUS
<1>5. new.invitedTo = NoGame /\ new.players = ps
  BY <1>4
<1>6. /\ groups' = k
      /\ queuedPlayers' = [p \in Players |-> IF p \in ps THEN k ELSE queuedPlayers[p]]
      /\ queuedGroups' = [i \in DOMAIN queuedGroups \cup {k} |-> IF i # k THEN queuedGroups[i] ELSE new]
      /\ toWorld' = Append(toWorld, [type |-> "joined", players |-> ps])
  BY <1>2, <1>3, <1>4 DEF AddGroup
<1>7. groups \in Nat /\ k \in Nat \ {0} /\ DOMAIN queuedGroups \subseteq 1..groups
  BY <1>3 DEF BgInv, EntryInv, TypeInv, QueueType, QueueInv, GroupInv
<1>8. PICK n : n = [type |-> "joined", players |-> ps]
  OBVIOUS
<1>9. n \in WorldMessages /\ n.type = "joined" /\ n.players = ps
  BY <1>8, WorldMessageIs
<1>10. /\ \A A : Posts(toWorld, toWorld', n, A)
       /\ \A A : n \notin A => Alike(toWorld, toWorld', A)
       /\ \A K : Has(toWorld', K) <=> Has(toWorld, K) \/ n \in K
  <2>1. toWorld' = Append(toWorld, n) /\ toWorld \in Seq(WorldMessages)
    BY <1>6, <1>8, StampsAre
  <2> QED BY <1>9, <2>1, OnePost
<1>11. \A i \in DOMAIN queuedGroups : i # k /\ i # 0 /\ queuedGroups'[i] = queuedGroups[i]
  <2>1. \A i \in DOMAIN queuedGroups : i # k /\ i # 0
    BY <1>3, <1>7
  <2> QED BY <1>6, <2>1
<1>12. queuedGroups'[k] = new
  BY <1>6
<1>13. OwnGroup'
  <2> SUFFICES ASSUME NEW i \in DOMAIN queuedGroups', NEW p \in queuedGroups'[i].players \cap Steady
               PROVE  queuedPlayers'[p] = i
    BY DEF OwnGroup
  <2>1. p \in Players
    BY DEF Steady
  <2>2. CASE i = k
    BY <1>5, <1>6, <1>12, <2>1, <2>2
  <2>3. CASE i # k
    <3>1. i \in DOMAIN queuedGroups /\ p \in queuedGroups[i].players
      BY <1>6, <1>11, <2>3
    <3>2. queuedPlayers[p] = i
      BY <3>1 DEF BgInv, PlayerInv, OwnGroup
    <3>3. ASSUME p \in ps
          PROVE  FALSE
      <4>1. m \in Joins(p)
        BY <1>1, <1>2, <3>3 DEF Joins
      <4>2. PICK v : v = View(p)
        OBVIOUS
      <4>3. Phase(p, toQueue, toWorld, v) /\ v.stamp = queuedPlayers[p]
        BY <4>2, Person
      <4>4. v.stamp = 0
        BY <1>1, <4>1, <4>3, JoinHeard
      <4> QED BY <1>11, <3>1, <3>2, <4>3, <4>4
    <3> QED BY <1>6, <2>1, <3>2, <3>3
  <2> QED BY <2>2, <2>3
<1>14. StampInv'
  <2>1. \A p \in Players : queuedPlayers'[p] <= k /\ \A e \in events'[p] : e.stamp <= k
    <3>1. TAKE p \in Players
    <3>2. queuedPlayers[p] \in Nat /\ queuedPlayers[p] <= groups /\ events[p] \subseteq Invites
      BY GameFacts DEF BgInv, PlayerInv, StampInv, EntryInv, TypeInv, QueueType
    <3>3. queuedPlayers'[p] <= k
      BY <1>3, <1>6, <1>7, <3>2
    <3>4. ASSUME NEW e \in events'[p]
          PROVE  e.stamp <= k
      <4>1. e \in events[p]
        BY <1>1 DEF playerVars
      <4>2. e.stamp \in Nat /\ e.stamp <= groups
        BY <3>2, <4>1, StampsAre DEF Invites
      <4> QED BY <1>3, <1>7, <4>2
    <3> QED BY <3>3, <3>4
  <2>2. ~Has(toWorld', LateW(groups))
    <3>1. n \notin LateW(groups)
      BY <1>9 DEF LateW
    <3> QED BY <1>10, <3>1, StampsAre
  <2>3. LateW(k) \subseteq LateW(groups) /\ LateQ(k) \subseteq LateQ(groups)
    BY <1>3, <1>7, LaterIsLate
  <2>4. ~Has(toWorld', LateW(k)) /\ ~Has(toQueue', LateQ(k))
    BY <1>1, <2>2, <2>3, HasMore
  <2> QED BY <1>6, <2>1, <2>4 DEF StampInv
<1>15. ASSUME NEW p \in Steady
       PROVE  Stepped(p)
  <2>1. PICK v, u : v = View(p) /\ u = View(p)'
    OBVIOUS
  <2>2. /\ p \in Players /\ Phase(p, toQueue, toWorld, v) /\ v.events = events[p] /\ v.stamp = queuedPlayers[p]
    BY <2>1, Person
  <2>3. CASE p \in ps
    <3>1. m \in Joins(p) /\ n \in Joineds(p)
      BY <1>1, <1>2, <1>9, <2>3 DEF Joins, Joineds
    <3>2. SameWorld(v, u) /\ u.events = v.events
      BY <1>1, <2>1, WorldUnmoved
    <3>3. queuedPlayers'[p] = k
      BY <1>6, <2>2, <2>3
    <3>4. u.stamp = k /\ u.invited = NoGame
      BY <1>5, <1>7, <1>12, <2>1, <3>3, PersonNext
    <3>5. /\ ~Has(toWorld, Since(Offers(p), k)) /\ ~Has(toWorld, Since(Expiries(p), k))
          /\ ~Has(toQueue, Since(Lapses(p), k))
      BY <1>3, <1>7, LaterIsLate, StampsAre, HasMore
    <3>6. \A e \in v.events : e.stamp < k
      <4> TAKE e \in v.events
      <4>1. e.stamp \in Nat /\ e.stamp <= groups
        BY <2>2, GameFacts, StampsAre DEF Invites
      <4> QED BY <1>3, <1>7, <4>1
    <3>7. Goes(p, toQueue, toWorld, v, toQueue', toWorld', u)
      BY <1>1, <1>7, <1>10, <2>2, <3>1, <3>2, <3>4, <3>5, <3>6, QueueHearsJoin
    <3> QED BY <2>1, <3>7 DEF Stepped
  <2>4. CASE p \notin ps
    <3>1. m \notin QAbout(p)
      BY <1>2, <2>4 DEF QAbout, QAnswers, Joins, Ports, Removes, Lapses
    <3>2. n \notin WAbout(p)
      BY <1>9, <2>4 DEF WAbout, WAnswers, Joineds, Offers, EntersOf, Lefts, Expiries
    <3>3. queuedPlayers'[p] = queuedPlayers[p]
      BY <1>6, <2>2, <2>4
    <3>4. InQueue(p) => queuedPlayers[p] \in DOMAIN queuedGroups
      BY <2>2 DEF BgInv, QueueInv, GroupInv
    <3>5. InQueue(p) => queuedGroups'[queuedPlayers[p]].invitedTo = queuedGroups[queuedPlayers[p]].invitedTo
      BY <1>11, <3>4
    <3> QED BY <1>1, <1>10, <3>1, <3>2, <3>3, <3>5, QueueNotConcerned
  <2> QED BY <2>3, <2>4
<1> QED BY <1>1, <1>13, <1>14, <1>15 DEF QueueMoves

LEMMA AlikeTwice ==
  ASSUME NEW r, NEW s, NEW t, NEW A, Alike(r, s, A), Alike(s, t, A)
  PROVE  Alike(r, t, A)
BY DEF Alike

\* Nothing happens in the queue to the groups.
LEMMA IgnoredStep ==
  ASSUME BgInv, NEW m, QueueHearing(m), UNCHANGED <<queuedPlayers, queuedGroups, groups>>,
         \A p : Alike(toWorld, toWorld', WAbout(p)), ~Has(toWorld', LateW(groups)),
         \A p \in Steady : m \in QAbout(p) => Stepped(p)
  PROVE  QueueMoves
<1>1. /\ UNCHANGED <<playerVars, game>>
      /\ \A A : m \notin A => Alike(toQueue, toQueue', A)
      /\ ~Has(toQueue', LateQ(groups))
  BY QueueHeadTaken
<1>2. OwnGroup'
  BY DEF BgInv, PlayerInv, OwnGroup
<1>3. StampInv'
  BY <1>1, StampsKeptByQueue
<1>4. ASSUME NEW p \in Steady
      PROVE  Stepped(p)
  <2>1. CASE m \notin QAbout(p)
    BY <1>1, <2>1, QueueNotConcerned
  <2> QED BY <2>1
<1> QED BY <1>1, <1>2, <1>3, <1>4 DEF QueueMoves

\* Messages about counts.
LEMMA CountsPosted ==
  ASSUME BgInv, NEW t \in Seq(WorldMessages), toWorld' = toWorld \o t,
         \A K : (\A m \in K : m.type # "count") => ~Has(t, K)
  PROVE  /\ \A p : Alike(toWorld, toWorld', WAbout(p))
         /\ ~Has(toWorld', LateW(groups))
<1>1. \A p : ~Has(t, WAbout(p))
  <2>1. \A p : \A m \in WAbout(p) : m.type # "count"
    BY DEF WAbout, WAnswers, Joineds, Offers, EntersOf, Lefts, Expiries
  <2> QED BY <2>1
<1>2. ~Has(t, LateW(groups))
  <2>1. \A m \in LateW(groups) : m.type # "count"
    BY DEF LateW
  <2> QED BY <2>1
<1>3. toWorld \in Seq(WorldMessages)
  BY StampsAre
<1>4. \A p : Alike(toWorld, toWorld \o t, WAbout(p))
  BY <1>1, <1>3, AlikePosted
<1>5. Has(toWorld \o t, LateW(groups)) <=> Has(toWorld, LateW(groups)) \/ Has(t, LateW(groups))
  BY <1>3, Posting
<1> QED BY <1>2, <1>4, <1>5, StampsAre

LEMMA RemovePostsAre ==
  ASSUME BgInv, NEW x \in Players, InQueue(x)
  PROVE  /\ RemovePosts(x) \in Seq(WorldMessages)
         /\ \A K : (\A m \in K : m.type # "count") => ~Has(RemovePosts(x), K)
         /\ \A p : Alike(toWorld, toWorld \o RemovePosts(x), WAbout(p))
         /\ toWorld \o RemovePosts(x) \in Seq(WorldMessages)
         /\ ~Has(toWorld \o RemovePosts(x), LateW(groups))
<1>1. PICK t : t = RemovePosts(x)
  OBVIOUS
<1>2. /\ t \in Seq(WorldMessages)
      /\ \A K : (\A m \in K : m.type # "count") => ~Has(t, K)
  BY <1>1, RemovePostsIs DEF BgInv, EntryInv, QueueInv
<1>3. \A p : ~Has(t, WAbout(p))
  <2>1. \A p : \A m \in WAbout(p) : m.type # "count"
    BY DEF WAbout, WAnswers, Joineds, Offers, EntersOf, Lefts, Expiries
  <2> QED BY <1>2, <2>1
<1>4. ~Has(t, LateW(groups))
  <2>1. \A m \in LateW(groups) : m.type # "count"
    BY DEF LateW
  <2> QED BY <1>2, <2>1
<1>5. toWorld \in Seq(WorldMessages)
  BY StampsAre
<1>6. \A p : Alike(toWorld, toWorld \o t, WAbout(p))
  BY <1>2, <1>3, <1>5, AlikePosted
<1>7. /\ toWorld \o t \in Seq(WorldMessages)
      /\ Has(toWorld \o t, LateW(groups)) <=> Has(toWorld, LateW(groups)) \/ Has(t, LateW(groups))
  BY <1>2, <1>5, Posting
<1> QED BY <1>1, <1>2, <1>4, <1>6, <1>7, StampsAre

\* Told that he is out of the queue.
LEMMA LeftPosted ==
  ASSUME BgInv, NEW x \in Players, InQueue(x), NEW n \in WorldMessages, n.type = "left", n.player = x,
         toWorld' = toWorld \o RemovePosts(x) \o <<n>>
  PROVE  /\ Posts(toWorld, toWorld', n, WAbout(x))
         /\ \A p : p # x => Alike(toWorld, toWorld', WAbout(p))
         /\ ~Has(toWorld', LateW(groups))
<1>1. PICK s : s = toWorld \o RemovePosts(x)
  OBVIOUS
<1>2. /\ s \in Seq(WorldMessages) /\ ~Has(s, LateW(groups))
      /\ \A p : Alike(toWorld, s, WAbout(p))
  BY <1>1, RemovePostsAre
<1>3. toWorld' = Append(s, n)
  BY <1>1, <1>2, AppendIs
<1>4. /\ \A A : Posts(s, toWorld', n, A)
      /\ \A A : n \notin A => Alike(s, toWorld', A)
      /\ \A K : Has(toWorld', K) <=> Has(s, K) \/ n \in K
  BY <1>2, <1>3, OnePost
<1>5. Posts(toWorld, toWorld', n, WAbout(x))
  BY <1>2, <1>4, PostsAfter
<1>6. ASSUME NEW p, p # x
      PROVE  Alike(toWorld, toWorld', WAbout(p))
  <2>1. n \notin WAbout(p)
    BY <1>6 DEF WAbout, WAnswers, Joineds, Offers, EntersOf, Lefts, Expiries
  <2> QED BY <1>2, <1>4, <2>1, AlikeTwice
<1>7. n \notin LateW(groups)
  BY DEF LateW
<1> QED BY <1>2, <1>4, <1>5, <1>6, <1>7

\* A player leaves the queue.
LEMMA OutStep ==
  ASSUME BgInv, NEW m, QueueHearing(m), NEW x \in Players, InQueue(x), GroupsAfter(x), UNCHANGED groups,
         \A p : p # x => m \notin QAbout(p), \A p : p # x => Alike(toWorld, toWorld', WAbout(p)),
         ~Has(toWorld', LateW(groups)), x \in Steady => Stepped(x)
  PROVE  QueueMoves
<1>1. /\ UNCHANGED <<playerVars, game>>
      /\ \A A : m \notin A => Alike(toQueue, toQueue', A)
      /\ ~Has(toQueue', LateQ(groups))
  BY QueueHeadTaken
<1>2. /\ queuedPlayers' = [queuedPlayers EXCEPT ![x] = 0]
      /\ DOMAIN queuedGroups' \subseteq DOMAIN queuedGroups
      /\ \A i \in DOMAIN queuedGroups' :
            /\ queuedGroups'[i].invitedTo = queuedGroups[i].invitedTo
            /\ queuedGroups'[i].players =
                  IF i = queuedPlayers[x] THEN queuedGroups[i].players \ {x} ELSE queuedGroups[i].players
      /\ \A i \in DOMAIN queuedGroups :
            i # queuedPlayers[x] \/ queuedGroups[i].players \ {x} # {} => i \in DOMAIN queuedGroups'
  BY DEF GroupsAfter
<1>3. queuedPlayers \in [Players -> Nat]
  BY DEF BgInv, EntryInv, TypeInv, QueueType
<1>4. \A p \in Players : queuedPlayers'[p] = IF p = x THEN 0 ELSE queuedPlayers[p]
  BY <1>2, <1>3
<1>5. OwnGroup'
  <2> SUFFICES ASSUME NEW i \in DOMAIN queuedGroups', NEW p \in queuedGroups'[i].players \cap Steady
               PROVE  queuedPlayers'[p] = i
    BY DEF OwnGroup
  <2>1. p \in Players /\ i \in DOMAIN queuedGroups /\ p \in queuedGroups[i].players
    BY <1>2 DEF Steady
  <2>2. queuedPlayers[p] = i
    BY <2>1 DEF BgInv, PlayerInv, OwnGroup
  <2>3. p # x
    BY <1>2, <2>2
  <2> QED BY <1>4, <2>1, <2>2, <2>3
<1>6. StampInv'
  BY <1>1, <1>4, StampsKeptByQueue
<1>7. ASSUME NEW p \in Steady, p # x
      PROVE  Stepped(p)
  <2>1. p \in Players /\ queuedPlayers'[p] = queuedPlayers[p]
    BY <1>4, <1>7 DEF Steady
  <2>2. ASSUME InQueue(p)
        PROVE  queuedGroups'[queuedPlayers[p]].invitedTo = queuedGroups[queuedPlayers[p]].invitedTo
    <3>1. queuedPlayers[p] \in DOMAIN queuedGroups /\ p \in queuedGroups[queuedPlayers[p]].players
      BY <2>1, <2>2 DEF BgInv, QueueInv, GroupInv
    <3>2. queuedPlayers[p] \in DOMAIN queuedGroups'
      BY <1>2, <1>7, <3>1
    <3> QED BY <1>2, <3>2
  <2> QED BY <1>1, <1>7, <2>1, <2>2, QueueNotConcerned
<1> QED BY <1>1, <1>5, <1>6, <1>7 DEF QueueMoves

LEMMA OutOf ==
  ASSUME NEW x \in Players, GroupsAfter(x), BgInv
  PROVE  View(x)'.stamp = 0
<1>1. queuedPlayers'[x] = 0
  BY DEF GroupsAfter, BgInv, EntryInv, TypeInv, QueueType
<1> QED BY <1>1 DEF View

LEMMA AboutWhom ==
  ASSUME NEW m, NEW p
  PROVE  /\ m.type = "port" => (m \in QAbout(p) <=> m \in Ports(p)) /\ (m \in QAbout(p) => p = m.player)
         /\ m.type = "remove" => (m \in QAbout(p) <=> m \in Removes(p)) /\ (m \in QAbout(p) => p = m.player)
         /\ m.type = "expire" => (m \in QAbout(p) <=> m \in Lapses(p)) /\ (m \in QAbout(p) => p = m.player)
<1>1. m.type = "port" => (m \in QAbout(p) <=> m \in Ports(p)) /\ (m \in QAbout(p) => p = m.player)
  BY DEF QAbout, QAnswers, Joins, Ports, Removes, Lapses
<1>2. m.type = "remove" => (m \in QAbout(p) <=> m \in Removes(p)) /\ (m \in QAbout(p) => p = m.player)
  BY DEF QAbout, QAnswers, Joins, Ports, Removes, Lapses
<1>3. m.type = "expire" => (m \in QAbout(p) <=> m \in Lapses(p)) /\ (m \in QAbout(p) => p = m.player)
  BY DEF QAbout, QAnswers, Joins, Ports, Removes, Lapses
<1> QED BY <1>1, <1>2, <1>3

\* The world hears nothing of it.
LEMMA NothingHeard ==
  ASSUME BgInv, UNCHANGED toWorld
  PROVE  (\A p : Alike(toWorld, toWorld', WAbout(p))) /\ ~Has(toWorld', LateW(groups))
BY WorldAlike, StampsAre

LEMMA PortStep ==
  ASSUME BgInv, NEW m, QueueHearing(m), m.type = "port", Port(m)
  PROVE  QueueMoves
<1>1. /\ m \in QueueMessages /\ UNCHANGED <<playerVars, game, groups>>
      /\ \A A : Takes(toQueue, toQueue', m, A)
  BY QueueHeadTaken DEF Port
<1>2. PICK x \in Players : x = m.player
  BY <1>1, QueueMessageHas
<1>3. \A p : p # x => m \notin QAbout(p)
  BY <1>2, AboutWhom
<1>4. TypeInv /\ GroupInv /\ EntryInv
  BY StampsAre DEF BgInv, QueueInv
<1>5. \A p : m \in QAbout(p) => m \in Ports(p)
  BY AboutWhom
<1>6. m \in Ports(x)
  BY <1>1, <1>2 DEF Ports
<1>7. CASE ~InQueue(x) \/ (m.accept /\ GroupOf(x).invitedTo = NoGame)
  <2>1. UNCHANGED <<queuedPlayers, queuedGroups, toWorld>>
    BY <1>2, <1>7 DEF Port
  <2>2. ASSUME NEW p \in Steady, m \in QAbout(p)
        PROVE  Stepped(p)
    <3>1. PICK v : v = View(p)
      OBVIOUS
    <3>2. Phase(p, toQueue, toWorld, v) /\ View(p)' = v
      BY <1>1, <2>1, <3>1, Person, ViewSame
    <3>3. Goes(p, toQueue, toWorld, v, toQueue', toWorld, v)
      BY <1>1, <1>5, <2>2, <3>2, QueueIgnoresPort
    <3> QED BY <2>1, <3>1, <3>2, <3>3 DEF Stepped
  <2> QED BY <1>1, <2>1, <2>2, NothingHeard, IgnoredStep
<1>8. CASE InQueue(x) /\ m.accept /\ GroupOf(x).invitedTo # NoGame
  <2>1. PICK g \in Games : g = GroupOf(x).invitedTo
    BY <1>4, <1>8, GroupIs
  <2>2. Entries(g) # {}
    BY <1>4, <1>8, <2>1, GroupIs, Offered
  <2>3. PICK n : n = [type |-> "enter", player |-> x, game |-> g]
    OBVIOUS
  <2>4. n \in WorldMessages /\ n.type = "enter" /\ n.player = x /\ n.game = g
    BY <2>3, WorldMessageIs
  <2>5. RemovePlayer(x, FALSE) /\ toWorld' = Append(toWorld, n)
    <3>1. Accept(x)
      BY <1>2, <1>8 DEF Port
    <3> QED BY <2>1, <2>2, <2>3, <3>1 DEF Accept
  <2>6. GroupsAfter(x)
    BY <1>4, <1>8, <2>5, RemovePlayerIs
  <2>7. /\ \A A : Posts(toWorld, toWorld', n, A)
        /\ \A A : n \notin A => Alike(toWorld, toWorld', A)
        /\ \A K : Has(toWorld', K) <=> Has(toWorld, K) \/ n \in K
    BY <2>4, <2>5, OnePost, StampsAre
  <2>8. \A p : p # x => Alike(toWorld, toWorld', WAbout(p))
    <3>1. \A p : p # x => n \notin WAbout(p)
      BY <2>4 DEF WAbout, WAnswers, Joineds, Offers, EntersOf, Lefts, Expiries
    <3> QED BY <2>7, <3>1
  <2>9. ~Has(toWorld', LateW(groups))
    <3>1. n \notin LateW(groups)
      BY <2>4 DEF LateW
    <3> QED BY <2>7, <3>1, StampsAre
  <2>10. ASSUME x \in Steady
         PROVE  Stepped(x)
    <3>1. PICK v, u : v = View(x) /\ u = View(x)'
      OBVIOUS
    <3>2. /\ v \in Views /\ Phase(x, toQueue, toWorld, v)
          /\ v.stamp = queuedPlayers[x]
          /\ v.stamp # 0 => v.invited = GroupOf(x).invitedTo
      BY <2>10, <3>1, Person
    <3>3. v.stamp # 0 /\ v.invited = g
      BY <1>8, <2>1, <3>2 DEF InQueue
    <3>4. SameWorld(v, u) /\ u.stamp = 0
      BY <1>1, <2>6, <3>1, WorldUnmoved, OutOf
    <3>5. n \in EntersOf(x)
      BY <2>4 DEF EntersOf
    <3>6. Goes(x, toQueue, toWorld, v, toQueue', toWorld', u)
      BY <1>1, <1>6, <2>4, <2>7, <3>2, <3>3, <3>4, <3>5, QueueSends
    <3> QED BY <3>1, <3>6 DEF Stepped
  <2> QED BY <1>1, <1>3, <1>8, <2>6, <2>8, <2>9, <2>10, OutStep
<1>9. CASE InQueue(x) /\ ~m.accept
  <2>1. PICK n : n = [type |-> "left", player |-> x]
    OBVIOUS
  <2>2. n \in WorldMessages /\ n.type = "left" /\ n.player = x
    BY <2>1, WorldMessageIs
  <2>3. RemovePlayer(x, TRUE) /\ toWorld' = toWorld \o RemovePosts(x) \o <<n>>
    <3>1. Decline(x)
      BY <1>2, <1>9 DEF Port
    <3> QED BY <2>1, <3>1 DEF Decline
  <2>4. GroupsAfter(x)
    BY <1>4, <1>9, <2>3, RemovePlayerIs
  <2>5. /\ Posts(toWorld, toWorld', n, WAbout(x))
        /\ \A p : p # x => Alike(toWorld, toWorld', WAbout(p))
        /\ ~Has(toWorld', LateW(groups))
    BY <1>9, <2>2, <2>3, LeftPosted
  <2>6. ASSUME x \in Steady
        PROVE  Stepped(x)
    <3>1. PICK v, u : v = View(x) /\ u = View(x)'
      OBVIOUS
    <3>2. v \in Views /\ Phase(x, toQueue, toWorld, v) /\ v.stamp = queuedPlayers[x]
      BY <2>6, <3>1, Person
    <3>3. v.stamp # 0
      BY <1>9, <3>2 DEF InQueue
    <3>4. SameWorld(v, u) /\ u.stamp = 0
      BY <1>1, <2>4, <3>1, WorldUnmoved, OutOf
    <3>5. n \in Lefts(x)
      BY <2>2 DEF Lefts
    <3>6. Goes(x, toQueue, toWorld, v, toQueue', toWorld', u)
      BY <1>1, <1>6, <2>5, <3>2, <3>3, <3>4, <3>5, QueueHearsDecline
    <3> QED BY <3>1, <3>6 DEF Stepped
  <2> QED BY <1>1, <1>3, <1>9, <2>4, <2>5, <2>6, OutStep
<1> QED BY <1>7, <1>8, <1>9

LEMMA RemoveStep ==
  ASSUME BgInv, NEW m, QueueHearing(m), m.type = "remove", RemoveAtLogout(m)
  PROVE  QueueMoves
<1>1. /\ m \in QueueMessages /\ UNCHANGED <<playerVars, game, groups>>
      /\ \A A : Takes(toQueue, toQueue', m, A)
  BY QueueHeadTaken DEF RemoveAtLogout
<1>2. PICK x \in Players : x = m.player
  BY <1>1, QueueMessageHas
<1>3. \A p : p # x => m \notin QAbout(p)
  BY <1>2, AboutWhom
<1>4. TypeInv /\ GroupInv /\ EntryInv
  BY StampsAre DEF BgInv, QueueInv
<1>5. m \in Removes(x)
  BY <1>1, <1>2 DEF Removes
<1>6. CASE ~InQueue(x)
  <2>1. UNCHANGED <<queuedPlayers, queuedGroups, toWorld>>
    BY <1>2, <1>6 DEF RemoveAtLogout
  <2>2. ASSUME NEW p \in Steady, m \in QAbout(p)
        PROVE  Stepped(p)
    <3>1. PICK v : v = View(p)
      OBVIOUS
    <3>2. Phase(p, toQueue, toWorld, v) /\ View(p)' = v /\ v.stamp = queuedPlayers[p]
      BY <1>1, <2>1, <3>1, Person, ViewSame
    <3>3. p = x /\ v.stamp = 0 /\ SameWorld(v, v)
      BY <1>3, <1>6, <2>2, <3>2 DEF InQueue, SameWorld
    <3>4. Alike(toWorld, toWorld', WAbout(p))
      BY <2>1, NothingHeard
    <3>5. Goes(p, toQueue, toWorld, v, toQueue', toWorld', v)
      BY <1>1, <1>5, <3>2, <3>3, <3>4, QueueHearsRemove
    <3> QED BY <3>1, <3>2, <3>5 DEF Stepped
  <2> QED BY <1>1, <2>1, <2>2, NothingHeard, IgnoredStep
<1>7. CASE InQueue(x)
  <2>1. RemovePlayer(x, TRUE) /\ toWorld' = toWorld \o RemovePosts(x)
    BY <1>2, <1>7 DEF RemoveAtLogout
  <2>2. GroupsAfter(x)
    BY <1>4, <1>7, <2>1, RemovePlayerIs
  <2>3. (\A p : Alike(toWorld, toWorld', WAbout(p))) /\ ~Has(toWorld', LateW(groups))
    BY <1>7, <2>1, RemovePostsAre
  <2>4. ASSUME x \in Steady
        PROVE  Stepped(x)
    <3>1. PICK v, u : v = View(x) /\ u = View(x)'
      OBVIOUS
    <3>2. Phase(x, toQueue, toWorld, v)
      BY <2>4, <3>1, Person
    <3>3. SameWorld(v, u) /\ u.stamp = 0
      BY <1>1, <2>2, <3>1, WorldUnmoved, OutOf
    <3>4. Goes(x, toQueue, toWorld, v, toQueue', toWorld', u)
      BY <1>1, <1>5, <2>3, <3>2, <3>3, QueueHearsRemove
    <3> QED BY <3>1, <3>4 DEF Stepped
  <2> QED BY <1>1, <1>3, <1>7, <2>2, <2>3, <2>4, OutStep
<1> QED BY <1>6, <1>7

LEMMA ExpireStep ==
  ASSUME BgInv, NEW m, QueueHearing(m), m.type = "expire", Expire(m)
  PROVE  QueueMoves
<1>1. /\ m \in QueueMessages /\ UNCHANGED <<playerVars, game, groups>>
      /\ \A A : Takes(toQueue, toQueue', m, A)
  BY QueueHeadTaken DEF Expire
<1>2. PICK x \in Players, e \in Invites : x = m.player /\ e = m.event
  BY <1>1, QueueMessageHas
<1>3. \A p : p # x => m \notin QAbout(p)
  BY <1>2, AboutWhom
<1>4. TypeInv /\ GroupInv /\ EntryInv
  BY StampsAre DEF BgInv, QueueInv
<1>5. m \in Lapses(x)
  BY <1>1, <1>2 DEF Lapses
<1>6. CASE ~IsPlayerInvited(x, e)
  <2>1. UNCHANGED <<queuedPlayers, queuedGroups, toWorld>>
    BY <1>2, <1>6 DEF Expire
  <2>2. ASSUME NEW p \in Steady, m \in QAbout(p)
        PROVE  Stepped(p)
    <3>1. PICK v : v = View(p)
      OBVIOUS
    <3>2. /\ Phase(p, toQueue, toWorld, v) /\ View(p)' = v /\ v.stamp = queuedPlayers[p]
          /\ v.stamp # 0 => v.invited = GroupOf(p).invitedTo
      BY <1>1, <2>1, <3>1, Person, ViewSame
    <3>3. p = x
      BY <1>3, <2>2
    <3>4. v.stamp = 0 \/ m.event # Offer(v)
      <4> SUFFICES ASSUME v.stamp # 0, e = Offer(v)
                   PROVE  FALSE
        BY <1>2
      <4>1. e.game = v.invited /\ e.stamp = v.stamp
        BY DEF Offer
      <4> QED BY <1>6, <3>2, <3>3, <4>1 DEF IsPlayerInvited, InQueue
    <3>5. Goes(p, toQueue, toWorld, v, toQueue', toWorld, v)
      BY <1>1, <1>5, <3>2, <3>3, <3>4, QueueIgnoresLapse
    <3> QED BY <2>1, <3>1, <3>2, <3>5 DEF Stepped
  <2> QED BY <1>1, <2>1, <2>2, NothingHeard, IgnoredStep
<1>7. CASE IsPlayerInvited(x, e)
  <2>1. PICK n : n = [type |-> "left", player |-> x]
    OBVIOUS
  <2>2. n \in WorldMessages /\ n.type = "left" /\ n.player = x
    BY <2>1, WorldMessageIs
  <2>3. RemovePlayer(x, TRUE) /\ toWorld' = toWorld \o RemovePosts(x) \o <<n>>
    BY <1>2, <1>7, <2>1 DEF Expire
  <2>4. InQueue(x) /\ e.game = GroupOf(x).invitedTo /\ e.stamp = queuedPlayers[x]
    BY <1>7 DEF IsPlayerInvited
  <2>5. GroupsAfter(x)
    BY <1>4, <2>3, <2>4, RemovePlayerIs
  <2>6. /\ Posts(toWorld, toWorld', n, WAbout(x))
        /\ \A p : p # x => Alike(toWorld, toWorld', WAbout(p))
        /\ ~Has(toWorld', LateW(groups))
    BY <2>2, <2>3, <2>4, LeftPosted
  <2>7. ASSUME x \in Steady
        PROVE  Stepped(x)
    <3>1. PICK v, u : v = View(x) /\ u = View(x)'
      OBVIOUS
    <3>2. /\ v \in Views /\ Phase(x, toQueue, toWorld, v) /\ v.stamp = queuedPlayers[x]
          /\ v.stamp # 0 => v.invited = GroupOf(x).invitedTo
      BY <2>7, <3>1, Person
    <3>3. v.stamp # 0
      BY <2>4, <3>2 DEF InQueue
    <3>4. m.event = Offer(v)
      <4>1. e = [game |-> e.game, stamp |-> e.stamp]
        BY DEF Invites
      <4> QED BY <1>2, <2>4, <3>2, <3>3, <4>1 DEF Offer
    <3>5. SameWorld(v, u) /\ u.stamp = 0
      BY <1>1, <2>5, <3>1, WorldUnmoved, OutOf
    <3>6. n \in Lefts(x)
      BY <2>2 DEF Lefts
    <3>7. Goes(x, toQueue, toWorld, v, toQueue', toWorld', u)
      BY <1>1, <1>5, <2>6, <3>2, <3>3, <3>4, <3>5, <3>6, QueueHearsLapse
    <3> QED BY <3>1, <3>7 DEF Stepped
  <2> QED BY <1>1, <1>3, <2>4, <2>5, <2>6, <2>7, OutStep
<1> QED BY <1>6, <1>7

LEMMA OtherStep ==
  ASSUME BgInv, NEW m, QueueHearing(m),
         \/ m.type = "status" /\ Status(m)
         \/ m.type = "add free" /\ AddFree(m)
         \/ m.type = "remove free" /\ RemoveFree(m)
         \/ m.type = "decrease" /\ Decrease(m)
         \/ m.type = "schedule" /\ Schedule(m)
  PROVE  QueueMoves
<1>1. m \in QueueMessages
  BY QueueHeadTaken
<1>2. UNCHANGED <<queuedPlayers, queuedGroups, groups>>
  BY DEF Status, AddFree, RemoveFree, Decrease, Schedule
<1>3. \A p \in Steady : m \notin QAbout(p)
  BY NotAbout
<1>4. (\A p : Alike(toWorld, toWorld', WAbout(p))) /\ ~Has(toWorld', LateW(groups))
  <2>1. CASE UNCHANGED toWorld
    BY <2>1, NothingHeard
  <2>2. CASE m.type = "decrease" /\ Decrease(m)
    <3>1. PICK t : t = DecreasePosts(m.game, m.team)
      OBVIOUS
    <3>2. m.game \in Games /\ m.team \in Teams
      BY <1>1, <2>2, QueueMessageHas
    <3>3. /\ t \in Seq(WorldMessages)
          /\ \A K : Has(t, K) => \E n \in Nat :
               [type |-> "count", game |-> m.game, team |-> m.team, count |-> n] \in K
      BY <3>1, <3>2, DecreasedIs, StampsAre DEF TypeInv
    <3>4. \A K : (\A k \in K : k.type # "count") => ~Has(t, K)
      <4> SUFFICES ASSUME NEW K, \A k \in K : k.type # "count", Has(t, K)
                   PROVE  FALSE
        OBVIOUS
      <4>1. PICK n \in Nat : [type |-> "count", game |-> m.game, team |-> m.team, count |-> n] \in K
        BY <3>3
      <4>2. PICK k : k = [type |-> "count", game |-> m.game, team |-> m.team, count |-> n]
        OBVIOUS
      <4>3. k \in K /\ k.type = "count"
        BY <4>1, <4>2
      <4> QED BY <4>3
    <3>5. toWorld' = toWorld \o t
      BY <2>2, <3>1 DEF Decrease
    <3> QED BY <3>3, <3>4, <3>5, CountsPosted
  <2>3. UNCHANGED toWorld \/ (m.type = "decrease" /\ Decrease(m))
    BY DEF Status, AddFree, RemoveFree, Schedule
  <2> QED BY <2>1, <2>2, <2>3
<1> QED BY <1>2, <1>3, <1>4, IgnoredStep

LEMMA QueueMessageMoves ==
  ASSUME BgInv, QueueMessage
  PROVE  QueueMoves
<1>1. PICK m : m = Head(toQueue)
  OBVIOUS
<1>2. QueueHearing(m)
  BY <1>1 DEF QueueMessage, QueueHearing
<1>3. \/ m.type = "join" /\ AddGroup(m)
      \/ m.type = "port" /\ Port(m)
      \/ m.type = "remove" /\ RemoveAtLogout(m)
      \/ m.type = "expire" /\ Expire(m)
      \/ m.type = "status" /\ Status(m)
      \/ m.type = "add free" /\ AddFree(m)
      \/ m.type = "remove free" /\ RemoveFree(m)
      \/ m.type = "decrease" /\ Decrease(m)
      \/ m.type = "schedule" /\ Schedule(m)
  BY <1>1 DEF QueueMessage
<1> QED BY <1>2, <1>3, JoinStep, PortStep, RemoveStep, ExpireStep, OtherStep

(* Invitations.                                                            *)
LEMMA InvitationAbout ==
  ASSUME BgInv, NEW y \in Players, NEW g \in Games, NEW x, x = Invitation(y, g)
  PROVE  /\ x \in Offers(y) /\ x.event = [game |-> g, stamp |-> queuedPlayers[y]]
         /\ \A p : p # y => x \notin WAbout(p)
         /\ x \notin LateW(groups)
<1>1. x \in WorldMessages
  BY InvitationIs DEF BgInv, EntryInv, TypeInv
<1>2. /\ x.type = "invite" /\ x.player = y
      /\ x.event = [game |-> g, stamp |-> queuedPlayers[y]]
  BY DEF Invitation
<1>3. x.event.stamp = queuedPlayers[y]
  BY <1>2
<1>4. \A p : p # y => x \notin WAbout(p)
  BY <1>2 DEF WAbout, WAnswers, Joineds, Offers, EntersOf, Lefts, Expiries
<1>5. queuedPlayers[y] <= groups
  BY DEF BgInv, PlayerInv, StampInv
<1> QED BY <1>1, <1>2, <1>3, <1>4, <1>5 DEF Offers, LateW

\* The groups all are invited, each to its game, and every player of theirs is told.
LEMMA Inviting ==
  ASSUME BgInv, UNCHANGED <<playerVars, game, queuedPlayers, groups, toQueue>>,
         NEW t \in Seq(WorldMessages), toWorld' = toWorld \o t,
         NEW all \in SUBSET DOMAIN queuedGroups, NEW f,
         DOMAIN queuedGroups' = DOMAIN queuedGroups,
         \A k \in DOMAIN queuedGroups : queuedGroups'[k].players = queuedGroups[k].players,
         \A k \in DOMAIN queuedGroups \ all : queuedGroups'[k].invitedTo = queuedGroups[k].invitedTo,
         \A k \in all : /\ f[k] \in Games /\ queuedGroups[k].invitedTo = NoGame
                        /\ queuedGroups'[k].invitedTo = f[k],
         \A x : In(x, t) => \/ x.type \in {"count", "create"}
                            \/ \E k \in all : \E p \in queuedGroups[k].players : x = Invitation(p, f[k]),
         \A k \in all : \A p \in queuedGroups[k].players : In(Invitation(p, f[k]), t)
  PROVE  QueueMoves
<1>1. /\ toWorld \in Seq(WorldMessages) /\ ~Has(toWorld, LateW(groups)) /\ ~Has(toQueue, LateQ(groups))
      /\ \A k \in DOMAIN queuedGroups : queuedGroups[k].players \subseteq Players
      /\ DOMAIN queuedGroups \subseteq 1..groups
  <2>1. \A k \in DOMAIN queuedGroups : queuedGroups[k] \in Groups
    BY DEF BgInv, EntryInv, TypeInv, QueueType
  <2> QED BY <2>1, StampsAre DEF Groups, BgInv, QueueInv, GroupInv
<1>2. /\ \A K : Has(toWorld', K) <=> Has(toWorld, K) \/ Has(t, K)
      /\ \A K : Has(t, K) <=> \E x \in K : In(x, t)
  BY <1>1, Posting, HasIn
<1>3. \A x : x.type \in {"count", "create"} => x \notin LateW(groups) /\ \A p : x \notin WAbout(p)
  BY DEF LateW, WAbout, WAnswers, Joineds, Offers, EntersOf, Lefts, Expiries
<1>4. \A x : In(x, t) => x \notin LateW(groups)
  <2> TAKE x
  <2> HAVE In(x, t)
  <2>1. CASE \E k \in all : \E p \in queuedGroups[k].players : x = Invitation(p, f[k])
    <3>1. PICK k \in all : \E p \in queuedGroups[k].players : x = Invitation(p, f[k])
      BY <2>1
    <3>2. PICK p \in queuedGroups[k].players : x = Invitation(p, f[k])
      BY <3>1
    <3>3. p \in Players /\ f[k] \in Games
      BY <1>1
    <3> QED BY <3>2, <3>3, InvitationAbout
  <2> QED BY <1>3, <2>1
<1>5. OwnGroup'
  <2>1. ASSUME NEW i \in DOMAIN queuedGroups', NEW p \in queuedGroups'[i].players \cap Steady
        PROVE  queuedPlayers'[p] = i
    <3>1. i \in DOMAIN queuedGroups /\ p \in queuedGroups[i].players
      OBVIOUS
    <3> QED BY <3>1 DEF BgInv, PlayerInv, OwnGroup
  <2> QED BY <2>1 DEF OwnGroup
<1>6. StampInv'
  <2>1. ~Has(toWorld', LateW(groups))
    BY <1>1, <1>2, <1>4
  <2> QED BY <1>1, <2>1, StampsKeptByQueue
<1>7. ASSUME NEW p \in Steady
      PROVE  Stepped(p)
  <2>1. PICK v, u : v = View(p) /\ u = View(p)'
    OBVIOUS
  <2>2. /\ p \in Players /\ v \in Views /\ Phase(p, toQueue, toWorld, v) /\ v.stamp = queuedPlayers[p]
        /\ v.stamp # 0 => v.invited = GroupOf(p).invitedTo
    BY <2>1, Person
  <2>3. PICK k : k = queuedPlayers[p]
    OBVIOUS
  <2>4. \A j \in all : \A y \in queuedGroups[j].players : y = p => j = k
    BY <2>3 DEF BgInv, PlayerInv, OwnGroup
  <2>5. k # 0 => k \in DOMAIN queuedGroups /\ p \in queuedGroups[k].players
    BY <2>2, <2>3 DEF BgInv, QueueInv, GroupInv, InQueue
  <2>6. CASE k \in all
    <3>1. k # 0 /\ p \in queuedGroups[k].players
      BY <1>1, <2>5, <2>6
    <3>2. v.stamp = k /\ v.invited = NoGame /\ f[k] \in Games
      BY <2>2, <2>3, <2>6, <3>1 DEF GroupOf
    <3>3. SameWorld(v, u) /\ u.events = v.events
      BY <2>1, WorldUnmoved
    <3>4. u.stamp = k /\ u.invited = f[k]
      BY <2>1, <2>3, <2>6, <3>1, PersonNext
    <3>5. PICK e : e = Offer(u)
      OBVIOUS
    <3>6. e = [game |-> f[k], stamp |-> k]
      BY <3>4, <3>5 DEF Offer
    <3>7. PICK n : n = Invitation(p, f[k])
      OBVIOUS
    <3>8. In(n, t) /\ n \in Of(Offers(p), e)
      <4>1. n \in Offers(p) /\ n.event = e
        BY <2>2, <2>3, <3>2, <3>6, <3>7, InvitationAbout
      <4> QED BY <2>6, <3>1, <3>7, <4>1 DEF Of
    <3>9. \A x : In(x, t) => x \notin WAbout(p) \/ x \in Of(Offers(p), e)
      <4> TAKE x
      <4> HAVE In(x, t)
      <4>1. ASSUME NEW j \in all, NEW y \in queuedGroups[j].players, x = Invitation(y, f[j])
            PROVE  x \notin WAbout(p) \/ x \in Of(Offers(p), e)
        <5>1. y \in Players /\ f[j] \in Games
          BY <1>1
        <5>2. CASE y = p
          BY <2>4, <3>7, <3>8, <4>1, <5>2
        <5>3. CASE y # p
          BY <4>1, <5>1, <5>3, InvitationAbout
        <5> QED BY <5>2, <5>3
      <4> QED BY <1>3, <4>1
    <3>10. PostsMany(toWorld, toWorld', Of(Offers(p), e), WAbout(p))
      <4>1. PostsMany(toWorld, toWorld \o t, Of(Offers(p), e), WAbout(p))
        BY <1>1, <3>9, PostsManyIs
      <4> QED BY <4>1
    <3>11. Has(toWorld', Of(Offers(p), e))
      BY <1>2, <3>8
    <3>12. Goes(p, toQueue, toWorld, v, toQueue, toWorld', u)
      BY <2>2, <3>1, <3>2, <3>3, <3>4, <3>5, <3>10, <3>11, QueueInvites
    <3> QED BY <2>1, <3>12 DEF Stepped
  <2>7. CASE k \notin all
    <3>1. ~Has(t, WAbout(p))
      <4>1. ASSUME NEW x, In(x, t), x \in WAbout(p)
            PROVE  FALSE
        <5>1. PICK j \in all : \E y \in queuedGroups[j].players : x = Invitation(y, f[j])
          BY <1>3, <4>1
        <5>2. PICK y \in queuedGroups[j].players : x = Invitation(y, f[j])
          BY <5>1
        <5>3. y # p
          BY <2>4, <2>7
        <5>4. y \in Players /\ f[j] \in Games
          BY <1>1
        <5> QED BY <4>1, <5>2, <5>3, <5>4, InvitationAbout
      <4> QED BY <1>2, <4>1
    <3>2. Alike(toWorld, toWorld', WAbout(p))
      <4>1. Alike(toWorld, toWorld \o t, WAbout(p))
        BY <1>1, <3>1, AlikePosted
      <4> QED BY <4>1
    <3>3. Alike(toQueue, toQueue', QAbout(p))
      BY QueueAlike
    <3>4. InQueue(p) => queuedGroups'[queuedPlayers[p]].invitedTo = queuedGroups[queuedPlayers[p]].invitedTo
      BY <2>3, <2>5, <2>7 DEF InQueue
    <3> QED BY <3>2, <3>3, <3>4, QueueNotConcerned
  <2> QED BY <2>6, <2>7
<1> QED BY <1>5, <1>6, <1>7 DEF QueueMoves

LEMMA FillMoves ==
  ASSUME BgInv, FillPlayersToBg
  PROVE  QueueMoves
<1>1. QueueType /\ EntryInv
  BY DEF BgInv, EntryInv, TypeInv
<1>2. UNCHANGED <<playerVars, game, queuedPlayers, groups, toQueue>>
  BY DEF FillPlayersToBg
<1>3. PICK into \in [DOMAIN freeSlots -> SUBSET (Waiting("ali") \cup Waiting("horde"))] :
         /\ \A i, j \in DOMAIN into : i # j => into[i] \cap into[j] = {}
         /\ queuedGroups' = [k \in DOMAIN queuedGroups |->
                IF k \in UNION Range(into)
                THEN [queuedGroups[k] EXCEPT !.invitedTo =
                        freeSlots[CHOOSE i \in DOMAIN into : k \in into[i]].id]
                ELSE queuedGroups[k]]
         /\ toWorld' = toWorld \o FlattenSeq([i \in DOMAIN into |-> InvitePosts(freeSlots[i], into[i])])
  BY DEF FillPlayersToBg
<1>4. PICK all : all = UNION Range(into)
  OBVIOUS
<1>5. PICK f : f = [k \in all |-> freeSlots[CHOOSE i \in DOMAIN into : k \in into[i]].id]
  OBVIOUS
<1>6. PICK t : t = FlattenSeq([i \in DOMAIN into |-> InvitePosts(freeSlots[i], into[i])])
  OBVIOUS
<1>7. /\ DOMAIN into = DOMAIN freeSlots
      /\ \A i \in DOMAIN into : into[i] \subseteq DOMAIN queuedGroups
      /\ \A i \in DOMAIN into : \A k \in into[i] : queuedGroups[k].invitedTo = NoGame
  BY DEF Waiting
<1>8. \A k : k \in all <=> \E i \in DOMAIN into : k \in into[i]
  BY <1>4 DEF Range
<1>9. \A i \in DOMAIN into : \A k \in into[i] : k \in all /\ f[k] = freeSlots[i].id
  <2> TAKE i \in DOMAIN into
  <2> TAKE k \in into[i]
  <2>1. k \in all
    BY <1>8
  <2>2. PICK j \in DOMAIN into : j = (CHOOSE n \in DOMAIN into : k \in into[n]) /\ k \in into[j]
    OBVIOUS
  <2>3. j = i
    BY <1>3, <2>2
  <2> QED BY <1>5, <2>1, <2>2, <2>3
<1>10. all \in SUBSET DOMAIN queuedGroups
  BY <1>7, <1>8
<1>11. \A k \in all : f[k] \in Games /\ queuedGroups[k].invitedTo = NoGame
  <2> TAKE k \in all
  <2>1. PICK i \in DOMAIN into : k \in into[i]
    BY <1>8
  <2>2. freeSlots[i].id \in Games
    BY <1>1, <1>7, ListedMade
  <2> QED BY <1>7, <1>9, <2>1, <2>2
<1>12. queuedGroups' = [k \in DOMAIN queuedGroups |->
           IF k \in all THEN [queuedGroups[k] EXCEPT !.invitedTo = f[k]] ELSE queuedGroups[k]]
  <2>1. \A k \in all : f[k] = freeSlots[CHOOSE i \in DOMAIN into : k \in into[i]].id
    BY <1>5
  <2> QED BY <1>3, <1>4, <2>1
<1>13. DOMAIN queuedGroups' = DOMAIN queuedGroups
  BY <1>12
<1>14. ASSUME NEW k \in DOMAIN queuedGroups
       PROVE  /\ queuedGroups'[k].players = queuedGroups[k].players
              /\ k \notin all => queuedGroups'[k].invitedTo = queuedGroups[k].invitedTo
              /\ k \in all => queuedGroups'[k].invitedTo = f[k]
  <2>1. PICK grp \in Groups : grp = queuedGroups[k]
    BY <1>1 DEF QueueType
  <2>2. CASE k \in all
    <3>1. PICK g : g = f[k]
      OBVIOUS
    <3>2. PICK new : new = [grp EXCEPT !.invitedTo = g]
      OBVIOUS
    <3>3. new.players = grp.players /\ new.invitedTo = g
      BY <3>2 DEF Groups
    <3>4. queuedGroups'[k] = new
      BY <1>12, <2>1, <2>2, <3>1, <3>2
    <3> QED BY <2>1, <2>2, <3>1, <3>3, <3>4
  <2>3. CASE k \notin all
    BY <1>12, <2>3
  <2> QED BY <2>2, <2>3
<1>15. /\ t \in Seq(WorldMessages)
       /\ \A x : In(x, t) => \/ x.type = "count"
                             \/ \E i \in DOMAIN freeSlots : \E p \in PlayersOf(into[i]) :
                                   x = Invitation(p, freeSlots[i].id)
       /\ \A i \in DOMAIN freeSlots : \A p \in PlayersOf(into[i]) :
             In(Invitation(p, freeSlots[i].id), t)
  <2>1. into \in [DOMAIN freeSlots -> SUBSET DOMAIN queuedGroups]
    BY <1>7
  <2> QED BY <1>1, <1>6, <2>1, FillPostsIs
<1>16. \A i \in DOMAIN into : \A p : p \in PlayersOf(into[i]) <=> \E k \in into[i] : p \in queuedGroups[k].players
  BY DEF PlayersOf
<1>17. \A x : In(x, t) => \/ x.type \in {"count", "create"}
                          \/ \E k \in all : \E p \in queuedGroups[k].players : x = Invitation(p, f[k])
  <2> TAKE x
  <2> HAVE In(x, t)
  <2>1. ASSUME NEW i \in DOMAIN freeSlots, NEW p \in PlayersOf(into[i]), x = Invitation(p, freeSlots[i].id)
        PROVE  \E k \in all : \E q \in queuedGroups[k].players : x = Invitation(q, f[k])
    <3>1. PICK k \in into[i] : p \in queuedGroups[k].players
      BY <1>7, <1>16
    <3>2. k \in all /\ f[k] = freeSlots[i].id
      BY <1>7, <1>9
    <3> QED BY <2>1, <3>1, <3>2
  <2> QED BY <1>15, <2>1
<1>18. \A k \in all : \A p \in queuedGroups[k].players : In(Invitation(p, f[k]), t)
  <2> TAKE k \in all
  <2> TAKE p \in queuedGroups[k].players
  <2>1. PICK i \in DOMAIN into : k \in into[i]
    BY <1>8
  <2>2. f[k] = freeSlots[i].id /\ p \in PlayersOf(into[i])
    BY <1>9, <1>16, <2>1
  <2> QED BY <1>7, <1>15, <2>2
<1>19. toWorld' = toWorld \o t
  BY <1>3, <1>6
<1> QED BY <1>2, <1>10, <1>11, <1>13, <1>14, <1>15, <1>17, <1>18, <1>19, Inviting

LEMMA MatchMoves ==
  ASSUME BgInv, NewMatch
  PROVE  QueueMoves
<1>1. QueueType /\ games \in Nat /\ games < MaxGames
  BY DEF BgInv, EntryInv, TypeInv, QueueType, NewMatch
<1>2. UNCHANGED <<playerVars, game, queuedPlayers, groups, toQueue>>
  BY DEF NewMatch
<1>3. PICK e : e = [id |-> games + 1, open |-> FALSE, invited |-> [i \in Teams |-> 0]]
  OBVIOUS
<1>4. PICK a \in Pools("ali", MaxPerTeam), h \in Pools("horde", MaxPerTeam) :
         /\ queuedGroups' = Marked(a \cup h, e.id)
         /\ toWorld' = toWorld \o InvitePosts(e, a \cup h)
                       \o <<[type |-> "create", game |-> e.id, invited |-> WithInvited(e, a \cup h).invited]>>
  BY <1>3 DEF NewMatch
<1>5. PICK n : n = games + 1
  OBVIOUS
<1>6. n \in Games /\ e \in Infos /\ e.id = n
  <2>1. n \in Games
    BY <1>1, <1>5, TeamFacts DEF Games
  <2>2. [i \in Teams |-> 0] \in [Teams -> Nat]
    OBVIOUS
  <2>3. [i \in Teams |-> 0] \in Counts
    BY <2>2, TeamFacts DEF Counts
  <2> QED BY <1>3, <1>5, <2>1, <2>3 DEF Infos
<1>7. PICK all : all = a \cup h
  OBVIOUS
<1>8. all \in SUBSET DOMAIN queuedGroups /\ \A k \in all : queuedGroups[k].invitedTo = NoGame
  BY <1>7 DEF Pools, Waiting
<1>9. PICK w : w = InvitePosts(e, all)
  OBVIOUS
<1>10. /\ w \in Seq(WorldMessages)
       /\ \A x : In(x, w) => x.type = "count" \/ \E p \in PlayersOf(all) : x = Invitation(p, n)
       /\ \A p \in PlayersOf(all) : In(Invitation(p, n), w)
  BY <1>1, <1>6, <1>8, <1>9, InvitePostsIs DEF InvitesOnly
<1>11. \A p : p \in PlayersOf(all) <=> \E k \in all : p \in queuedGroups[k].players
  BY DEF PlayersOf
<1>12. PICK i : i = WithInvited(e, all).invited
  OBVIOUS
<1>13. PICK c : c = [type |-> "create", game |-> n, invited |-> i]
  OBVIOUS
<1>14. c \in WorldMessages /\ c.type = "create"
  <2>1. i \in Counts
    BY <1>1, <1>6, <1>8, <1>12, WithInvitedIs DEF Infos
  <2> QED BY <1>6, <1>13, <2>1, WorldMessageIs
<1>15. PICK t : t = w \o <<c>>
  OBVIOUS
<1>16. /\ t \in Seq(WorldMessages)
       /\ \A x : In(x, t) <=> In(x, w) \/ x = c
  <2>1. <<c>> \in Seq(WorldMessages) /\ \A x : In(x, <<c>>) <=> x = c
    BY <1>14, OneElement
  <2> QED BY <1>10, <1>15, <2>1, ConcatElements
<1>17. toWorld' = toWorld \o t
  <2>1. toWorld' = toWorld \o w \o <<c>>
    BY <1>4, <1>6, <1>7, <1>9, <1>12, <1>13
  <2>2. toWorld \in Seq(WorldMessages) /\ <<c>> \in Seq(WorldMessages)
    BY <1>14, StampsAre, OneElement
  <2> QED BY <1>10, <1>15, <2>1, <2>2, ConcatAssociative
<1>18. PICK f : f = [k \in all |-> n]
  OBVIOUS
<1>19. \A k \in all : f[k] = n
  BY <1>18
<1>20. queuedGroups' = [k \in DOMAIN queuedGroups |->
           IF k \in all THEN [queuedGroups[k] EXCEPT !.invitedTo = n] ELSE queuedGroups[k]]
  BY <1>4, <1>6, <1>7 DEF Marked
<1>21. DOMAIN queuedGroups' = DOMAIN queuedGroups
  BY <1>20
<1>22. ASSUME NEW k \in DOMAIN queuedGroups
       PROVE  /\ queuedGroups'[k].players = queuedGroups[k].players
              /\ k \notin all => queuedGroups'[k].invitedTo = queuedGroups[k].invitedTo
              /\ k \in all => queuedGroups'[k].invitedTo = n
  <2>1. PICK grp \in Groups : grp = queuedGroups[k]
    BY <1>1 DEF QueueType
  <2>2. CASE k \in all
    <3>1. PICK new : new = [grp EXCEPT !.invitedTo = n]
      OBVIOUS
    <3>2. new.players = grp.players /\ new.invitedTo = n
      BY <3>1 DEF Groups
    <3>3. queuedGroups'[k] = new
      BY <1>20, <2>1, <2>2, <3>1
    <3> QED BY <2>1, <2>2, <3>2, <3>3
  <2>3. CASE k \notin all
    BY <1>20, <2>3
  <2> QED BY <2>2, <2>3
<1>23. \A x : In(x, t) => \/ x.type \in {"count", "create"}
                          \/ \E k \in all : \E p \in queuedGroups[k].players : x = Invitation(p, f[k])
  <2> TAKE x
  <2> HAVE In(x, t)
  <2>1. ASSUME NEW p \in PlayersOf(all), x = Invitation(p, n)
        PROVE  \E k \in all : \E q \in queuedGroups[k].players : x = Invitation(q, f[k])
    <3>1. PICK k \in all : p \in queuedGroups[k].players
      BY <1>11
    <3> QED BY <1>19, <2>1, <3>1
  <2> QED BY <1>10, <1>14, <1>16, <2>1
<1>24. \A k \in all : \A p \in queuedGroups[k].players : In(Invitation(p, f[k]), t)
  BY <1>10, <1>11, <1>16, <1>19
<1>25. \A k \in all : f[k] \in Games /\ queuedGroups'[k].invitedTo = f[k]
  BY <1>6, <1>8, <1>19, <1>22
<1> QED BY <1>2, <1>8, <1>16, <1>17, <1>21, <1>22, <1>23, <1>24, <1>25, Inviting

\* Nothing of what concerns a player.
LEMMA StillMoves ==
  ASSUME BgInv, UNCHANGED <<playerVars, game, queuedPlayers, queuedGroups, groups, toQueue, toWorld>>
  PROVE  QueueMoves
<1>1. OwnGroup'
  BY DEF BgInv, PlayerInv, OwnGroup
<1>2. StampInv'
  BY StampsAre, StampsKeptByQueue
<1>3. \A p \in Steady : Stepped(p)
  BY WorldAlike, QueueAlike, QueueNotConcerned
<1> QED BY <1>1, <1>2, <1>3 DEF QueueMoves

(* All steps together, for the players.                                    *)
LEMMA PlayerStart ==
  ASSUME Init, EntryInv, QueueInv
  PROVE  BgInv
<1>1. /\ game = << >> /\ toQueue = << >> /\ toWorld = << >> /\ queuedGroups = << >> /\ groups = 0
      /\ queuedPlayers = [p \in Players |-> 0] /\ bgId = [p \in Players |-> NoGame]
      /\ events = [p \in Players |-> {}] /\ slot = [p \in Players |-> NotQueued]
  BY DEF Init
<1>2. DOMAIN << >> = {}
  OBVIOUS
<1>3. \A K : ~Has(toQueue, K) /\ ~Has(toWorld, K)
  BY <1>1, NoMessage
<1>4. InsideInv /\ OwnGroup
  BY <1>1, <1>2 DEF InsideInv, OwnGroup
<1>5. StampInv
  <2>1. \A p \in Players : queuedPlayers[p] = 0 /\ events[p] = {}
    BY <1>1
  <2>2. 0 <= groups
    BY <1>1
  <2> QED BY <1>3, <2>1, <2>2 DEF StampInv
<1>6. ASSUME NEW p \in Steady
      PROVE  Phase(p, toQueue, toWorld, View(p))
  <2>1. PICK v : v = View(p)
    OBVIOUS
  <2>2. p \in Players
    BY DEF Steady
  <2>3. v.slot = slot[p] /\ v.bg = bgId[p] /\ v.stamp = queuedPlayers[p]
    BY <2>1 DEF View
  <2>4. v.slot = NotQueued /\ v.bg = NoGame /\ v.stamp = 0
    BY <1>1, <2>2, <2>3
  <2>5. Resting(p, toQueue, toWorld, v)
    BY <1>3, <2>4 DEF Resting
  <2> QED BY <2>1, <2>5 DEF Phase
<1> QED BY <1>4, <1>5, <1>6 DEF BgInv, PlayerInv, PhaseInv

\* Every step keeps the invariant, and every player where he is or takes him further.
LEMMA BgStep ==
  ASSUME BgInv, [Next]_vars
  PROVE  BgInv' /\ \A p \in Steady : Stepped(p)
<1>1. EntryInv' /\ QueueInv'
  BY EntryStep DEF BgInv
<1>2. ASSUME WorldStep
      PROVE  PlayerInv' /\ \A p \in Steady : Stepped(p)
  BY <1>2, WorldStepKeeps DEF WorldStep
<1>3. ASSUME QueueMoves
      PROVE  PlayerInv' /\ \A p \in Steady : Stepped(p)
  BY <1>3, QueueMovesKeeps DEF QueueMoves
<1>4. WorldStep \/ QueueMoves
  <2>1. CASE WorldMessage
    BY <2>1, MessageMoves
  <2>2. CASE QueueStep
    <3>1. CASE EndUpdate
      <4>1. UNCHANGED <<playerVars, game, queuedPlayers, queuedGroups, groups, toQueue, toWorld>>
        BY <3>1 DEF EndUpdate
      <4> QED BY <4>1, StillMoves
    <3> QED BY <2>2, <3>1, QueueMessageMoves, FillMoves, MatchMoves DEF QueueStep
  <2>3. CASE \E ps \in Parties : HandleBattlemasterJoin(ps)
    BY <2>3, JoinMoves
  <2>4. ASSUME NEW p \in Players,
               \/ HandleBattlefieldPort(p) \/ LeaveBattleground(p) \/ TeleportTo(p)
               \/ HandleMoveWorldportAck(p) \/ LogoutPlayer(p) \/ LoadFromDB(p) \/ RemoveEvent(p)
        PROVE  WorldStep
    BY <2>4, PortMoves, LeaveMoves, TeleportMoves, WorldportMoves, LogoutMoves, LoadMoves, EventMoves
  <2>5. ASSUME NEW g \in Games,
               \/ EndBattleGround(g) \/ EndNow(g) \/ RemoveAll(g) \/ \E p \in Players : RemoveOffline(g, p)
        PROVE  WorldStep
    BY <2>5, EndMoves, RemoveAllMoves, OfflineMoves
  <2>6. CASE UNCHANGED vars
    <3>1. UNCHANGED <<playerVars, game, queuedPlayers, queuedGroups, groups, toQueue, toWorld>>
      BY <2>6 DEF vars, queueVars
    <3> QED BY <3>1, StillMoves
  <2> QED BY <2>1, <2>2, <2>3, <2>4, <2>5, <2>6 DEF Next
<1> QED BY <1>1, <1>2, <1>3, <1>4 DEF BgInv

(* Every player who waits for answers is, in every reachable state and     *)
(* for any number of other players, in one of seven phases, in each of     *)
(* which the messages under way about him, what the world has of him and   *)
(* what the queue has of him fit together.                                 *)
THEOREM PlayerInvariant == Spec => []BgInv
<1>1. Init => BgInv
  BY EntryStart, PlayerStart
<1>2. BgInv /\ [Next]_vars => BgInv'
  BY BgStep
<1> QED BY <1>1, <1>2, PTL DEF Spec

\* Where he is, in the words of the properties.
PlacesAreSeats == \A p \in Steady : /\ Place(p) = Seat(p, toWorld, View(p))
                                    /\ Place(p) \in Matchmaking!Places

LEMMA PlaceIs ==
  ASSUME BgInv
  PROVE  PlacesAreSeats
<1> SUFFICES ASSUME NEW p \in Steady
             PROVE  Place(p) = Seat(p, toWorld, View(p)) /\ Place(p) \in Matchmaking!Places
  BY DEF PlacesAreSeats
<1>1. PICK v : v = View(p)
  OBVIOUS
<1>2. /\ p \in Players /\ v \in Views /\ Phase(p, toQueue, toWorld, v)
      /\ v.online <=> p \in online
      /\ v.inside <=> bgId[p] # NoGame /\ p \in game[bgId[p]].inside
      /\ v.bg = bgId[p] /\ v.stamp = queuedPlayers[p]
      /\ v.stamp # 0 => v.invited = GroupOf(p).invitedTo
  BY <1>1, Person
<1>3. v.bg \in Games \cup {NoGame} /\ v.invited \in Games \cup {NoGame}
  BY <1>2 DEF Views
<1>4. /\ \A g \in Games : At("battle", g) \in Matchmaking!Places
      /\ \A g \in Games \cup {NoGame} : At("queue", g) \in Matchmaking!Places
      /\ At("idle", NoGame) \in Matchmaking!Places
  BY DEF At, Matchmaking!Places
<1>5. toWorld \in Seq(WorldMessages)
  BY StampsAre
<1>6. \A m : m \in Range(toWorld) /\ m.type = "enter" /\ m.player = p <=> In(m, toWorld) /\ m \in EntersOf(p)
  <2>1. \A m : m \in Range(toWorld) <=> In(m, toWorld)
    BY DEF Range, In
  <2>2. \A m : In(m, toWorld) => m \in WorldMessages
    BY <1>5, LenProperties DEF In
  <2> QED BY <2>1, <2>2 DEF EntersOf
<1>7. CASE v.bg # NoGame /\ (v.online \/ v.inside)
  <2>1. Place(p) = At("battle", bgId[p])
    BY <1>2, <1>7 DEF Place, At
  <2>2. Seat(p, toWorld, v) = At("battle", v.bg)
    BY <1>7 DEF Seat
  <2> QED BY <1>1, <1>2, <1>3, <1>4, <1>7, <2>1, <2>2
<1>8. CASE ~(v.bg # NoGame /\ (v.online \/ v.inside)) /\ Has(toWorld, EntersOf(p))
  <2>1. PICK g \in Games : EnteringGame(p, toQueue, toWorld, v, g)
    BY <1>2, <1>8, IsSent DEF Entering
  <2>2. Seat(p, toWorld, v) = At("battle", g)
    BY <2>1, SeatEntering
  <2>3. \E m \in Range(toWorld) : m.type = "enter" /\ m.player = p
    <3>1. PICK m \in EntersOf(p) : In(m, toWorld)
      BY <1>8, HasIn
    <3> QED BY <1>6, <3>1
  <2>4. PICK m \in Range(toWorld) : /\ m = CHOOSE x \in Range(toWorld) : x.type = "enter" /\ x.player = p
                                    /\ m.type = "enter" /\ m.player = p
    BY <2>3
  <2>5. In(m, toWorld) /\ m \in EntersOf(p)
    BY <1>6, <2>4
  <2>6. m.game = g
    <3>1. m \notin Strays(p, g)
      BY <2>1, <2>5, HasIn DEF EnteringGame
    <3> QED BY <2>5, <3>1 DEF Strays
  <2>7. ~(bgId[p] # NoGame /\ (p \in online \/ p \in game[bgId[p]].inside))
    BY <1>2, <1>8
  <2>8. Place(p) = At("battle", m.game)
    BY <2>3, <2>4, <2>7 DEF Place, At
  <2> QED BY <1>1, <1>4, <2>2, <2>6, <2>8
<1>9. CASE ~(v.bg # NoGame /\ (v.online \/ v.inside)) /\ ~Has(toWorld, EntersOf(p))
  <2>1. Seat(p, toWorld, v) = IF v.stamp # 0 THEN At("queue", v.invited) ELSE At("idle", NoGame)
    BY <1>9 DEF Seat
  <2>2. ~\E m \in Range(toWorld) : m.type = "enter" /\ m.player = p
    BY <1>6, <1>9, HasIn
  <2>3. ~(bgId[p] # NoGame /\ (p \in online \/ p \in game[bgId[p]].inside))
    BY <1>2, <1>9
  <2>4. Place(p) = IF InQueue(p) THEN At("queue", GroupOf(p).invitedTo) ELSE At("idle", NoGame)
    BY <2>2, <2>3 DEF Place, At
  <2>5. Place(p) = Seat(p, toWorld, v)
    BY <1>2, <2>1, <2>4 DEF InQueue
  <2>6. Seat(p, toWorld, v) \in Matchmaking!Places
    BY <1>3, <1>4, <2>1
  <2> QED BY <1>1, <2>5, <2>6
<1> QED BY <1>7, <1>8, <1>9

\* With nothing left to deliver.
LEMMA QuietSeat ==
  ASSUME BgInv, Quiet, NEW p \in Steady
  PROVE  /\ p \in online => IF Place(p).in = "idle" THEN slot[p] = NotQueued ELSE slot[p] = Place(p).game
         /\ InQueue(p) /\ GroupOf(p).invitedTo # NoGame => \E e \in events[p] : IsPlayerInvited(p, e)
<1>1. PICK v : v = View(p)
  OBVIOUS
<1>2. /\ v \in Views /\ Phase(p, toQueue, toWorld, v)
      /\ v.online <=> p \in online
      /\ v.slot = slot[p] /\ v.events = events[p] /\ v.stamp = queuedPlayers[p]
      /\ v.stamp # 0 => v.invited = GroupOf(p).invitedTo
  BY <1>1, Person
<1>3. \A K : ~Has(toQueue, K) /\ ~Has(toWorld, K)
  BY NoMessage DEF Quiet
<1>4. /\ v.online => IF Seat(p, toWorld, v).in = "idle" THEN v.slot = NotQueued
                     ELSE v.slot = Seat(p, toWorld, v).game
      /\ v.stamp # 0 /\ v.invited # NoGame => Offer(v) \in v.events
  BY <1>2, <1>3, AtRest
<1>5. Place(p) = Seat(p, toWorld, v)
  BY <1>1, PlaceIs DEF PlacesAreSeats
<1>6. ASSUME InQueue(p), GroupOf(p).invitedTo # NoGame
      PROVE  \E e \in events[p] : IsPlayerInvited(p, e)
  <2>1. v.stamp # 0 /\ v.invited = GroupOf(p).invitedTo /\ v.invited # NoGame
    BY <1>2, <1>6 DEF InQueue
  <2>2. PICK e \in events[p] : e = Offer(v)
    BY <1>2, <1>4, <2>1
  <2>3. e.game = v.invited /\ e.stamp = v.stamp
    BY <2>2 DEF Offer
  <2> QED BY <1>2, <1>6, <2>1, <2>3 DEF IsPlayerInvited
<1> QED BY <1>2, <1>4, <1>5, <1>6

(* With nothing left to deliver, the world's list of queues of a player    *)
(* who waits for answers is what the queue and the battlegrounds have of   *)
(* him, whatever the others did and in whatever order the closures of the  *)
(* two Messagers were run.                                                 *)
THEOREM SlotsAgree == Spec => []SlotAgrees
<1>1. BgInv => SlotAgrees
  BY QuietSeat DEF SlotAgrees
<1> QED BY <1>1, PlayerInvariant, PTL

(* Every invitation of such a player is behind a BgQueueRemoveEvent for    *)
(* that very game and group, so one he never answers takes him out of the  *)
(* queue; one for an older group of his does not stand in for it.          *)
THEOREM InvitationsExpire == Spec => []InvitationExpires
<1>1. BgInv => InvitationExpires
  BY QuietSeat DEF InvitationExpires
<1> QED BY <1>1, PlayerInvariant, PTL

\* A step of the program moves each player as the Matchmaker does, or not at all.
LEMMA MatchmakerMoves ==
  ASSUME NEW s, NEW t, Moves(s, t), t # s
  PROVE  \/ s = Matchmaking!Idle /\ t = Matchmaking!Waiting
         \/ s = Matchmaking!Waiting /\ \E g \in Games : t = Matchmaking!InvitedTo(g)
         \/ \E g \in Games : s = Matchmaking!InvitedTo(g) /\ t = Matchmaking!Fighting(g)
         \/ s # Matchmaking!Idle /\ t = Matchmaking!Idle
<1>1. /\ At("idle", NoGame) = Matchmaking!Idle
      /\ At("queue", NoGame) = Matchmaking!Waiting
      /\ \A g : At("queue", g) = Matchmaking!InvitedTo(g) /\ At("battle", g) = Matchmaking!Fighting(g)
  BY DEF At, Matchmaking!Idle, Matchmaking!Waiting, Matchmaking!InvitedTo, Matchmaking!Fighting
<1> QED BY <1>1 DEF Moves

(* The queue, its messages and the battlegrounds implement the Matchmaker: *)
(* whatever the hasty players do, each other player waits until a game     *)
(* invites him, goes to no game but that one, and comes back from the      *)
(* queue or the game to where he was.                                      *)
THEOREM PlayersMatched == Spec => ImplementsMatchmaker
<1>1. Init => Matchmaking!Init
  <2> SUFFICES ASSUME Init PROVE Matchmaking!Init
    OBVIOUS
  <2>1. ASSUME NEW p \in Steady
        PROVE  Place(p) = Matchmaking!Idle
    <3>1. p \in Players
      BY DEF Steady
    <3>2. bgId[p] = NoGame /\ queuedPlayers[p] = 0 /\ toWorld = << >>
      BY <3>1 DEF Init
    <3>3. Range(toWorld) = {}
      BY <3>2 DEF Range
    <3> QED BY <3>2, <3>3 DEF Place, InQueue, Matchmaking!Idle
  <2> QED BY <2>1 DEF Matchmaking!Init
<1>2. BgInv => PlacesAreSeats
  BY PlaceIs
<1>3. BgInv /\ PlacesAreSeats /\ PlacesAreSeats' /\ [Next]_vars
         => [Matchmaking!Next]_([p \in Steady |-> Place(p)])
  <2> SUFFICES ASSUME BgInv, PlacesAreSeats, PlacesAreSeats', [Next]_vars
               PROVE  Matchmaking!Next
    OBVIOUS
  <2>1. \A p \in Steady : Stepped(p)
    BY BgStep
  <2>2. ASSUME NEW p \in Steady
        PROVE  Moves(Place(p), Place(p)') /\ Place(p)' \in Matchmaking!Places
    <3>1. Moves(Seat(p, toWorld, View(p)), Seat(p, toWorld', View(p)'))
      BY <2>1 DEF Stepped, Goes
    <3>2. Place(p) = Seat(p, toWorld, View(p))
      BY DEF PlacesAreSeats
    <3>3. Place(p)' = Seat(p, toWorld', View(p)') /\ Place(p)' \in Matchmaking!Places
      BY DEF PlacesAreSeats
    <3> QED BY <3>1, <3>2, <3>3
  <2>3. PICK f, h : /\ f = [p \in Steady |-> Place(p)]
                    /\ h = [p \in Steady |-> Place(p)']
    OBVIOUS
  <2>4. h \in [Steady -> Matchmaking!Places]
    BY <2>2, <2>3
  <2>5. ASSUME NEW p \in Steady, h[p] # f[p]
        PROVE  \/ f[p] = Matchmaking!Idle /\ h[p] = Matchmaking!Waiting
               \/ f[p] = Matchmaking!Waiting /\ \E g \in Games : h[p] = Matchmaking!InvitedTo(g)
               \/ \E g \in Games : f[p] = Matchmaking!InvitedTo(g) /\ h[p] = Matchmaking!Fighting(g)
               \/ f[p] # Matchmaking!Idle /\ h[p] = Matchmaking!Idle
    <3>1. Moves(f[p], h[p])
      BY <2>2, <2>3
    <3> QED BY <2>5, <3>1, MatchmakerMoves
  <2> QED BY <2>3, <2>4, <2>5 DEF Matchmaking!Next, Matchmaking!Join, Matchmaking!Invite,
                                  Matchmaking!Enter, Matchmaking!Leave
<1> QED BY <1>1, <1>2, <1>3, PlayerInvariant, PTL DEF Spec, ImplementsMatchmaker, Matchmaking!Spec
=============================================================================
