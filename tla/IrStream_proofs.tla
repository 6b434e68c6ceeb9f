-------------------------- MODULE IrStream_proofs ---------------------------
(***************************************************************************)
(* Facts about the grammar of IrStream that hold for all events, whatever  *)
(* produces or reads them, and about the concatenation of texts.           *)
(***************************************************************************)
EXTENDS IrStream, TLAPS, WellFoundedInduction, NaturalsInduction

-----------------------------------------------------------------------------
(* Concatenation *)

(* Concat is a recursive function: what it does is shown by induction over
   the number of texts.  The induction principle is stated for sets of
   numbers, which the provers can instantiate. *)

(* A set of numbers that is not empty has a least one. *)
LEMMA LeastNumber ==
  ASSUME NEW T, T \subseteq Nat, T # {}
  PROVE  \E x \in T : \A y \in T : ~(y < x)
<1>1. IsWellFoundedOn({ss \in Nat \X Nat : ss[1] < ss[2]}, Nat)
  BY NatLessThanWellFounded DEF OpToRel
<1>2. \E x \in T : \A y \in T : ~(<<y, x>> \in {ss \in Nat \X Nat : ss[1] < ss[2]})
  BY <1>1, WFMin
<1>. QED BY <1>2

(* Induction over the numbers, for a set that contains them. *)
LEMMA SetInduction ==
  ASSUME NEW T, 0 \in T, \A n \in Nat : n \in T => n + 1 \in T
  PROVE  \A n \in Nat : n \in T
<1> DEFINE Out == Nat \ T
<1>1. SUFFICES ASSUME Out # {}
               PROVE  FALSE
  OBVIOUS
<1>2. PICK x \in Out : \A y \in Out : ~(y < x)  BY <1>1, LeastNumber
<1>3. x - 1 \in Nat /\ x - 1 < x /\ x = (x - 1) + 1  BY x # 0
<1>4. x - 1 \in T  BY <1>2, <1>3
<1>. QED BY <1>3, <1>4

(* f is the function of the partial concatenations of the first n texts. *)
Partial(f, ss, n) == f = [i \in 1..n |-> IF i = 1 THEN ss[i] ELSE f[i - 1] \o ss[i]]

Agree(s, t, n) == \A i \in 1..n : s[i] = t[i]

(* What the recursive definition says of one partial concatenation. *)
LEMMA PartialAt ==
  ASSUME NEW ss, NEW n \in Nat, NEW f, Partial(f, ss, n), NEW i \in 1..n
  PROVE  f[i] = IF i = 1 THEN ss[i] ELSE f[i - 1] \o ss[i]
<1> DEFINE g == [j \in 1..n |-> IF j = 1 THEN ss[j] ELSE f[j - 1] \o ss[j]]
<1>1. g[i] = IF i = 1 THEN ss[i] ELSE f[i - 1] \o ss[i]  OBVIOUS
<1>2. f = g  BY DEF Partial
<1> HIDE DEF g
<1>. QED BY <1>1, <1>2

(* A function with this recursive definition exists for every length. *)
LEMMA PartialExists ==
  ASSUME NEW ss, NEW n \in Nat
  PROVE  \E f : Partial(f, ss, n)
<1> DEFINE T == {m \in Nat : \E f : Partial(f, ss, m)}
<1>1. 0 \in T
  <2>1. Partial([i \in 1..0 |-> ss], ss, 0)  BY DEF Partial
  <2>. QED BY <2>1
<1>2. ASSUME NEW m \in Nat, m \in T
      PROVE  m + 1 \in T
  <2>1. PICK f : Partial(f, ss, m)  BY <1>2
  <2> DEFINE g == [i \in 1..(m + 1) |-> IF i = 1 THEN ss[i] ELSE f[i - 1] \o ss[i]]
  <2>2. \A i \in 1..m : g[i] = f[i]
    <3>1. \A i \in 1..m : f[i] = IF i = 1 THEN ss[i] ELSE f[i - 1] \o ss[i]
      BY <2>1, PartialAt
    <3>. QED BY <3>1
  <2> DEFINE h == [i \in 1..(m + 1) |-> IF i = 1 THEN ss[i] ELSE g[i - 1] \o ss[i]]
  <2>3. ASSUME NEW i \in 1..(m + 1)
        PROVE  g[i] = h[i]
    <3>1. i # 1 => i - 1 \in 1..m  OBVIOUS
    <3>2. i # 1 => g[i - 1] = f[i - 1]  BY <2>2, <3>1
    <3>3. g[i] = IF i = 1 THEN ss[i] ELSE f[i - 1] \o ss[i]  OBVIOUS
    <3> HIDE DEF g
    <3>4. h[i] = IF i = 1 THEN ss[i] ELSE g[i - 1] \o ss[i]  OBVIOUS
    <3> HIDE DEF h
    <3>. QED BY <3>2, <3>3, <3>4
  <2>4. g = h  BY <2>3
  <2>5. Partial(g, ss, m + 1)  BY <2>4 DEF Partial
  <2>. QED BY <2>5
<1> HIDE DEF T
<1>3. n \in T  BY <1>1, <1>2, SetInduction
<1>. QED BY <1>3 DEF T

(* Concat is the last partial concatenation. *)
LEMMA ConcatIsPartial ==
  ASSUME NEW ss, Len(ss) \in Nat \ {0}
  PROVE  \E f : Partial(f, ss, Len(ss)) /\ Concat(ss) = f[Len(ss)]
<1>1. Concat(ss) = (CHOOSE f : Partial(f, ss, Len(ss)))[Len(ss)]
  BY DEF Concat, FlattenSeq, Partial
<1>2. \E f : Partial(f, ss, Len(ss))  BY PartialExists
<1>3. Partial(CHOOSE f : Partial(f, ss, Len(ss)), ss, Len(ss))  BY <1>2, Zenon
<1>. QED BY <1>1, <1>3

(* Partial concatenations depend on the texts they cover only, and are
   texts themselves. *)
LEMMA PartialAgree ==
  ASSUME NEW ss, NEW tt, NEW n \in Nat, NEW m \in Nat, n <= m,
         NEW f, NEW g, Agree(ss, tt, n), Partial(f, ss, n), Partial(g, tt, m)
  PROVE  Agree(f, g, n)
<1> DEFINE T == {k \in Nat : k \in 1..n => f[k] = g[k]}
<1>1. \A i \in 1..n : f[i] = IF i = 1 THEN ss[i] ELSE f[i - 1] \o ss[i]
  BY PartialAt
<1>2. \A i \in 1..m : g[i] = IF i = 1 THEN tt[i] ELSE g[i - 1] \o tt[i]
  BY PartialAt
<1>3. ASSUME NEW k \in Nat, k \in T, k + 1 \in 1..n
      PROVE  f[k + 1] = g[k + 1]
  <2>1. k + 1 \in 1..m /\ ss[k + 1] = tt[k + 1] /\ (k + 1) - 1 = k
    BY <1>3 DEF Agree
  <2>2. f[k + 1] = IF k + 1 = 1 THEN ss[k + 1] ELSE f[(k + 1) - 1] \o ss[k + 1]
    BY <1>1, <1>3
  <2>3. g[k + 1] = IF k + 1 = 1 THEN tt[k + 1] ELSE g[(k + 1) - 1] \o tt[k + 1]
    BY <1>2, <2>1
  <2>4. k + 1 # 1 => f[k] = g[k]  BY <1>3
  <2>. QED BY <2>1, <2>2, <2>3, <2>4
<1>4. 0 \in T /\ \A k \in Nat : k \in T => k + 1 \in T  BY <1>3
<1> HIDE DEF T
<1>5. \A k \in Nat : k \in T  BY <1>4, SetInduction
<1>. QED BY <1>5 DEF T, Agree

(* Partial concatenations of texts are texts. *)
LEMMA PartialText ==
  ASSUME NEW S, NEW ss \in Seq(Seq(S)), NEW f, Partial(f, ss, Len(ss))
  PROVE  \A i \in 1..Len(ss) : f[i] \in Seq(S)
<1> DEFINE T == {k \in Nat : k \in 1..Len(ss) => f[k] \in Seq(S)}
<1>1. 0 \in T  OBVIOUS
<1>2. ASSUME NEW k \in Nat, k \in T
      PROVE  k + 1 \in T
  <2>1. SUFFICES ASSUME k + 1 \in 1..Len(ss)
                 PROVE  f[k + 1] \in Seq(S)
    OBVIOUS
  <2>2. f[k + 1] = IF k + 1 = 1 THEN ss[k + 1] ELSE f[(k + 1) - 1] \o ss[k + 1]
    BY <2>1, PartialAt
  <2>3. ss[k + 1] \in Seq(S)  BY <2>1
  <2>4. k # 0 => f[k] \in Seq(S)  BY <1>2, <2>1
  <2>. QED BY <2>2, <2>3, <2>4
<1> HIDE DEF T
<1>3. \A k \in Nat : k \in T  BY <1>1, <1>2, SetInduction
<1>. QED BY <1>3 DEF T

(* Nothing to concatenate gives the empty text. *)
LEMMA ConcatEmpty == Concat(<<>>) = <<>>
BY DEF Concat, FlattenSeq

(* The concatenation of texts is a text. *)
LEMMA ConcatText ==
  ASSUME NEW S, NEW ss \in Seq(Seq(S))
  PROVE  Concat(ss) \in Seq(S)
<1>1. CASE ss = <<>>
  <2>1. Concat(ss) = <<>>  BY <1>1, ConcatEmpty
  <2>. QED BY <2>1
<1>2. CASE ss # <<>>
  <2>1. Len(ss) \in Nat \ {0} /\ Len(ss) \in 1..Len(ss)  BY <1>2
  <2>2. PICK f : Partial(f, ss, Len(ss)) /\ Concat(ss) = f[Len(ss)]
    BY <2>1, ConcatIsPartial
  <2>. QED BY <2>1, <2>2, PartialText
<1>. QED BY <1>1, <1>2

(* The concatenation grows with the texts. *)
LEMMA ConcatAppend ==
  ASSUME NEW S, NEW ss \in Seq(Seq(S)), NEW t \in Seq(S)
  PROVE  Concat(Append(ss, t)) = Concat(ss) \o t
<1>1. PICK tt : tt = Append(ss, t)  OBVIOUS
<1>2. PICK n : n = Len(ss)  OBVIOUS
<1>3. /\ n \in Nat /\ Len(tt) = n + 1 /\ tt[n + 1] = t
      /\ \A i \in 1..n : ss[i] = tt[i]
  BY <1>1, <1>2
<1>4. PICK g : Partial(g, tt, Len(tt)) /\ Concat(tt) = g[Len(tt)]
  BY <1>3, ConcatIsPartial
<1>5. Concat(tt) = IF n + 1 = 1 THEN t ELSE g[n] \o t
  <2>1. \A i \in 1..(n + 1) : g[i] = IF i = 1 THEN tt[i] ELSE g[i - 1] \o tt[i]
    BY <1>3, <1>4, PartialAt, SMTT(60)
  <2>2. n + 1 \in 1..(n + 1) /\ (n + 1) - 1 = n  BY <1>3
  <2>3. g[n + 1] = IF n + 1 = 1 THEN tt[n + 1] ELSE g[(n + 1) - 1] \o tt[n + 1]
    BY <2>1, <2>2
  <2>. QED BY <1>3, <1>4, <2>2, <2>3
<1>6. CASE ss = <<>>  BY <1>1, <1>2, <1>5, <1>6, ConcatEmpty
<1>7. CASE ss # <<>>
  <2>1. n # 0  BY <1>2, <1>7
  <2>2. PICK f : Partial(f, ss, n) /\ Concat(ss) = f[n]
    BY <1>2, <1>3, <2>1, ConcatIsPartial
  <2>3. n + 1 \in Nat /\ n <= n + 1 /\ n \in 1..n /\ n + 1 # 1  BY <1>3, <2>1
  <2>4. Partial(g, tt, n + 1)  BY <1>3, <1>4
  <2>5. Agree(f, g, n)
    <3>1. n \in Nat /\ n + 1 \in Nat /\ n <= n + 1  BY <1>3, <2>3
    <3>2. Agree(ss, tt, n)  BY <1>3 DEF Agree
    <3>3. Partial(f, ss, n)  BY <2>2
    <3>. QED BY <3>1, <3>2, <3>3, <2>4, PartialAgree
  <2>6. Concat(tt) = g[n] \o t /\ f[n] = g[n]  BY <1>5, <2>3, <2>5 DEF Agree
  <2>. QED BY <1>1, <2>2, <2>6
<1>. QED BY <1>6, <1>7

(* A sequence of texts that goes on with one more. *)
LEMMA ConcatGrows ==
  ASSUME NEW S, NEW l \in Nat, NEW f \in [1..l -> Seq(S)], NEW g \in [1..(l + 1) -> Seq(S)],
         \A k \in 1..l : g[k] = f[k]
  PROVE  Concat(g) = Concat(f) \o g[l + 1]
<1>1. PICK T, t, h : T = Seq(S) /\ t = g[l + 1] /\ h = Append(f, t)  OBVIOUS
<1>2. f \in Seq(T) /\ Len(f) = l  BY <1>1
<1>3. t \in T
  <2>1. l + 1 \in 1..(l + 1)  OBVIOUS
  <2>. QED BY <1>1, <2>1
<1>4. h \in Seq(T) /\ Len(h) = l + 1 /\ h[l + 1] = t /\ \A k \in 1..l : h[k] = f[k]
  BY <1>1, <1>2, <1>3
<1>5. h \in [1..(l + 1) -> T] /\ g \in [1..(l + 1) -> T]
  <2>1. PICK m : m = l + 1  OBVIOUS
  <2>2. h \in [1..m -> T]
    <3>1. h \in Seq(T) /\ Len(h) = m  BY <1>4, <2>1
    <3>. QED BY <3>1
  <2>. QED BY <1>1, <2>1, <2>2
<1>6. \A k \in 1..(l + 1) : g[k] = h[k]
  <2>1. \A k \in 1..(l + 1) : k \in 1..l \/ k = l + 1  OBVIOUS
  <2>. QED BY <1>1, <1>4, <2>1
<1>7. g = h  BY <1>5, <1>6
<1>8. Concat(g) = Concat(f) \o t
  <2>1. /\ g = Append(f, t) /\ f \in Seq(Seq(S)) /\ t \in Seq(S)
    BY <1>1, <1>2, <1>3, <1>7
  <2>. QED BY <2>1, ConcatAppend
<1>. QED BY <1>1, <1>8

(* The concatenation of one text is that text. *)
LEMMA ConcatSingle ==
  ASSUME NEW S, NEW t \in Seq(S)
  PROVE  Concat(<<t>>) = t
<1>1. <<t>> = Append(<<>>, t) /\ <<>> \in Seq(Seq(S))  OBVIOUS
<1>2. Concat(<<t>>) = Concat(<<>>) \o t  BY <1>1, ConcatAppend
<1>. QED BY <1>2, ConcatEmpty, SMTT(60)

(* Two runs of texts, one behind the other. *)
LEMMA ConcatJoin ==
  ASSUME NEW S, NEW f \in Seq(Seq(S)), NEW g \in Seq(Seq(S))
  PROVE  Concat(f \o g) = Concat(f) \o Concat(g)
<1>1. PICK T, l : T = Seq(S) /\ l = Len(g)  OBVIOUS
<1>2. f \in Seq(T) /\ g \in Seq(T) /\ l \in Nat  BY <1>1
<1>3. PICK q, r : /\ q = [m \in Nat |-> f \o SubSeq(g, 1, m)]
                  /\ r = [m \in Nat |-> SubSeq(g, 1, m)]
  OBVIOUS
<1>4. \A m \in Nat : q[m] = f \o r[m] /\ r[m] = SubSeq(g, 1, m)  BY <1>3
<1>5. q[0] = f /\ r[0] = <<>> /\ q[l] = f \o g /\ r[l] = g
  <2>1. SubSeq(g, 1, 0) = <<>> /\ f \o <<>> = f  BY <1>2
  <2>2. SubSeq(g, 1, l) = g  BY <1>1, <1>2
  <2>3. r[0] = SubSeq(g, 1, 0) /\ r[l] = SubSeq(g, 1, l) /\ q[0] = f \o r[0] /\ q[l] = f \o r[l]
    BY <1>2, <1>4
  <2>. QED BY <2>1, <2>2, <2>3
<1>6. ASSUME NEW m \in Nat, m + 1 <= l
      PROVE  /\ q[m] \in Seq(T) /\ r[m] \in Seq(T) /\ g[m + 1] \in T
             /\ q[m + 1] = Append(q[m], g[m + 1]) /\ r[m + 1] = Append(r[m], g[m + 1])
  <2>1. PICK v, w, t : v = SubSeq(g, 1, m) /\ w = SubSeq(g, 1, m + 1) /\ t = g[m + 1]
    OBVIOUS
  <2>2. v \in Seq(T) /\ t \in T /\ w = Append(v, t)  BY <1>1, <1>2, <1>6, <2>1
  <2>3. q[m] = f \o v /\ q[m + 1] = f \o w /\ r[m] = v /\ r[m + 1] = w
    <3>1. m + 1 \in Nat  OBVIOUS
    <3>. QED BY <1>4, <2>1, <3>1
  <2>4. f \o v \in Seq(T) /\ f \o w = Append(f \o v, t)  BY <1>2, <2>2
  <2>. QED BY <2>1, <2>2, <2>3, <2>4
<1> DEFINE P == {m \in Nat : m <= l => Concat(q[m]) = Concat(f) \o Concat(r[m])}
<1>7. 0 \in P
  <2>1. Concat(f) \in Seq(S)  BY ConcatText
  <2>2. Concat(f) \o <<>> = Concat(f)  BY <2>1
  <2>. QED BY <1>5, <2>2, ConcatEmpty
<1>8. ASSUME NEW m \in Nat, m \in P
      PROVE  m + 1 \in P
  <2>1. SUFFICES ASSUME m + 1 <= l
                 PROVE  Concat(q[m + 1]) = Concat(f) \o Concat(r[m + 1])
    OBVIOUS
  <2>2. Concat(q[m]) = Concat(f) \o Concat(r[m])  BY <1>2, <1>8, <2>1
  <2>3. PICK a, b, t : a = q[m] /\ b = r[m] /\ t = g[m + 1]  OBVIOUS
  <2>4. /\ a \in Seq(T) /\ b \in Seq(T) /\ t \in T
        /\ q[m + 1] = Append(a, t) /\ r[m + 1] = Append(b, t)
    BY <1>6, <2>1, <2>3
  <2>5. a \in Seq(Seq(S)) /\ b \in Seq(Seq(S)) /\ t \in Seq(S)  BY <1>1, <2>4
  <2>6. Concat(q[m + 1]) = Concat(a) \o t /\ Concat(r[m + 1]) = Concat(b) \o t
    BY <2>4, <2>5, ConcatAppend
  <2>7. Concat(f) \in Seq(S) /\ Concat(b) \in Seq(S)  BY <2>5, ConcatText
  <2>8. PICK c, d : c = Concat(f) /\ d = Concat(b)  OBVIOUS
  <2>9. (c \o d) \o t = c \o (d \o t)  BY <2>5, <2>7, <2>8
  <2>. QED BY <2>2, <2>3, <2>6, <2>8, <2>9
<1> HIDE DEF P
<1>9. l \in P  BY <1>2, <1>7, <1>8, SetInduction
<1>10. Concat(q[l]) = Concat(f) \o Concat(r[l])  BY <1>2, <1>9 DEF P
<1>. QED BY <1>5, <1>10

(* What is where in two sequences, one behind the other. *)
LEMMA JoinedAt ==
  ASSUME NEW D, NEW f \in Seq(D), NEW g \in Seq(D)
  PROVE  /\ f \o g \in Seq(D) /\ Len(f \o g) = Len(f) + Len(g)
         /\ \A k \in 1..(Len(f) + Len(g)) :
              (f \o g)[k] = IF k <= Len(f) THEN f[k] ELSE g[k - Len(f)]
OBVIOUS

(* What each of a run of things says, joined. *)
JoinOf(F, s) == Concat([k \in 1..Len(s) |-> F[s[k]]])
Sayings(S, D) == [S -> Seq(D)]

LEMMA JoinOfBoth ==
  ASSUME NEW S, NEW D, NEW F \in Sayings(S, D), NEW s \in Seq(S), NEW u \in Seq(S)
  PROVE  /\ JoinOf(F, s \o u) = JoinOf(F, s) \o JoinOf(F, u)
         /\ JoinOf(F, s) \in Seq(D) /\ s \o u \in Seq(S)
<1>1. PICK m, n, t, E : m = Len(s) /\ n = Len(u) /\ t = s \o u /\ E = Seq(D)
  OBVIOUS
<1>2. /\ m \in Nat /\ n \in Nat /\ t \in Seq(S) /\ Len(t) = m + n
      /\ \A k \in 1..(m + n) : t[k] = IF k <= m THEN s[k] ELSE u[k - m]
  BY <1>1, JoinedAt
<1>3. /\ \A k \in 1..m : F[s[k]] \in E
      /\ \A k \in 1..n : F[u[k]] \in E
  BY <1>1 DEF Sayings
<1>4. PICK f, g, h : /\ f = [k \in 1..m |-> F[s[k]]]
                     /\ g = [k \in 1..n |-> F[u[k]]]
                     /\ h = [k \in 1..(m + n) |-> F[t[k]]]
  OBVIOUS
<1>5. /\ f \in Seq(E) /\ g \in Seq(E) /\ Len(f) = m /\ Len(g) = n
      /\ \A k \in 1..m : f[k] = F[s[k]]
      /\ \A k \in 1..n : g[k] = F[u[k]]
  BY <1>2, <1>3, <1>4
<1>6. h = f \o g
  <2>1. PICK j : j = f \o g  OBVIOUS
  <2>2. /\ j \in Seq(E) /\ Len(j) = m + n
        /\ \A k \in 1..(m + n) : j[k] = IF k <= m THEN f[k] ELSE g[k - m]
    <3>1. f \in Seq(E) /\ g \in Seq(E) /\ Len(f) = m /\ Len(g) = n  BY <1>5
    <3>. QED BY <2>1, <3>1, JoinedAt
  <2>3. ASSUME NEW k \in 1..(m + n)
        PROVE  F[t[k]] = j[k]
    <3>1. CASE k <= m
      <4>1. k \in 1..m /\ t[k] = s[k] /\ j[k] = f[k]  BY <1>2, <2>2, <3>1
      <4>. QED BY <1>5, <4>1
    <3>2. CASE ~(k <= m)
      <4>1. k - m \in 1..n /\ t[k] = u[k - m] /\ j[k] = g[k - m]
        BY <1>2, <2>2, <3>2
      <4>. QED BY <1>5, <4>1
    <3>. QED BY <3>1, <3>2
  <2>4. j = [k \in 1..(m + n) |-> j[k]]  BY <1>2, <2>2
  <2>. QED BY <1>4, <2>1, <2>3, <2>4
<1>7. JoinOf(F, s) = Concat(f) /\ JoinOf(F, u) = Concat(g) /\ JoinOf(F, t) = Concat(h)
  BY <1>1, <1>2, <1>4 DEF JoinOf
<1>8. f \in Seq(Seq(D)) /\ g \in Seq(Seq(D))  BY <1>1, <1>5
<1>. QED BY <1>1, <1>2, <1>6, <1>7, <1>8, ConcatJoin, ConcatText

LEMMA JoinOfMore ==
  ASSUME NEW S, NEW D, NEW F \in Sayings(S, D), NEW s \in Seq(S), NEW c \in S
  PROVE  /\ JoinOf(F, Append(s, c)) = JoinOf(F, s) \o F[c]
         /\ JoinOf(F, s) \in Seq(D) /\ Append(s, c) \in Seq(S)
<1>1. PICK u, x, y : u = <<c>> /\ x = F[c] /\ y = <<x>>  OBVIOUS
<1>2. u \in Seq(S) /\ Len(u) = 1 /\ u[1] = c /\ Append(s, c) = s \o u  BY <1>1
<1>3. [k \in 1..Len(u) |-> F[u[k]]] = y
  <2>1. [k \in 1..Len(u) |-> F[u[k]]] = [k \in 1..1 |-> x]  BY <1>1, <1>2
  <2>. QED BY <1>1, <2>1
<1>4. JoinOf(F, u) = x
  <2>1. x \in Seq(D)  BY <1>1 DEF Sayings
  <2>. QED BY <1>1, <1>3, <2>1, ConcatSingle DEF JoinOf
<1>5. u \in Seq(S)  BY <1>2
<1>6. /\ JoinOf(F, s \o u) = JoinOf(F, s) \o JoinOf(F, u)
      /\ JoinOf(F, s) \in Seq(D) /\ s \o u \in Seq(S)
  BY <1>5, JoinOfBoth
<1>. QED BY <1>1, <1>2, <1>4, <1>6

(* Things that say nothing. *)
Silent(F, s) == \A k \in 1..Len(s) : F[s[k]] = <<>>

LEMMA JoinOfNone ==
  ASSUME NEW S, NEW D, NEW F \in Sayings(S, D), NEW s \in Seq(S),
         Silent(F, s)
  PROVE  JoinOf(F, s) = <<>>
<1>1. PICK l : l = Len(s)  OBVIOUS
<1>2. PICK q : q = [m \in Nat |-> SubSeq(s, 1, m)]  OBVIOUS
<1>3. l \in Nat /\ \A m \in Nat : q[m] = SubSeq(s, 1, m)  BY <1>1, <1>2
<1>4. q[0] = <<>> /\ q[l] = s
  <2>1. SubSeq(s, 1, 0) = <<>> /\ SubSeq(s, 1, l) = s  BY <1>1
  <2>. QED BY <1>3, <2>1
<1>5. ASSUME NEW m \in Nat, m + 1 <= l
      PROVE  q[m] \in Seq(S) /\ q[m + 1] = Append(q[m], s[m + 1]) /\ s[m + 1] \in S
  <2>1. PICK v, w, c : v = SubSeq(s, 1, m) /\ w = SubSeq(s, 1, m + 1) /\ c = s[m + 1]
    OBVIOUS
  <2>2. v \in Seq(S) /\ c \in S /\ w = Append(v, c)  BY <1>1, <1>5, <2>1
  <2>3. q[m] = v /\ q[m + 1] = w
    <3>1. m + 1 \in Nat  OBVIOUS
    <3>. QED BY <1>3, <2>1, <3>1
  <2>. QED BY <2>1, <2>2, <2>3
<1> DEFINE P == {m \in Nat : m <= l => JoinOf(F, q[m]) = <<>>}
<1>6. 0 \in P
  <2>1. PICK none : none = <<>>  OBVIOUS
  <2>2. [k \in 1..Len(none) |-> F[none[k]]] = <<>>  BY <2>1
  <2>. QED BY <1>4, <2>1, <2>2, ConcatEmpty DEF JoinOf
<1>7. ASSUME NEW m \in Nat, m \in P
      PROVE  m + 1 \in P
  <2>1. SUFFICES ASSUME m + 1 <= l
                 PROVE  JoinOf(F, q[m + 1]) = <<>>
    OBVIOUS
  <2>2. JoinOf(F, q[m]) = <<>>  BY <1>3, <1>7, <2>1
  <2>3. F[s[m + 1]] = <<>>  BY <1>1, <1>3, <2>1 DEF Silent
  <2>4. JoinOf(F, q[m + 1]) = JoinOf(F, q[m]) \o F[s[m + 1]]
    <3>1. PICK v, c : v = q[m] /\ c = s[m + 1]  OBVIOUS
    <3>2. v \in Seq(S) /\ c \in S  BY <1>5, <2>1, <3>1
    <3>3. JoinOf(F, Append(v, c)) = JoinOf(F, v) \o F[c]  BY <3>2, JoinOfMore
    <3>. QED BY <1>5, <2>1, <3>1, <3>3
  <2>. QED BY <2>2, <2>3, <2>4
<1> HIDE DEF P
<1>8. l \in P  BY <1>3, <1>6, <1>7, SetInduction
<1>. QED BY <1>3, <1>4, <1>8 DEF P

(* Texts of which all are empty. *)
LEMMA ConcatNone ==
  ASSUME NEW S, NEW f \in Seq(Seq(S)), \A k \in 1..Len(f) : f[k] = <<>>
  PROVE  Concat(f) = <<>>
<1>1. PICK T, F : T = Seq(S) /\ F = [x \in T |-> x]  OBVIOUS
<1>2. F \in Sayings(T, S) /\ f \in Seq(T)  BY <1>1 DEF Sayings
<1>3. \A k \in 1..Len(f) : F[f[k]] = f[k]
  <2>1. \A k \in 1..Len(f) : f[k] \in T  BY <1>2
  <2>. QED BY <1>1, <2>1
<1>4. Silent(F, f)  BY <1>3, Zenon DEF Silent
<1>5. JoinOf(F, f) = <<>>  BY <1>2, <1>4, JoinOfNone, Zenon
<1>6. [k \in 1..Len(f) |-> F[f[k]]] = [k \in 1..Len(f) |-> f[k]]  BY <1>3
<1>7. [k \in 1..Len(f) |-> f[k]] = f  OBVIOUS
<1>. QED BY <1>5, <1>6, <1>7 DEF JoinOf

(* Three runs, joined in either way. *)
LEMMA JoinAssociates ==
  ASSUME NEW S, NEW a \in Seq(S), NEW x \in Seq(S), NEW t \in Seq(S)
  PROVE  a \o (x \o t) = (a \o x) \o t /\ a \o x \in Seq(S) /\ (a \o x) \o <<>> = a \o x
OBVIOUS

(* After texts a, b ends in x and c in x and t; nothing is in z. *)
GrowBefore(S, a, x, t, y, b, c, z) ==
  /\ a \in Seq(Seq(S)) /\ z \in Seq(Seq(S)) /\ Concat(z) = <<>>
  /\ x \in Seq(S) /\ t \in Seq(S) /\ y \in Seq(S) /\ y = x \o t
  /\ b \in Seq(Seq(S)) /\ c \in Seq(Seq(S)) /\ b = Append(a, x) /\ c = Append(a, y)

Outgrows(c, b, z, t) == Concat(c \o z) = Concat(b \o z) \o t

LEMMA ConcatTail ==
  ASSUME NEW S, NEW a, NEW x, NEW t, NEW y, NEW b, NEW c, NEW z,
         GrowBefore(S, a, x, t, y, b, c, z)
  PROVE  Outgrows(c, b, z, t)
<1>0. /\ a \in Seq(Seq(S)) /\ z \in Seq(Seq(S)) /\ Concat(z) = <<>>
      /\ x \in Seq(S) /\ t \in Seq(S) /\ y \in Seq(S) /\ y = x \o t
      /\ b \in Seq(Seq(S)) /\ c \in Seq(Seq(S)) /\ b = Append(a, x) /\ c = Append(a, y)
  BY DEF GrowBefore
<1>1. PICK A, B, C : A = Concat(a) /\ B = Concat(b \o z) /\ C = Concat(c \o z)
  OBVIOUS
<1>2. A \in Seq(S)  BY <1>0, <1>1, ConcatText
<1>3. Concat(b) = A \o x /\ Concat(c) = A \o y  BY <1>0, <1>1, ConcatAppend
<1>4. B = Concat(b) \o <<>> /\ C = Concat(c) \o <<>>  BY <1>0, <1>1, ConcatJoin
<1>5. B = A \o x /\ C = A \o y
  <2>1. (A \o x) \o <<>> = A \o x /\ (A \o y) \o <<>> = A \o y
    BY <1>0, <1>2, JoinAssociates
  <2>. QED BY <1>3, <1>4, <2>1, Zenon
<1>6. A \o (x \o t) = (A \o x) \o t  BY <1>0, <1>2, JoinAssociates
<1>7. C = B \o t  BY <1>0, <1>5, <1>6, Zenon
<1>. QED BY <1>1, <1>7, Zenon DEF Outgrows

(* One text grows, and only empty ones come after it. *)
LEMMA ConcatLate ==
  ASSUME NEW S, NEW l \in Nat, NEW p \in 1..l,
         NEW f \in [1..l -> Seq(S)], NEW g \in [1..l -> Seq(S)], NEW t \in Seq(S),
         g[p] = f[p] \o t, \A k \in 1..l : k # p => g[k] = f[k],
         \A k \in 1..l : p < k => f[k] = <<>>
  PROVE  Concat(g) = Concat(f) \o t
<1>1. PICK T, x, y : T = Seq(S) /\ x = f[p] /\ y = g[p]  OBVIOUS
<1>2. PICK a, z : /\ a = [k \in 1..(p - 1) |-> f[k]]
                  /\ z = [k \in 1..(l - p) |-> f[p + k]]
  OBVIOUS
<1>3. x \in T /\ y \in T /\ y = x \o t  BY <1>1
<1>4. /\ p - 1 \in Nat /\ l - p \in Nat
      /\ a \in Seq(T) /\ Len(a) = p - 1 /\ \A k \in 1..(p - 1) : a[k] = f[k]
      /\ z \in Seq(T) /\ Len(z) = l - p /\ \A k \in 1..(l - p) : z[k] = f[p + k]
  <2>1. p - 1 \in Nat /\ l - p \in Nat  OBVIOUS
  <2>2. /\ \A k \in 1..(p - 1) : f[k] \in T
        /\ \A k \in 1..(l - p) : f[p + k] \in T
    <3>1. \A k \in 1..l : f[k] \in T  BY <1>1
    <3>2. /\ \A k \in 1..(p - 1) : k \in 1..l
          /\ \A k \in 1..(l - p) : p + k \in 1..l
      OBVIOUS
    <3>. QED BY <3>1, <3>2
  <2>. QED BY <1>2, <2>1, <2>2
<1>5. PICK b, c : b = Append(a, x) /\ c = Append(a, y)  OBVIOUS
<1>6. /\ b \in Seq(T) /\ Len(b) = p /\ b[p] = x /\ \A k \in 1..(p - 1) : b[k] = f[k]
      /\ c \in Seq(T) /\ Len(c) = p /\ c[p] = y /\ \A k \in 1..(p - 1) : c[k] = f[k]
  BY <1>3, <1>4, <1>5
<1>7. ASSUME NEW h \in [1..l -> T], NEW d \in Seq(T), Len(d) = p,
             \A k \in 1..p : h[k] = d[k], \A k \in 1..(l - p) : h[p + k] = z[k]
      PROVE  h = d \o z
  <2>1. PICK j : j = d \o z  OBVIOUS
  <2>2. /\ j \in Seq(T) /\ Len(j) = l
        /\ \A k \in 1..l : j[k] = IF k <= p THEN d[k] ELSE z[k - p]
    <3>1. d \in Seq(T) /\ z \in Seq(T) /\ Len(d) + Len(z) = l  BY <1>4, <1>7
    <3>2. /\ j \in Seq(T) /\ Len(j) = Len(d) + Len(z)
          /\ \A k \in 1..(Len(d) + Len(z)) :
               j[k] = IF k <= Len(d) THEN d[k] ELSE z[k - Len(d)]
      BY <2>1, <3>1, JoinedAt
    <3>. QED BY <1>7, <3>1, <3>2
  <2>3. ASSUME NEW k \in 1..l
        PROVE  h[k] = j[k]
    <3>1. CASE k <= p  BY <1>7, <2>2, <3>1
    <3>2. CASE ~(k <= p)
      <4>1. k - p \in 1..(l - p) /\ p + (k - p) = k  BY <3>2
      <4>. QED BY <1>7, <2>2, <3>2, <4>1
    <3>. QED BY <3>1, <3>2
  <2>4. j \in [1..l -> T]  BY <2>2
  <2>5. h = j  BY <1>7, <2>3, <2>4
  <2>. QED BY <2>1, <2>5
<1>8. f = b \o z
  <2>1. f \in [1..l -> T] /\ \A k \in 1..p : f[k] = b[k]  BY <1>1, <1>6
  <2>2. \A k \in 1..(l - p) : f[p + k] = z[k]  BY <1>4
  <2>. QED BY <1>6, <1>7, <2>1, <2>2
<1>9. g = c \o z
  <2>1. g \in [1..l -> T] /\ \A k \in 1..p : g[k] = c[k]
    <3>1. \A k \in 1..p : k = p \/ (k \in 1..(p - 1) /\ k \in 1..l /\ k # p)
      OBVIOUS
    <3>. QED BY <1>1, <1>6, <3>1
  <2>2. \A k \in 1..(l - p) : g[p + k] = z[k]
    <3>1. TAKE k \in 1..(l - p)
    <3>2. p + k \in 1..l /\ p + k # p  BY <1>4
    <3>. QED BY <1>4, <3>2
  <2>. QED BY <1>6, <1>7, <2>1, <2>2
<1>10. Concat(z) = <<>>
  <2>1. \A k \in 1..Len(z) : z[k] = <<>>
    <3>1. TAKE k \in 1..Len(z)
    <3>2. p + k \in 1..l /\ p < p + k  BY <1>4
    <3>. QED BY <1>4, <3>2
  <2>2. z \in Seq(Seq(S))  BY <1>1, <1>4
  <2>. QED BY <2>1, <2>2, ConcatNone, Zenon
<1>11. Outgrows(c, b, z, t)
  <2>1. GrowBefore(S, a, x, t, y, b, c, z)
    BY <1>1, <1>3, <1>4, <1>5, <1>6, <1>10 DEF GrowBefore
  <2>. QED BY <2>1, ConcatTail, Zenon
<1>. QED BY <1>8, <1>9, <1>11, Zenon DEF Outgrows

-----------------------------------------------------------------------------
(* Events *)

(* The constructors of events give events. *)
LEMMA EventTypes ==
  /\ MessageStart \in IrEvents /\ MessageDone \in IrEvents
  /\ \A i \in Nat, b \in Blocks : BlockStart(i, b) \in IrEvents
  /\ \A i \in Nat, d \in Deltas : BlockDelta(i, d) \in IrEvents
  /\ \A i \in Nat : BlockStop(i) \in IrEvents
  /\ \A stop \in StopReasons, sequence \in Text, usage \in Usages :
       MessageDelta(stop, sequence, usage) \in IrEvents
BY DEF IrEvents, MessageStart, MessageDone, BlockStart, BlockDelta, BlockStop, MessageDelta

(* The empty identifier and the empty text. *)
LEMMA NoToken == "" \in Tokens /\ <<>> \in Text
BY DEF Tokens, Text

(* The constructors of blocks give blocks. *)
LEMMA BlockTypes ==
  ASSUME NEW kind \in StreamedKinds, NEW id \in Tokens, NEW name \in Text, NEW text \in Text,
         NEW signature \in Text, NEW citations \in Text
  PROVE  /\ Block(kind, id, name, text) \in Blocks
         /\ [Block(kind, id, name, text) EXCEPT !.signature = signature] \in Blocks
         /\ [Block(kind, id, name, text) EXCEPT !.citations = citations] \in Blocks
<1>1. PICK k : k = kind  OBVIOUS
<1>2. PICK none : none = <<>>  OBVIOUS
<1>3. none \in Text  BY <1>2 DEF Text
<1>4. k \in BlockKinds  BY <1>1 DEF BlockKinds
<1>. QED BY <1>1, <1>2, <1>3, <1>4 DEF Block, Blocks

(* The event that a stream in grammar order admits next. *)
Admits(s, e) == IF s = <<>> THEN e.type = "message_start" ELSE Follows(Last(s), e)

(* A block with an id, a call with an id and a name, and what one start
   must satisfy. *)
HasId(id) == id # ""

Identified(id, name) == HasId(id) /\ name # <<>>

LEMMA StartOK ==
  ASSUME NEW e, IsStart(e),
         \/ e.block.kind \in StreamedKinds \ ({"custom_tool_use"} \union ApplyPatchKinds)
         \/ e.block.kind = "custom_tool_use" /\ Identified(e.block.id, e.block.name)
         \/ e.block.kind \in ApplyPatchKinds /\ HasId(e.block.id)
  PROVE  EventOK(e)
<1>1. e.type # "message_delta"  BY DEF IsStart
<1>2. e.block.kind \in StreamedKinds
  BY DEF StreamedKinds, ToolKinds, AtomicKinds
<1>3. \/ e.block.kind \notin {"custom_tool_use"} \union ApplyPatchKinds
      \/ e.block.kind = "custom_tool_use" /\ Identified(e.block.id, e.block.name)
      \/ /\ e.block.kind \in ApplyPatchKinds /\ HasId(e.block.id)
         /\ e.block.kind # "custom_tool_use"
  BY DEF ApplyPatchKinds
<1>. QED BY <1>1, <1>2, <1>3, Zenon DEF EventOK, Identified, HasId

(* The events that continue a block. *)
LEMMA FollowsStart ==
  ASSUME NEW l, NEW e, IsStart(l), Continues(e, l.index, BlockFamily(l.block))
  PROVE  Follows(l, e)
BY DEF Follows

(* A delta is continued by its block, after a signature by the stop only. *)
LEMMA FollowsDelta ==
  ASSUME NEW l, NEW e, IsDelta(l), Continues(e, l.index, DeltaFamily(l.delta)),
         l.delta.type = "signature_delta" => IsStop(e)
  PROVE  Follows(l, e)
BY DEF Follows

(* What an appended event leaves of a sequence. *)
LEMMA AppendFacts ==
  ASSUME NEW S, NEW s \in Seq(S), NEW e \in S
  PROVE  /\ Append(s, e) \in Seq(S)
         /\ Append(s, e) # <<>>
         /\ Len(Append(s, e)) = Len(s) + 1
         /\ Last(Append(s, e)) = e
         /\ \A i \in 1..Len(s) : Append(s, e)[i] = s[i]
         /\ Append(s, e)[Len(s) + 1] = e
BY DEF Last

(* The grammar is local: appending e to a stream in order keeps the order
   exactly when e may follow the last event. *)
LEMMA InOrderAppend ==
  ASSUME NEW S, NEW s \in Seq(S), NEW e \in S
  PROVE  InOrder(Append(s, e)) <=> InOrder(s) /\ Admits(s, e)
<1> DEFINE t == Append(s, e)
<1>1. /\ Len(s) \in Nat /\ Len(t) = Len(s) + 1 /\ t # <<>>
      /\ \A i \in 1..Len(s) : t[i] = s[i]
      /\ t[Len(s) + 1] = e
  BY AppendFacts
<1>2. s = <<>> <=> Len(s) = 0  OBVIOUS
<1>3. CASE s = <<>>  BY <1>1, <1>2, <1>3 DEF InOrder, Admits
<1>4. CASE s # <<>>
  <2>1. Len(s) \in 1..Len(s) /\ 1 \in 1..Len(s)  BY <1>1, <1>2, <1>4
  <2>2. ASSUME InOrder(t)
        PROVE  InOrder(s) /\ Follows(s[Len(s)], e)
    <3>1. \A i \in 1..Len(s) : Follows(t[i], t[i + 1])
      BY <2>2, <1>1 DEF InOrder
    <3>2. \A i \in 1..(Len(s) - 1) : Follows(s[i], s[i + 1])  BY <3>1, <1>1
    <3>3. s[1].type = "message_start"  BY <2>2, <2>1, <1>1 DEF InOrder
    <3>4. Follows(s[Len(s)], e)  BY <3>1, <2>1, <1>1
    <3>. QED BY <3>2, <3>3, <3>4 DEF InOrder
  <2>3. ASSUME InOrder(s), Follows(s[Len(s)], e)
        PROVE  InOrder(t)
    <3>1. ASSUME NEW i \in 1..Len(s)
          PROVE  Follows(t[i], t[i + 1])
      <4>1. CASE i = Len(s)  BY <4>1, <2>3, <2>1, <1>1
      <4>2. CASE i # Len(s)
        <5>1. i \in 1..(Len(s) - 1) /\ i + 1 \in 1..Len(s)  BY <4>2, <1>1
        <5>. QED BY <5>1, <2>3, <1>1 DEF InOrder
      <4>. QED BY <4>1, <4>2
    <3>2. t[1].type = "message_start"  BY <2>3, <2>1, <1>1, <1>4 DEF InOrder
    <3>. QED BY <3>1, <3>2, <1>1 DEF InOrder
  <2>. QED BY <2>2, <2>3, <1>4 DEF Admits, Last
<1>. QED BY <1>3, <1>4

(* The same for whole well-formedness: the event must be good by itself. *)
LEMMA WellFormedAppend ==
  ASSUME NEW S, NEW s \in Seq(S), NEW e \in S
  PROVE  WellFormed(Append(s, e)) <=> WellFormed(s) /\ Admits(s, e) /\ EventOK(e)
<1> DEFINE t == Append(s, e)
<1>1. /\ Len(s) \in Nat /\ Len(t) = Len(s) + 1
      /\ \A i \in 1..Len(s) : t[i] = s[i]
      /\ t[Len(s) + 1] = e
  BY AppendFacts
<1>2. (\A i \in 1..Len(t) : EventOK(t[i]))
        <=> (\A i \in 1..Len(s) : EventOK(s[i])) /\ EventOK(e)
  <2>1. ASSUME \A i \in 1..Len(t) : EventOK(t[i])
        PROVE  (\A i \in 1..Len(s) : EventOK(s[i])) /\ EventOK(e)
    <3>1. Len(s) + 1 \in 1..Len(t)  BY <1>1
    <3>2. \A i \in 1..Len(s) : i \in 1..Len(t)  BY <1>1
    <3>3. EventOK(e)  BY <3>1, <2>1, <1>1
    <3>4. \A i \in 1..Len(s) : EventOK(s[i])  BY <3>2, <2>1, <1>1
    <3>. QED BY <3>3, <3>4
  <2>2. ASSUME \A i \in 1..Len(s) : EventOK(s[i]), EventOK(e), NEW i \in 1..Len(t)
        PROVE  EventOK(t[i])
    <3>1. i \in 1..Len(s) \/ i = Len(s) + 1  BY <1>1
    <3>. QED BY <3>1, <2>2, <1>1
  <2>. QED BY <2>1, <2>2
<1>3. InOrder(t) <=> InOrder(s) /\ Admits(s, e)  BY InOrderAppend
<1>. QED BY <1>2, <1>3 DEF WellFormed

-----------------------------------------------------------------------------
(* Tool units *)

(* Units that end before the last event are those of the shorter stream. *)
LEMMA OldUnits ==
  ASSUME NEW S, NEW s \in Seq(S), NEW e \in S, NEW k \in 1..Len(s), NEW m \in 1..Len(s)
  PROVE  /\ IsToolUnit(Append(s, e), k, m) <=> IsToolUnit(s, k, m)
         /\ Append(s, e)[k] = s[k]
         /\ Fragments(Append(s, e), k, m) = Fragments(s, k, m)
<1>1. PICK t : t = Append(s, e)  OBVIOUS
<1>2. Len(s) \in Nat /\ \A i \in 1..Len(s) : t[i] = s[i]  BY <1>1, AppendFacts
<1>3. \A n \in (k + 1)..(m - 1) : t[n] = s[n]  BY <1>2
<1>4. IsToolUnit(t, k, m) <=> IsToolUnit(s, k, m)  BY <1>2, <1>3 DEF IsToolUnit
<1>5. Fragments(t, k, m) = Fragments(s, k, m)
  <2>1. \A n \in 1..(m - k - 1) : t[k + n] = s[k + n]  BY <1>2
  <2>. QED BY <2>1 DEF Fragments
<1>. QED BY <1>1, <1>2, <1>4, <1>5

(* What is spelled up to the end does not depend on the event that comes,
   unless it is one more fragment. *)
LEMMA FragmentsAppend ==
  ASSUME NEW S, NEW s \in Seq(S), NEW e \in S, NEW k \in 1..Len(s),
         \A n \in (k + 1)..Len(s) : s[n].delta.text \in Text
  PROVE  /\ Fragments(s, k, Len(s) + 1) \in Seq(Text)
         /\ Len(Fragments(s, k, Len(s) + 1)) = Len(s) - k
         /\ Fragments(Append(s, e), k, Len(s) + 1) = Fragments(s, k, Len(s) + 1)
         /\ e.delta.text \in Text =>
              Fragments(Append(s, e), k, Len(s) + 2)
                = Append(Fragments(s, k, Len(s) + 1), e.delta.text)
<1>1. PICK t : t = Append(s, e)  OBVIOUS
<1>2. PICK j : j = Len(s) - k  OBVIOUS
<1>3. /\ Len(s) \in Nat /\ j \in Nat /\ (Len(s) + 1) - k - 1 = j /\ (Len(s) + 2) - k - 1 = j + 1
      /\ k + (j + 1) = Len(s) + 1
  BY <1>2
<1>4. (\A i \in 1..Len(s) : t[i] = s[i]) /\ t[Len(s) + 1] = e
  BY <1>1, AppendFacts
<1>5. PICK f : f = [n \in 1..j |-> s[k + n].delta.text]  OBVIOUS
<1>6. Fragments(s, k, Len(s) + 1) = f  BY <1>3, <1>5 DEF Fragments
<1>7. \A n \in 1..j : f[n] = s[k + n].delta.text /\ s[k + n].delta.text \in Text /\ k + n \in 1..Len(s)
  BY <1>2, <1>3, <1>5
<1>8. f \in Seq(Text) /\ Len(f) = j  BY <1>3, <1>5, <1>7
<1>9. Fragments(t, k, Len(s) + 1) = f  BY <1>3, <1>4, <1>5, <1>7 DEF Fragments
<1>10. ASSUME e.delta.text \in Text
       PROVE  Fragments(t, k, Len(s) + 2) = Append(f, e.delta.text)
  <2>1. PICK g : g = [n \in 1..(j + 1) |-> t[k + n].delta.text]  OBVIOUS
  <2>2. Fragments(t, k, Len(s) + 2) = g  BY <1>3, <2>1 DEF Fragments
  <2>3. PICK h : h = Append(f, e.delta.text)  OBVIOUS
  <2>4. h \in [1..(j + 1) -> Text] /\ h[j + 1] = e.delta.text /\ \A n \in 1..j : h[n] = f[n]
    <3>1. PICK x : x = e.delta.text  OBVIOUS
    <3>2. x \in Text /\ h = Append(f, x)  BY <1>10, <2>3, <3>1
    <3>3. /\ Append(f, x) \in Seq(Text)
          /\ Len(Append(f, x)) = Len(f) + 1
          /\ Append(f, x)[Len(f) + 1] = x
          /\ \A n \in 1..Len(f) : Append(f, x)[n] = f[n]
      BY <1>8, <3>2, AppendFacts
    <3>4. /\ h \in Seq(Text) /\ Len(h) = j + 1 /\ h[j + 1] = x
          /\ \A n \in 1..j : h[n] = f[n]
      BY <1>8, <3>2, <3>3
    <3>. QED BY <3>1, <3>4
  <2>5. ASSUME NEW n \in 1..(j + 1)
        PROVE  g[n] = h[n]
    <3>1. CASE n = j + 1  BY <1>3, <1>4, <2>1, <2>4, <3>1
    <3>2. CASE n \in 1..j  BY <1>4, <1>7, <2>1, <2>4, <3>2
    <3>. QED BY <1>3, <3>1, <3>2
  <2>6. g = h  BY <2>1, <2>4, <2>5
  <2>. QED BY <2>2, <2>3, <2>6
<1>. QED BY <1>1, <1>2, <1>6, <1>8, <1>9, <1>10

(* Appending e adds at most the unit that e closes. *)
LEMMA InputsAppend ==
  ASSUME NEW S, NEW s \in Seq(S), NEW e \in S, NEW lax \in BOOLEAN
  PROVE  ToolInputsExact(Append(s, e), lax) <=>
           /\ ToolInputsExact(s, lax)
           /\ \A k \in 1..Len(s) : IsToolUnit(Append(s, e), k, Len(s) + 1) =>
                InputExact(s[k].block.text, Fragments(Append(s, e), k, Len(s) + 1), lax)
<1>1. PICK t : t = Append(s, e)  OBVIOUS
<1>2. /\ Len(s) \in Nat /\ Len(t) = Len(s) + 1
      /\ \A i \in 1..Len(s) : t[i] = s[i]
  BY <1>1, AppendFacts
<1>3. \A k, m \in 1..Len(s) :
        /\ IsToolUnit(t, k, m) <=> IsToolUnit(s, k, m)
        /\ Fragments(t, k, m) = Fragments(s, k, m)
  BY <1>1, OldUnits
<1>4. \A k, m \in 1..Len(t) : IsToolUnit(t, k, m) => k \in 1..Len(s)
  BY <1>2 DEF IsToolUnit
<1>5. \A m \in 1..Len(t) : m \in 1..Len(s) \/ m = Len(s) + 1  BY <1>2
<1>6. ASSUME ToolInputsExact(t, lax)
      PROVE  /\ ToolInputsExact(s, lax)
             /\ \A k \in 1..Len(s) : IsToolUnit(t, k, Len(s) + 1) =>
                  InputExact(s[k].block.text, Fragments(t, k, Len(s) + 1), lax)
  <2>1. \A k, m \in 1..Len(t) :
          IsToolUnit(t, k, m) => InputExact(t[k].block.text, Fragments(t, k, m), lax)
    BY <1>6 DEF ToolInputsExact
  <2>2. 1..Len(s) \subseteq 1..Len(t) /\ Len(s) + 1 \in 1..Len(t)  BY <1>2
  <2>3. ToolInputsExact(s, lax)
    <3>1. ASSUME NEW k \in 1..Len(s), NEW m \in 1..Len(s), IsToolUnit(s, k, m)
          PROVE  InputExact(s[k].block.text, Fragments(s, k, m), lax)
      <4>1. InputExact(t[k].block.text, Fragments(t, k, m), lax)
        BY <1>3, <2>1, <2>2, <3>1
      <4>. QED BY <1>2, <1>3, <4>1
    <3>. QED BY <3>1 DEF ToolInputsExact
  <2>. QED BY <1>2, <2>1, <2>2, <2>3
<1>7. ASSUME ToolInputsExact(s, lax),
             \A k \in 1..Len(s) : IsToolUnit(t, k, Len(s) + 1) =>
               InputExact(s[k].block.text, Fragments(t, k, Len(s) + 1), lax),
             NEW k \in 1..Len(t), NEW m \in 1..Len(t), IsToolUnit(t, k, m)
      PROVE  InputExact(t[k].block.text, Fragments(t, k, m), lax)
  <2>1. k \in 1..Len(s) /\ t[k] = s[k]  BY <1>2, <1>4, <1>7
  <2>2. CASE m = Len(s) + 1  BY <1>7, <2>1, <2>2
  <2>3. CASE m \in 1..Len(s)
    <3>1. IsToolUnit(s, k, m) /\ Fragments(t, k, m) = Fragments(s, k, m)
      BY <1>3, <1>7, <2>1, <2>3
    <3>2. InputExact(s[k].block.text, Fragments(s, k, m), lax)
      BY <1>7, <2>1, <2>3, <3>1 DEF ToolInputsExact
    <3>. QED BY <2>1, <3>1, <3>2
  <2>. QED BY <1>5, <2>2, <2>3
<1>8. (/\ ToolInputsExact(s, lax)
       /\ \A k \in 1..Len(s) : IsToolUnit(t, k, Len(s) + 1) =>
            InputExact(s[k].block.text, Fragments(t, k, Len(s) + 1), lax))
      => ToolInputsExact(t, lax)
  BY <1>7 DEF ToolInputsExact
<1>. QED BY <1>1, <1>6, <1>8

-----------------------------------------------------------------------------
(* Batches of events *)

(* All a decoder promises of a stream that is not finished. *)
Kept(s) == WellFormed(s) /\ ToolBlocksWhole(s) /\ ToolInputsExact(s, FALSE)

(* A batch that is legal after any event that admits its first one. *)
LegalBatch(u) ==
  /\ u # <<>>
  /\ \A j \in 1..Len(u) : EventOK(u[j])
  /\ \A j \in 1..(Len(u) - 1) : Follows(u[j], u[j + 1])
  /\ ToolBlocksWhole(u)
  /\ ToolInputsExact(u, FALSE)

(* What is where in a stream that a batch was appended to. *)
LEMMA BatchFacts ==
  ASSUME NEW S, NEW s \in Seq(S), NEW u \in Seq(S)
  PROVE  /\ s \o u \in Seq(S)
         /\ Len(s) \in Nat /\ Len(u) \in Nat
         /\ Len(s \o u) = Len(s) + Len(u)
         /\ \A i \in 1..Len(s) : (s \o u)[i] = s[i]
         /\ \A j \in 1..Len(u) : (s \o u)[Len(s) + j] = u[j]
         /\ u # <<>> => /\ s \o u # <<>> /\ Last(s \o u) = Last(u)
                        /\ Len(u) \in 1..Len(u) /\ 1 \in 1..Len(u)
         /\ u = <<>> => s \o u = s
<1>1. PICK t : t = s \o u  OBVIOUS
<1>2. /\ t \in Seq(S) /\ Len(s) \in Nat /\ Len(u) \in Nat /\ Len(t) = Len(s) + Len(u)
      /\ \A i \in 1..Len(s) : t[i] = s[i]
      /\ \A j \in 1..Len(u) : t[Len(s) + j] = u[j]
  BY <1>1
<1>3. ASSUME u # <<>>
      PROVE  t # <<>> /\ Last(t) = Last(u) /\ Len(u) \in 1..Len(u) /\ 1 \in 1..Len(u)
  <2>1. Len(u) \in 1..Len(u) /\ 1 \in 1..Len(u) /\ Len(t) > 0  BY <1>2, <1>3
  <2>2. t # <<>>  BY <2>1
  <2>3. t[Len(t)] = u[Len(u)]  BY <1>2, <2>1
  <2>. QED BY <2>1, <2>2, <2>3 DEF Last
<1>4. u = <<>> => s \o u = s  OBVIOUS
<1>. QED BY <1>1, <1>2, <1>3, <1>4

(* A stream is a prefix of what it is continued by. *)
LEMMA BatchPrefix ==
  ASSUME NEW S, NEW s \in Seq(S), NEW u \in Seq(S)
  PROVE  IsPrefix(s, s \o u)
<1>1. Len(s) <= Len(s \o u) /\ SubSeq(s, 1, Len(s)) = SubSeq(s \o u, 1, Len(s))
  BY BatchFacts
<1>. QED BY <1>1 DEF IsPrefix

(* A unit inside the batch is the same unit of the longer stream. *)
LEMMA BatchUnits ==
  ASSUME NEW S, NEW s \in Seq(S), NEW u \in Seq(S), NEW j \in 1..Len(u), NEW n \in 1..Len(u)
  PROVE  /\ IsToolUnit(s \o u, Len(s) + j, Len(s) + n) <=> IsToolUnit(u, j, n)
         /\ Fragments(s \o u, Len(s) + j, Len(s) + n) = Fragments(u, j, n)
<1>1. PICK t, l : t = s \o u /\ l = Len(s)  OBVIOUS
<1>2. l \in Nat /\ \A i \in 1..Len(u) : t[l + i] = u[i]
  BY <1>1, BatchFacts, SMTT(60)
<1>3. IsToolUnit(t, l + j, l + n) <=> IsToolUnit(u, j, n)
  <2>1. (\A i \in (l + j + 1)..(l + n - 1) : IsDelta(t[i]))
          <=> (\A i \in (j + 1)..(n - 1) : IsDelta(u[i]))
    <3>1. ASSUME \A i \in (l + j + 1)..(l + n - 1) : IsDelta(t[i]), NEW i \in (j + 1)..(n - 1)
          PROVE  IsDelta(u[i])
      <4>1. l + i \in (l + j + 1)..(l + n - 1) /\ i \in 1..Len(u)  BY <1>2
      <4>. QED BY <1>2, <3>1, <4>1
    <3>2. ASSUME \A i \in (j + 1)..(n - 1) : IsDelta(u[i]), NEW i \in (l + j + 1)..(l + n - 1)
          PROVE  IsDelta(t[i])
      <4>1. PICK h : h = i - l  OBVIOUS
      <4>2. h \in (j + 1)..(n - 1) /\ h \in 1..Len(u) /\ i = l + h
        BY <1>2, <4>1
      <4>. QED BY <1>2, <3>2, <4>2
    <3>. QED BY <3>1, <3>2
  <2>2. l + j < l + n <=> j < n  BY <1>2
  <2>. QED BY <1>2, <2>1, <2>2 DEF IsToolUnit
<1>4. Fragments(t, l + j, l + n) = Fragments(u, j, n)
  <2>1. (l + n) - (l + j) - 1 = n - j - 1  BY <1>2
  <2>2. \A i \in 1..(n - j - 1) : t[(l + j) + i] = u[j + i]
    <3>1. \A i \in 1..(n - j - 1) : j + i \in 1..Len(u) /\ (l + j) + i = l + (j + i)
      BY <1>2
    <3>. QED BY <1>2, <3>1
  <2>. QED BY <2>1, <2>2 DEF Fragments
<1>. QED BY <1>1, <1>3, <1>4

(* A tool block that is whole does not reach into a later batch. *)
LEMMA WholeIsClosed ==
  ASSUME NEW S, NEW s \in Seq(S), NEW u \in Seq(S), ToolBlocksWhole(s),
         NEW k \in 1..Len(s), NEW m \in 1..Len(s \o u), IsToolUnit(s \o u, k, m)
  PROVE  /\ m \in 1..Len(s) /\ IsToolUnit(s, k, m)
         /\ Fragments(s \o u, k, m) = Fragments(s, k, m)
<1>1. PICK t : t = s \o u  OBVIOUS
<1>2. Len(s) \in Nat /\ \A i \in 1..Len(s) : t[i] = s[i]  BY <1>1, BatchFacts
<1>3. /\ k < m /\ IsStart(s[k]) /\ s[k].block.kind \in ToolKinds
      /\ \A n \in (k + 1)..(m - 1) : IsDelta(t[n])
      /\ IsStop(t[m])
  BY <1>1, <1>2 DEF IsToolUnit
<1>4. PICK h \in 1..Len(s) : IsToolUnit(s, k, h)  BY <1>3 DEF ToolBlocksWhole
<1>5. k < h /\ IsStop(s[h]) /\ t[h] = s[h]  BY <1>2, <1>4 DEF IsToolUnit
<1>6. ~(h < m)
  <2>1. h < m => h \in (k + 1)..(m - 1)  BY <1>1, <1>2, <1>5, BatchFacts
  <2>. QED BY <1>3, <1>5, <2>1 DEF IsDelta, IsStop
<1>7. m \in 1..Len(s)  BY <1>1, <1>2, <1>6, BatchFacts
<1>8. \A n \in (k + 1)..(m - 1) : t[n] = s[n]  BY <1>2, <1>7, SMTT(60)
<1>9. IsToolUnit(s, k, m)  BY <1>2, <1>3, <1>7, <1>8 DEF IsToolUnit
<1>10. Fragments(t, k, m) = Fragments(s, k, m)
  <2>1. PICK h1 : h1 = m - k - 1 /\ h1 \in Int  BY <1>7
  <2>2. \A n \in 1..h1 : k + n \in 1..Len(s)  BY <1>2, <1>7, <2>1
  <2>. QED BY <1>2, <2>1, <2>2 DEF Fragments
<1>. QED BY <1>1, <1>7, <1>9, <1>10

(* A legal batch whose first event is admitted continues a legal stream. *)
LEMMA KeptBatch ==
  ASSUME NEW S, NEW s \in Seq(S), NEW u \in Seq(S), Kept(s), LegalBatch(u), Admits(s, u[1])
  PROVE  Kept(s \o u)
<1>1. PICK t, l : t = s \o u /\ l = Len(s)  OBVIOUS
<1>2. /\ l \in Nat /\ Len(u) \in Nat /\ Len(t) = l + Len(u) /\ 1 \in 1..Len(u)
      /\ \A i \in 1..l : t[i] = s[i]
      /\ \A j \in 1..Len(u) : t[l + j] = u[j]
  BY <1>1, BatchFacts DEF LegalBatch
<1>3. ASSUME NEW i \in 1..Len(t)
      PROVE  i \in 1..l \/ \E j \in 1..Len(u) : i = l + j
  <2>1. i \notin 1..l => (i - l) \in 1..Len(u) /\ i = l + (i - l)  BY <1>2
  <2>. QED BY <2>1
<1>4. \A i \in 1..Len(t) : EventOK(t[i])
  <2>1. \A i \in 1..l : EventOK(t[i])  BY <1>1, <1>2 DEF Kept, WellFormed
  <2>2. \A j \in 1..Len(u) : EventOK(t[l + j])  BY <1>2 DEF LegalBatch
  <2>. QED BY <1>3, <2>1, <2>2
<1>5. InOrder(t)
  <2>1. t[1].type = "message_start"
    <3>1. CASE s = <<>>  BY <1>1, <1>2, <3>1 DEF Admits
    <3>2. CASE s # <<>>
      <4>1. 1 \in 1..l  BY <1>1, <3>2
      <4>. QED BY <1>2, <3>2, <4>1 DEF Kept, WellFormed, InOrder
    <3>. QED BY <3>1, <3>2
  <2>2. ASSUME NEW i \in 1..(Len(t) - 1)
        PROVE  Follows(t[i], t[i + 1])
    <3>1. CASE i \in 1..(l - 1)
      <4>1. i \in 1..l /\ i + 1 \in 1..l  BY <1>2, <3>1
      <4>2. Follows(s[i], s[i + 1])  BY <1>1, <3>1 DEF Kept, WellFormed, InOrder
      <4>. QED BY <1>2, <4>1, <4>2
    <3>2. CASE i = l
      <4>1. l \in 1..l /\ s # <<>>  BY <1>1, <1>2, <3>2
      <4>2. t[i] = Last(s) /\ t[i + 1] = u[1]
        BY <1>1, <1>2, <3>2, <4>1 DEF Last
      <4>. QED BY <4>1, <4>2 DEF Admits
    <3>3. CASE i > l
      <4>1. PICK j : j = i - l  OBVIOUS
      <4>2. j \in 1..(Len(u) - 1) /\ j \in 1..Len(u) /\ j + 1 \in 1..Len(u)
            /\ i = l + j /\ i + 1 = l + (j + 1)
        BY <1>2, <3>3, <4>1
      <4>3. t[i] = u[j] /\ t[i + 1] = u[j + 1]  BY <1>2, <4>2
      <4>. QED BY <4>2, <4>3 DEF LegalBatch
    <3>. QED BY <1>2, <3>1, <3>2, <3>3
  <2>. QED BY <2>1, <2>2 DEF InOrder
<1>6. ToolBlocksWhole(t)
  <2>1. ASSUME NEW k \in 1..Len(t), IsStart(t[k]) /\ t[k].block.kind \in ToolKinds
        PROVE  \E m \in 1..Len(t) : IsToolUnit(t, k, m)
    <3>1. CASE k \in 1..l
      <4>1. PICK m \in 1..l : IsToolUnit(s, k, m)
        BY <1>1, <1>2, <2>1, <3>1 DEF Kept, ToolBlocksWhole
      <4>2. \A n \in k..m : t[n] = s[n]  BY <1>2, <3>1
      <4>3. IsToolUnit(t, k, m)  BY <3>1, <4>1, <4>2 DEF IsToolUnit
      <4>4. m \in 1..Len(t)  BY <1>2
      <4>. QED BY <4>3, <4>4
    <3>2. ASSUME NEW j \in 1..Len(u), k = l + j
          PROVE  \E m \in 1..Len(t) : IsToolUnit(t, k, m)
      <4>1. PICK n \in 1..Len(u) : IsToolUnit(u, j, n)
        BY <1>2, <2>1, <3>2 DEF LegalBatch, ToolBlocksWhole
      <4>2. IsToolUnit(t, l + j, l + n)  BY <1>1, <4>1, BatchUnits
      <4>3. l + n \in 1..Len(t)  BY <1>2
      <4>. QED BY <3>2, <4>2, <4>3
    <3>. QED BY <1>3, <3>1, <3>2
  <2>. QED BY <2>1 DEF ToolBlocksWhole
<1>7. ToolInputsExact(t, FALSE)
  <2>1. ASSUME NEW k \in 1..Len(t), NEW m \in 1..Len(t), IsToolUnit(t, k, m)
        PROVE  InputExact(t[k].block.text, Fragments(t, k, m), FALSE)
    <3>1. CASE k \in 1..l
      <4>1. m \in 1..l /\ IsToolUnit(s, k, m) /\ Fragments(t, k, m) = Fragments(s, k, m)
        BY <1>1, <2>1, <3>1, WholeIsClosed DEF Kept
      <4>2. InputExact(s[k].block.text, Fragments(s, k, m), FALSE)
        BY <1>1, <3>1, <4>1 DEF Kept, ToolInputsExact
      <4>. QED BY <1>2, <3>1, <4>1, <4>2
    <3>2. ASSUME NEW j \in 1..Len(u), k = l + j
          PROVE  InputExact(t[k].block.text, Fragments(t, k, m), FALSE)
      <4>1. k < m  BY <2>1 DEF IsToolUnit
      <4>2. PICK n : n = m - l  OBVIOUS
      <4>3. n \in 1..Len(u) /\ m = l + n  BY <1>2, <3>2, <4>1, <4>2
      <4>4. IsToolUnit(u, j, n) /\ Fragments(t, k, m) = Fragments(u, j, n)
        BY <1>1, <2>1, <3>2, <4>3, BatchUnits
      <4>5. InputExact(u[j].block.text, Fragments(u, j, n), FALSE)
        BY <3>2, <4>3, <4>4 DEF LegalBatch, ToolInputsExact
      <4>. QED BY <1>2, <3>2, <4>4, <4>5
    <3>. QED BY <1>3, <3>1, <3>2
  <2>. QED BY <2>1 DEF ToolInputsExact
<1>. QED BY <1>1, <1>4, <1>5, <1>6, <1>7 DEF Kept, WellFormed

(* One event that starts no tool block is a legal batch. *)
LEMMA SingleBatch ==
  ASSUME NEW S, NEW e \in S, EventOK(e), IsStart(e) => e.block.kind \notin ToolKinds
  PROVE  LegalBatch(<<e>>)
<1>1. PICK u : u = <<e>>  OBVIOUS
<1>2. u # <<>> /\ Len(u) = 1 /\ u[1] = e  BY <1>1
<1>3. \A i \in 1..Len(u) : i = 1  BY <1>2
<1>4. ToolBlocksWhole(u)  BY <1>2, <1>3 DEF ToolBlocksWhole
<1>5. ToolInputsExact(u, FALSE)  BY <1>2, <1>3 DEF ToolInputsExact, IsToolUnit
<1>6. \A j \in 1..(Len(u) - 1) : FALSE  BY <1>2
<1>. QED BY <1>1, <1>2, <1>3, <1>4, <1>5, <1>6 DEF LegalBatch

(* A stream that goes on by one such event. *)
LEMMA KeptSingle ==
  ASSUME NEW S, NEW s \in Seq(S), NEW e \in S, Kept(s), Admits(s, e), EventOK(e),
         IsStart(e) => e.block.kind \notin ToolKinds
  PROVE  Kept(s \o <<e>>)
<1>1. PICK u : u = <<e>>  OBVIOUS
<1>2. u \in Seq(S) /\ u[1] = e  BY <1>1
<1>3. LegalBatch(u)  BY <1>1, SingleBatch
<1>. QED BY <1>1, <1>2, <1>3, KeptBatch

(* A whole tool block with its exact input is a legal batch. *)
LEMMA UnitBatch ==
  ASSUME NEW u, NEW n \in Nat, Len(u) = n, n > 1, u # <<>>,
         IsStart(u[1]), u[1].block.kind \in ToolKinds, EventOK(u[1]),
         \A j \in 2..(n - 1) : /\ IsDelta(u[j]) /\ u[j].index = u[1].index
                               /\ DeltaFamily(u[j].delta) = BlockFamily(u[1].block),
         IsStop(u[n]), u[n].index = u[1].index,
         InputExact(u[1].block.text, Fragments(u, 1, n), FALSE)
  PROVE  LegalBatch(u) /\ ~Terminated(u)
<1>1. BlockFamily(u[1].block) \in {"tool", "custom"}
  BY DEF BlockFamily, ToolKinds
<1>2. ASSUME NEW j \in 2..n
      PROVE  /\ Continues(u[j], u[1].index, BlockFamily(u[1].block))
             /\ ~IsStart(u[j]) /\ EventOK(u[j]) /\ u[j].type # "message_delta"
             /\ j = n \/ (IsDelta(u[j]) /\ ~IsStop(u[j]) /\ u[j].delta.type # "signature_delta")
  <2>1. CASE j = n  BY <2>1 DEF Continues, IsStop, IsStart, EventOK
  <2>2. CASE j # n
    <3>1. j \in 2..(n - 1)  BY <2>2
    <3>. QED BY <1>1, <3>1 DEF Continues, IsDelta, IsStart, IsStop, EventOK, DeltaFamily
  <2>. QED BY <2>1, <2>2
<1>3. ASSUME NEW j \in 1..n
      PROVE  EventOK(u[j])
  BY <1>2
<1>4. ASSUME NEW j \in 1..(n - 1)
      PROVE  Follows(u[j], u[j + 1])
  <2>1. j + 1 \in 2..n  OBVIOUS
  <2>2. Continues(u[j + 1], u[1].index, BlockFamily(u[1].block))  BY <1>2, <2>1
  <2>3. CASE j = 1  BY <2>2, <2>3, FollowsStart
  <2>4. CASE j # 1
    <3>1. j \in 2..(n - 1) /\ j \in 2..n /\ j # n  BY <2>4
    <3>2. /\ IsDelta(u[j]) /\ u[j].index = u[1].index
          /\ DeltaFamily(u[j].delta) = BlockFamily(u[1].block)
          /\ u[j].delta.type # "signature_delta"
      BY <1>2, <3>1
    <3>. QED BY <2>2, <3>2, FollowsDelta
  <2>. QED BY <2>3, <2>4
<1>5. 1 \in 1..n /\ n \in 1..n /\ IsToolUnit(u, 1, n)  BY DEF IsToolUnit
<1>6. \A k \in 1..n : IsStart(u[k]) => k = 1  BY <1>2
<1>7. ToolBlocksWhole(u)  BY <1>5, <1>6 DEF ToolBlocksWhole
<1>8. ASSUME NEW k \in 1..n, NEW m \in 1..n, IsToolUnit(u, k, m)
      PROVE  k = 1 /\ m = n
  <2>1. k = 1 /\ m \in 2..n /\ IsStop(u[m])  BY <1>6, <1>8 DEF IsToolUnit
  <2>. QED BY <1>2, <2>1
<1>9. ToolInputsExact(u, FALSE)  BY <1>8 DEF ToolInputsExact
<1>10. ~Terminated(u)
  <2>1. \A j \in 1..n : u[j].type # "message_delta"  BY <1>2 DEF IsStart
  <2>. QED BY <2>1 DEF Terminated
<1>. QED BY <1>3, <1>4, <1>7, <1>9, <1>10 DEF LegalBatch

(* The same, when the fragments of the unit are given. *)
LEMMA UnitOfParts ==
  ASSUME NEW parts \in Seq(Text), NEW n \in Nat, n = Len(parts),
         NEW u, Len(u) = n + 2, u # <<>>,
         IsStart(u[1]), u[1].block.kind \in ToolKinds, EventOK(u[1]),
         \A j \in 1..n : /\ IsDelta(u[j + 1]) /\ u[j + 1].index = u[1].index
                         /\ DeltaFamily(u[j + 1].delta) = BlockFamily(u[1].block)
                         /\ u[j + 1].delta.text = parts[j],
         IsStop(u[n + 2]), u[n + 2].index = u[1].index,
         InputExact(u[1].block.text, parts, FALSE)
  PROVE  LegalBatch(u) /\ ~Terminated(u)
<1>1. PICK m : m = n + 2  OBVIOUS
<1>2. m \in Nat /\ m > 1 /\ m - 1 - 1 = n  BY <1>1
<1>3. ASSUME NEW j \in 2..(m - 1)
      PROVE  /\ IsDelta(u[j]) /\ u[j].index = u[1].index
             /\ DeltaFamily(u[j].delta) = BlockFamily(u[1].block)
  <2>1. PICK h : h = j - 1  OBVIOUS
  <2>2. h \in 1..n /\ h + 1 = j  BY <1>1, <2>1
  <2>. QED BY <2>2
<1>4. Fragments(u, 1, m) = parts
  <2>1. Fragments(u, 1, m) = [j \in 1..n |-> u[1 + j].delta.text]
    BY <1>2 DEF Fragments
  <2>2. \A j \in 1..n : u[1 + j].delta.text = parts[j]
    <3>1. \A j \in 1..n : 1 + j = j + 1  OBVIOUS
    <3>. QED BY <3>1
  <2>3. parts = [j \in 1..n |-> parts[j]]  OBVIOUS
  <2>. QED BY <2>1, <2>2, <2>3
<1>. QED BY <1>1, <1>2, <1>3, <1>4, UnitBatch

(* What is where in a start, deltas and a stop put together. *)
LEMMA UnitShape ==
  ASSUME NEW S, NEW start \in S, NEW ds \in Seq(S), NEW stop \in S
  PROVE  /\ <<start>> \o ds \o <<stop>> \in Seq(S)
         /\ Len(ds) \in Nat
         /\ Len(<<start>> \o ds \o <<stop>>) = Len(ds) + 2
         /\ <<start>> \o ds \o <<stop>> # <<>>
         /\ (<<start>> \o ds \o <<stop>>)[1] = start
         /\ \A j \in 1..Len(ds) : (<<start>> \o ds \o <<stop>>)[j + 1] = ds[j]
         /\ (<<start>> \o ds \o <<stop>>)[Len(ds) + 2] = stop
         /\ Last(<<start>> \o ds \o <<stop>>) = stop
<1>1. PICK a, z : a = <<start>> /\ z = <<stop>>  OBVIOUS
<1>2. /\ a \in Seq(S) /\ Len(a) = 1 /\ a[1] = start
      /\ z \in Seq(S) /\ Len(z) = 1 /\ z[1] = stop /\ z # <<>>
  BY <1>1
<1>3. PICK h : h = a \o ds  OBVIOUS
<1>4. /\ h \in Seq(S) /\ Len(ds) \in Nat /\ Len(h) = Len(ds) + 1 /\ h[1] = start
      /\ \A j \in 1..Len(ds) : h[j + 1] = ds[j]
  <2>1. /\ h \in Seq(S) /\ Len(ds) \in Nat /\ Len(h) = 1 + Len(ds)
        /\ \A i \in 1..1 : h[i] = a[i]
        /\ \A j \in 1..Len(ds) : h[1 + j] = ds[j]
    <3>1. /\ a \o ds \in Seq(S) /\ Len(ds) \in Nat
          /\ Len(a \o ds) = Len(a) + Len(ds)
          /\ \A i \in 1..Len(a) : (a \o ds)[i] = a[i]
          /\ \A j \in 1..Len(ds) : (a \o ds)[Len(a) + j] = ds[j]
      BY <1>2, BatchFacts
    <3>. QED BY <1>2, <1>3, <3>1
  <2>2. \A j \in 1..Len(ds) : 1 + j = j + 1  OBVIOUS
  <2>. QED BY <1>2, <2>1, <2>2
<1>5. PICK u : u = h \o z  OBVIOUS
<1>6. /\ u \in Seq(S) /\ Len(u) = (Len(ds) + 1) + 1 /\ u # <<>> /\ Last(u) = Last(z)
      /\ \A i \in 1..Len(h) : u[i] = h[i]
      /\ \A j \in 1..Len(z) : u[Len(h) + j] = z[j]
  <2>1. /\ h \o z \in Seq(S) /\ Len(h \o z) = Len(h) + Len(z)
        /\ h \o z # <<>> /\ Last(h \o z) = Last(z)
        /\ \A i \in 1..Len(h) : (h \o z)[i] = h[i]
        /\ \A j \in 1..Len(z) : (h \o z)[Len(h) + j] = z[j]
    BY <1>2, <1>4, BatchFacts
  <2>. QED BY <1>2, <1>4, <1>5, <2>1
<1>7. u[1] = start  BY <1>4, <1>6
<1>8. \A j \in 1..Len(ds) : u[j + 1] = ds[j]  BY <1>4, <1>6
<1>9. u[Len(ds) + 2] = stop
  <2>1. Len(h) + 1 = Len(ds) + 2  BY <1>4
  <2>. QED BY <1>2, <1>6, <2>1
<1>10. Last(z) = stop  BY <1>2 DEF Last
<1>. QED BY <1>1, <1>3, <1>4, <1>5, <1>6, <1>7, <1>8, <1>9, <1>10

(* The events of a whole block, and deltas of one type. *)
BlockUnit(i, b, ds) ==
  <<BlockStart(i, b)>> \o [k \in 1..Len(ds) |-> BlockDelta(i, ds[k])] \o <<BlockStop(i)>>

DeltasOf(type, texts) == [k \in 1..Len(texts) |-> Delta(type, texts[k])]

(* A batch that starts and stops the block with index i. *)
WholeBatch(u, i) ==
  /\ LegalBatch(u) /\ ~Terminated(u)
  /\ u \in Seq(IrEvents) /\ u # <<>>
  /\ IsStart(u[1]) /\ u[1].index = i
  /\ IsStop(Last(u)) /\ Last(u).index = i

(* A tool block whose deltas spell its input. *)
LEMMA DeltasUnit ==
  ASSUME NEW i \in Nat, NEW b \in Blocks, b.kind \in ToolKinds, EventOK(BlockStart(i, b)),
         NEW texts \in Seq(Text), texts # <<>>, Concat(texts) = b.text,
         NEW ds \in Seq(Deltas), Len(ds) = Len(texts),
         \A k \in 1..Len(texts) : /\ ds[k].text = texts[k]
                                  /\ DeltaFamily(ds[k]) = BlockFamily(b)
  PROVE  WholeBatch(BlockUnit(i, b, ds), i)
<1>0. PICK u : u = BlockUnit(i, b, ds)  OBVIOUS
<1>1. PICK n : n = Len(texts) /\ n \in Nat  OBVIOUS
<1>2. PICK start, stop, es : /\ start = BlockStart(i, b) /\ stop = BlockStop(i)
                             /\ es = [k \in 1..n |-> BlockDelta(i, ds[k])]
  OBVIOUS
<1>3. start \in IrEvents /\ stop \in IrEvents /\ es \in Seq(IrEvents) /\ Len(es) = n
  <2>1. start \in IrEvents /\ stop \in IrEvents  BY <1>2, EventTypes
  <2>2. \A k \in 1..n : BlockDelta(i, ds[k]) \in IrEvents  BY <1>1, EventTypes
  <2>. QED BY <1>1, <1>2, <2>1, <2>2
<1>4. /\ IsStart(start) /\ start.index = i /\ start.block = b
      /\ IsStop(stop) /\ stop.index = i
  BY <1>2 DEF BlockStart, BlockStop, IsStart, IsStop
<1>5. \A k \in 1..n : IsDelta(es[k]) /\ es[k].index = i /\ es[k].delta = ds[k]
  <2>1. ASSUME NEW k \in 1..n
        PROVE  IsDelta(es[k]) /\ es[k].index = i /\ es[k].delta = ds[k]
    <3>1. es[k] = BlockDelta(i, ds[k])  BY <1>2
    <3>. QED BY <3>1 DEF BlockDelta, IsDelta
  <2>. QED BY <2>1
<1>6. u = <<start>> \o es \o <<stop>>  BY <1>0, <1>1, <1>2 DEF BlockUnit
<1>7. /\ u \in Seq(IrEvents) /\ Len(u) = n + 2 /\ u # <<>> /\ u[1] = start
      /\ \A j \in 1..n : u[j + 1] = es[j]
      /\ u[n + 2] = stop /\ Last(u) = stop
  <2>1. /\ <<start>> \o es \o <<stop>> \in Seq(IrEvents)
        /\ Len(<<start>> \o es \o <<stop>>) = Len(es) + 2
        /\ <<start>> \o es \o <<stop>> # <<>>
        /\ (<<start>> \o es \o <<stop>>)[1] = start
        /\ \A j \in 1..Len(es) : (<<start>> \o es \o <<stop>>)[j + 1] = es[j]
        /\ (<<start>> \o es \o <<stop>>)[Len(es) + 2] = stop
        /\ Last(<<start>> \o es \o <<stop>>) = stop
    BY <1>3, UnitShape
  <2>. QED BY <1>3, <1>6, <2>1
<1>8. \A j \in 1..n : /\ IsDelta(u[j + 1]) /\ u[j + 1].index = u[1].index
                      /\ DeltaFamily(u[j + 1].delta) = BlockFamily(u[1].block)
                      /\ u[j + 1].delta.text = texts[j]
  BY <1>1, <1>4, <1>5, <1>7, SMTT(60)
<1>9. InputExact(u[1].block.text, texts, FALSE)  BY <1>4, <1>7 DEF InputExact
<1>10. IsStart(u[1]) /\ u[1].block.kind \in ToolKinds /\ EventOK(u[1])
  BY <1>2, <1>4, <1>7
<1>11. IsStop(u[n + 2]) /\ u[n + 2].index = u[1].index  BY <1>4, <1>7
<1>12. LegalBatch(u) /\ ~Terminated(u)
  BY <1>1, <1>7, <1>8, <1>9, <1>10, <1>11, UnitOfParts
<1>. QED BY <1>0, <1>4, <1>7, <1>12 DEF WholeBatch

(* The same, when all deltas are of one type. *)
LEMMA TextsUnit ==
  ASSUME NEW i \in Nat, NEW b \in Blocks, b.kind \in ToolKinds, EventOK(BlockStart(i, b)),
         NEW texts \in Seq(Text), texts # <<>>, Concat(texts) = b.text,
         NEW type \in DeltaTypes,
         \A text \in Text : DeltaFamily(Delta(type, text)) = BlockFamily(b)
  PROVE  WholeBatch(BlockUnit(i, b, DeltasOf(type, texts)), i)
<1>1. PICK ds : ds = DeltasOf(type, texts)  OBVIOUS
<1>2. ASSUME NEW k \in 1..Len(texts)
      PROVE  /\ ds[k] \in Deltas /\ ds[k].text = texts[k]
             /\ DeltaFamily(ds[k]) = BlockFamily(b)
  <2>1. ds[k] = Delta(type, texts[k]) /\ texts[k] \in Text  BY <1>1 DEF DeltasOf
  <2>2. Delta(type, texts[k]) \in Deltas /\ Delta(type, texts[k]).text = texts[k]
    BY <2>1 DEF Delta, Deltas
  <2>. QED BY <2>1, <2>2
<1>3. ds \in Seq(Deltas) /\ Len(ds) = Len(texts)  BY <1>1, <1>2 DEF DeltasOf
<1>4. \A k \in 1..Len(texts) : /\ ds[k].text = texts[k]
                              /\ DeltaFamily(ds[k]) = BlockFamily(b)
  BY <1>2
<1>5. WholeBatch(BlockUnit(i, b, ds), i)  BY <1>3, <1>4, DeltasUnit
<1>. QED BY <1>1, <1>5

(* What the events of such a block are. *)
LEMMA UnitOfTexts ==
  ASSUME NEW i, NEW b, NEW texts \in Seq(Text), NEW type
  PROVE  BlockUnit(i, b, DeltasOf(type, texts))
           = <<BlockStart(i, b)>>
               \o [k \in 1..Len(texts) |-> BlockDelta(i, Delta(type, texts[k]))]
               \o <<BlockStop(i)>>
<1>1. PICK ds : ds = DeltasOf(type, texts)  OBVIOUS
<1>2. Len(ds) = Len(texts) /\ \A k \in 1..Len(texts) : ds[k] = Delta(type, texts[k])
  BY <1>1 DEF DeltasOf
<1>3. [k \in 1..Len(ds) |-> BlockDelta(i, ds[k])]
        = [k \in 1..Len(texts) |-> BlockDelta(i, Delta(type, texts[k]))]
  BY <1>2
<1>. QED BY <1>1, <1>3 DEF BlockUnit

(* A tool block with a single delta. *)
LEMMA UnitOfText ==
  ASSUME NEW i, NEW b, NEW text \in Text, NEW type
  PROVE  BlockUnit(i, b, DeltasOf(type, <<text>>))
           = <<BlockStart(i, b), BlockDelta(i, Delta(type, text)), BlockStop(i)>>
<1>1. PICK ds, d : ds = DeltasOf(type, <<text>>) /\ d = Delta(type, text)
  OBVIOUS
<1>2. Len(ds) = 1 /\ ds[1] = d  BY <1>1 DEF DeltasOf
<1>3. PICK x, y, z : x = BlockStart(i, b) /\ y = BlockDelta(i, d) /\ z = BlockStop(i)
  OBVIOUS
<1>4. [k \in 1..Len(ds) |-> BlockDelta(i, ds[k])] = [k \in 1..1 |-> y]
  BY <1>2, <1>3
<1>5. [k \in 1..1 |-> y] = <<y>>  OBVIOUS
<1>6. <<x>> \o <<y>> \o <<z>> = <<x, y, z>>
  <2>1. PICK S : S = {x, y, z}  OBVIOUS
  <2>2. PICK m, t : m = <<y>> /\ t = <<x, y, z>>  OBVIOUS
  <2>3. /\ x \in S /\ z \in S /\ m \in Seq(S) /\ Len(m) = 1 /\ m[1] = y
        /\ t \in Seq(S) /\ Len(t) = 3 /\ t[1] = x /\ t[2] = y /\ t[3] = z
    BY <2>1, <2>2
  <2>4. /\ <<x>> \o m \o <<z>> \in Seq(S)
        /\ Len(<<x>> \o m \o <<z>>) = Len(m) + 2
        /\ (<<x>> \o m \o <<z>>)[1] = x
        /\ \A j \in 1..Len(m) : (<<x>> \o m \o <<z>>)[j + 1] = m[j]
        /\ (<<x>> \o m \o <<z>>)[Len(m) + 2] = z
    <3>1. x \in S /\ z \in S /\ m \in Seq(S)  BY <2>3
    <3>. QED BY <3>1, UnitShape
  <2>5. PICK u : u = <<x>> \o m \o <<z>>  OBVIOUS
  <2>6. u \in Seq(S) /\ Len(u) = 3 /\ u[1] = x /\ u[2] = y /\ u[3] = z
    <3>1. 1 \in 1..Len(m) /\ 1 + 1 = 2 /\ Len(m) + 2 = 3  BY <2>3
    <3>. QED BY <2>3, <2>4, <2>5, <3>1
  <2>7. u = t
    <3>1. \A j \in 1..3 : j = 1 \/ j = 2 \/ j = 3  OBVIOUS
    <3>. QED BY <2>3, <2>6, <3>1
  <2>. QED BY <2>2, <2>5, <2>7
<1>7. BlockUnit(i, b, ds) = <<x>> \o <<y>> \o <<z>>
  BY <1>3, <1>4, <1>5 DEF BlockUnit
<1>. QED BY <1>1, <1>3, <1>6, <1>7

(* A unit is made of events. *)
LEMMA UnitType ==
  ASSUME NEW i \in Nat, NEW b \in Blocks, NEW ds \in Seq(Deltas)
  PROVE  BlockUnit(i, b, ds) \in Seq(IrEvents)
<1>1. PICK n, start, stop, es : /\ n = Len(ds)
                                /\ start = BlockStart(i, b) /\ stop = BlockStop(i)
                                /\ es = [k \in 1..n |-> BlockDelta(i, ds[k])]
  OBVIOUS
<1>2. start \in IrEvents /\ stop \in IrEvents  BY <1>1, EventTypes
<1>3. es \in Seq(IrEvents)
  <2>1. \A k \in 1..n : BlockDelta(i, ds[k]) \in IrEvents  BY <1>1, EventTypes
  <2>2. n \in Nat  BY <1>1
  <2>. QED BY <1>1, <2>1, <2>2
<1>4. <<start>> \o es \o <<stop>> \in Seq(IrEvents)  BY <1>2, <1>3, UnitShape
<1>. QED BY <1>1, <1>4 DEF BlockUnit

(* A block that its start carries whole. *)
LEMMA AtomicUnit ==
  ASSUME NEW i \in Nat, NEW b \in Blocks, b.kind \in AtomicKinds, EventOK(BlockStart(i, b))
  PROVE  WholeBatch(BlockUnit(i, b, <<>>), i)
<1>1. PICK u, start, stop, none : /\ u = BlockUnit(i, b, <<>>) /\ none = <<>>
                                  /\ start = BlockStart(i, b) /\ stop = BlockStop(i)
  OBVIOUS
<1>2. start \in IrEvents /\ stop \in IrEvents /\ none \in Seq(IrEvents)
  BY <1>1, EventTypes
<1>3. u = <<start>> \o none \o <<stop>>
  <2>1. [k \in 1..Len(none) |-> BlockDelta(i, none[k])] = none  BY <1>1
  <2>. QED BY <1>1, <2>1 DEF BlockUnit
<1>4. /\ u \in Seq(IrEvents) /\ Len(u) = 2 /\ u # <<>>
      /\ u[1] = start /\ u[2] = stop /\ Last(u) = stop
  <2>1. /\ <<start>> \o none \o <<stop>> \in Seq(IrEvents)
        /\ Len(<<start>> \o none \o <<stop>>) = Len(none) + 2
        /\ <<start>> \o none \o <<stop>> # <<>>
        /\ (<<start>> \o none \o <<stop>>)[1] = start
        /\ (<<start>> \o none \o <<stop>>)[Len(none) + 2] = stop
        /\ Last(<<start>> \o none \o <<stop>>) = stop
    BY <1>2, UnitShape
  <2>2. Len(none) + 2 = 2  BY <1>1
  <2>. QED BY <1>3, <2>1, <2>2
<1>5. /\ IsStart(start) /\ start.index = i /\ start.block = b
      /\ IsStop(stop) /\ stop.index = i
      /\ ~IsStart(stop) /\ ~IsDelta(stop)
      /\ start.type # "message_delta" /\ stop.type # "message_delta"
  BY <1>1 DEF BlockStart, BlockStop, IsStart, IsStop, IsDelta
<1>6. b.kind \notin ToolKinds /\ BlockFamily(b) = "atomic"
  BY DEF AtomicKinds, ApplyPatchKinds, ToolKinds, BlockFamily
<1>7. \A j \in 1..2 : EventOK(u[j])
  <2>1. EventOK(start)  BY <1>1
  <2>2. EventOK(stop)  BY <1>5 DEF EventOK
  <2>3. \A j \in 1..2 : j = 1 \/ j = 2  OBVIOUS
  <2>. QED BY <1>4, <2>1, <2>2, <2>3
<1>8. \A j \in 1..(2 - 1) : Follows(u[j], u[j + 1])
  <2>1. Follows(start, stop)  BY <1>5, FollowsStart DEF Continues
  <2>2. \A j \in 1..(2 - 1) : j = 1 /\ j + 1 = 2  OBVIOUS
  <2>. QED BY <1>4, <2>1, <2>2
<1>9. \A j \in 1..2 : ~(IsStart(u[j]) /\ u[j].block.kind \in ToolKinds)
  <2>1. \A j \in 1..2 : j = 1 \/ j = 2  OBVIOUS
  <2>. QED BY <1>4, <1>5, <1>6, <2>1
<1>10. ToolBlocksWhole(u) /\ ToolInputsExact(u, FALSE)
  BY <1>4, <1>9 DEF ToolBlocksWhole, ToolInputsExact, IsToolUnit
<1>11. LegalBatch(u)  BY <1>4, <1>7, <1>8, <1>10 DEF LegalBatch
<1>12. ~Terminated(u)
  <2>1. \A j \in 1..2 : j = 1 \/ j = 2  OBVIOUS
  <2>. QED BY <1>4, <1>5, <2>1 DEF Terminated
<1>. QED BY <1>1, <1>4, <1>5, <1>11, <1>12 DEF WholeBatch

(* Deltas of one type. *)
LEMMA DeltasType ==
  ASSUME NEW type \in DeltaTypes, NEW texts \in Seq(Text)
  PROVE  DeltasOf(type, texts) \in Seq(Deltas)
<1>1. ASSUME NEW k \in 1..Len(texts)
      PROVE  Delta(type, texts[k]) \in Deltas
  BY DEF Delta, Deltas
<1>. QED BY <1>1 DEF DeltasOf

(* A stream is terminated once one of its batches brings the message_delta. *)
LEMMA TerminatedBatch ==
  ASSUME NEW S, NEW s \in Seq(S), NEW u \in Seq(S)
  PROVE  Terminated(s \o u) <=> Terminated(s) \/ Terminated(u)
<1>1. PICK t, l : t = s \o u /\ l = Len(s)  OBVIOUS
<1>2. /\ l \in Nat /\ Len(u) \in Nat /\ Len(t) = l + Len(u)
      /\ \A i \in 1..l : t[i] = s[i]
      /\ \A j \in 1..Len(u) : t[l + j] = u[j]
  BY <1>1, BatchFacts
<1>3. ASSUME Terminated(t)
      PROVE  Terminated(s) \/ Terminated(u)
  <2>1. PICK i \in 1..Len(t) : t[i].type = "message_delta"
    BY <1>3 DEF Terminated
  <2>2. CASE i \in 1..l  BY <1>1, <1>2, <2>1, <2>2 DEF Terminated
  <2>3. CASE i \notin 1..l
    <3>1. PICK j : j = i - l  OBVIOUS
    <3>2. j \in 1..Len(u) /\ i = l + j  BY <1>2, <2>3, <3>1
    <3>. QED BY <1>2, <2>1, <3>2 DEF Terminated
  <2>. QED BY <2>2, <2>3
<1>4. Terminated(s) => Terminated(t)
  <2>1. \A i \in 1..l : i \in 1..Len(t)  BY <1>2
  <2>. QED BY <1>1, <1>2, <2>1 DEF Terminated
<1>5. Terminated(u) => Terminated(t)
  <2>1. \A j \in 1..Len(u) : l + j \in 1..Len(t)  BY <1>2
  <2>. QED BY <1>2, <2>1 DEF Terminated
<1>. QED BY <1>1, <1>3, <1>4, <1>5

(* The terminal pair is a legal batch, and completes what it follows. *)
LEMMA TerminalBatch ==
  ASSUME NEW S, NEW x \in S, NEW y \in S, x.type = "message_delta", y.type = "message_done",
         x.stop_sequence # <<>> => x.stop_reason = "stop_sequence",
         NEW s \in Seq(S), Kept(s), Admits(s, x)
  PROVE  Promise(s \o <<x, y>>) /\ Terminated(s \o <<x, y>>)
<1>1. PICK u : u = <<x, y>>  OBVIOUS
<1>2. u \in Seq(S) /\ u # <<>> /\ Len(u) = 2 /\ u[1] = x /\ u[2] = y  BY <1>1
<1>3. \A j \in 1..2 : ~IsStart(u[j]) /\ EventOK(u[j])
  <2>1. /\ ~IsStart(x) /\ EventOK(x)
        /\ ~IsStart(y) /\ EventOK(y)
    BY DEF IsStart, EventOK
  <2>. QED BY <1>2, <2>1
<1>4. \A j \in 1..(2 - 1) : Follows(u[j], u[j + 1])  BY <1>2 DEF Follows
<1>5. ToolBlocksWhole(u) /\ ToolInputsExact(u, FALSE)
  BY <1>2, <1>3 DEF ToolBlocksWhole, ToolInputsExact, IsToolUnit
<1>6. LegalBatch(u)  BY <1>2, <1>3, <1>4, <1>5 DEF LegalBatch
<1>7. Kept(s \o u)  BY <1>2, <1>6, KeptBatch
<1>8. s \o u # <<>> /\ Last(s \o u) = y
  <2>1. s \o u # <<>> /\ Last(s \o u) = Last(u)  BY <1>2, BatchFacts
  <2>. QED BY <1>2, <2>1 DEF Last
<1>9. Complete(s \o u)  BY <1>7, <1>8 DEF Complete, Kept, Last
<1>10. Terminated(u)  BY <1>2 DEF Terminated
<1>. QED BY <1>1, <1>2, <1>7, <1>9, <1>10, TerminatedBatch DEF Promise, Kept

-----------------------------------------------------------------------------
(* Where a stream stands *)

(* No block is open and the next one has index n. *)
AtBoundary(s, n) ==
  /\ s # <<>>
  /\ \/ Last(s).type = "message_start" /\ n = 0
     \/ IsStop(Last(s)) /\ n = Last(s).index + 1

(* The block with index i and deltas of this family is open; its signature
   may have come if `signed`. *)
InsideBlock(s, i, family, signed) ==
  /\ s # <<>>
  /\ \/ IsStart(Last(s)) /\ Last(s).index = i /\ BlockFamily(Last(s).block) = family
     \/ /\ IsDelta(Last(s)) /\ Last(s).index = i /\ DeltaFamily(Last(s).delta) = family
        /\ Last(s).delta.type = "signature_delta" => signed

(* Between blocks, the next block or the end of the message may come. *)
LEMMA BoundaryAdmits ==
  ASSUME NEW s, NEW n, AtBoundary(s, n), NEW e, OpensAt(e, n)
  PROVE  Admits(s, e)
BY DEF AtBoundary, Admits, Follows, IsStart, IsDelta, IsStop

(* In a block, its stop may come and, before a signature, its deltas. *)
LEMMA InsideAdmits ==
  ASSUME NEW s, NEW i, NEW family, NEW signed \in BOOLEAN, InsideBlock(s, i, family, signed),
         NEW e, Continues(e, i, family), IsStop(e) \/ ~signed
  PROVE  Admits(s, e)
BY FollowsStart, FollowsDelta DEF InsideBlock, Admits

(* Where a stream stands after a batch that ends with this event. *)
LEMMA AfterBatch ==
  ASSUME NEW S, NEW s \in Seq(S), NEW u \in Seq(S), u # <<>>
  PROVE  /\ Last(u).type = "message_start" => AtBoundary(s \o u, 0)
         /\ IsStop(Last(u)) => AtBoundary(s \o u, Last(u).index + 1)
         /\ IsStart(Last(u)) =>
              InsideBlock(s \o u, Last(u).index, BlockFamily(Last(u).block), FALSE)
         /\ IsDelta(Last(u)) =>
              InsideBlock(s \o u, Last(u).index, DeltaFamily(Last(u).delta),
                          Last(u).delta.type = "signature_delta")
<1>1. s \o u # <<>> /\ Last(s \o u) = Last(u)  BY BatchFacts
<1>. QED BY <1>1 DEF AtBoundary, InsideBlock

(* The same for a single event. *)
LEMMA AfterSingle ==
  ASSUME NEW S, NEW s \in Seq(S), NEW e \in S
  PROVE  /\ e.type = "message_start" => AtBoundary(s \o <<e>>, 0)
         /\ IsStop(e) => AtBoundary(s \o <<e>>, e.index + 1)
         /\ IsStart(e) => InsideBlock(s \o <<e>>, e.index, BlockFamily(e.block), FALSE)
         /\ IsDelta(e) =>
              InsideBlock(s \o <<e>>, e.index, DeltaFamily(e.delta),
                          e.delta.type = "signature_delta")
<1>1. PICK u : u = <<e>>  OBVIOUS
<1>2. u \in Seq(S) /\ u # <<>> /\ Last(u) = e  BY <1>1 DEF Last
<1>. QED BY <1>1, <1>2, AfterBatch

(* The last block that was started takes deltas of this family. *)
HeldFamily(s, family) ==
  \E k \in 1..Len(s) :
    /\ IsStart(s[k]) /\ BlockFamily(s[k].block) = family
    /\ \A j \in (k + 1)..Len(s) : ~IsStart(s[j])

(* It is the one that the search for the last start finds. *)
LEMMA LastStart ==
  ASSUME NEW S, NEW s \in Seq(S), NEW family, HeldFamily(s, family)
  PROVE  /\ SelectLastInSeq(s, IsStart) # 0
         /\ BlockFamily(s[SelectLastInSeq(s, IsStart)].block) = family
<1>1. PICK k \in 1..Len(s) : /\ IsStart(s[k]) /\ BlockFamily(s[k].block) = family
                             /\ \A j \in (k + 1)..Len(s) : ~IsStart(s[j])
  BY DEF HeldFamily
<1>2. PICK I : I = {i \in 1..Len(s) : IsStart(s[i])}  OBVIOUS
<1>3. k \in I /\ \A i \in I : i \in Nat /\ k >= i
  <2>1. ASSUME NEW i \in I
        PROVE  i \in Nat /\ k >= i
    <3>1. i \in 1..Len(s) /\ IsStart(s[i])  BY <1>2
    <3>2. i \notin (k + 1)..Len(s)  BY <1>1, <3>1
    <3>. QED BY <3>1, <3>2
  <2>. QED BY <1>1, <1>2, <2>1
<1>4. Max(I) \in I /\ \A i \in I : Max(I) >= i  BY <1>3, Zenon DEF Max
<1>5. Max(I) = k
  <2>1. Max(I) >= k /\ k >= Max(I) /\ Max(I) \in Nat /\ k \in Nat  BY <1>3, <1>4
  <2>. QED BY <2>1
<1>6. SelectLastInSeq(s, IsStart) = Max(I)
  BY <1>2, <1>3, Zenon DEF SelectLastInSeq
<1>. QED BY <1>1, <1>5, <1>6

(* A start holds its family, a delta that of the start before it. *)
LEMMA HeldAfter ==
  ASSUME NEW S, NEW s \in Seq(S), NEW e \in S
  PROVE  /\ IsStart(e) => HeldFamily(s \o <<e>>, BlockFamily(e.block))
         /\ \A family : ~IsStart(e) /\ HeldFamily(s, family) => HeldFamily(s \o <<e>>, family)
<1>1. PICK u : u = <<e>>  OBVIOUS
<1>2. PICK t, l : t = s \o u /\ l = Len(s)  OBVIOUS
<1>3. /\ l \in Nat /\ Len(t) = l + 1 /\ \A i \in 1..l : t[i] = s[i]
      /\ t[l + 1] = e
  <2>0. u \in Seq(S)  BY <1>1
  <2>1. Len(u) = 1 /\ u[1] = e  BY <1>1
  <2>2. /\ Len(s) \in Nat /\ Len(s \o u) = Len(s) + Len(u)
        /\ \A i \in 1..Len(s) : (s \o u)[i] = s[i]
        /\ \A j \in 1..Len(u) : (s \o u)[Len(s) + j] = u[j]
    BY <2>0, BatchFacts
  <2>. QED BY <1>2, <2>1, <2>2
<1>4. ASSUME IsStart(e)
      PROVE  HeldFamily(t, BlockFamily(e.block))
  <2>1. l + 1 \in 1..Len(t) /\ \A j \in (l + 1 + 1)..Len(t) : FALSE  BY <1>3
  <2>. QED BY <1>3, <1>4, <2>1 DEF HeldFamily
<1>5. ASSUME NEW family, ~IsStart(e), HeldFamily(s, family)
      PROVE  HeldFamily(t, family)
  <2>1. PICK k \in 1..l : /\ IsStart(s[k]) /\ BlockFamily(s[k].block) = family
                          /\ \A j \in (k + 1)..l : ~IsStart(s[j])
    BY <1>2, <1>5 DEF HeldFamily
  <2>2. k \in 1..Len(t) /\ t[k] = s[k]  BY <1>3
  <2>3. ASSUME NEW j \in (k + 1)..Len(t)
        PROVE  ~IsStart(t[j])
    <3>1. j \in 1..l \/ j = l + 1  BY <1>3
    <3>. QED BY <1>3, <1>5, <2>1, <3>1
  <2>. QED BY <2>1, <2>2, <2>3 DEF HeldFamily
<1>. QED BY <1>1, <1>2, <1>4, <1>5

(* What an event of each type carries. *)
LEMMA EventForms ==
  ASSUME NEW e \in IrEvents
  PROVE  /\ IsStart(e) => e.index \in Nat /\ e.block \in Blocks
         /\ IsDelta(e) => e.index \in Nat /\ e.delta \in Deltas
         /\ IsStop(e) => e.index \in Nat
         /\ e.type = "message_delta" =>
              e.stop_reason \in StopReasons /\ e.stop_sequence \in Text /\ e.usage \in Usages
         /\ \/ IsStart(e) \/ IsDelta(e) \/ IsStop(e)
            \/ e.type \in {"message_start", "message_delta", "message_done"}
BY DEF IrEvents, IsStart, IsDelta, IsStop

-----------------------------------------------------------------------------
(* What an encoder has to remember *)

(* An encoder reads the stream event by event.  Its view of what it read:
   where it stands, the index the next block has to carry, and the index,
   the family and the contents of the block that is open. *)
Views ==
  [place : {"fresh", "between", "within", "ended", "done"}, next : Nat, index : Int,
   family : {"text", "thinking", "tool", "custom", "atomic"}, signed : BOOLEAN,
   tool : BOOLEAN, input : Text, fragments : Seq(Text)]

(* The block with index i is open; whether its signature came is known. *)
WithinBlock(s, i, family, signed) ==
  /\ s # <<>> /\ Last(s).index = i
  /\ \/ IsStart(Last(s)) /\ BlockFamily(Last(s).block) = family /\ ~signed
     \/ /\ IsDelta(Last(s)) /\ DeltaFamily(Last(s).delta) = family
        /\ (Last(s).delta.type = "signature_delta" <=> signed)

(* The block that started at k is open. *)
OpenFrom(s, k) == IsStart(s[k]) /\ \A n \in (k + 1)..Len(s) : IsDelta(s[n])

ToolOpen(s, input, fragments) ==
  \E k \in 1..Len(s) :
    /\ OpenFrom(s, k)
    /\ s[k].block.kind \in ToolKinds /\ s[k].block.text = input
    /\ Fragments(s, k, Len(s) + 1) = fragments

OtherOpen(s) == \E k \in 1..Len(s) : OpenFrom(s, k) /\ s[k].block.kind \notin ToolKinds

(* The view v is what has to be known of the stream s. *)
Tracks(s, v) ==
  /\ ToolInputsExact(s, TRUE)
  /\ v.place = "fresh" => s = <<>> /\ v.next = 0
  /\ v.place = "between" => AtBoundary(s, v.next)
  /\ v.place = "within" =>
       /\ WithinBlock(s, v.index, v.family, v.signed) /\ v.next = v.index + 1
       /\ v.tool => ToolOpen(s, v.input, v.fragments)
       /\ ~v.tool => OtherOpen(s)
  /\ v.place = "ended" => s # <<>> /\ Last(s).type = "message_delta"
  /\ v.place = "done" => s # <<>> /\ Last(s).type = "message_done"

(* The events that the grammar admits in this view ... *)
Allowed(v, e) ==
  \/ v.place = "fresh" /\ e.type = "message_start"
  \/ v.place = "between" /\ OpensAt(e, v.next)
  \/ /\ v.place = "within" /\ Continues(e, v.index, v.family)
     /\ v.signed => IsStop(e)
  \/ v.place = "ended" /\ e.type = "message_done"

(* ... and the views they lead to. *)
Moves(v, e, w) ==
  \/ e.type = "message_start" /\ w.place = "between" /\ w.next = 0
  \/ /\ IsStart(e) /\ w.place = "within"
     /\ w.index = e.index /\ w.next = e.index + 1
     /\ w.family = BlockFamily(e.block) /\ ~w.signed
     /\ w.tool <=> e.block.kind \in ToolKinds
     /\ w.tool => w.input = e.block.text /\ w.fragments = <<>>
  \/ /\ IsDelta(e) /\ v.place = "within" /\ w.place = "within"
     /\ w.index = v.index /\ w.next = v.next /\ w.family = v.family
     /\ w.signed <=> e.delta.type = "signature_delta"
     /\ w.tool = v.tool
     /\ w.tool => w.input = v.input /\ w.fragments = Append(v.fragments, e.delta.text)
  \/ /\ IsStop(e) /\ v.place = "within" /\ w.place = "between" /\ w.next = v.next
     /\ v.tool => InputExact(v.input, v.fragments, TRUE)
  \/ e.type = "message_delta" /\ w.place = "ended"
  \/ e.type = "message_done" /\ w.place = "done"

(* In a block, exactly the events that continue it may come. *)
LEMMA WithinAdmits ==
  ASSUME NEW s, NEW i, NEW family, NEW signed \in BOOLEAN, WithinBlock(s, i, family, signed),
         NEW e
  PROVE  Admits(s, e) <=> Continues(e, i, family) /\ (signed => IsStop(e))
<1>1. PICK l : l = Last(s)  OBVIOUS
<1>2. CASE IsStart(l)
  <2>1. BlockFamily(l.block) = family /\ ~signed /\ l.index = i
    BY <1>1, <1>2 DEF WithinBlock, IsStart, IsDelta
  <2>2. Follows(l, e) <=> Continues(e, l.index, BlockFamily(l.block))
    BY <1>2 DEF Follows, IsStart, IsDelta, IsStop
  <2>. QED BY <1>1, <2>1, <2>2 DEF Admits, WithinBlock
<1>3. CASE IsDelta(l)
  <2>1. /\ DeltaFamily(l.delta) = family /\ l.index = i
        /\ l.delta.type = "signature_delta" <=> signed
    BY <1>1, <1>3 DEF WithinBlock, IsStart, IsDelta
  <2>2. Follows(l, e) <=> /\ Continues(e, l.index, DeltaFamily(l.delta))
                          /\ l.delta.type = "signature_delta" => IsStop(e)
    BY <1>3 DEF Follows, IsStart, IsDelta, IsStop
  <2>. QED BY <1>1, <2>1, <2>2 DEF Admits, WithinBlock
<1>. QED BY <1>1, <1>2, <1>3 DEF WithinBlock

(* What the grammar admits can be told from the view. *)
LEMMA TrackedAdmits ==
  ASSUME NEW s, NEW v \in Views, Tracks(s, v), NEW e
  PROVE  Admits(s, e) <=> Allowed(v, e)
<1>1. CASE v.place = "fresh"  BY <1>1 DEF Tracks, Admits, Allowed
<1>2. CASE v.place = "between"
  <2>1. AtBoundary(s, v.next)  BY <1>2 DEF Tracks
  <2>2. Admits(s, e) <=> OpensAt(e, v.next)
    BY <2>1 DEF AtBoundary, Admits, Follows, IsStart, IsDelta, IsStop
  <2>. QED BY <1>2, <2>2 DEF Allowed
<1>3. CASE v.place = "within"
  <2>1. v.signed \in BOOLEAN /\ WithinBlock(s, v.index, v.family, v.signed)
    BY <1>3 DEF Tracks, Views
  <2>. QED BY <1>3, <2>1, WithinAdmits DEF Allowed
<1>4. CASE v.place = "ended"
  BY <1>4 DEF Tracks, Admits, Allowed, Follows, IsStart, IsDelta, IsStop
<1>5. CASE v.place = "done"
  BY <1>5 DEF Tracks, Admits, Allowed, Follows, IsStart, IsDelta, IsStop
<1>. QED BY <1>1, <1>2, <1>3, <1>4, <1>5 DEF Views

(* An event other than a stop finishes no tool block. *)
LEMMA NoStopNoUnit ==
  ASSUME NEW S, NEW s \in Seq(S), NEW e \in S, NEW lax \in BOOLEAN, ~IsStop(e),
         ToolInputsExact(s, lax)
  PROVE  ToolInputsExact(Append(s, e), lax)
<1>1. Append(s, e)[Len(s) + 1] = e  BY AppendFacts
<1>2. \A k \in 1..Len(s) : ~IsToolUnit(Append(s, e), k, Len(s) + 1)
  BY <1>1 DEF IsToolUnit
<1>. QED BY <1>2, InputsAppend

(* The open block is the only one that a stop can finish. *)
LEMMA OpenIsUnit ==
  ASSUME NEW S, NEW s \in Seq(S), NEW e \in S, IsStop(e), NEW k \in 1..Len(s), OpenFrom(s, k),
         NEW i \in 1..Len(s)
  PROVE  IsToolUnit(Append(s, e), i, Len(s) + 1) <=> i = k /\ s[k].block.kind \in ToolKinds
<1>1. PICK t, l : t = Append(s, e) /\ l = Len(s)  OBVIOUS
<1>2. l \in Nat /\ t[l + 1] = e /\ \A n \in 1..l : t[n] = s[n]
  BY <1>1, AppendFacts
<1>3. i \in Nat /\ k \in Nat /\ i \in 1..l /\ k \in 1..l  BY <1>1, <1>2
<1>4. \A n \in (k + 1)..l : IsDelta(t[n]) /\ ~IsStart(t[n])
  BY <1>1, <1>2, <1>3 DEF OpenFrom, IsStart, IsDelta
<1>5. IsStart(t[k]) /\ ~IsDelta(t[k]) /\ t[k] = s[k]
  BY <1>1, <1>2, <1>3 DEF OpenFrom, IsStart, IsDelta
<1>6. ASSUME IsToolUnit(t, i, l + 1)
      PROVE  i = k /\ s[k].block.kind \in ToolKinds
  <2>1. /\ IsStart(t[i]) /\ t[i].block.kind \in ToolKinds
        /\ \A n \in (i + 1)..l : IsDelta(t[n])
    BY <1>2, <1>3, <1>6 DEF IsToolUnit
  <2>2. ~(i < k) /\ ~(k < i)  BY <1>2, <1>3, <1>4, <1>5, <2>1
  <2>. QED BY <1>3, <1>5, <2>1, <2>2
<1>7. ASSUME i = k, s[k].block.kind \in ToolKinds
      PROVE  IsToolUnit(t, i, l + 1)
  <2>1. \A n \in (k + 1)..((l + 1) - 1) : IsDelta(t[n])  BY <1>2, <1>3, <1>4
  <2>. QED BY <1>2, <1>3, <1>5, <1>7, <2>1 DEF IsToolUnit
<1>. QED BY <1>1, <1>6, <1>7

(* The texts of the deltas of an open block are texts. *)
LEMMA OpenTexts ==
  ASSUME NEW s \in Seq(IrEvents), NEW k \in 1..Len(s), OpenFrom(s, k)
  PROVE  \A n \in (k + 1)..Len(s) : s[n].delta.text \in Text
<1>1. ASSUME NEW n \in (k + 1)..Len(s)
      PROVE  s[n].delta.text \in Text
  <2>1. s[n] \in IrEvents /\ IsDelta(s[n])  BY DEF OpenFrom
  <2>. QED BY <2>1, EventForms DEF Deltas
<1>. QED BY <1>1

(* A stop of a tool block leaves the tool inputs exact if and only if the
   block's own fragments spell its input. *)
LEMMA ToolStops ==
  ASSUME NEW s \in Seq(IrEvents), NEW e \in IrEvents, IsStop(e), NEW lax \in BOOLEAN,
         ToolInputsExact(s, lax), NEW input, NEW fragments, ToolOpen(s, input, fragments)
  PROVE  ToolInputsExact(Append(s, e), lax) <=> InputExact(input, fragments, lax)
<1>1. PICK k \in 1..Len(s) : /\ OpenFrom(s, k) /\ s[k].block.kind \in ToolKinds
                             /\ s[k].block.text = input
                             /\ Fragments(s, k, Len(s) + 1) = fragments
  BY DEF ToolOpen
<1>2. Fragments(Append(s, e), k, Len(s) + 1) = fragments
  BY <1>1, OpenTexts, FragmentsAppend
<1>3. \A i \in 1..Len(s) : IsToolUnit(Append(s, e), i, Len(s) + 1) <=> i = k
  BY <1>1, OpenIsUnit
<1>4. ToolInputsExact(Append(s, e), lax) <=>
        \A i \in 1..Len(s) : IsToolUnit(Append(s, e), i, Len(s) + 1) =>
          InputExact(s[i].block.text, Fragments(Append(s, e), i, Len(s) + 1), lax)
  BY InputsAppend
<1>. QED BY <1>1, <1>2, <1>3, <1>4

(* The stop of any other block finishes no tool block. *)
LEMMA OtherStops ==
  ASSUME NEW s \in Seq(IrEvents), NEW e \in IrEvents, IsStop(e), NEW lax \in BOOLEAN,
         ToolInputsExact(s, lax), OtherOpen(s)
  PROVE  ToolInputsExact(Append(s, e), lax)
<1>1. PICK k \in 1..Len(s) : OpenFrom(s, k) /\ s[k].block.kind \notin ToolKinds
  BY DEF OtherOpen
<1>2. \A i \in 1..Len(s) : ~IsToolUnit(Append(s, e), i, Len(s) + 1)
  BY <1>1, OpenIsUnit
<1>. QED BY <1>2, InputsAppend

(* A start opens its block, without fragments. *)
LEMMA StartOpens ==
  ASSUME NEW s \in Seq(IrEvents), NEW e \in IrEvents, IsStart(e)
  PROVE  /\ e.block.kind \in ToolKinds => ToolOpen(Append(s, e), e.block.text, <<>>)
         /\ e.block.kind \notin ToolKinds => OtherOpen(Append(s, e))
<1>1. PICK t, k : t = Append(s, e) /\ k = Len(s) + 1  OBVIOUS
<1>2. k \in Nat /\ Len(t) = k /\ t[k] = e /\ k \in 1..Len(t)
  BY <1>1, AppendFacts
<1>3. OpenFrom(t, k)  BY <1>2 DEF OpenFrom
<1>4. Fragments(t, k, Len(t) + 1) = <<>>  BY <1>2 DEF Fragments
<1>. QED BY <1>1, <1>2, <1>3, <1>4 DEF ToolOpen, OtherOpen

(* A delta leaves the block open and adds its text to the fragments. *)
LEMMA DeltaGrows ==
  ASSUME NEW s \in Seq(IrEvents), NEW e \in IrEvents, IsDelta(e)
  PROVE  /\ \A input, fragments : ToolOpen(s, input, fragments) =>
              ToolOpen(Append(s, e), input, Append(fragments, e.delta.text))
         /\ OtherOpen(s) => OtherOpen(Append(s, e))
<1>1. PICK t, l : t = Append(s, e) /\ l = Len(s)  OBVIOUS
<1>2. /\ l \in Nat /\ Len(t) = l + 1 /\ t[l + 1] = e
      /\ \A n \in 1..l : t[n] = s[n]
  BY <1>1, AppendFacts
<1>3. ASSUME NEW k \in 1..Len(s), OpenFrom(s, k)
      PROVE  /\ k \in 1..Len(t) /\ OpenFrom(t, k) /\ t[k] = s[k]
             /\ Fragments(t, k, Len(t) + 1) = Append(Fragments(s, k, Len(s) + 1), e.delta.text)
  <2>1. k \in 1..l /\ k \in Nat  BY <1>1, <1>2
  <2>2. k \in 1..Len(t) /\ t[k] = s[k] /\ IsStart(t[k])
    BY <1>2, <1>3, <2>1 DEF OpenFrom
  <2>3. ASSUME NEW n \in (k + 1)..Len(t)
        PROVE  IsDelta(t[n])
    <3>1. (n \in 1..l /\ n \in (k + 1)..l) \/ n = l + 1  BY <1>2, <2>1
    <3>. QED BY <3>1, <1>1, <1>2, <1>3 DEF OpenFrom
  <2>4. e.delta.text \in Text  BY EventForms DEF Deltas
  <2>5. Fragments(Append(s, e), k, Len(s) + 2) = Append(Fragments(s, k, Len(s) + 1), e.delta.text)
    BY <1>3, <2>4, OpenTexts, FragmentsAppend
  <2>6. Len(t) + 1 = Len(s) + 2  BY <1>1, <1>2
  <2>. QED BY <1>1, <2>2, <2>3, <2>5, <2>6 DEF OpenFrom
<1>4. ASSUME NEW input, NEW fragments, ToolOpen(s, input, fragments)
      PROVE  ToolOpen(Append(s, e), input, Append(fragments, e.delta.text))
  <2>1. PICK k \in 1..Len(s) : /\ OpenFrom(s, k) /\ s[k].block.kind \in ToolKinds
                               /\ s[k].block.text = input
                               /\ Fragments(s, k, Len(s) + 1) = fragments
    BY <1>4 DEF ToolOpen
  <2>2. /\ k \in 1..Len(t) /\ OpenFrom(t, k) /\ t[k] = s[k]
        /\ Fragments(t, k, Len(t) + 1) = Append(fragments, e.delta.text)
    BY <1>3, <2>1
  <2>. QED BY <1>1, <2>1, <2>2 DEF ToolOpen
<1>5. ASSUME OtherOpen(s)
      PROVE  OtherOpen(Append(s, e))
  BY <1>1, <1>3, <1>5 DEF OtherOpen
<1>. QED BY <1>4, <1>5

(* A view that moves with the events goes on tracking the stream. *)
LEMMA TrackedMoves ==
  ASSUME NEW s \in Seq(IrEvents), NEW e \in IrEvents, NEW v \in Views, NEW w \in Views,
         Tracks(s, v), Allowed(v, e), Moves(v, e, w)
  PROVE  Tracks(Append(s, e), w)
<1>1. PICK t : t = Append(s, e)  OBVIOUS
<1>2. t # <<>> /\ Last(t) = e /\ ToolInputsExact(s, TRUE)
  BY <1>1, AppendFacts, ZenonT(60) DEF Tracks
<1>3. ~IsStop(e) => ToolInputsExact(t, TRUE)  BY <1>1, <1>2, NoStopNoUnit
<1>4. CASE e.type = "message_start"
  <2>1. w.place = "between" /\ w.next = 0 /\ ~IsStop(e)
    BY <1>4 DEF Moves, IsStart, IsDelta, IsStop
  <2>2. AtBoundary(t, w.next)  BY <1>2, <1>4, <2>1 DEF AtBoundary
  <2>. QED BY <1>1, <1>3, <2>1, <2>2 DEF Tracks
<1>5. CASE IsStart(e)
  <2>1. /\ w.place = "within" /\ w.index = e.index /\ w.next = e.index + 1
        /\ w.family = BlockFamily(e.block) /\ ~w.signed /\ ~IsStop(e)
        /\ w.tool <=> e.block.kind \in ToolKinds
        /\ w.tool => w.input = e.block.text /\ w.fragments = <<>>
    BY <1>5 DEF Moves, IsStart, IsDelta, IsStop
  <2>2. WithinBlock(t, w.index, w.family, w.signed)
    BY <1>2, <1>5, <2>1 DEF WithinBlock
  <2>3. (w.tool => ToolOpen(t, w.input, w.fragments)) /\ (~w.tool => OtherOpen(t))
    BY <1>1, <1>5, <2>1, StartOpens
  <2>. QED BY <1>1, <1>3, <2>1, <2>2, <2>3 DEF Tracks
<1>6. CASE IsDelta(e)
  <2>1. /\ v.place = "within" /\ w.place = "within" /\ ~IsStop(e)
        /\ w.index = v.index /\ w.next = v.next /\ w.family = v.family
        /\ w.signed <=> e.delta.type = "signature_delta"
        /\ w.tool = v.tool
        /\ w.tool => w.input = v.input /\ w.fragments = Append(v.fragments, e.delta.text)
    BY <1>6 DEF Moves, IsStart, IsDelta, IsStop
  <2>2. e.index = v.index /\ DeltaFamily(e.delta) = v.family
    BY <1>6, <2>1 DEF Allowed, Continues, IsDelta, IsStop
  <2>3. WithinBlock(t, w.index, w.family, w.signed)
    BY <1>2, <1>6, <2>1, <2>2 DEF WithinBlock
  <2>4. /\ v.next = v.index + 1
        /\ v.tool => ToolOpen(s, v.input, v.fragments)
        /\ ~v.tool => OtherOpen(s)
    BY <2>1 DEF Tracks
  <2>5. (w.tool => ToolOpen(t, w.input, w.fragments)) /\ (~w.tool => OtherOpen(t))
    BY <1>1, <1>6, <2>1, <2>4, DeltaGrows
  <2>. QED BY <1>1, <1>3, <2>1, <2>3, <2>4, <2>5 DEF Tracks
<1>7. CASE IsStop(e)
  <2>1. /\ v.place = "within" /\ w.place = "between" /\ w.next = v.next
        /\ v.tool => InputExact(v.input, v.fragments, TRUE)
    BY <1>7 DEF Moves, IsStart, IsDelta, IsStop
  <2>2. e.index = v.index  BY <1>7, <2>1 DEF Allowed, Continues, IsDelta, IsStop
  <2>3. /\ v.next = v.index + 1
        /\ v.tool => ToolOpen(s, v.input, v.fragments)
        /\ ~v.tool => OtherOpen(s)
    BY <2>1 DEF Tracks
  <2>4. AtBoundary(t, w.next)  BY <1>2, <1>7, <2>1, <2>2, <2>3 DEF AtBoundary
  <2>5. CASE v.tool
    BY <1>1, <1>2, <1>7, <2>1, <2>3, <2>4, <2>5, ToolStops DEF Tracks
  <2>6. CASE ~v.tool
    BY <1>1, <1>2, <1>7, <2>1, <2>3, <2>4, <2>6, OtherStops DEF Tracks
  <2>. QED BY <2>5, <2>6
<1>8. CASE e.type = "message_delta"
  <2>1. w.place = "ended" /\ ~IsStop(e)
    BY <1>8 DEF Moves, IsStart, IsDelta, IsStop
  <2>. QED BY <1>1, <1>2, <1>3, <1>8, <2>1 DEF Tracks
<1>9. CASE e.type = "message_done"
  <2>1. w.place = "done" /\ ~IsStop(e)
    BY <1>9 DEF Moves, IsStart, IsDelta, IsStop
  <2>. QED BY <1>1, <1>2, <1>3, <1>9, <2>1 DEF Tracks
<1>. QED BY <1>4, <1>5, <1>6, <1>7, <1>8, <1>9 DEF Moves

(* Before the first event nothing is known. *)
LEMMA TrackedInit ==
  ASSUME NEW v, v.place = "fresh", v.next = 0
  PROVE  Tracks(<<>>, v)
BY DEF Tracks, ToolInputsExact
=============================================================================
