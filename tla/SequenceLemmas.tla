---------------------------- MODULE SequenceLemmas ----------------------------
(***************************************************************************)
(* Facts about sequences, and about the pieces that FlattenSeq puts        *)
(* together: the bytes of what a runtime or a sender writes are such pieces*)
(* one after the other.                                                    *)
(***************************************************************************)
EXTENDS Integers, SequencesExt, WellFoundedInduction, TLAPS

-----------------------------------------------------------------------------
(* Induction on the numbers that are in a set.                             *)
LEMMA SetInduction ==
  ASSUME NEW T, 0 \in T, \A n \in Nat : n \in T => n + 1 \in T
  PROVE  Nat \subseteq T
<1> DEFINE R == {ss \in Nat \X Nat : ss[1] < ss[2]}
           U == Nat \ T
<1>1. IsWellFoundedOn(R, Nat) BY NatLessThanWellFounded DEF OpToRel
<1>2. ASSUME U # {} PROVE FALSE
  <2>1. PICK x \in U : \A y \in U : ~ (<<y, x>> \in R)
    <3> HIDE DEF R
    <3> QED BY <1>1, <1>2, WFMin
  <2>2. x # 0 /\ x \in Nat OBVIOUS
  <2>3. x - 1 \in Nat /\ x - 1 + 1 = x BY <2>2
  <2>4. x - 1 \notin T BY <2>1, <2>3
  <2>5. <<x - 1, x>> \in R BY <2>2, <2>3
  <2> QED BY <2>1, <2>3, <2>4, <2>5
<1> QED BY <1>2

(* What FlattenSeq has put together after each of its parts.               *)
Parts(ss, f) ==
  /\ DOMAIN f = 0..Len(ss) /\ f[0] = <<>>
  /\ \A i \in 1..Len(ss) : f[i] = f[i - 1] \o ss[i]

LEMMA ConcatType ==
  ASSUME NEW S, NEW a \in Seq(S), NEW b \in Seq(S)
  PROVE  /\ a \o b \in Seq(S) /\ Len(a \o b) = Len(a) + Len(b)
         /\ \A i \in 1..(Len(a) + Len(b)) :
              (a \o b)[i] = IF i <= Len(a) THEN a[i] ELSE b[i - Len(a)]
OBVIOUS

LEMMA ConcatEmpty ==
  ASSUME NEW S, NEW a \in Seq(S)
  PROVE  a \o <<>> = a /\ <<>> \o a = a
OBVIOUS

LEMMA ConcatAssoc ==
  ASSUME NEW S, NEW a \in Seq(S), NEW b \in Seq(S), NEW c \in Seq(S)
  PROVE  (a \o b) \o c = a \o (b \o c)
OBVIOUS

(* Four pieces, put together one after the other or from the first on.     *)
Chained(S, a, b, c, d) ==
  a \o b \o c \o d = a \o (b \o (c \o d)) /\ b \o (c \o d) \in Seq(S)

LEMMA ConcatFour ==
  ASSUME NEW S, NEW a \in Seq(S), NEW b \in Seq(S), NEW c \in Seq(S), NEW d \in Seq(S)
  PROVE  Chained(S, a, b, c, d)
<1> DEFINE ab == a \o b  cd == c \o d
<1>1. ab \in Seq(S) /\ cd \in Seq(S) BY ConcatType
<1> HIDE DEF ab, cd
<1>2. (ab \o c) \o d = ab \o (c \o d) BY <1>1, ConcatAssoc
<1>3. ASSUME NEW e \in Seq(S) PROVE (a \o b) \o e = a \o (b \o e) OBVIOUS
<1>4. b \o cd \in Seq(S) BY <1>1, ConcatType
<1>5. (a \o b) \o cd = a \o (b \o cd) BY <1>1, <1>3
<1> QED BY ONLY <1>2, <1>4, <1>5 DEF ab, cd, Chained

LEMMA ConcatHead ==
  ASSUME NEW S, NEW x \in S, NEW a \in Seq(S)
  PROVE  /\ <<x>> \o a # <<>> /\ Head(<<x>> \o a) = x /\ Tail(<<x>> \o a) = a
         /\ <<x>> \o a \in Seq(S)
OBVIOUS

LEMMA ElementType ==
  ASSUME NEW S, NEW s \in Seq(S), NEW i \in 1..Len(s)
  PROVE  s[i] \in S
OBVIOUS

LEMMA EqualSeqs ==
  ASSUME NEW S, NEW a \in Seq(S), NEW b \in Seq(S), Len(a) = Len(b),
         \A i \in 1..Len(a) : a[i] = b[i]
  PROVE  a = b
OBVIOUS

LEMMA PartsExist ==
  ASSUME NEW S, NEW ss \in Seq(Seq(S))
  PROVE  \E f \in [0..Len(ss) -> Seq(S)] : Parts(ss, f)
<1> DEFINE Upto(n, f) == f[0] = <<>> /\ \A i \in 1..n : f[i] = f[i - 1] \o ss[i]
           Good(n) == \E f \in [0..n -> Seq(S)] : Upto(n, f)
           T == {n \in Nat : n <= Len(ss) => Good(n)}
<1>1. Good(0)
  <2> DEFINE h == [i \in 0..0 |-> <<>>]
  <2>1. h \in [0..0 -> Seq(S)] /\ h[0] = <<>> OBVIOUS
  <2>2. \A i \in 1..0 : h[i] = h[i - 1] \o ss[i] OBVIOUS
  <2> HIDE DEF h
  <2> QED BY <2>1, <2>2
<1>2. ASSUME NEW n \in Nat, n + 1 <= Len(ss), Good(n) PROVE Good(n + 1)
  <2>1. PICK f \in [0..n -> Seq(S)] : Upto(n, f) BY <1>2
  <2> DEFINE h == [i \in 0..(n + 1) |-> IF i = n + 1 THEN f[n] \o ss[n + 1] ELSE f[i]]
  <2>2. ss[n + 1] \in Seq(S) /\ f[n] \in Seq(S) BY <1>2
  <2>3. h \in [0..(n + 1) -> Seq(S)] BY <2>2, ConcatType
  <2>4. h[0] = <<>> BY <2>1
  <2>5. ASSUME NEW i \in 1..(n + 1) PROVE h[i] = h[i - 1] \o ss[i]
    <3>1. i - 1 \in 0..n /\ i - 1 # n + 1 OBVIOUS
    <3>2. h[i - 1] = f[i - 1] BY <3>1
    <3>3. CASE i = n + 1
      <4>1. h[i] = f[n] \o ss[n + 1] BY <3>3
      <4>2. i - 1 = n BY <3>3
      <4> HIDE DEF h
      <4> QED BY <3>2, <3>3, <4>1, <4>2
    <3>4. CASE i # n + 1
      <4>1. i \in 1..n /\ h[i] = f[i] BY <3>4
      <4>2. f[i] = f[i - 1] \o ss[i] BY <2>1, <4>1
      <4> HIDE DEF h
      <4> QED BY <3>2, <4>1, <4>2
    <3> QED BY <3>3, <3>4
  <2> HIDE DEF h
  <2> QED BY <2>3, <2>4, <2>5
<1>3. Len(ss) \in T
  <2> HIDE DEF Good
  <2>1. 0 \in T BY <1>1
  <2>2. ASSUME NEW n \in Nat, n \in T PROVE n + 1 \in T
    <3>1. n + 1 <= Len(ss) => n <= Len(ss) OBVIOUS
    <3> QED BY <1>2, <2>2, <3>1
  <2> HIDE DEF T
  <2> QED BY <2>1, <2>2, SetInduction
<1>4. Good(Len(ss))
  <2> HIDE DEF Good
  <2> QED BY <1>3
<1> QED BY <1>4 DEF Parts

LEMMA PartsUnique ==
  ASSUME NEW S, NEW ss \in Seq(Seq(S)), NEW f, NEW h, Parts(ss, f), Parts(ss, h)
  PROVE  f[Len(ss)] = h[Len(ss)]
<1> DEFINE T == {n \in Nat : n <= Len(ss) => f[n] = h[n]}
<1>1. 0 \in T BY DEF Parts
<1>2. ASSUME NEW n \in Nat, n \in T PROVE n + 1 \in T
  <2>1. ASSUME n + 1 <= Len(ss) PROVE f[n + 1] = h[n + 1]
    <3> DEFINE i == n + 1
    <3>1. i \in 1..Len(ss) /\ i - 1 = n /\ n <= Len(ss) BY <2>1
    <3>2. f[n] = h[n] BY <1>2, <3>1
    <3> HIDE DEF i
    <3>3. f[i] = h[i] BY <3>1, <3>2 DEF Parts
    <3> QED BY <3>3 DEF i
  <2> QED BY <2>1
<1>3. Len(ss) \in T
  <2> HIDE DEF T
  <2> QED BY <1>1, <1>2, SetInduction
<1> QED BY <1>3

LEMMA FlatParts ==
  ASSUME NEW S, NEW ss \in Seq(Seq(S)), NEW f \in [0..Len(ss) -> Seq(S)], Parts(ss, f)
  PROVE  FlattenSeq(ss) = f[Len(ss)]
<1>1. CASE Len(ss) = 0 BY <1>1 DEF FlattenSeq, Parts
<1>2. CASE Len(ss) # 0
  <2> DEFINE n == Len(ss)
             D(h) == [i \in 1..n |-> IF i = 1 THEN ss[i] ELSE h[i - 1] \o ss[i]]
             fl == CHOOSE h : h = D(h)
  <2>1. FlattenSeq(ss) = fl[n] BY <1>2 DEF FlattenSeq
  <2> DEFINE w == [i \in 1..n |-> f[i]]
  <2>2. w = D(w)
    <3>1. ASSUME NEW i \in 1..n PROVE w[i] = D(w)[i]
      <4>1. f[i] = f[i - 1] \o ss[i] BY DEF Parts
      <4>2. CASE i = 1
        <5>1. f[i - 1] = <<>> /\ ss[i] \in Seq(S) BY <4>2 DEF Parts
        <5>2. f[i] = ss[i] BY <4>1, <5>1, ConcatEmpty
        <5> QED BY <4>2, <5>2
      <4>3. CASE i # 1
        <5>1. i - 1 \in 1..n BY <4>3
        <5> QED BY <4>1, <4>3, <5>1
      <4> QED BY <4>2, <4>3
    <3> QED BY <3>1
  <2>3. fl = D(fl)
    <3> HIDE DEF D, w
    <3> QED BY <2>2
  <2> DEFINE k == [i \in 0..n |-> IF i = 0 THEN <<>> ELSE fl[i]]
  <2>4. Parts(ss, k)
    <3>1. ASSUME NEW i \in 1..n PROVE k[i] = k[i - 1] \o ss[i]
      <4> HIDE DEF fl
      <4>1. fl[i] = D(fl)[i]
        <5> HIDE DEF D
        <5> QED BY <2>3
      <4>2. CASE i = 1
        <5>1. ss[i] \in Seq(S) /\ fl[i] = ss[i] BY <4>1, <4>2
        <5>2. <<>> \o ss[i] = ss[i] BY <5>1, ConcatEmpty
        <5>3. k[i] = fl[i] /\ k[i - 1] = <<>> BY <4>2
        <5> HIDE DEF k, D
        <5> QED BY <5>1, <5>2, <5>3
      <4>3. CASE i # 1
        <5>1. fl[i] = fl[i - 1] \o ss[i] BY <4>1, <4>3
        <5>2. k[i] = fl[i] /\ k[i - 1] = fl[i - 1] BY <4>3
        <5> HIDE DEF k, D
        <5> QED BY <5>1, <5>2
      <4> QED BY <4>2, <4>3
    <3>2. DOMAIN k = 0..n /\ k[0] = <<>> OBVIOUS
    <3> HIDE DEF k
    <3> QED BY <3>1, <3>2 DEF Parts
  <2>5. k[n] = f[n]
    <3> HIDE DEF k
    <3> QED BY <2>4, PartsUnique
  <2> HIDE DEF fl
  <2> QED BY <1>2, <2>1, <2>5
<1> QED BY <1>1, <1>2

LEMMA FlatType ==
  ASSUME NEW S, NEW ss \in Seq(Seq(S))
  PROVE  FlattenSeq(ss) \in Seq(S)
<1>1. PICK f \in [0..Len(ss) -> Seq(S)] : Parts(ss, f) BY PartsExist
<1>2. f[Len(ss)] \in Seq(S) OBVIOUS
<1> QED BY <1>1, <1>2, FlatParts

LEMMA FlatEmpty == FlattenSeq(<<>>) = <<>>
BY DEF FlattenSeq

LEMMA FlatOne ==
  ASSUME NEW S, NEW a \in Seq(S)
  PROVE  FlattenSeq(<<a>>) = a
<1> DEFINE f == [i \in 0..1 |-> IF i = 0 THEN <<>> ELSE a]
<1>1. <<a>> \in Seq(Seq(S)) /\ Len(<<a>>) = 1 /\ <<a>>[1] = a OBVIOUS
<1>2. f \in [0..1 -> Seq(S)] /\ f[0] = <<>> /\ f[1] = a OBVIOUS
<1>3. f[1] = f[0] \o a
  <2> HIDE DEF f
  <2> QED BY <1>2, ConcatEmpty
<1>4. Parts(<<a>>, f)
  <2> HIDE DEF f
  <2>1. \A i \in 1..1 : f[i] = f[i - 1] \o <<a>>[i] BY <1>1, <1>3
  <2> QED BY <1>1, <1>2, <2>1 DEF Parts
<1> HIDE DEF f
<1> QED BY <1>1, <1>2, <1>4, FlatParts

LEMMA FlatConcat ==
  ASSUME NEW S, NEW a \in Seq(Seq(S)), NEW b \in Seq(Seq(S))
  PROVE  FlattenSeq(a \o b) = FlattenSeq(a) \o FlattenSeq(b)
<1>1. PICK p \in [0..Len(a) -> Seq(S)] : Parts(a, p) BY PartsExist
<1>2. PICK q \in [0..Len(b) -> Seq(S)] : Parts(b, q) BY PartsExist
<1>3. FlattenSeq(a) = p[Len(a)] /\ FlattenSeq(b) = q[Len(b)]
  BY <1>1, <1>2, FlatParts
<1> DEFINE m == Len(a)  n == Len(b)  u == p[m]
           f == [i \in 0..(m + n) |-> IF i <= m THEN p[i] ELSE u \o q[i - m]]
<1>4. u \in Seq(S) /\ m \in Nat /\ n \in Nat OBVIOUS
<1>5. /\ a \o b \in Seq(Seq(S)) /\ Len(a \o b) = m + n
      /\ \A i \in 1..(m + n) : (a \o b)[i] = IF i <= m THEN a[i] ELSE b[i - m]
  OBVIOUS
<1>6. f \in [0..(m + n) -> Seq(S)]
  <2>1. ASSUME NEW i \in 0..(m + n) PROVE f[i] \in Seq(S)
    <3>1. CASE i <= m
      <4>1. f[i] = p[i] /\ i \in 0..m BY <1>4, <3>1
      <4> HIDE DEF f
      <4> QED BY <4>1
    <3>2. CASE ~ (i <= m)
      <4>1. i - m \in 0..n BY <1>4, <3>2
      <4>2. q[i - m] \in Seq(S) BY <4>1
      <4> QED BY <1>4, <3>2, <4>2, ConcatType
    <3> QED BY <3>1, <3>2
  <2> QED BY <2>1
<1>7. ASSUME NEW i \in 1..(m + n) PROVE f[i] = f[i - 1] \o (a \o b)[i]
  <2>1. i - 1 \in 0..(m + n) BY <1>4
  <2>2. CASE i <= m
    <3>1. i \in 0..(m + n) /\ i - 1 <= m /\ i \in 1..m BY <1>4, <2>2
    <3>2. f[i] = p[i] /\ f[i - 1] = p[i - 1] BY <2>1, <2>2, <3>1
    <3>3. (a \o b)[i] = a[i] BY <1>5, <2>2
    <3>4. p[i] = p[i - 1] \o a[i] BY <1>1, <3>1 DEF Parts
    <3> HIDE DEF f
    <3> QED BY <3>2, <3>3, <3>4
  <2>3. CASE ~ (i <= m)
    <3> DEFINE k == i - m
    <3>1. k \in 1..n /\ k - 1 \in 0..n BY <1>4, <2>3
    <3>2. f[i] = u \o q[k] /\ (a \o b)[i] = b[k]
      <4>1. i \in 0..(m + n) BY <1>4
      <4>2. f[i] = u \o q[k] BY <2>3, <4>1
      <4> HIDE DEF f
      <4> QED BY <1>5, <2>3, <4>2
    <3>3. f[i - 1] = u \o q[k - 1]
      <4>1. CASE i - 1 <= m
        <5>1. i - 1 = m /\ k - 1 = 0 BY <1>4, <2>3, <4>1
        <5>2. f[i - 1] = u BY <1>4, <5>1
        <5>3. q[k - 1] = <<>> BY <1>2, <5>1 DEF Parts
        <5> HIDE DEF f, u
        <5> QED BY <1>4, <5>2, <5>3, ConcatEmpty
      <4>2. CASE ~ (i - 1 <= m)
        <5>1. f[i - 1] = u \o q[i - 1 - m] BY <2>1, <4>2
        <5>2. i - 1 - m = k - 1 BY <1>4
        <5> HIDE DEF f, u, k
        <5> QED BY <5>1, <5>2
      <4> QED BY <4>1, <4>2
    <3> HIDE DEF k
    <3>4. q[k] = q[k - 1] \o b[k] BY <1>2, <3>1 DEF Parts
    <3>5. q[k - 1] \in Seq(S) /\ b[k] \in Seq(S)
      <4>1. b[k] \in Seq(S) BY <3>1, ElementType
      <4>2. q[k - 1] \in Seq(S) BY <3>1
      <4> QED BY <4>1, <4>2
    <3>6. u \o (q[k - 1] \o b[k]) = (u \o q[k - 1]) \o b[k]
      <4> DEFINE v == q[k - 1]  w == b[k]
      <4>1. u \in Seq(S) /\ v \in Seq(S) /\ w \in Seq(S) BY <1>4, <3>5
      <4> HIDE DEF u, v, w
      <4>2. u \o (v \o w) = (u \o v) \o w BY <4>1
      <4> QED BY <4>2 DEF v, w
    <3> HIDE DEF f, u
    <3> QED BY <3>2, <3>3, <3>4, <3>6
  <2> QED BY <2>2, <2>3
<1>8. f[0] = <<>> BY <1>1, <1>4 DEF Parts
<1>9. Parts(a \o b, f)
  <2>1. DOMAIN f = 0..(m + n) OBVIOUS
  <2> HIDE DEF f, m, n
  <2> QED BY <1>5, <1>7, <1>8, <2>1 DEF Parts
<1>10. FlattenSeq(a \o b) = f[m + n]
  <2> HIDE DEF f, m, n
  <2> QED BY <1>5, <1>6, <1>9, FlatParts
<1>11. f[m + n] = u \o q[n]
  <2>1. CASE n = 0
    <3>1. m + n = m /\ f[m] = u BY <1>4, <2>1
    <3>2. q[n] = <<>> BY <1>2, <2>1 DEF Parts
    <3> HIDE DEF f, u, m, n
    <3> QED BY <1>4, <3>1, <3>2, ConcatEmpty
  <2>2. CASE n # 0
    <3>1. ~ (m + n <= m) /\ m + n \in 0..(m + n) /\ (m + n) - m = n BY <1>4, <2>2
    <3> HIDE DEF m, n, u
    <3> QED BY <3>1
  <2> QED BY <2>1, <2>2
<1> QED BY <1>3, <1>10, <1>11

LEMMA FlatHead ==
  ASSUME NEW S, NEW ss \in Seq(Seq(S)), ss # <<>>
  PROVE  /\ Head(ss) \in Seq(S) /\ Tail(ss) \in Seq(Seq(S))
         /\ FlattenSeq(ss) = Head(ss) \o FlattenSeq(Tail(ss))
<1>1. /\ <<Head(ss)>> \in Seq(Seq(S)) /\ Tail(ss) \in Seq(Seq(S)) /\ Head(ss) \in Seq(S)
      /\ ss = <<Head(ss)>> \o Tail(ss)
  OBVIOUS
<1>2. FlattenSeq(ss) = FlattenSeq(<<Head(ss)>>) \o FlattenSeq(Tail(ss))
  BY <1>1, FlatConcat
<1> QED BY <1>1, <1>2, FlatOne

LEMMA ConcatRange ==
  ASSUME NEW S, NEW c \in Seq(S), NEW d \in Seq(S), NEW x
  PROVE  x \in ToSet(c \o d) <=> x \in ToSet(c) \/ x \in ToSet(d)
<1>0. /\ DOMAIN c = 1..Len(c) /\ DOMAIN d = 1..Len(d) /\ DOMAIN (c \o d) = 1..(Len(c) + Len(d))
      /\ Len(c) \in Nat /\ Len(d) \in Nat
  OBVIOUS
<1>1. ASSUME x \in ToSet(c) PROVE x \in ToSet(c \o d)
  <2>1. PICK i \in 1..Len(c) : x = c[i] BY <1>0, <1>1 DEF ToSet
  <2>2. i \in 1..(Len(c) + Len(d)) /\ (c \o d)[i] = x BY <1>0, <2>1, ConcatType
  <2> QED BY <1>0, <2>2 DEF ToSet
<1>2. ASSUME x \in ToSet(d) PROVE x \in ToSet(c \o d)
  <2>1. PICK i \in 1..Len(d) : x = d[i] BY <1>0, <1>2 DEF ToSet
  <2> DEFINE j == Len(c) + i
  <2>2. j \in 1..(Len(c) + Len(d)) /\ ~ (j <= Len(c)) /\ j - Len(c) = i BY <1>0, <2>1
  <2> HIDE DEF j
  <2>3. (c \o d)[j] = x BY <2>1, <2>2, ConcatType
  <2> QED BY <1>0, <2>2, <2>3 DEF ToSet
<1>3. ASSUME x \in ToSet(c \o d) PROVE x \in ToSet(c) \/ x \in ToSet(d)
  <2>1. PICK i \in 1..(Len(c) + Len(d)) : x = (c \o d)[i] BY <1>0, <1>3 DEF ToSet
  <2>2. CASE i <= Len(c) BY <1>0, <2>1, <2>2, ConcatType DEF ToSet
  <2>3. CASE ~ (i <= Len(c))
    <3>1. i - Len(c) \in 1..Len(d) BY <1>0, <2>3
    <3>2. x = d[i - Len(c)] BY <2>1, <2>3, ConcatType
    <3> QED BY <1>0, <3>1, <3>2 DEF ToSet
  <2> QED BY <2>2, <2>3
<1> QED BY <1>1, <1>2, <1>3

LEMMA FlatRange ==
  ASSUME NEW S, NEW ss \in Seq(Seq(S)), NEW x
  PROVE  x \in ToSet(FlattenSeq(ss)) <=> \E i \in DOMAIN ss : x \in ToSet(ss[i])
<1>1. PICK f \in [0..Len(ss) -> Seq(S)] : Parts(ss, f) BY PartsExist
<1> DEFINE Good(n) == x \in ToSet(f[n]) <=> \E i \in 1..n : x \in ToSet(ss[i])
           T == {n \in Nat : n <= Len(ss) => Good(n)}
<1>2. Good(0)
  <2>1. f[0] = <<>> BY <1>1 DEF Parts
  <2> QED BY <2>1 DEF ToSet
<1>3. ASSUME NEW n \in Nat, n + 1 <= Len(ss), Good(n) PROVE Good(n + 1)
  <2> DEFINE k == n + 1
  <2>1. k \in 1..Len(ss) /\ k - 1 = n /\ n \in 0..Len(ss) BY <1>3
  <2> HIDE DEF k
  <2>2. f[k] = f[n] \o ss[k]
    <3>1. f[k] = f[k - 1] \o ss[k] BY <1>1, <2>1 DEF Parts
    <3> QED BY <2>1, <3>1
  <2>3. f[n] \in Seq(S) /\ ss[k] \in Seq(S)
    <3>1. ss[k] \in Seq(S) BY <2>1, ElementType
    <3>2. f[n] \in Seq(S) BY <2>1
    <3> QED BY <3>1, <3>2
  <2>4. x \in ToSet(f[k]) <=> x \in ToSet(f[n]) \/ x \in ToSet(ss[k])
    BY <2>2, <2>3, ConcatRange
  <2>5. \A i : i \in 1..k <=> i \in 1..n \/ i = k BY <2>1
  <2>6. Good(k) BY <1>3, <2>4, <2>5
  <2> QED BY <2>6 DEF k
<1>4. Len(ss) \in T
  <2> HIDE DEF Good
  <2>0. Len(ss) \in Nat OBVIOUS
  <2>1. 0 \in T BY <1>2
  <2>2. ASSUME NEW n \in Nat, n \in T PROVE n + 1 \in T
    <3>1. n + 1 <= Len(ss) => n <= Len(ss) BY <2>0
    <3> QED BY <1>3, <2>2, <3>1
  <2> HIDE DEF T
  <2>3. Nat \subseteq T BY <2>1, <2>2, SetInduction
  <2> QED BY <2>0, <2>3
<1>5. Good(Len(ss))
  <2> HIDE DEF Good
  <2> QED BY <1>4
<1>6. FlattenSeq(ss) = f[Len(ss)] BY <1>1, FlatParts
<1>7. DOMAIN ss = 1..Len(ss) OBVIOUS
<1> QED BY <1>5, <1>6, <1>7
=============================================================================
