----------------------------- MODULE LayoutProofs -----------------------------
(***************************************************************************)
(* The readers of MetadataLayout read what the writers of MetadataDecoder  *)
(* write, at whatever offset of whatever bytes.                            *)
(***************************************************************************)
EXTENDS MetadataDecoder, SequenceLemmas

IsSeq(s) == \E S : s \in Seq(S)

(* The bytes at an offset begin with these.                                *)
At(s, o) ==
  /\ Len(wire) \in Nat
  /\ \A i \in 1..Len(s) : o + i <= Len(wire) /\ wire[o + i] = s[i]

(* A reader makes x of these bytes and takes all of them, wherever they    *)
(* are.                                                                    *)
Reads(reader, s, x) ==
  /\ IsSeq(s)
  /\ \A o \in Nat : At(s, o) => reader[o] = [val |-> x, end |-> o + Len(s)]

Pieces(ss) == IsSeq(ss) /\ \A i \in 1..Len(ss) : IsSeq(ss[i])

(* The first n readers read bytes piece by piece.                          *)
Chain(rs, n, s, xs) ==
  \E ss : /\ Pieces(ss) /\ s = FlattenSeq(ss) /\ Len(ss) = n
          /\ \A i \in 1..n : Reads(rs[i], ss[i], xs[i])

-----------------------------------------------------------------------------
LEMMA SeqDomain ==
  ASSUME NEW s, IsSeq(s)
  PROVE  Len(s) \in Nat /\ DOMAIN s = 1..Len(s)
BY DEF IsSeq

LEMMA SeqEmpty == IsSeq(<<>>) /\ Len(<<>>) = 0
<1>1. <<>> \in Seq({}) OBVIOUS
<1> QED BY <1>1 DEF IsSeq

LEMMA SeqSame ==
  ASSUME NEW a, NEW b, IsSeq(a), IsSeq(b), Len(a) = Len(b), \A i \in 1..Len(a) : a[i] = b[i]
  PROVE  a = b
<1>1. PICK S : a \in Seq(S) BY DEF IsSeq
<1>2. PICK T : b \in Seq(T) BY DEF IsSeq
<1>3. a \in Seq(S \cup T) /\ b \in Seq(S \cup T) BY <1>1, <1>2
<1> QED BY <1>3, EqualSeqs

LEMMA SeqConcat ==
  ASSUME NEW a, NEW b, IsSeq(a), IsSeq(b)
  PROVE  /\ IsSeq(a \o b) /\ Len(a \o b) = Len(a) + Len(b)
         /\ \A i \in 1..(Len(a) + Len(b)) :
              (a \o b)[i] = IF i <= Len(a) THEN a[i] ELSE b[i - Len(a)]
<1>1. PICK S : a \in Seq(S) BY DEF IsSeq
<1>2. PICK T : b \in Seq(T) BY DEF IsSeq
<1>3. a \in Seq(S \cup T) /\ b \in Seq(S \cup T) BY <1>1, <1>2
<1> QED BY <1>3, ConcatType DEF IsSeq

LEMMA SeqAppend ==
  ASSUME NEW s, IsSeq(s), NEW x
  PROVE  /\ IsSeq(Append(s, x)) /\ Len(Append(s, x)) = Len(s) + 1
         /\ \A i \in 1..Len(s) : Append(s, x)[i] = s[i]
         /\ Append(s, x)[Len(s) + 1] = x
<1>1. PICK S : s \in Seq(S) BY DEF IsSeq
<1>2. s \in Seq(S \cup {x}) BY <1>1
<1>3. Append(s, x) \in Seq(S \cup {x}) BY <1>2
<1> QED BY <1>2, <1>3 DEF IsSeq

LEMMA SeqNothing ==
  ASSUME NEW s, IsSeq(s)
  PROVE  s \o <<>> = s /\ <<>> \o s = s
BY ConcatEmpty DEF IsSeq

(* The values of a function on the first numbers are a sequence.           *)
LEMMA SeqValues ==
  ASSUME NEW n \in Nat, NEW S, NEW s \in [1..n -> S]
  PROVE  IsSeq(s) /\ Len(s) = n
<1>1. s \in Seq(S) /\ Len(s) = n OBVIOUS
<1> QED BY <1>1 DEF IsSeq

LEMMA PiecesTyped ==
  ASSUME NEW ss, Pieces(ss)
  PROVE  \E S : ss \in Seq(Seq(S))
<1> DEFINE S == UNION {{ss[i][j] : j \in 1..Len(ss[i])} : i \in 1..Len(ss)}
<1>1. IsSeq(ss) /\ Len(ss) \in Nat BY SeqDomain DEF Pieces
<1>2. ASSUME NEW i \in 1..Len(ss) PROVE ss[i] \in Seq(S)
  <2>1. IsSeq(ss[i]) BY <1>2 DEF Pieces
  <2>2. PICK T : ss[i] \in Seq(T) BY <2>1 DEF IsSeq
  <2>3. Len(ss[i]) \in Nat /\ ss[i] = [j \in 1..Len(ss[i]) |-> ss[i][j]] BY <2>2
  <2>4. \A j \in 1..Len(ss[i]) : ss[i][j] \in S OBVIOUS
  <2> HIDE DEF S
  <2>5. ss[i] \in [1..Len(ss[i]) -> S] BY <2>3, <2>4
  <2> QED BY <2>3, <2>5
<1> HIDE DEF S
<1>3. PICK T : ss \in Seq(T) BY <1>1 DEF IsSeq
<1>4. ss = [i \in 1..Len(ss) |-> ss[i]] BY <1>3
<1>5. ss \in [1..Len(ss) -> Seq(S)] BY <1>2, <1>4
<1>6. ss \in Seq(Seq(S)) BY <1>1, <1>5
<1> QED BY <1>6

LEMMA FlatAppend ==
  ASSUME NEW ss, Pieces(ss), NEW t, IsSeq(t)
  PROVE  /\ Pieces(Append(ss, t)) /\ FlattenSeq(Append(ss, t)) = FlattenSeq(ss) \o t
         /\ IsSeq(FlattenSeq(ss))
<1>1. PICK S : ss \in Seq(Seq(S)) BY PiecesTyped
<1>2. PICK T : t \in Seq(T) BY DEF IsSeq
<1> DEFINE U == S \cup T
<1>3. Seq(S) \subseteq Seq(U) /\ t \in Seq(U) BY <1>2
<1>4. ss \in Seq(Seq(U)) BY <1>1, <1>3
<1> HIDE DEF U
<1>5. <<t>> \in Seq(Seq(U)) /\ Append(ss, t) = ss \o <<t>> BY <1>3, <1>4
<1>6. FlattenSeq(Append(ss, t)) = FlattenSeq(ss) \o t
  <2>1. FlattenSeq(<<t>>) = t BY <1>3, FlatOne
  <2> DEFINE one == <<t>>
  <2>2. FlattenSeq(ss \o one) = FlattenSeq(ss) \o FlattenSeq(one) BY <1>4, <1>5, FlatConcat
  <2> QED BY <1>5, <2>1, <2>2
<1>7. FlattenSeq(ss) \in Seq(U) BY <1>4, FlatType
<1>8. Pieces(Append(ss, t))
  <2>1. IsSeq(ss) /\ Len(ss) \in Nat BY SeqDomain DEF Pieces
  <2>2. IsSeq(Append(ss, t)) /\ Len(Append(ss, t)) = Len(ss) + 1 BY <2>1, SeqAppend
  <2>3. ASSUME NEW i \in 1..(Len(ss) + 1) PROVE IsSeq(Append(ss, t)[i])
    <3>1. CASE i = Len(ss) + 1 BY <2>1, <3>1, SeqAppend
    <3>2. CASE i \in 1..Len(ss) BY <2>1, <3>2, SeqAppend DEF Pieces
    <3> QED BY <2>1, <3>1, <3>2
  <2> QED BY <2>2, <2>3 DEF Pieces
<1> QED BY <1>6, <1>7, <1>8 DEF IsSeq

-----------------------------------------------------------------------------
LEMMA AtConcat ==
  ASSUME NEW a, NEW b, IsSeq(a), IsSeq(b), NEW o \in Nat, At(a \o b, o)
  PROVE  At(a, o) /\ At(b, o + Len(a))
<1>1. Len(a) \in Nat /\ Len(b) \in Nat BY SeqDomain
<1>2. Len(a \o b) = Len(a) + Len(b) BY SeqConcat
<1>3. ASSUME NEW i \in 1..Len(a) PROVE o + i <= Len(wire) /\ wire[o + i] = a[i]
  <2>1. i \in 1..(Len(a) + Len(b)) /\ i <= Len(a) BY <1>1
  <2>2. (a \o b)[i] = a[i] BY <2>1, SeqConcat
  <2> QED BY <1>2, <2>1, <2>2 DEF At
<1>4. ASSUME NEW i \in 1..Len(b)
      PROVE  o + Len(a) + i <= Len(wire) /\ wire[o + Len(a) + i] = b[i]
  <2> DEFINE k == Len(a) + i
  <2>1. k \in 1..(Len(a) + Len(b)) /\ ~ (k <= Len(a)) /\ k - Len(a) = i /\ o + Len(a) + i = o + k
    BY <1>1
  <2> HIDE DEF k
  <2>2. (a \o b)[k] = b[i] BY <2>1, SeqConcat
  <2>3. o + k <= Len(wire) /\ wire[o + k] = (a \o b)[k] BY <1>2, <2>1 DEF At
  <2> QED BY <2>1, <2>2, <2>3
<1> QED BY <1>3, <1>4 DEF At

LEMMA ReadsAll ==
  ASSUME NEW rs, NEW xs, IsSeq(rs), IsSeq(xs), Len(xs) = Len(rs),
         NEW s, Chain(rs, Len(rs), s, xs), NEW o \in Nat, At(s, o)
  PROVE  ReadAll(rs, o) = [val |-> xs, end |-> o + Len(s)]
<1>1. PICK ss : /\ Pieces(ss) /\ s = FlattenSeq(ss)
                /\ IsSeq(rs) /\ Len(rs) = Len(ss) /\ IsSeq(xs) /\ Len(xs) = Len(ss)
                /\ \A i \in 1..Len(ss) : Reads(rs[i], ss[i], xs[i])
  BY DEF Chain
<1> DEFINE N == Len(rs)
<1>2. N \in Nat /\ Len(ss) = N /\ Len(xs) = N BY <1>1, SeqDomain
<1>3. PICK S : ss \in Seq(Seq(S)) BY <1>1, PiecesTyped
<1>4. PICK f \in [0..Len(ss) -> Seq(S)] : Parts(ss, f) BY <1>3, PartsExist
<1>5. s = f[N] BY <1>1, <1>2, <1>3, <1>4, FlatParts
<1> DEFINE D(u) == [n \in 0..N |-> IF n = 0 THEN [val |-> <<>>, end |-> o]
                     ELSE [val |-> Append(u[n - 1].val, rs[n][u[n - 1].end].val),
                           end |-> rs[n][u[n - 1].end].end]]
           first(n) == [i \in 1..n |-> xs[i]]
           w == [n \in 0..N |-> [val |-> first(n), end |-> o + Len(f[n])]]
           upto == CHOOSE u : u = D(u)
<1>6. ReadAll(rs, o) = upto[N] BY DEF ReadAll
<1>7. ASSUME NEW n \in 1..N, At(f[n], o)
      PROVE  /\ At(f[n - 1], o)
             /\ rs[n][o + Len(f[n - 1])] = [val |-> xs[n], end |-> o + Len(f[n])]
  <2>1. f[n] = f[n - 1] \o ss[n] BY <1>2, <1>4, <1>7 DEF Parts
  <2>2. n - 1 \in 0..N BY <1>2
  <2>3. f[n - 1] \in Seq(S) /\ ss[n] \in Seq(S)
    <3>1. ss[n] \in Seq(S) BY <1>2, <1>3, ElementType
    <3> QED BY <1>2, <2>2, <3>1
  <2>4. IsSeq(f[n - 1]) /\ IsSeq(ss[n]) BY <2>3 DEF IsSeq
  <2> DEFINE a == f[n - 1]  b == ss[n]
  <2>5. At(a \o b, o) BY <1>7, <2>1
  <2>6. Len(f[n]) = Len(a) + Len(b) /\ Len(a) \in Nat /\ Len(b) \in Nat
    BY <2>1, <2>4, SeqConcat, SeqDomain
  <2>7. At(a, o) /\ At(b, o + Len(a)) BY <2>4, <2>5, AtConcat
  <2>8. Reads(rs[n], b, xs[n]) BY <1>1, <1>2
  <2> HIDE DEF a, b, N
  <2>9. rs[n][o + Len(a)] = [val |-> xs[n], end |-> o + Len(a) + Len(b)]
    BY <2>6, <2>7, <2>8 DEF Reads
  <2>10. o + Len(a) + Len(b) = o + Len(f[n]) BY <2>6
  <2> QED BY <2>7, <2>9, <2>10 DEF a
<1>8. ASSUME NEW n \in 0..N PROVE At(f[N], o) => At(f[n], o)
  <2> DEFINE T == {m \in Nat : m <= N => At(f[N - m], o)}
  <2>1. SUFFICES ASSUME At(f[N], o) PROVE At(f[n], o) OBVIOUS
  <2>2. 0 \in T BY <1>2, <2>1
  <2>3. ASSUME NEW m \in Nat, m \in T PROVE m + 1 \in T
    <3>1. SUFFICES ASSUME m + 1 <= N PROVE At(f[N - (m + 1)], o) OBVIOUS
    <3>2. m <= N /\ N - m \in 1..N /\ N - (m + 1) = (N - m) - 1 BY <1>2, <3>1
    <3>3. At(f[N - m], o) BY <2>3, <3>2
    <3> HIDE DEF N
    <3> QED BY <1>7, <3>2, <3>3
  <2>4. N - n \in Nat /\ N - n <= N /\ N - (N - n) = n BY <1>2
  <2> HIDE DEF T, N
  <2>5. N - n \in T BY <2>2, <2>3, <2>4, SetInduction
  <2> QED BY <2>4, <2>5 DEF T
<1>9. ASSUME NEW n \in 1..N
      PROVE  rs[n][o + Len(f[n - 1])] = [val |-> xs[n], end |-> o + Len(f[n])]
  BY <1>2, <1>5, <1>7, <1>8
<1>10. ASSUME NEW n \in Nat PROVE IsSeq(first(n)) /\ Len(first(n)) = n
  <2>1. first(n) \in [1..n -> {xs[i] : i \in 1..n}] OBVIOUS
  <2> HIDE DEF first
  <2> QED BY <2>1, SeqValues
<1>11. first(0) = <<>> OBVIOUS
<1>12. ASSUME NEW n \in 1..N PROVE first(n) = Append(first(n - 1), xs[n])
  <2>1. n \in Nat /\ n - 1 \in Nat /\ (n - 1) + 1 = n BY <1>2
  <2> DEFINE a == first(n - 1)  b == first(n)
  <2>2. IsSeq(a) /\ Len(a) = n - 1 /\ IsSeq(b) /\ Len(b) = n BY <1>10, <2>1
  <2>3. /\ IsSeq(Append(a, xs[n])) /\ Len(Append(a, xs[n])) = n
        /\ \A i \in 1..(n - 1) : Append(a, xs[n])[i] = a[i]
        /\ Append(a, xs[n])[n] = xs[n]
    <3> HIDE DEF a
    <3> QED BY <2>1, <2>2, SeqAppend
  <2>4. \A i \in 1..n : i = n \/ i \in 1..(n - 1) BY <2>1
  <2>5. \A i \in 1..n : b[i] = xs[i] OBVIOUS
  <2>6. \A i \in 1..(n - 1) : a[i] = xs[i] OBVIOUS
  <2> HIDE DEF a, b
  <2>7. \A i \in 1..n : b[i] = Append(a, xs[n])[i] BY <2>3, <2>4, <2>5, <2>6
  <2>8. b = Append(a, xs[n]) BY <2>2, <2>3, <2>7, SeqSame
  <2> QED BY <2>8 DEF a, b
<1>13. w = D(w)
  <2>1. ASSUME NEW n \in 0..N PROVE w[n] = D(w)[n]
    <3>1. CASE n = 0
      <4>1. f[0] = <<>> /\ o + 0 = o /\ Len(<<>>) = 0 BY <1>4 DEF Parts
      <4>2. w[n] = [val |-> <<>>, end |-> o] BY <1>11, <3>1, <4>1
      <4> QED BY <3>1, <4>2
    <3>2. CASE n # 0
      <4>1. n \in 1..N /\ n - 1 \in 0..N BY <1>2, <3>2
      <4> HIDE DEF N
      <4>2. w[n - 1] = [val |-> first(n - 1), end |-> o + Len(f[n - 1])] BY <4>1
      <4>3. rs[n][w[n - 1].end] = [val |-> xs[n], end |-> o + Len(f[n])] BY <1>9, <4>1, <4>2
      <4>4. D(w)[n] = [val |-> Append(first(n - 1), xs[n]), end |-> o + Len(f[n])]
        <5>1. ASSUME NEW u
              PROVE  D(u)[n] = [val |-> Append(u[n - 1].val, rs[n][u[n - 1].end].val),
                                end |-> rs[n][u[n - 1].end].end]
          BY <3>2
        <5>2. w[n - 1].val = first(n - 1) BY <4>2
        <5> HIDE DEF w, first, D
        <5>3. /\ rs[n][w[n - 1].end].val = xs[n]
              /\ rs[n][w[n - 1].end].end = o + Len(f[n])
          BY <4>3
        <5>4. D(w)[n] = [val |-> Append(w[n - 1].val, rs[n][w[n - 1].end].val),
                         end |-> rs[n][w[n - 1].end].end]
          BY ONLY <5>1
        <5> QED BY ONLY <5>2, <5>3, <5>4
      <4>5. w[n] = [val |-> first(n), end |-> o + Len(f[n])] OBVIOUS
      <4> HIDE DEF w, first, D
      <4> QED BY <1>12, <4>1, <4>4, <4>5
    <3> QED BY <3>1, <3>2
  <2> HIDE DEF N, first
  <2> QED BY <2>1
<1>14. upto = D(upto)
  <2> HIDE DEF D, w
  <2> QED BY <1>13
<1>15. upto[N] = w[N]
  <2> DEFINE T == {n \in Nat : n <= N => upto[n] = w[n]}
  <2> HIDE DEF upto, w
  <2>1. 0 \in T
    <3>1. upto[0] = D(upto)[0] /\ w[0] = D(w)[0]
      <4> HIDE DEF D
      <4> QED BY <1>13, <1>14
    <3> HIDE DEF N
    <3> QED BY <1>2, <3>1
  <2>2. ASSUME NEW n \in Nat, n \in T PROVE n + 1 \in T
    <3>1. SUFFICES ASSUME n + 1 <= N PROVE upto[n + 1] = w[n + 1] OBVIOUS
    <3>2. n <= N /\ n + 1 \in 0..N /\ n + 1 # 0 /\ (n + 1) - 1 = n BY <1>2, <3>1
    <3>3. upto[n] = w[n] BY <2>2, <3>2
    <3>4. upto[n + 1] = D(upto)[n + 1] /\ w[n + 1] = D(w)[n + 1]
      <4> HIDE DEF D
      <4> QED BY <1>13, <1>14
    <3> HIDE DEF N
    <3>5. ASSUME NEW u
          PROVE  D(u)[n + 1] = [val |-> Append(u[n].val, rs[n + 1][u[n].end].val),
                                end |-> rs[n + 1][u[n].end].end]
      BY <3>2
    <3> HIDE DEF D
    <3> QED BY <3>3, <3>4, <3>5
  <2> HIDE DEF T, N
  <2>3. N \in T BY <1>2, <2>1, <2>2, SetInduction
  <2> QED BY <1>2, <2>3 DEF T
<1>16. first(N) = xs
  <2> DEFINE a == first(N)
  <2>1. IsSeq(a) /\ Len(a) = N BY <1>2, <1>10
  <2>2. \A i \in 1..N : a[i] = xs[i] OBVIOUS
  <2> HIDE DEF a, N
  <2>3. a = xs BY <1>1, <1>2, <2>1, <2>2, SeqSame
  <2> QED BY <2>3 DEF a
<1>17. w[N] = [val |-> xs, end |-> o + Len(s)]
  <2>1. w[N] = [val |-> first(N), end |-> o + Len(f[N])]
    <3> HIDE DEF N, first
    <3> QED BY <1>2
  <2> HIDE DEF w, first, N
  <2> QED BY <1>5, <1>16, <2>1
<1> HIDE DEF upto, w
<1> QED BY <1>6, <1>15, <1>17

-----------------------------------------------------------------------------
(* One token. *)

LEMMA TakesToken ==
  ASSUME NEW kind, NEW x, NEW o \in Nat, At(Token(kind, x), o)
  PROVE  o < Len(wire) /\ wire[o + 1].kind = kind /\ wire[o + 1].val = x
<1>1. Len(Token(kind, x)) = 1 /\ Token(kind, x)[1] = [kind |-> kind, val |-> x] BY DEF Token
<1>2. Len(wire) \in Nat /\ o + 1 <= Len(wire) /\ wire[o + 1] = [kind |-> kind, val |-> x]
  BY <1>1 DEF At
<1> QED BY <1>2

LEMMA TokenSeq == ASSUME NEW kind, NEW x PROVE IsSeq(Token(kind, x)) /\ Len(Token(kind, x)) = 1
<1>1. Token(kind, x) \in Seq({[kind |-> kind, val |-> x]}) BY DEF Token
<1> QED BY <1>1 DEF IsSeq, Token

LEMMA TakeRead ==
  ASSUME NEW kind, kind # "type", NEW x, NEW o \in Nat, At(Token(kind, x), o)
  PROVE  Take(kind, o) = [val |-> x, end |-> o + 1]
BY TakesToken DEF Take

LEMMA ReadsLeaf ==
  ASSUME NEW kind, kind # "type", NEW x
  PROVE  Reads(Leaf(kind), Token(kind, x), x)
<1>1. ASSUME NEW o \in Nat, At(Token(kind, x), o)
      PROVE  Leaf(kind)[o] = [val |-> x, end |-> o + Len(Token(kind, x))]
  <2>1. Leaf(kind)[o] = Take(kind, o) BY DEF Leaf
  <2> QED BY <1>1, <2>1, TakeRead, TokenSeq
<1> QED BY <1>1, TokenSeq DEF Reads

LEMMA ReadsText == ASSUME NEW x PROVE Reads(Text, WriteText(x), x)
BY ReadsLeaf DEF Text, WriteText

LEMMA ReadsId == ASSUME NEW x PROVE Reads(Id, WriteId(x), x)
BY ReadsLeaf DEF Id, WriteId

LEMMA ReadsU8 == ASSUME NEW x PROVE Reads(U8, Token("u8", x), x)
BY ReadsLeaf DEF U8

LEMMA ReadsType ==
  ASSUME NEW t \in DOMAIN RawType
  PROVE  Reads(TypeText, WriteType(t), t)
<1> DEFINE s == Token("text", RawType[t])
<1>1. ASSUME NEW o \in Nat, At(s, o) PROVE Leaf("type")[o] = [val |-> t, end |-> o + Len(s)]
  <2>1. Leaf("type")[o] = Take("type", o) BY DEF Leaf
  <2>2. o < Len(wire) /\ wire[o + 1].kind = "text" /\ wire[o + 1].val = RawType[t]
    BY <1>1, TakesToken
  <2>3. ConvertType(RawType[t]) = t BY LayoutAssumption
  <2>4. Take("type", o) = [val |-> t, end |-> o + 1] BY <2>2, <2>3 DEF Take
  <2> QED BY <2>1, <2>4, TokenSeq
<1> QED BY <1>1, TokenSeq DEF Reads, TypeText, WriteType

-----------------------------------------------------------------------------
(* Readers one after the other. *)

LEMMA ChainNone == ASSUME NEW rs, NEW xs PROVE Chain(rs, 0, <<>>, xs)
<1> DEFINE ss == <<>>
<1>1. IsSeq(ss) /\ Len(ss) = 0 /\ FlattenSeq(ss) = <<>> BY SeqEmpty, FlatEmpty
<1>2. Pieces(ss) BY <1>1 DEF Pieces
<1> HIDE DEF ss
<1>3. /\ Pieces(ss) /\ <<>> = FlattenSeq(ss) /\ Len(ss) = 0
      /\ \A i \in 1..0 : Reads(rs[i], ss[i], xs[i])
  BY <1>1, <1>2
<1> QED BY <1>3 DEF Chain

LEMMA ChainSeq ==
  ASSUME NEW rs, NEW n, NEW s, NEW xs, Chain(rs, n, s, xs)
  PROVE  IsSeq(s) /\ n \in Nat
<1>1. PICK ss : Pieces(ss) /\ s = FlattenSeq(ss) /\ Len(ss) = n BY DEF Chain
<1>2. IsSeq(s) BY <1>1, FlatAppend, SeqEmpty
<1>3. n \in Nat BY <1>1, SeqDomain DEF Pieces
<1> QED BY <1>2, <1>3

LEMMA ChainMore ==
  ASSUME NEW rs, NEW n, NEW s, NEW xs, Chain(rs, n, s, xs),
         NEW t, Reads(rs[n + 1], t, xs[n + 1])
  PROVE  Chain(rs, n + 1, s \o t, xs)
<1>1. PICK ss : /\ Pieces(ss) /\ s = FlattenSeq(ss) /\ Len(ss) = n
                /\ \A i \in 1..n : Reads(rs[i], ss[i], xs[i])
  BY DEF Chain
<1>2. IsSeq(t) BY DEF Reads
<1>3. Pieces(Append(ss, t)) /\ s \o t = FlattenSeq(Append(ss, t)) BY <1>1, <1>2, FlatAppend
<1>4. IsSeq(ss) /\ n \in Nat BY <1>1, SeqDomain DEF Pieces
<1>5. /\ Len(Append(ss, t)) = n + 1 /\ Append(ss, t)[n + 1] = t
      /\ \A i \in 1..n : Append(ss, t)[i] = ss[i]
  BY <1>1, <1>4, SeqAppend
<1>6. \A i \in 1..(n + 1) : i = n + 1 \/ i \in 1..n BY <1>4
<1>7. \A i \in 1..(n + 1) : Reads(rs[i], Append(ss, t)[i], xs[i]) BY <1>1, <1>5, <1>6
<1> QED BY <1>3, <1>5, <1>7 DEF Chain

-----------------------------------------------------------------------------
(* Records. *)

(* The first n rows of a record's layout read x's fields from these bytes. *)
Rows(of, n, s, x) ==
  /\ IsSeq(of) /\ n \in 0..Len(of)
  /\ Chain([i \in DOMAIN of |-> of[i][2]], n, s, [i \in DOMAIN of |-> x[of[i][1]]])

LEMMA RowsNone == ASSUME NEW of, IsSeq(of), NEW x PROVE Rows(of, 0, <<>>, x)
BY ChainNone, SeqDomain DEF Rows

LEMMA RowsMore ==
  ASSUME NEW of, NEW n, NEW s, NEW x, Rows(of, n, s, x), n < Len(of),
         NEW name, NEW r, of[n + 1] = <<name, r>>, NEW t, Reads(r, t, x[name])
  PROVE  Rows(of, n + 1, s \o t, x)
<1> DEFINE rs == [i \in DOMAIN of |-> of[i][2]]  xs == [i \in DOMAIN of |-> x[of[i][1]]]
<1>1. Len(of) \in Nat /\ DOMAIN of = 1..Len(of) /\ IsSeq(of) /\ n \in 0..Len(of)
  BY SeqDomain DEF Rows
<1>2. n + 1 \in DOMAIN of /\ n + 1 \in 0..Len(of) BY <1>1
<1>3. rs[n + 1] = r /\ xs[n + 1] = x[name] BY <1>2
<1>4. Chain(rs, n, s, xs) BY DEF Rows
<1> HIDE DEF rs, xs
<1>5. Chain(rs, n + 1, s \o t, xs) BY <1>3, <1>4, ChainMore
<1> QED BY <1>1, <1>2, <1>5 DEF Rows, rs, xs

(* Nothing is written for a field that is not there.                       *)
LEMMA RowsSkip ==
  ASSUME NEW of, NEW n, NEW s, NEW x, Rows(of, n, s, x)
  PROVE  Rows(of, n, s \o <<>>, x)
BY ChainSeq, SeqNothing DEF Rows

LEMMA RowsRead ==
  ASSUME NEW of, NEW s, NEW x, Rows(of, Len(of), s, x),
         IsRecord(x, {of[i][1] : i \in DOMAIN of})
  PROVE  Reads(Fields(of), s, x)
<1> DEFINE rs == [i \in DOMAIN of |-> of[i][2]]  xs == [i \in DOMAIN of |-> x[of[i][1]]]
           N == Len(of)  names == {of[i][1] : i \in DOMAIN of}
<1>1. Chain(rs, N, s, xs) /\ N \in Nat /\ DOMAIN of = 1..N BY SeqDomain DEF Rows
<1>2. IsSeq(s) BY <1>1, ChainSeq
<1>3. IsSeq(rs) /\ Len(rs) = N /\ IsSeq(xs) /\ Len(xs) = N
  <2>1. /\ rs \in [1..N -> {of[i][2] : i \in 1..N}]
        /\ xs \in [1..N -> {x[of[i][1]] : i \in 1..N}]
    BY <1>1
  <2> HIDE DEF rs, xs, N
  <2>2. IsSeq(rs) /\ Len(rs) = N BY <1>1, <2>1, SeqValues
  <2>3. IsSeq(xs) /\ Len(xs) = N BY <1>1, <2>1, SeqValues
  <2> QED BY <2>2, <2>3
<1>4. ASSUME NEW o \in Nat, At(s, o) PROVE Fields(of)[o] = [val |-> x, end |-> o + Len(s)]
  <2> DEFINE all == ReadAll(rs, o)
             y == [n \in names |-> all.val[CHOOSE i \in DOMAIN of : of[i][1] = n]]
  <2>1. all = [val |-> xs, end |-> o + Len(s)]
    <3> HIDE DEF rs, xs, N
    <3> QED BY <1>1, <1>3, <1>4, ReadsAll
  <2>2. Fields(of)[o] = [val |-> y, end |-> all.end] BY DEF Fields
  <2> HIDE DEF all
  <2>3. ASSUME NEW n \in names PROVE y[n] = x[n]
    <3> DEFINE i == CHOOSE j \in DOMAIN of : of[j][1] = n
    <3>1. i \in DOMAIN of /\ of[i][1] = n OBVIOUS
    <3>2. y[n] = all.val[i] OBVIOUS
    <3> HIDE DEF i, y
    <3>3. xs[i] = x[n] BY <3>1
    <3> QED BY <2>1, <3>2, <3>3
  <2>4. y = x
    <3>1. x = [n \in names |-> x[n]] BY DEF IsRecord
    <3>2. y = [n \in names |-> y[n]] OBVIOUS
    <3> HIDE DEF y, names
    <3> QED BY <2>3, <3>1, <3>2
  <2> HIDE DEF y
  <2> QED BY <2>1, <2>2, <2>4
<1> QED BY <1>2, <1>4 DEF Reads

LEMMA RowsOne ==
  ASSUME NEW x, NEW n1, NEW r1, NEW t1, Reads(r1, t1, x[n1]),
         IsRecord(x, {n1})
  PROVE  Reads(Fields(<< <<n1, r1>> >>), t1, x)
<1> DEFINE of == << <<n1, r1>> >>
<1>1. IsSeq(of) /\ Len(of) = 1 /\ DOMAIN of = 1..1
  <2>1. of \in Seq({of[1]}) /\ Len(of) = 1 OBVIOUS
  <2> HIDE DEF of
  <2>2. IsSeq(of) BY <2>1 DEF IsSeq
  <2> QED BY <2>1, <2>2, SeqDomain
<1>2. of[1] = <<n1, r1>> OBVIOUS
<1>3. {of[i][1] : i \in DOMAIN of} = {n1}
  <2>1. \A i \in 1..1 : i = 1 OBVIOUS
  <2> HIDE DEF of
  <2> QED BY <1>1, <1>2, <2>1
<1> HIDE DEF of
<1>4. Rows(of, 0, <<>>, x) BY <1>1, RowsNone
<1>5. Rows(of, 1, <<>> \o t1, x)
  <2>1. 0 + 1 = 1 /\ 0 < Len(of) BY <1>1
  <2> QED BY <1>2, <1>4, <2>1, RowsMore
<1>6. Rows(of, 1, t1, x) BY <1>5, SeqNothing DEF Reads
<1> QED BY <1>1, <1>3, <1>6, RowsRead DEF of

LEMMA RowsTwo ==
  ASSUME NEW x, NEW n1, NEW r1, NEW t1, Reads(r1, t1, x[n1]),
         NEW n2, NEW r2, NEW t2, Reads(r2, t2, x[n2]),
         IsRecord(x, {n1, n2})
  PROVE  Reads(Fields(<< <<n1, r1>>, <<n2, r2>> >>), t1 \o t2, x)
<1> DEFINE of == << <<n1, r1>>, <<n2, r2>> >>
<1>1. IsSeq(of) /\ Len(of) = 2 /\ DOMAIN of = 1..2
  <2>1. of \in Seq({of[1], of[2]}) /\ Len(of) = 2 OBVIOUS
  <2> HIDE DEF of
  <2>2. IsSeq(of) BY <2>1 DEF IsSeq
  <2> QED BY <2>1, <2>2, SeqDomain
<1>2. of[1] = <<n1, r1>> /\ of[2] = <<n2, r2>> OBVIOUS
<1>3. {of[i][1] : i \in DOMAIN of} = {n1, n2}
  <2>1. \A i \in 1..2 : i = 1 \/ i = 2 OBVIOUS
  <2> HIDE DEF of
  <2> QED BY <1>1, <1>2, <2>1
<1> HIDE DEF of
<1>4. Rows(of, 0, <<>>, x) BY <1>1, RowsNone
<1>5. Rows(of, 1, <<>> \o t1, x)
  <2>1. 0 + 1 = 1 /\ 0 < Len(of) BY <1>1
  <2> QED BY <1>2, <1>4, <2>1, RowsMore
<1>6. Rows(of, 1, t1, x) BY <1>5, SeqNothing DEF Reads
<1>7. Rows(of, 2, t1 \o t2, x)
  <2>1. 1 + 1 = 2 /\ 1 < Len(of) BY <1>1
  <2> QED BY <1>2, <1>6, <2>1, RowsMore
<1> QED BY <1>1, <1>3, <1>7, RowsRead DEF of

LEMMA RowsThree ==
  ASSUME NEW x, NEW n1, NEW r1, NEW t1, Reads(r1, t1, x[n1]),
         NEW n2, NEW r2, NEW t2, Reads(r2, t2, x[n2]),
         NEW n3, NEW r3, NEW t3, Reads(r3, t3, x[n3]),
         IsRecord(x, {n1, n2, n3})
  PROVE  Reads(Fields(<< <<n1, r1>>, <<n2, r2>>, <<n3, r3>> >>), t1 \o t2 \o t3, x)
<1> DEFINE of == << <<n1, r1>>, <<n2, r2>>, <<n3, r3>> >>
<1>1. IsSeq(of) /\ Len(of) = 3 /\ DOMAIN of = 1..3
  <2>1. of \in Seq({of[1], of[2], of[3]}) /\ Len(of) = 3 OBVIOUS
  <2> HIDE DEF of
  <2>2. IsSeq(of) BY <2>1 DEF IsSeq
  <2> QED BY <2>1, <2>2, SeqDomain
<1>2. of[1] = <<n1, r1>> /\ of[2] = <<n2, r2>> /\ of[3] = <<n3, r3>> OBVIOUS
<1>3. {of[i][1] : i \in DOMAIN of} = {n1, n2, n3}
  <2>1. \A i \in 1..3 : i = 1 \/ i = 2 \/ i = 3 OBVIOUS
  <2> HIDE DEF of
  <2> QED BY <1>1, <1>2, <2>1
<1> HIDE DEF of
<1>4. Rows(of, 0, <<>>, x) BY <1>1, RowsNone
<1>5. Rows(of, 1, <<>> \o t1, x)
  <2>1. 0 + 1 = 1 /\ 0 < Len(of) BY <1>1
  <2> QED BY <1>2, <1>4, <2>1, RowsMore
<1>6. Rows(of, 1, t1, x) BY <1>5, SeqNothing DEF Reads
<1>7. Rows(of, 2, t1 \o t2, x)
  <2>1. 1 + 1 = 2 /\ 1 < Len(of) BY <1>1
  <2> QED BY <1>2, <1>6, <2>1, RowsMore
<1>8. Rows(of, 3, t1 \o t2 \o t3, x)
  <2>1. 2 + 1 = 3 /\ 2 < Len(of) BY <1>1
  <2> QED BY <1>2, <1>7, <2>1, RowsMore
<1> QED BY <1>1, <1>3, <1>8, RowsRead DEF of

LEMMA RowsFour ==
  ASSUME NEW x, NEW n1, NEW r1, NEW t1, Reads(r1, t1, x[n1]),
         NEW n2, NEW r2, NEW t2, Reads(r2, t2, x[n2]),
         NEW n3, NEW r3, NEW t3, Reads(r3, t3, x[n3]),
         NEW n4, NEW r4, NEW t4, Reads(r4, t4, x[n4]),
         IsRecord(x, {n1, n2, n3, n4})
  PROVE  Reads(Fields(<< <<n1, r1>>, <<n2, r2>>, <<n3, r3>>, <<n4, r4>> >>), t1 \o t2 \o
      t3 \o t4, x)
<1> DEFINE of == << <<n1, r1>>, <<n2, r2>>, <<n3, r3>>, <<n4, r4>> >>
<1>1. IsSeq(of) /\ Len(of) = 4 /\ DOMAIN of = 1..4
  <2>1. of \in Seq({of[1], of[2], of[3], of[4]}) /\ Len(of) = 4 OBVIOUS
  <2> HIDE DEF of
  <2>2. IsSeq(of) BY <2>1 DEF IsSeq
  <2> QED BY <2>1, <2>2, SeqDomain
<1>2. of[1] = <<n1, r1>> /\ of[2] = <<n2, r2>> /\ of[3] = <<n3, r3>> /\ of[4] =
      <<n4, r4>> OBVIOUS
<1>3. {of[i][1] : i \in DOMAIN of} = {n1, n2, n3, n4}
  <2>1. \A i \in 1..4 : i = 1 \/ i = 2 \/ i = 3 \/ i = 4 OBVIOUS
  <2> HIDE DEF of
  <2> QED BY <1>1, <1>2, <2>1
<1> HIDE DEF of
<1>4. Rows(of, 0, <<>>, x) BY <1>1, RowsNone
<1>5. Rows(of, 1, <<>> \o t1, x)
  <2>1. 0 + 1 = 1 /\ 0 < Len(of) BY <1>1
  <2> QED BY <1>2, <1>4, <2>1, RowsMore
<1>6. Rows(of, 1, t1, x) BY <1>5, SeqNothing DEF Reads
<1>7. Rows(of, 2, t1 \o t2, x)
  <2>1. 1 + 1 = 2 /\ 1 < Len(of) BY <1>1
  <2> QED BY <1>2, <1>6, <2>1, RowsMore
<1>8. Rows(of, 3, t1 \o t2 \o t3, x)
  <2>1. 2 + 1 = 3 /\ 2 < Len(of) BY <1>1
  <2> QED BY <1>2, <1>7, <2>1, RowsMore
<1>9. Rows(of, 4, t1 \o t2 \o t3 \o t4, x)
  <2>1. 3 + 1 = 4 /\ 3 < Len(of) BY <1>1
  <2> QED BY <1>2, <1>8, <2>1, RowsMore
<1> QED BY <1>1, <1>3, <1>9, RowsRead DEF of

LEMMA RowsFive ==
  ASSUME NEW x, NEW n1, NEW r1, NEW t1, Reads(r1, t1, x[n1]),
         NEW n2, NEW r2, NEW t2, Reads(r2, t2, x[n2]),
         NEW n3, NEW r3, NEW t3, Reads(r3, t3, x[n3]),
         NEW n4, NEW r4, NEW t4, Reads(r4, t4, x[n4]),
         NEW n5, NEW r5, NEW t5, Reads(r5, t5, x[n5]),
         IsRecord(x, {n1, n2, n3, n4, n5})
  PROVE  Reads(Fields(<< <<n1, r1>>, <<n2, r2>>, <<n3, r3>>, <<n4, r4>>, <<n5, r5>> >>),
      t1 \o t2 \o t3 \o t4 \o t5, x)
<1> DEFINE of == << <<n1, r1>>, <<n2, r2>>, <<n3, r3>>, <<n4, r4>>, <<n5, r5>> >>
<1>1. IsSeq(of) /\ Len(of) = 5 /\ DOMAIN of = 1..5
  <2>1. of \in Seq({of[1], of[2], of[3], of[4], of[5]}) /\ Len(of) = 5 OBVIOUS
  <2> HIDE DEF of
  <2>2. IsSeq(of) BY <2>1 DEF IsSeq
  <2> QED BY <2>1, <2>2, SeqDomain
<1>2. of[1] = <<n1, r1>> /\ of[2] = <<n2, r2>> /\ of[3] = <<n3, r3>> /\ of[4] =
      <<n4, r4>> /\ of[5] = <<n5, r5>> OBVIOUS
<1>3. {of[i][1] : i \in DOMAIN of} = {n1, n2, n3, n4, n5}
  <2>1. \A i \in 1..5 : i = 1 \/ i = 2 \/ i = 3 \/ i = 4 \/ i = 5 OBVIOUS
  <2> HIDE DEF of
  <2> QED BY <1>1, <1>2, <2>1
<1> HIDE DEF of
<1>4. Rows(of, 0, <<>>, x) BY <1>1, RowsNone
<1>5. Rows(of, 1, <<>> \o t1, x)
  <2>1. 0 + 1 = 1 /\ 0 < Len(of) BY <1>1
  <2> QED BY <1>2, <1>4, <2>1, RowsMore
<1>6. Rows(of, 1, t1, x) BY <1>5, SeqNothing DEF Reads
<1>7. Rows(of, 2, t1 \o t2, x)
  <2>1. 1 + 1 = 2 /\ 1 < Len(of) BY <1>1
  <2> QED BY <1>2, <1>6, <2>1, RowsMore
<1>8. Rows(of, 3, t1 \o t2 \o t3, x)
  <2>1. 2 + 1 = 3 /\ 2 < Len(of) BY <1>1
  <2> QED BY <1>2, <1>7, <2>1, RowsMore
<1>9. Rows(of, 4, t1 \o t2 \o t3 \o t4, x)
  <2>1. 3 + 1 = 4 /\ 3 < Len(of) BY <1>1
  <2> QED BY <1>2, <1>8, <2>1, RowsMore
<1>10. Rows(of, 5, t1 \o t2 \o t3 \o t4 \o t5, x)
  <2>1. 4 + 1 = 5 /\ 4 < Len(of) BY <1>1
  <2> QED BY <1>2, <1>9, <2>1, RowsMore
<1> QED BY <1>1, <1>3, <1>10, RowsRead DEF of

LEMMA RowsSix ==
  ASSUME NEW x, NEW n1, NEW r1, NEW t1, Reads(r1, t1, x[n1]),
         NEW n2, NEW r2, NEW t2, Reads(r2, t2, x[n2]),
         NEW n3, NEW r3, NEW t3, Reads(r3, t3, x[n3]),
         NEW n4, NEW r4, NEW t4, Reads(r4, t4, x[n4]),
         NEW n5, NEW r5, NEW t5, Reads(r5, t5, x[n5]),
         NEW n6, NEW r6, NEW t6, Reads(r6, t6, x[n6]),
         IsRecord(x, {n1, n2, n3, n4, n5, n6})
  PROVE  Reads(Fields(<< <<n1, r1>>, <<n2, r2>>, <<n3, r3>>, <<n4, r4>>, <<n5, r5>>,
      <<n6, r6>> >>), t1 \o t2 \o t3 \o t4 \o t5 \o t6, x)
<1> DEFINE of == << <<n1, r1>>, <<n2, r2>>, <<n3, r3>>, <<n4, r4>>, <<n5, r5>>,
      <<n6, r6>> >>
<1>1. IsSeq(of) /\ Len(of) = 6 /\ DOMAIN of = 1..6
  <2>1. of \in Seq({of[1], of[2], of[3], of[4], of[5], of[6]}) /\ Len(of) = 6 OBVIOUS
  <2> HIDE DEF of
  <2>2. IsSeq(of) BY <2>1 DEF IsSeq
  <2> QED BY <2>1, <2>2, SeqDomain
<1>2. of[1] = <<n1, r1>> /\ of[2] = <<n2, r2>> /\ of[3] = <<n3, r3>> /\ of[4] =
      <<n4, r4>> /\ of[5] = <<n5, r5>> /\ of[6] = <<n6, r6>> OBVIOUS
<1>3. {of[i][1] : i \in DOMAIN of} = {n1, n2, n3, n4, n5, n6}
  <2>1. \A i \in 1..6 : i = 1 \/ i = 2 \/ i = 3 \/ i = 4 \/ i = 5 \/ i = 6 OBVIOUS
  <2> HIDE DEF of
  <2> QED BY <1>1, <1>2, <2>1
<1> HIDE DEF of
<1>4. Rows(of, 0, <<>>, x) BY <1>1, RowsNone
<1>5. Rows(of, 1, <<>> \o t1, x)
  <2>1. 0 + 1 = 1 /\ 0 < Len(of) BY <1>1
  <2> QED BY <1>2, <1>4, <2>1, RowsMore
<1>6. Rows(of, 1, t1, x) BY <1>5, SeqNothing DEF Reads
<1>7. Rows(of, 2, t1 \o t2, x)
  <2>1. 1 + 1 = 2 /\ 1 < Len(of) BY <1>1
  <2> QED BY <1>2, <1>6, <2>1, RowsMore
<1>8. Rows(of, 3, t1 \o t2 \o t3, x)
  <2>1. 2 + 1 = 3 /\ 2 < Len(of) BY <1>1
  <2> QED BY <1>2, <1>7, <2>1, RowsMore
<1>9. Rows(of, 4, t1 \o t2 \o t3 \o t4, x)
  <2>1. 3 + 1 = 4 /\ 3 < Len(of) BY <1>1
  <2> QED BY <1>2, <1>8, <2>1, RowsMore
<1>10. Rows(of, 5, t1 \o t2 \o t3 \o t4 \o t5, x)
  <2>1. 4 + 1 = 5 /\ 4 < Len(of) BY <1>1
  <2> QED BY <1>2, <1>9, <2>1, RowsMore
<1>11. Rows(of, 6, t1 \o t2 \o t3 \o t4 \o t5 \o t6, x)
  <2>1. 5 + 1 = 6 /\ 5 < Len(of) BY <1>1
  <2> QED BY <1>2, <1>10, <2>1, RowsMore
<1> QED BY <1>1, <1>3, <1>11, RowsRead DEF of

-----------------------------------------------------------------------------
(* Lists, options and alternatives. *)

LEMMA ReadsListing ==
  ASSUME NEW of, NEW keep, NEW ss, NEW xs, Pieces(ss), IsSeq(xs), Len(xs) = Len(ss),
         \A i \in 1..Len(ss) : Reads(of, ss[i], xs[i])
  PROVE  Reads(Listing(of, keep), Token("count", Len(ss)) \o FlattenSeq(ss), Kept(keep, xs))
<1> DEFINE n == Len(ss)  head == Token("count", n)  body == FlattenSeq(ss)
           rs == [i \in 1..n |-> of]
<1>1. n \in Nat /\ IsSeq(ss) BY SeqDomain DEF Pieces
<1>2. IsSeq(head) /\ Len(head) = 1 BY TokenSeq
<1>3. IsSeq(body) BY FlatAppend, SeqEmpty
<1>4. Chain(rs, n, body, xs) /\ IsSeq(rs) /\ Len(rs) = n
  <2>1. rs \in [1..n -> {of}] /\ \A i \in 1..n : rs[i] = of OBVIOUS
  <2> HIDE DEF rs
  <2>2. IsSeq(rs) /\ Len(rs) = n BY <1>1, <2>1, SeqValues
  <2> QED BY <2>1, <2>2 DEF Chain
<1> HIDE DEF rs, n
<1>5. IsSeq(head \o body) /\ Len(head \o body) = 1 + Len(body)
  <2> HIDE DEF head, body
  <2> QED BY <1>2, <1>3, SeqConcat
<1>6. ASSUME NEW o \in Nat, At(head \o body, o)
      PROVE  Listing(of, keep)[o] = [val |-> Kept(keep, xs), end |-> o + Len(head \o body)]
  <2>1. At(head, o) /\ At(body, o + 1)
    <3> HIDE DEF head, body
    <3> QED BY <1>2, <1>3, <1>6, AtConcat
  <2>2. Take("count", o) = [val |-> n, end |-> o + 1] BY <2>1, TakeRead
  <2>3. n # Garbled BY <1>1, LayoutAssumption
  <2>4. ReadAll(rs, o + 1) = [val |-> xs, end |-> o + 1 + Len(body)]
    <3>1. o + 1 \in Nat /\ IsSeq(xs) /\ Len(xs) = Len(rs) BY <1>4 DEF n
    <3>2. Chain(rs, Len(rs), body, xs) BY <1>4
    <3> HIDE DEF head, body
    <3> QED BY ONLY <1>4, <2>1, <3>1, <3>2, ReadsAll
  <2>5. Len(body) \in Nat BY <1>3, SeqDomain
  <2>6. o + 1 + Len(body) = o + (1 + Len(body)) BY <2>5
  <2>7. Listing(of, keep)[o]
          = LET c == Take("count", o)
                all == ReadAll([i \in 1..(IF c.val = Garbled THEN 0 ELSE c.val) |-> of], c.end)
            IN [val |-> Kept(keep, all.val), end |-> all.end]
    BY DEF Listing
  <2>8. Listing(of, keep)[o] = [val |-> Kept(keep, ReadAll(rs, o + 1).val),
                                end |-> ReadAll(rs, o + 1).end]
    <3> DEFINE c == Take("count", o)
               m == IF c.val = Garbled THEN 0 ELSE c.val
    <3>1. c.val = n /\ c.end = o + 1 /\ m = n BY <2>2, <2>3
    <3>2. rs = [i \in 1..m |-> of] BY <3>1 DEF rs
    <3>3. Listing(of, keep)[o] = [val |-> Kept(keep, ReadAll([i \in 1..m |-> of], c.end).val),
                                  end |-> ReadAll([i \in 1..m |-> of], c.end).end]
      BY <2>7
    <3> HIDE DEF m, c
    <3> QED BY <3>1, <3>2, <3>3
  <2> HIDE DEF head, body
  <2> QED BY <1>5, <2>4, <2>6, <2>8
<1> HIDE DEF head, body
<1>7. Reads(Listing(of, keep), head \o body, Kept(keep, xs)) BY <1>5, <1>6 DEF Reads
<1> QED BY <1>7 DEF head, body, n

(* The pieces of a list, one for each element.                             *)
Elements(of, ss, xs) ==
  /\ xs \in Seq({xs[i] : i \in DOMAIN xs}) /\ ss \in [DOMAIN xs -> {ss[i] : i \in DOMAIN xs}]
  /\ \A i \in DOMAIN xs : Reads(of, ss[i], xs[i])

LEMMA ElementsPieces ==
  ASSUME NEW of, NEW ss, NEW xs, Elements(of, ss, xs)
  PROVE  /\ Pieces(ss) /\ IsSeq(xs) /\ Len(xs) = Len(ss)
         /\ \A i \in 1..Len(ss) : Reads(of, ss[i], xs[i])
<1>1. IsSeq(xs) BY DEF Elements, IsSeq
<1>2. Len(xs) \in Nat /\ DOMAIN xs = 1..Len(xs) BY <1>1, SeqDomain
<1>3. ss \in [1..Len(xs) -> {ss[i] : i \in DOMAIN xs}] BY <1>2 DEF Elements
<1>4. IsSeq(ss) /\ Len(ss) = Len(xs) BY <1>2, <1>3, SeqValues
<1>5. \A i \in 1..Len(ss) : Reads(of, ss[i], xs[i]) BY <1>2, <1>4 DEF Elements
<1>6. Pieces(ss) BY <1>4, <1>5 DEF Pieces, Reads
<1> QED BY <1>1, <1>4, <1>5, <1>6

LEMMA ReadsList ==
  ASSUME NEW of, NEW ss, NEW xs, Elements(of, ss, xs)
  PROVE  Reads(List(of), Token("count", Len(xs)) \o FlattenSeq(ss), xs)
<1>1. Kept("empty", xs) = xs BY DEF Kept
<1> QED BY <1>1, ElementsPieces, ReadsListing DEF List

(* A list that is not kept when it is empty.                               *)
LEMMA ReadsMany ==
  ASSUME NEW of, NEW ss, NEW xs, Elements(of, ss, xs)
  PROVE  Reads(Many(of), Token("count", Len(xs)) \o FlattenSeq(ss),
               IF xs = <<>> THEN None ELSE xs)
<1>1. Kept("nil", xs) = IF xs = <<>> THEN None ELSE xs BY DEF Kept
<1>2. Reads(Listing(of, "nil"), Token("count", Len(xs)) \o FlattenSeq(ss), Kept("nil", xs))
  BY ElementsPieces, ReadsListing
<1> QED BY <1>1, <1>2 DEF Many

LEMMA ReadsLastOf ==
  ASSUME NEW of, NEW ss, NEW xs, Elements(of, ss, xs)
  PROVE  Reads(LastOf(of), Token("count", Len(xs)) \o FlattenSeq(ss),
               IF xs = <<>> THEN None ELSE <<xs[Len(xs)]>>)
<1>1. Kept("last", xs) = IF xs = <<>> THEN None ELSE <<xs[Len(xs)]>> BY DEF Kept
<1>2. Reads(Listing(of, "last"), Token("count", Len(xs)) \o FlattenSeq(ss), Kept("last", xs))
  BY ElementsPieces, ReadsListing
<1> QED BY <1>1, <1>2 DEF LastOf

(* A list that is nil when it is empty, element by element.                *)
LEMMA ReadsNil ==
  ASSUME NEW of, NEW x, x # None => x # <<>>, NEW ss, Elements(of, ss, OrEmpty(x))
  PROVE  Reads(Many(of), Token("count", Len(OrEmpty(x))) \o FlattenSeq(ss), x)
<1> DEFINE xs == OrEmpty(x)
<1>1. (IF xs = <<>> THEN None ELSE xs) = x BY DEF OrEmpty
<1>2. Elements(of, ss, xs) OBVIOUS
<1> HIDE DEF xs
<1>3. Reads(Many(of), Token("count", Len(xs)) \o FlattenSeq(ss), IF xs = <<>> THEN None ELSE xs)
  BY <1>2, ReadsMany
<1>4. Reads(Many(of), Token("count", Len(xs)) \o FlattenSeq(ss), x) BY <1>1, <1>3
<1> QED BY <1>4 DEF xs

LEMMA NilList ==
  ASSUME NEW x, x # None => x \in Seq({x[i] : i \in DOMAIN x})
  PROVE  OrEmpty(x) \in Seq({OrEmpty(x)[i] : i \in DOMAIN OrEmpty(x)})
<1>1. CASE x = None
  <2>1. <<>> \in Seq({<<>>[i] : i \in DOMAIN <<>>}) OBVIOUS
  <2> QED BY <1>1, <2>1 DEF OrEmpty
<1>2. CASE x # None BY <1>2 DEF OrEmpty
<1> QED BY <1>1, <1>2

(* Options. *)

LEMMA ReadsSome ==
  ASSUME NEW of, NEW s, NEW x, Reads(of, s, x)
  PROVE  Reads(If(of), Token("bool", TRUE) \o s, x)
<1> DEFINE head == Token("bool", TRUE)
<1>1. IsSeq(head) /\ Len(head) = 1 /\ IsSeq(s) /\ Len(s) \in Nat
  BY TokenSeq, SeqDomain DEF Reads
<1>2. ASSUME NEW o \in Nat, At(head \o s, o)
      PROVE  If(of)[o] = [val |-> x, end |-> o + Len(head \o s)]
  <2>1. At(head, o) /\ At(s, o + 1)
    <3> HIDE DEF head
    <3> QED BY <1>1, <1>2, AtConcat
  <2>2. Take("bool", o) = [val |-> TRUE, end |-> o + 1] BY <2>1, TakeRead
  <2>3. of[o + 1] = [val |-> x, end |-> o + 1 + Len(s)] BY <2>1 DEF Reads
  <2>4. Len(head \o s) = 1 + Len(s)
    <3> HIDE DEF head
    <3> QED BY <1>1, SeqConcat
  <2>5. If(of)[o] = LET b == Take("bool", o)
                    IN IF b.val = TRUE THEN of[b.end] ELSE [val |-> None, end |-> b.end]
    BY DEF If
  <2> HIDE DEF head
  <2> QED BY <1>1, <2>2, <2>3, <2>4, <2>5
<1> HIDE DEF head
<1>3. IsSeq(head \o s) BY <1>1, SeqConcat
<1>4. Reads(If(of), head \o s, x) BY <1>2, <1>3 DEF Reads
<1> QED BY <1>4 DEF head

LEMMA ReadsNone == ASSUME NEW of PROVE Reads(If(of), Token("bool", FALSE), None)
<1>1. IsSeq(Token("bool", FALSE)) /\ Len(Token("bool", FALSE)) = 1 BY TokenSeq
<1>2. ASSUME NEW o \in Nat, At(Token("bool", FALSE), o)
      PROVE  If(of)[o] = [val |-> None, end |-> o + 1]
  <2>1. Take("bool", o) = [val |-> FALSE, end |-> o + 1] BY <1>2, TakeRead
  <2>2. If(of)[o] = LET b == Take("bool", o)
                    IN IF b.val = TRUE THEN of[b.end] ELSE [val |-> None, end |-> b.end]
    BY DEF If
  <2> QED BY <2>1, <2>2
<1> QED BY <1>1, <1>2 DEF Reads

(* A tag, and the readers of that form one after the other.                *)
LEMMA ReadsCase ==
  ASSUME NEW kind, kind # "type", NEW of, NEW tag, NEW rs, NEW s, NEW xs,
         rs = IF tag \in DOMAIN of THEN of[tag] ELSE <<>>,
         IsSeq(rs), IsSeq(xs), Len(xs) = Len(rs), Chain(rs, Len(rs), s, xs)
  PROVE  Reads(Case(kind, of), Token(kind, tag) \o s, <<tag>> \o xs)
<1> DEFINE head == Token(kind, tag)
<1>0. IsSeq(rs) /\ IsSeq(xs) /\ Len(xs) = Len(rs) /\ Chain(rs, Len(rs), s, xs) OBVIOUS
<1>1. IsSeq(head) /\ Len(head) = 1 /\ IsSeq(s) /\ Len(s) \in Nat
  BY TokenSeq, ChainSeq, SeqDomain
<1>2. ASSUME NEW o \in Nat, At(head \o s, o)
      PROVE  Case(kind, of)[o] = [val |-> <<tag>> \o xs, end |-> o + Len(head \o s)]
  <2>1. At(head, o) /\ At(s, o + 1)
    <3> HIDE DEF head
    <3> QED BY <1>1, <1>2, AtConcat
  <2>2. Take(kind, o) = [val |-> tag, end |-> o + 1] BY <2>1, TakeRead
  <2>3. ReadAll(rs, o + 1) = [val |-> xs, end |-> o + 1 + Len(s)]
    <3>1. o + 1 \in Nat OBVIOUS
    <3> QED BY ONLY <1>0, <2>1, <3>1, ReadsAll
  <2>4. Len(head \o s) = 1 + Len(s)
    <3> HIDE DEF head
    <3> QED BY <1>1, SeqConcat
  <2>5. Case(kind, of)[o]
          = LET t == Take(kind, o)
                body == ReadAll(IF t.val \in DOMAIN of THEN of[t.val] ELSE <<>>, t.end)
            IN [val |-> <<t.val>> \o body.val, end |-> body.end]
    BY DEF Case
  <2>6. Case(kind, of)[o] = [val |-> <<tag>> \o ReadAll(rs, o + 1).val,
                             end |-> ReadAll(rs, o + 1).end]
    BY <2>2, <2>5
  <2>7. o + 1 + Len(s) = o + (1 + Len(s)) BY <1>1
  <2> DEFINE body == ReadAll(rs, o + 1)
  <2>8. body.val = xs /\ body.end = o + Len(head \o s) BY <2>3, <2>4, <2>7
  <2>9. Case(kind, of)[o] = [val |-> <<tag>> \o body.val, end |-> body.end] BY <2>6
  <2> HIDE DEF head, body
  <2> QED BY ONLY <2>8, <2>9
<1> HIDE DEF head
<1>3. IsSeq(head \o s) BY <1>1, SeqConcat
<1>4. Reads(Case(kind, of), head \o s, <<tag>> \o xs) BY <1>2, <1>3 DEF Reads
<1> QED BY <1>4 DEF head

LEMMA ReadsOther ==
  ASSUME NEW kind, kind # "type", NEW of, NEW tag, tag \notin DOMAIN of
  PROVE  Reads(Case(kind, of), Token(kind, tag) \o <<>>, <<tag>>)
<1>1. <<tag>> \o <<>> = <<tag>> OBVIOUS
<1> DEFINE rs == <<>>
<1>2. IsSeq(rs) /\ Len(rs) = 0 BY SeqEmpty
<1>3. rs = IF tag \in DOMAIN of THEN of[tag] ELSE <<>> OBVIOUS
<1> HIDE DEF rs
<1>4. Chain(rs, Len(rs), <<>>, <<>>) BY <1>2, ChainNone
<1>5. IsSeq(<<>>) /\ Len(<<>>) = Len(rs) BY <1>2, SeqEmpty
<1>6. Reads(Case(kind, of), Token(kind, tag) \o <<>>, <<tag>> \o <<>>)
  BY <1>2, <1>3, <1>4, <1>5, ReadsCase
<1> QED BY <1>1, <1>6

LEMMA TagOfOne ==
  ASSUME NEW tag, NEW x1
  PROVE  <<tag>> \o <<x1>> = <<tag, x1>>
<1> DEFINE a == <<tag>>  b == <<x1>>  u == <<tag, x1>>
<1>1. a \in Seq({tag}) /\ Len(a) = 1 /\ a[1] = tag OBVIOUS
<1>2. b \in Seq({x1}) /\ Len(b) = 1 OBVIOUS
<1>3. u \in Seq({tag, x1}) /\ Len(u) = 2 OBVIOUS
<1>4. u[1] = tag /\ u[2] = b[1] OBVIOUS
<1> HIDE DEF a, b, u
<1>5. IsSeq(a) /\ IsSeq(b) /\ IsSeq(u) BY <1>1, <1>2, <1>3 DEF IsSeq
<1>6. /\ IsSeq(a \o b) /\ Len(a \o b) = 2
      /\ \A i \in 1..2 : (a \o b)[i] = IF i <= 1 THEN a[i] ELSE b[i - 1]
  <2>1. /\ IsSeq(a \o b) /\ Len(a \o b) = Len(a) + Len(b)
        /\ \A i \in 1..(Len(a) + Len(b)) :
             (a \o b)[i] = IF i <= Len(a) THEN a[i] ELSE b[i - Len(a)]
    BY <1>5, SeqConcat
  <2> QED BY <1>1, <1>2, <2>1
<1>7. \A i \in 1..2 : i = 1 \/ i = 2 OBVIOUS
<1>8. \A i \in 1..2 : (a \o b)[i] = u[i] BY <1>1, <1>4, <1>6, <1>7
<1>9. a \o b = u BY <1>3, <1>5, <1>6, <1>8, SeqSame
<1> QED BY <1>9 DEF a, b, u

LEMMA CaseOne ==
  ASSUME NEW kind, kind # "type", NEW of, NEW tag \in DOMAIN of,
         NEW r1, NEW t1, NEW x1, Reads(r1, t1, x1),
         of[tag] = <<r1>>
  PROVE  Reads(Case(kind, of), Token(kind, tag) \o t1, <<tag, x1>>)
<1> DEFINE rs == <<r1>>  xs == <<x1>>
<1>1. IsSeq(rs) /\ Len(rs) = 1 /\ IsSeq(xs) /\ Len(xs) = 1
  <2>1. rs \in Seq({r1}) /\ Len(rs) = 1 OBVIOUS
  <2>2. xs \in Seq({x1}) /\ Len(xs) = 1 OBVIOUS
  <2> HIDE DEF rs, xs
  <2> QED BY <2>1, <2>2 DEF IsSeq
<1>2. rs[1] = r1 OBVIOUS
<1>3. xs[1] = x1 OBVIOUS
<1>4. <<tag>> \o xs = <<tag, x1>> BY TagOfOne
<1>5. rs = IF tag \in DOMAIN of THEN of[tag] ELSE <<>> OBVIOUS
<1> HIDE DEF rs, xs
<1>6. Chain(rs, 1, <<>> \o t1, xs)
  <2>1. Chain(rs, 0, <<>>, xs) /\ 0 + 1 = 1 BY ChainNone
  <2> QED BY <1>2, <1>3, <2>1, ChainMore
<1>7. Chain(rs, 1, t1, xs) BY <1>6, SeqNothing DEF Reads
<1>8. Reads(Case(kind, of), Token(kind, tag) \o t1, <<tag>> \o xs)
  BY <1>1, <1>5, <1>7, ReadsCase
<1> QED BY <1>4, <1>8

LEMMA TagOfTwo ==
  ASSUME NEW tag, NEW x1, NEW x2
  PROVE  <<tag>> \o <<x1, x2>> = <<tag, x1, x2>>
<1> DEFINE a == <<tag>>  b == <<x1, x2>>  u == <<tag, x1, x2>>
<1>1. a \in Seq({tag}) /\ Len(a) = 1 /\ a[1] = tag OBVIOUS
<1>2. b \in Seq({x1, x2}) /\ Len(b) = 2 OBVIOUS
<1>3. u \in Seq({tag, x1, x2}) /\ Len(u) = 3 OBVIOUS
<1>4. u[1] = tag /\ u[2] = b[1] /\ u[3] = b[2] OBVIOUS
<1> HIDE DEF a, b, u
<1>5. IsSeq(a) /\ IsSeq(b) /\ IsSeq(u) BY <1>1, <1>2, <1>3 DEF IsSeq
<1>6. /\ IsSeq(a \o b) /\ Len(a \o b) = 3
      /\ \A i \in 1..3 : (a \o b)[i] = IF i <= 1 THEN a[i] ELSE b[i - 1]
  <2>1. /\ IsSeq(a \o b) /\ Len(a \o b) = Len(a) + Len(b)
        /\ \A i \in 1..(Len(a) + Len(b)) :
             (a \o b)[i] = IF i <= Len(a) THEN a[i] ELSE b[i - Len(a)]
    BY <1>5, SeqConcat
  <2> QED BY <1>1, <1>2, <2>1
<1>7. \A i \in 1..3 : i = 1 \/ i = 2 \/ i = 3 OBVIOUS
<1>8. \A i \in 1..3 : (a \o b)[i] = u[i] BY <1>1, <1>4, <1>6, <1>7
<1>9. a \o b = u BY <1>3, <1>5, <1>6, <1>8, SeqSame
<1> QED BY <1>9 DEF a, b, u

LEMMA CaseTwo ==
  ASSUME NEW kind, kind # "type", NEW of, NEW tag \in DOMAIN of,
         NEW r1, NEW t1, NEW x1, Reads(r1, t1, x1),
         NEW r2, NEW t2, NEW x2, Reads(r2, t2, x2),
         of[tag] = <<r1, r2>>
  PROVE  Reads(Case(kind, of), Token(kind, tag) \o (t1 \o t2), <<tag, x1, x2>>)
<1> DEFINE rs == <<r1, r2>>  xs == <<x1, x2>>
<1>1. IsSeq(rs) /\ Len(rs) = 2 /\ IsSeq(xs) /\ Len(xs) = 2
  <2>1. rs \in Seq({r1, r2}) /\ Len(rs) = 2 OBVIOUS
  <2>2. xs \in Seq({x1, x2}) /\ Len(xs) = 2 OBVIOUS
  <2> HIDE DEF rs, xs
  <2> QED BY <2>1, <2>2 DEF IsSeq
<1>2. rs[1] = r1 /\ rs[2] = r2 OBVIOUS
<1>3. xs[1] = x1 /\ xs[2] = x2 OBVIOUS
<1>4. <<tag>> \o xs = <<tag, x1, x2>> BY TagOfTwo
<1>5. rs = IF tag \in DOMAIN of THEN of[tag] ELSE <<>> OBVIOUS
<1> HIDE DEF rs, xs
<1>6. Chain(rs, 1, <<>> \o t1, xs)
  <2>1. Chain(rs, 0, <<>>, xs) /\ 0 + 1 = 1 BY ChainNone
  <2> QED BY <1>2, <1>3, <2>1, ChainMore
<1>7. Chain(rs, 1, t1, xs) BY <1>6, SeqNothing DEF Reads
<1>8. Chain(rs, 2, t1 \o t2, xs)
  <2>1. 1 + 1 = 2 OBVIOUS
  <2> QED BY <1>2, <1>3, <1>7, <2>1, ChainMore
<1>9. Reads(Case(kind, of), Token(kind, tag) \o (t1 \o t2), <<tag>> \o xs)
  BY <1>1, <1>5, <1>8, ReadsCase
<1> QED BY <1>4, <1>9

LEMMA TagOfThree ==
  ASSUME NEW tag, NEW x1, NEW x2, NEW x3
  PROVE  <<tag>> \o <<x1, x2, x3>> = <<tag, x1, x2, x3>>
<1> DEFINE a == <<tag>>  b == <<x1, x2, x3>>  u == <<tag, x1, x2, x3>>
<1>1. a \in Seq({tag}) /\ Len(a) = 1 /\ a[1] = tag OBVIOUS
<1>2. b \in Seq({x1, x2, x3}) /\ Len(b) = 3 OBVIOUS
<1>3. u \in Seq({tag, x1, x2, x3}) /\ Len(u) = 4 OBVIOUS
<1>4. u[1] = tag /\ u[2] = b[1] /\ u[3] = b[2] /\ u[4] = b[3] OBVIOUS
<1> HIDE DEF a, b, u
<1>5. IsSeq(a) /\ IsSeq(b) /\ IsSeq(u) BY <1>1, <1>2, <1>3 DEF IsSeq
<1>6. /\ IsSeq(a \o b) /\ Len(a \o b) = 4
      /\ \A i \in 1..4 : (a \o b)[i] = IF i <= 1 THEN a[i] ELSE b[i - 1]
  <2>1. /\ IsSeq(a \o b) /\ Len(a \o b) = Len(a) + Len(b)
        /\ \A i \in 1..(Len(a) + Len(b)) :
             (a \o b)[i] = IF i <= Len(a) THEN a[i] ELSE b[i - Len(a)]
    BY <1>5, SeqConcat
  <2> QED BY <1>1, <1>2, <2>1
<1>7. \A i \in 1..4 : i = 1 \/ i = 2 \/ i = 3 \/ i = 4 OBVIOUS
<1>8. \A i \in 1..4 : (a \o b)[i] = u[i] BY <1>1, <1>4, <1>6, <1>7
<1>9. a \o b = u BY <1>3, <1>5, <1>6, <1>8, SeqSame
<1> QED BY <1>9 DEF a, b, u

LEMMA CaseThree ==
  ASSUME NEW kind, kind # "type", NEW of, NEW tag \in DOMAIN of,
         NEW r1, NEW t1, NEW x1, Reads(r1, t1, x1),
         NEW r2, NEW t2, NEW x2, Reads(r2, t2, x2),
         NEW r3, NEW t3, NEW x3, Reads(r3, t3, x3),
         of[tag] = <<r1, r2, r3>>
  PROVE  Reads(Case(kind, of), Token(kind, tag) \o (t1 \o t2 \o t3), <<tag, x1, x2, x3>>)
<1> DEFINE rs == <<r1, r2, r3>>  xs == <<x1, x2, x3>>
<1>1. IsSeq(rs) /\ Len(rs) = 3 /\ IsSeq(xs) /\ Len(xs) = 3
  <2>1. rs \in Seq({r1, r2, r3}) /\ Len(rs) = 3 OBVIOUS
  <2>2. xs \in Seq({x1, x2, x3}) /\ Len(xs) = 3 OBVIOUS
  <2> HIDE DEF rs, xs
  <2> QED BY <2>1, <2>2 DEF IsSeq
<1>2. rs[1] = r1 /\ rs[2] = r2 /\ rs[3] = r3 OBVIOUS
<1>3. xs[1] = x1 /\ xs[2] = x2 /\ xs[3] = x3 OBVIOUS
<1>4. <<tag>> \o xs = <<tag, x1, x2, x3>> BY TagOfThree
<1>5. rs = IF tag \in DOMAIN of THEN of[tag] ELSE <<>> OBVIOUS
<1> HIDE DEF rs, xs
<1>6. Chain(rs, 1, <<>> \o t1, xs)
  <2>1. Chain(rs, 0, <<>>, xs) /\ 0 + 1 = 1 BY ChainNone
  <2> QED BY <1>2, <1>3, <2>1, ChainMore
<1>7. Chain(rs, 1, t1, xs) BY <1>6, SeqNothing DEF Reads
<1>8. Chain(rs, 2, t1 \o t2, xs)
  <2>1. 1 + 1 = 2 OBVIOUS
  <2> QED BY <1>2, <1>3, <1>7, <2>1, ChainMore
<1>9. Chain(rs, 3, t1 \o t2 \o t3, xs)
  <2>1. 2 + 1 = 3 OBVIOUS
  <2> QED BY <1>2, <1>3, <1>8, <2>1, ChainMore
<1>10. Reads(Case(kind, of), Token(kind, tag) \o (t1 \o t2 \o t3), <<tag>> \o xs)
  BY <1>1, <1>5, <1>9, ReadsCase
<1> QED BY <1>4, <1>10

LEMMA TagOfFour ==
  ASSUME NEW tag, NEW x1, NEW x2, NEW x3, NEW x4
  PROVE  <<tag>> \o <<x1, x2, x3, x4>> = <<tag, x1, x2, x3, x4>>
<1> DEFINE a == <<tag>>  b == <<x1, x2, x3, x4>>  u == <<tag, x1, x2, x3, x4>>
<1>1. a \in Seq({tag}) /\ Len(a) = 1 /\ a[1] = tag OBVIOUS
<1>2. b \in Seq({x1, x2, x3, x4}) /\ Len(b) = 4 OBVIOUS
<1>3. u \in Seq({tag, x1, x2, x3, x4}) /\ Len(u) = 5 OBVIOUS
<1>4. u[1] = tag /\ u[2] = b[1] /\ u[3] = b[2] /\ u[4] = b[3] /\ u[5] = b[4] OBVIOUS
<1> HIDE DEF a, b, u
<1>5. IsSeq(a) /\ IsSeq(b) /\ IsSeq(u) BY <1>1, <1>2, <1>3 DEF IsSeq
<1>6. /\ IsSeq(a \o b) /\ Len(a \o b) = 5
      /\ \A i \in 1..5 : (a \o b)[i] = IF i <= 1 THEN a[i] ELSE b[i - 1]
  <2>1. /\ IsSeq(a \o b) /\ Len(a \o b) = Len(a) + Len(b)
        /\ \A i \in 1..(Len(a) + Len(b)) :
             (a \o b)[i] = IF i <= Len(a) THEN a[i] ELSE b[i - Len(a)]
    BY <1>5, SeqConcat
  <2> QED BY <1>1, <1>2, <2>1
<1>7. \A i \in 1..5 : i = 1 \/ i = 2 \/ i = 3 \/ i = 4 \/ i = 5 OBVIOUS
<1>8. \A i \in 1..5 : (a \o b)[i] = u[i] BY <1>1, <1>4, <1>6, <1>7
<1>9. a \o b = u BY <1>3, <1>5, <1>6, <1>8, SeqSame
<1> QED BY <1>9 DEF a, b, u

LEMMA CaseFour ==
  ASSUME NEW kind, kind # "type", NEW of, NEW tag \in DOMAIN of,
         NEW r1, NEW t1, NEW x1, Reads(r1, t1, x1),
         NEW r2, NEW t2, NEW x2, Reads(r2, t2, x2),
         NEW r3, NEW t3, NEW x3, Reads(r3, t3, x3),
         NEW r4, NEW t4, NEW x4, Reads(r4, t4, x4),
         of[tag] = <<r1, r2, r3, r4>>
  PROVE  Reads(Case(kind, of), Token(kind, tag) \o (t1 \o t2 \o t3 \o t4),
      <<tag, x1, x2, x3, x4>>)
<1> DEFINE rs == <<r1, r2, r3, r4>>  xs == <<x1, x2, x3, x4>>
<1>1. IsSeq(rs) /\ Len(rs) = 4 /\ IsSeq(xs) /\ Len(xs) = 4
  <2>1. rs \in Seq({r1, r2, r3, r4}) /\ Len(rs) = 4 OBVIOUS
  <2>2. xs \in Seq({x1, x2, x3, x4}) /\ Len(xs) = 4 OBVIOUS
  <2> HIDE DEF rs, xs
  <2> QED BY <2>1, <2>2 DEF IsSeq
<1>2. rs[1] = r1 /\ rs[2] = r2 /\ rs[3] = r3 /\ rs[4] = r4 OBVIOUS
<1>3. xs[1] = x1 /\ xs[2] = x2 /\ xs[3] = x3 /\ xs[4] = x4 OBVIOUS
<1>4. <<tag>> \o xs = <<tag, x1, x2, x3, x4>> BY TagOfFour
<1>5. rs = IF tag \in DOMAIN of THEN of[tag] ELSE <<>> OBVIOUS
<1> HIDE DEF rs, xs
<1>6. Chain(rs, 1, <<>> \o t1, xs)
  <2>1. Chain(rs, 0, <<>>, xs) /\ 0 + 1 = 1 BY ChainNone
  <2> QED BY <1>2, <1>3, <2>1, ChainMore
<1>7. Chain(rs, 1, t1, xs) BY <1>6, SeqNothing DEF Reads
<1>8. Chain(rs, 2, t1 \o t2, xs)
  <2>1. 1 + 1 = 2 OBVIOUS
  <2> QED BY <1>2, <1>3, <1>7, <2>1, ChainMore
<1>9. Chain(rs, 3, t1 \o t2 \o t3, xs)
  <2>1. 2 + 1 = 3 OBVIOUS
  <2> QED BY <1>2, <1>3, <1>8, <2>1, ChainMore
<1>10. Chain(rs, 4, t1 \o t2 \o t3 \o t4, xs)
  <2>1. 3 + 1 = 4 OBVIOUS
  <2> QED BY <1>2, <1>3, <1>9, <2>1, ChainMore
<1>11. Reads(Case(kind, of), Token(kind, tag) \o (t1 \o t2 \o t3 \o t4), <<tag>> \o xs)
  BY <1>1, <1>5, <1>10, ReadsCase
<1> QED BY <1>4, <1>11

LEMMA TagOfFive ==
  ASSUME NEW tag, NEW x1, NEW x2, NEW x3, NEW x4, NEW x5
  PROVE  <<tag>> \o <<x1, x2, x3, x4, x5>> = <<tag, x1, x2, x3, x4, x5>>
<1> DEFINE a == <<tag>>  b == <<x1, x2, x3, x4, x5>>  u == <<tag, x1, x2, x3, x4, x5>>
<1>1. a \in Seq({tag}) /\ Len(a) = 1 /\ a[1] = tag OBVIOUS
<1>2. b \in Seq({x1, x2, x3, x4, x5}) /\ Len(b) = 5 OBVIOUS
<1>3. u \in Seq({tag, x1, x2, x3, x4, x5}) /\ Len(u) = 6 OBVIOUS
<1>4. u[1] = tag /\ u[2] = b[1] /\ u[3] = b[2] /\ u[4] = b[3] /\ u[5] = b[4]
      /\ u[6] = b[5] OBVIOUS
<1> HIDE DEF a, b, u
<1>5. IsSeq(a) /\ IsSeq(b) /\ IsSeq(u) BY <1>1, <1>2, <1>3 DEF IsSeq
<1>6. /\ IsSeq(a \o b) /\ Len(a \o b) = 6
      /\ \A i \in 1..6 : (a \o b)[i] = IF i <= 1 THEN a[i] ELSE b[i - 1]
  <2>1. /\ IsSeq(a \o b) /\ Len(a \o b) = Len(a) + Len(b)
        /\ \A i \in 1..(Len(a) + Len(b)) :
             (a \o b)[i] = IF i <= Len(a) THEN a[i] ELSE b[i - Len(a)]
    BY <1>5, SeqConcat
  <2> QED BY <1>1, <1>2, <2>1
<1>7. \A i \in 1..6 : i = 1 \/ i = 2 \/ i = 3 \/ i = 4 \/ i = 5 \/ i = 6 OBVIOUS
<1>8. \A i \in 1..6 : (a \o b)[i] = u[i] BY <1>1, <1>4, <1>6, <1>7
<1>9. a \o b = u BY <1>3, <1>5, <1>6, <1>8, SeqSame
<1> QED BY <1>9 DEF a, b, u

LEMMA CaseFive ==
  ASSUME NEW kind, kind # "type", NEW of, NEW tag \in DOMAIN of,
         NEW r1, NEW t1, NEW x1, Reads(r1, t1, x1),
         NEW r2, NEW t2, NEW x2, Reads(r2, t2, x2),
         NEW r3, NEW t3, NEW x3, Reads(r3, t3, x3),
         NEW r4, NEW t4, NEW x4, Reads(r4, t4, x4),
         NEW r5, NEW t5, NEW x5, Reads(r5, t5, x5),
         of[tag] = <<r1, r2, r3, r4, r5>>
  PROVE  Reads(Case(kind, of), Token(kind, tag) \o (t1 \o t2 \o t3 \o t4 \o t5),
      <<tag, x1, x2, x3, x4, x5>>)
<1> DEFINE rs == <<r1, r2, r3, r4, r5>>  xs == <<x1, x2, x3, x4, x5>>
<1>1. IsSeq(rs) /\ Len(rs) = 5 /\ IsSeq(xs) /\ Len(xs) = 5
  <2>1. rs \in Seq({r1, r2, r3, r4, r5}) /\ Len(rs) = 5 OBVIOUS
  <2>2. xs \in Seq({x1, x2, x3, x4, x5}) /\ Len(xs) = 5 OBVIOUS
  <2> HIDE DEF rs, xs
  <2> QED BY <2>1, <2>2 DEF IsSeq
<1>2. rs[1] = r1 /\ rs[2] = r2 /\ rs[3] = r3 /\ rs[4] = r4 /\ rs[5] = r5 OBVIOUS
<1>3. xs[1] = x1 /\ xs[2] = x2 /\ xs[3] = x3 /\ xs[4] = x4 /\ xs[5] = x5 OBVIOUS
<1>4. <<tag>> \o xs = <<tag, x1, x2, x3, x4, x5>> BY TagOfFive
<1>5. rs = IF tag \in DOMAIN of THEN of[tag] ELSE <<>> OBVIOUS
<1> HIDE DEF rs, xs
<1>6. Chain(rs, 1, <<>> \o t1, xs)
  <2>1. Chain(rs, 0, <<>>, xs) /\ 0 + 1 = 1 BY ChainNone
  <2> QED BY <1>2, <1>3, <2>1, ChainMore
<1>7. Chain(rs, 1, t1, xs) BY <1>6, SeqNothing DEF Reads
<1>8. Chain(rs, 2, t1 \o t2, xs)
  <2>1. 1 + 1 = 2 OBVIOUS
  <2> QED BY <1>2, <1>3, <1>7, <2>1, ChainMore
<1>9. Chain(rs, 3, t1 \o t2 \o t3, xs)
  <2>1. 2 + 1 = 3 OBVIOUS
  <2> QED BY <1>2, <1>3, <1>8, <2>1, ChainMore
<1>10. Chain(rs, 4, t1 \o t2 \o t3 \o t4, xs)
  <2>1. 3 + 1 = 4 OBVIOUS
  <2> QED BY <1>2, <1>3, <1>9, <2>1, ChainMore
<1>11. Chain(rs, 5, t1 \o t2 \o t3 \o t4 \o t5, xs)
  <2>1. 4 + 1 = 5 OBVIOUS
  <2> QED BY <1>2, <1>3, <1>10, <2>1, ChainMore
<1>12. Reads(Case(kind, of), Token(kind, tag) \o (t1 \o t2 \o t3 \o t4 \o t5), <<tag>>
      \o xs)
  BY <1>1, <1>5, <1>11, ReadsCase
<1> QED BY <1>4, <1>12

-----------------------------------------------------------------------------
(* The items of pallets, version by version. *)

LEMMA ReadsTexts ==
  ASSUME NEW x, IsNil(IsAny, x)
  PROVE  Reads(Many(Text), WriteNil(WriteText, x), x)
<1> DEFINE xs == OrEmpty(x)
           ss == [i \in DOMAIN xs |-> WriteText(xs[i])]
<1>1. WriteNil(WriteText, x) = Token("count", Len(xs)) \o FlattenSeq(ss)
  BY DEF WriteNil, WriteList
<1>2. x # None => x # <<>> /\ x \in Seq({x[i] : i \in DOMAIN x}) BY DEF IsNil, IsList
<1>3. Elements(Text, ss, xs)
  <2>1. xs \in Seq({xs[i] : i \in DOMAIN xs}) BY <1>2, NilList
  <2>2. \A i \in DOMAIN xs : Reads(Text, ss[i], xs[i]) BY ReadsText
  <2>3. ss \in [DOMAIN xs -> {ss[i] : i \in DOMAIN xs}] OBVIOUS
  <2> HIDE DEF xs, ss
  <2> QED BY <2>1, <2>2, <2>3 DEF Elements
<1> HIDE DEF ss
<1>4. Reads(Many(Text), Token("count", Len(xs)) \o FlattenSeq(ss), x) BY <1>2, <1>3,
     ReadsNil
<1> QED BY <1>1, <1>4

LEMMA ReadsDocs == ASSUME NEW x, IsNil(IsAny, x) PROVE Reads(Docs, WriteDocs(x), x)
BY ReadsTexts DEF Docs, WriteDocs

LEMMA ReadsLines ==
  ASSUME NEW x, IsList(IsAny, x)
  PROVE  Reads(List(Text), WriteDocs(x), x)
<1> DEFINE xs == OrEmpty(x)
           ss == [i \in DOMAIN xs |-> WriteText(xs[i])]
<1>1. WriteDocs(x) = Token("count", Len(xs)) \o FlattenSeq(ss)
  BY DEF WriteDocs, WriteNil, WriteList
<1>2. x # None /\ x \in Seq({x[i] : i \in DOMAIN x}) BY DEF IsList
<1>3. Elements(Text, ss, xs)
  <2>1. xs \in Seq({xs[i] : i \in DOMAIN xs}) BY <1>2, NilList
  <2>2. \A i \in DOMAIN xs : Reads(Text, ss[i], xs[i]) BY ReadsText
  <2>3. ss \in [DOMAIN xs -> {ss[i] : i \in DOMAIN xs}] OBVIOUS
  <2> HIDE DEF xs, ss
  <2> QED BY <2>1, <2>2, <2>3 DEF Elements
<1> HIDE DEF ss
<1>4. xs = x BY <1>2 DEF OrEmpty
<1>5. Reads(List(Text), Token("count", Len(xs)) \o FlattenSeq(ss), xs) BY <1>3, ReadsList
<1> QED BY <1>1, <1>4, <1>5

LEMMA ReadsTokens ==
  ASSUME NEW kind, kind # "type", NEW x, IsNil(IsAny, x)
  PROVE  Reads(Many(Leaf(kind)), WriteTokens(kind, x), x)
<1> DEFINE xs == OrEmpty(x)
           ss == [i \in DOMAIN xs |-> Token(kind, xs[i])]
<1>1. WriteTokens(kind, x) = Token("count", Len(xs)) \o FlattenSeq(ss)
  BY DEF WriteTokens, WriteNil, WriteList
<1>2. x # None => x # <<>> /\ x \in Seq({x[i] : i \in DOMAIN x}) BY DEF IsNil, IsList
<1>3. Elements(Leaf(kind), ss, xs)
  <2>1. xs \in Seq({xs[i] : i \in DOMAIN xs}) BY <1>2, NilList
  <2>2. \A i \in DOMAIN xs : Reads(Leaf(kind), ss[i], xs[i]) BY ReadsLeaf
  <2>3. ss \in [DOMAIN xs -> {ss[i] : i \in DOMAIN xs}] OBVIOUS
  <2> HIDE DEF xs, ss
  <2> QED BY <2>1, <2>2, <2>3 DEF Elements
<1> HIDE DEF ss
<1>4. Reads(Many(Leaf(kind)), Token("count", Len(xs)) \o FlattenSeq(ss), x) BY <1>2, <1>3,
     ReadsNil
<1> QED BY <1>1, <1>4

LEMMA ReadsTypes ==
  ASSUME NEW x, IsNil(IsType, x)
  PROVE  Reads(Many(TypeText), WriteNil(WriteType, x), x)
<1> DEFINE xs == OrEmpty(x)
           ss == [i \in DOMAIN xs |-> WriteType(xs[i])]
<1>1. WriteNil(WriteType, x) = Token("count", Len(xs)) \o FlattenSeq(ss)
  BY DEF WriteNil, WriteList
<1>2. x # None => x # <<>> /\ x \in Seq({x[i] : i \in DOMAIN x}) BY DEF IsNil, IsList
<1>3. Elements(TypeText, ss, xs)
  <2>1. xs \in Seq({xs[i] : i \in DOMAIN xs}) BY <1>2, NilList
  <2>2. ASSUME NEW i \in DOMAIN xs PROVE Reads(TypeText, ss[i], xs[i])
    <3>1. IsType(xs[i]) BY DEF IsNil, IsList, OrEmpty
    <3> QED BY <3>1, ReadsType DEF IsType
  <2>3. ss \in [DOMAIN xs -> {ss[i] : i \in DOMAIN xs}] OBVIOUS
  <2> HIDE DEF xs, ss
  <2> QED BY <2>1, <2>2, <2>3 DEF Elements
<1> HIDE DEF ss
<1>4. Reads(Many(TypeText), Token("count", Len(xs)) \o FlattenSeq(ss), x) BY <1>2, <1>3,
     ReadsNil
<1> QED BY <1>1, <1>4

LEMMA ReadsArgument ==
  ASSUME NEW x, IsArgument(x)
  PROVE  Reads(Argument, WriteText(x.name) \o WriteType(x.type), x)
<1>1. Reads(Text, WriteText(x.name), x["name"]) BY ReadsText
<1>2. Reads(TypeText, WriteType(x.type), x["type"]) BY ReadsType DEF IsArgument, IsType
<1>3. IsRecord(x, {"name", "type"}) BY DEF IsArgument
<1> QED BY <1>1, <1>2, <1>3, RowsTwo DEF Argument

LEMMA ReadsArguments ==
  ASSUME NEW x, IsNil(IsArgument, x)
  PROVE  Reads(Many(Argument), WriteNil(LAMBDA a : WriteText(a.name) \o WriteType(a.type),
       x), x)
<1> DEFINE xs == OrEmpty(x)
           ss == [i \in DOMAIN xs |-> WriteText(xs[i].name) \o WriteType(xs[i].type)]
<1>1. WriteNil(LAMBDA a : WriteText(a.name) \o WriteType(a.type), x) = Token("count",
     Len(xs)) \o FlattenSeq(ss)
  BY DEF WriteNil, WriteList
<1>2. x # None => x # <<>> /\ x \in Seq({x[i] : i \in DOMAIN x}) BY DEF IsNil, IsList
<1>3. Elements(Argument, ss, xs)
  <2>1. xs \in Seq({xs[i] : i \in DOMAIN xs}) BY <1>2, NilList
  <2>2. ASSUME NEW i \in DOMAIN xs PROVE Reads(Argument, ss[i], xs[i])
    <3>1. IsArgument(xs[i]) BY DEF IsNil, IsList, OrEmpty
    <3> QED BY <3>1, ReadsArgument
  <2>3. ss \in [DOMAIN xs -> {ss[i] : i \in DOMAIN xs}] OBVIOUS
  <2> HIDE DEF xs, ss
  <2> QED BY <2>1, <2>2, <2>3 DEF Elements
<1> HIDE DEF ss
<1>4. Reads(Many(Argument), Token("count", Len(xs)) \o FlattenSeq(ss), x) BY <1>2, <1>3,
     ReadsNil
<1> QED BY <1>1, <1>4

LEMMA ReadsCall ==
  ASSUME NEW x, IsCall(x)
  PROVE  Reads(CallItem, WriteItem("calls", x), x)
<1>1. Reads(Text, WriteText(x.name), x["name"]) BY ReadsText
<1>2. Reads(Many(Argument), WriteNil(LAMBDA a : WriteText(a.name) \o WriteType(a.type),
     x.args), x["args"]) BY ReadsArguments DEF IsCall
<1>3. Reads(Docs, WriteDocs(x.docs), x["docs"]) BY ReadsDocs DEF IsCall
<1>4. IsRecord(x, {"name", "args", "docs"}) BY DEF IsCall
<1>5. WriteItem("calls", x) = WriteText(x.name) \o WriteNil(LAMBDA a : WriteText(a.name)
     \o WriteType(a.type), x.args) \o WriteDocs(x.docs) BY DEF WriteItem
<1> QED BY <1>1, <1>2, <1>3, <1>4, <1>5, RowsThree DEF CallItem

LEMMA ReadsEvent ==
  ASSUME NEW x, IsEvent(x)
  PROVE  Reads(EventItem, WriteItem("events", x), x)
<1>1. Reads(Text, WriteText(x.name), x["name"]) BY ReadsText
<1>2. Reads(Many(Text), WriteNil(WriteText, x.args), x["args"]) BY ReadsTexts DEF IsEvent
<1>3. Reads(Docs, WriteDocs(x.docs), x["docs"]) BY ReadsDocs DEF IsEvent
<1>4. IsRecord(x, {"name", "args", "docs"}) BY DEF IsEvent
<1>5. WriteItem("events", x) = WriteText(x.name) \o WriteNil(WriteText, x.args)
     \o WriteDocs(x.docs) BY DEF WriteItem
<1> QED BY <1>1, <1>2, <1>3, <1>4, <1>5, RowsThree DEF EventItem

LEMMA ReadsError ==
  ASSUME NEW x, IsError(x)
  PROVE  Reads(ErrorItem, WriteItem("errors", x), x)
<1>1. Reads(Text, WriteText(x.name), x["name"]) BY ReadsText
<1>2. Reads(Docs, WriteDocs(x.docs), x["docs"]) BY ReadsDocs DEF IsError
<1>3. IsRecord(x, {"name", "docs"}) BY DEF IsError
<1>4. WriteItem("errors", x) = WriteText(x.name) \o WriteDocs(x.docs) 
  <2>1. WriteText(x.name) \o <<>> = WriteText(x.name) BY <1>1, SeqNothing DEF Reads
  <2> QED BY <2>1 DEF WriteItem
<1> QED BY <1>1, <1>2, <1>3, <1>4, RowsTwo DEF ErrorItem

LEMMA ReadsErrors ==
  ASSUME NEW x, IsNil(IsError, x)
  PROVE  Reads(Many(ErrorItem), WriteNil(LAMBDA i : WriteItem("errors", i), x), x)
<1> DEFINE xs == OrEmpty(x)
           ss == [i \in DOMAIN xs |-> WriteItem("errors", xs[i])]
<1>1. WriteNil(LAMBDA i : WriteItem("errors", i), x) = Token("count", Len(xs))
     \o FlattenSeq(ss)
  BY DEF WriteNil, WriteList
<1>2. x # None => x # <<>> /\ x \in Seq({x[i] : i \in DOMAIN x}) BY DEF IsNil, IsList
<1>3. Elements(ErrorItem, ss, xs)
  <2>1. xs \in Seq({xs[i] : i \in DOMAIN xs}) BY <1>2, NilList
  <2>2. ASSUME NEW i \in DOMAIN xs PROVE Reads(ErrorItem, ss[i], xs[i])
    <3>1. IsError(xs[i]) BY DEF IsNil, IsList, OrEmpty
    <3> QED BY <3>1, ReadsError
  <2>3. ss \in [DOMAIN xs -> {ss[i] : i \in DOMAIN xs}] OBVIOUS
  <2> HIDE DEF xs, ss
  <2> QED BY <2>1, <2>2, <2>3 DEF Elements
<1> HIDE DEF ss
<1>4. Reads(Many(ErrorItem), Token("count", Len(xs)) \o FlattenSeq(ss), x) BY <1>2, <1>3,
     ReadsNil
<1> QED BY <1>1, <1>4

(* An optional field's bytes.                                              *)
Option(x, s) == IF x = None THEN Token("bool", FALSE) ELSE Token("bool", TRUE) \o s

LEMMA ReadsOption ==
  ASSUME NEW of, NEW x, NEW s, NEW y, x = None => y = None, x # None => Reads(of, s, y)
  PROVE  Reads(If(of), Option(x, s), y)
BY ReadsSome, ReadsNone DEF Option

(* The calls and the events of a pallet.                                   *)

LEMMA CallElements ==
  ASSUME NEW x, IsList(IsCall, x)
  PROVE  Elements(CallItem, [i \in DOMAIN x |-> WriteItem("calls", x[i])], x)
<1> DEFINE ss == [i \in DOMAIN x |-> WriteItem("calls", x[i])]
<1>1. x \in Seq({x[i] : i \in DOMAIN x}) BY DEF IsList
<1>2. ASSUME NEW i \in DOMAIN x PROVE Reads(CallItem, ss[i], x[i])
  <2>1. IsCall(x[i]) BY DEF IsList
  <2> QED BY <2>1, ReadsCall
<1>3. ss \in [DOMAIN x -> {ss[i] : i \in DOMAIN x}] OBVIOUS
<1> HIDE DEF ss
<1>4. Elements(CallItem, ss, x) BY <1>1, <1>2, <1>3 DEF Elements
<1> QED BY <1>4 DEF ss

LEMMA ReadsCallSection ==
  ASSUME NEW v \in 6..13, NEW x, IsSection(v, IsCall, x)
  PROVE  Reads(If(IF v \in 8..11 THEN List(CallItem) ELSE Many(CallItem)),
               Option(x, WriteSection(v, "calls", x)), SeenSection(v, x))
<1> DEFINE ss == [i \in DOMAIN x |-> WriteItem("calls", x[i])]
<1>1. x = None => SeenSection(v, x) = None BY DEF SeenSection
<1>2. ASSUME x # None
      PROVE  Reads(IF v \in 8..11 THEN List(CallItem) ELSE Many(CallItem),
                   WriteSection(v, "calls", x), SeenSection(v, x))
  <2>1. IsList(IsCall, x) BY <1>2 DEF IsSection
  <2>2. Elements(CallItem, ss, x) BY <2>1, CallElements
  <2>3. WriteSection(v, "calls", x) = Token("count", Len(x)) \o FlattenSeq(ss)
    <3>1. v < 14 OBVIOUS
    <3> QED BY <3>1 DEF WriteSection, WriteList
  <2> HIDE DEF ss
  <2>4. CASE v \in 8..11
    <3>1. SeenSection(v, x) = x BY <2>4 DEF SeenSection
    <3> QED BY <2>2, <2>3, <2>4, <3>1, ReadsList
  <2>5. CASE v \notin 8..11
    <3>1. SeenSection(v, x) = IF x = <<>> THEN None ELSE x BY <2>5 DEF SeenSection
    <3> QED BY <2>2, <2>3, <2>5, <3>1, ReadsMany
  <2> QED BY <2>4, <2>5
<1> QED BY <1>1, <1>2, ReadsOption

LEMMA EventElements ==
  ASSUME NEW x, IsList(IsEvent, x)
  PROVE  Elements(EventItem, [i \in DOMAIN x |-> WriteItem("events", x[i])], x)
<1> DEFINE ss == [i \in DOMAIN x |-> WriteItem("events", x[i])]
<1>1. x \in Seq({x[i] : i \in DOMAIN x}) BY DEF IsList
<1>2. ASSUME NEW i \in DOMAIN x PROVE Reads(EventItem, ss[i], x[i])
  <2>1. IsEvent(x[i]) BY DEF IsList
  <2> QED BY <2>1, ReadsEvent
<1>3. ss \in [DOMAIN x -> {ss[i] : i \in DOMAIN x}] OBVIOUS
<1> HIDE DEF ss
<1>4. Elements(EventItem, ss, x) BY <1>1, <1>2, <1>3 DEF Elements
<1> QED BY <1>4 DEF ss

LEMMA ReadsEventSection ==
  ASSUME NEW v \in 6..13, NEW x, IsSection(v, IsEvent, x)
  PROVE  Reads(If(IF v \in 8..11 THEN List(EventItem) ELSE Many(EventItem)),
               Option(x, WriteSection(v, "events", x)), SeenSection(v, x))
<1> DEFINE ss == [i \in DOMAIN x |-> WriteItem("events", x[i])]
<1>1. x = None => SeenSection(v, x) = None BY DEF SeenSection
<1>2. ASSUME x # None
      PROVE  Reads(IF v \in 8..11 THEN List(EventItem) ELSE Many(EventItem),
                   WriteSection(v, "events", x), SeenSection(v, x))
  <2>1. IsList(IsEvent, x) BY <1>2 DEF IsSection
  <2>2. Elements(EventItem, ss, x) BY <2>1, EventElements
  <2>3. WriteSection(v, "events", x) = Token("count", Len(x)) \o FlattenSeq(ss)
    <3>1. v < 14 OBVIOUS
    <3> QED BY <3>1 DEF WriteSection, WriteList
  <2> HIDE DEF ss
  <2>4. CASE v \in 8..11
    <3>1. SeenSection(v, x) = x BY <2>4 DEF SeenSection
    <3> QED BY <2>2, <2>3, <2>4, <3>1, ReadsList
  <2>5. CASE v \notin 8..11
    <3>1. SeenSection(v, x) = IF x = <<>> THEN None ELSE x BY <2>5 DEF SeenSection
    <3> QED BY <2>2, <2>3, <2>5, <3>1, ReadsMany
  <2> QED BY <2>4, <2>5
<1> QED BY <1>1, <1>2, ReadsOption

(* Deprecations, and what version 16 keeps with them. *)

LEMMA ReadsDeprecation ==
  ASSUME NEW d, IsDeprecation(d)
  PROVE  Reads(Deprecation, WriteDeprecation(d), d)
<1> DEFINE of == [Deprecated |-> <<Text, OptionText>>]
<1>1. CASE d[1] # "Deprecated"
  <2>1. WriteDeprecation(d) = Token("deprecation", d[1]) \o <<>> BY <1>1
       DEF WriteDeprecation
  <2>2. d[1] \notin DOMAIN of BY <1>1
  <2>3. d = <<d[1]>> BY <1>1 DEF IsDeprecation
  <2> HIDE DEF of
  <2>4. Reads(Case("deprecation", of), Token("deprecation", d[1]) \o <<>>, <<d[1]>>)
    BY <2>2, ReadsOther
  <2> QED BY <2>1, <2>3, <2>4 DEF Deprecation, of
<1>2. CASE d[1] = "Deprecated"
  <2> DEFINE opt == Option(d[3], WriteText(d[3]))
  <2>1. WriteDeprecation(d) = Token("deprecation", d[1]) \o (WriteText(d[2]) \o opt)
    BY <1>2 DEF WriteDeprecation, WriteOption, Option
  <2>2. d[1] \in DOMAIN of /\ of[d[1]] = <<Text, OptionText>> BY <1>2
  <2>3. d = <<d[1], d[2], d[3]>> BY <1>2 DEF IsDeprecation
  <2>4. Reads(OptionText, opt, d[3]) BY ReadsOption, ReadsText DEF OptionText
  <2>5. Reads(Text, WriteText(d[2]), d[2]) BY ReadsText
  <2> HIDE DEF of, opt
  <2>6. Reads(Case("deprecation", of), Token("deprecation", d[1]) \o (WriteText(d[2])
       \o opt),
              <<d[1], d[2], d[3]>>)
    BY <2>2, <2>4, <2>5, CaseTwo
  <2> QED BY <2>1, <2>3, <2>6 DEF Deprecation, of
<1> QED BY <1>1, <1>2

LEMMA ReadsWith16 ==
  ASSUME NEW item, NEW s, NEW x, Reads(item, s, x.item),
         IsRecord(x, {"item", "deprecation"}), IsDeprecation(x.deprecation)
  PROVE  Reads(With16(item), s \o WriteDeprecation(x.deprecation), x)
BY ReadsDeprecation, RowsTwo DEF With16

LEMMA ReadsDeprecated ==
  ASSUME NEW x, IsDeprecated(x)
  PROVE  Reads(VariantDeprecation, Token("u8", x.index) \o WriteDeprecation(x.info), x)
<1>1. Reads(U8, Token("u8", x.index), x["index"]) BY ReadsU8
<1>2. Reads(Deprecation, WriteDeprecation(x.info), x["info"]) BY ReadsDeprecation
     DEF IsDeprecated
<1>3. IsRecord(x, {"index", "info"}) BY DEF IsDeprecated
<1> QED BY <1>1, <1>2, <1>3, RowsTwo DEF VariantDeprecation

LEMMA ReadsDeprecations ==
  ASSUME NEW x, IsNil(IsDeprecated, x)
  PROVE  Reads(Many(VariantDeprecation), WriteNil(LAMBDA d : Token("u8", d.index)
       \o WriteDeprecation(d.info), x), x)
<1> DEFINE xs == OrEmpty(x)
           ss == [i \in DOMAIN xs |-> Token("u8", xs[i].index)
                \o WriteDeprecation(xs[i].info)]
<1>1. WriteNil(LAMBDA d : Token("u8", d.index) \o WriteDeprecation(d.info), x)
     = Token("count", Len(xs)) \o FlattenSeq(ss)
  BY DEF WriteNil, WriteList
<1>2. x # None => x # <<>> /\ x \in Seq({x[i] : i \in DOMAIN x}) BY DEF IsNil, IsList
<1>3. Elements(VariantDeprecation, ss, xs)
  <2>1. xs \in Seq({xs[i] : i \in DOMAIN xs}) BY <1>2, NilList
  <2>2. ASSUME NEW i \in DOMAIN xs PROVE Reads(VariantDeprecation, ss[i], xs[i])
    <3>1. IsDeprecated(xs[i]) BY DEF IsNil, IsList, OrEmpty
    <3> QED BY <3>1, ReadsDeprecated
  <2>3. ss \in [DOMAIN xs -> {ss[i] : i \in DOMAIN xs}] OBVIOUS
  <2> HIDE DEF xs, ss
  <2> QED BY <2>1, <2>2, <2>3 DEF Elements
<1> HIDE DEF ss
<1>4. Reads(Many(VariantDeprecation), Token("count", Len(xs)) \o FlattenSeq(ss), x)
     BY <1>2, <1>3, ReadsNil
<1> QED BY <1>1, <1>4

LEMMA ReadsEnum16 ==
  ASSUME NEW v, v = 16, NEW s, NEW x, IsEnum(x)
  PROVE  Reads(Enum16, WriteSection(v, s, x), x)
<1>1. Reads(Id, WriteId(x.id), x["id"]) BY ReadsId
<1>2. Reads(Many(VariantDeprecation), WriteNil(LAMBDA d : Token("u8", d.index)
     \o WriteDeprecation(d.info), x.deprecated), x["deprecated"]) BY ReadsDeprecations
     DEF IsEnum
<1>3. IsRecord(x, {"id", "deprecated"}) BY DEF IsEnum
<1>4. WriteSection(v, s, x) = WriteId(x.id) \o WriteNil(LAMBDA d : Token("u8", d.index)
     \o WriteDeprecation(d.info), x.deprecated) 
  <2>1. ~ (v < 14) /\ ~ (v < 16) OBVIOUS
  <2> QED BY <2>1 DEF WriteSection, WriteNil, WriteList
<1> QED BY <1>1, <1>2, <1>3, <1>4, RowsTwo DEF Enum16

LEMMA ReadsEnumSection ==
  ASSUME NEW v \in 14..16, NEW s, NEW x, v = 16 /\ x # None => IsEnum(x)
  PROVE  Reads(If(IF v = 16 THEN Enum16 ELSE Id), Option(x, WriteSection(v, s, x)), x)
<1>1. ASSUME x # None
      PROVE  Reads(IF v = 16 THEN Enum16 ELSE Id, WriteSection(v, s, x), x)
  <2>1. CASE v = 16
    <3>1. IsEnum(x) BY <1>1, <2>1
    <3>2. Reads(Enum16, WriteSection(v, s, x), x) BY <2>1, <3>1, ReadsEnum16
    <3> QED BY <2>1, <3>2
  <2>2. CASE v # 16
    <3>1. ~ (v < 14) /\ v < 16 BY <2>2
    <3>2. WriteSection(v, s, x) = WriteId(x) BY <3>1 DEF WriteSection
    <3> QED BY <2>2, <3>2, ReadsId
  <2> QED BY <2>1, <2>2
<1> QED BY <1>1, ReadsOption

(* Storage entries. *)

LEMMA EntryCases ==
  /\ DOMAIN Entry6 = {"PlainType", "MapType", "DoubleMapType"}
  /\ Entry6["PlainType"] = <<TypeText>>
  /\ Entry6["MapType"] = <<Leaf("hasher"), TypeText, TypeText, Leaf("bool")>>
  /\ Entry6["DoubleMapType"] = <<Leaf("hasher"), TypeText, TypeText, TypeText,
       Leaf("hasher")>>
BY DEF Entry6

LEMMA ReadsEntryOf ==
  ASSUME NEW v \in 6..13, NEW t, IsEntry(v, t), t[1] # "NMap", NEW of,
         {"PlainType", "MapType", "DoubleMapType"} \subseteq DOMAIN of,
         \A tag \in {"PlainType", "MapType", "DoubleMapType"} : of[tag] = Entry6[tag]
  PROVE  Reads(Case("storage", of), WriteEntry(t), t)
<1>1. ASSUME NEW i, IsType(t[i]) PROVE Reads(TypeText, WriteType(t[i]), t[i])
  BY <1>1, ReadsType DEF IsType
<1>2. v < 14 /\ ~ (v >= 14) OBVIOUS
<1>3. CASE t[1] = "PlainType"
  <2>1. t = <<t[1], t[2]>> /\ IsType(t[2]) BY <1>2, <1>3 DEF IsEntry
  <2>2. Reads(TypeText, WriteType(t[2]), t[2]) BY <1>1, <2>1
  <2>3. t[1] \in DOMAIN of /\ of[t[1]] = <<TypeText>> BY <1>3, EntryCases
  <2>4. WriteEntry(t) = Token("storage", t[1]) \o WriteType(t[2]) BY <1>3 DEF WriteEntry
  <2>5. Reads(Case("storage", of), Token("storage", t[1]) \o WriteType(t[2]), <<t[1],
       t[2]>>)
    BY <2>2, <2>3, CaseOne
  <2> QED BY <2>1, <2>4, <2>5
<1>4. CASE t[1] = "MapType"
  <2> DEFINE s == Token("hasher", t[2]) \o WriteType(t[3]) \o WriteType(t[4])
       \o Token("bool", t[5])
  <2>1. t = <<t[1], t[2], t[3], t[4], t[5]>> /\ IsType(t[3]) /\ IsType(t[4])
    BY <1>2, <1>4 DEF IsEntry
  <2>2. Reads(TypeText, WriteType(t[3]), t[3]) BY <1>1, <2>1
  <2>3. Reads(TypeText, WriteType(t[4]), t[4]) BY <1>1, <2>1
  <2>4. Reads(Leaf("hasher"), Token("hasher", t[2]), t[2]) BY ReadsLeaf
  <2>5. Reads(Leaf("bool"), Token("bool", t[5]), t[5]) BY ReadsLeaf
  <2>6. t[1] \in DOMAIN of /\ of[t[1]] = <<Leaf("hasher"), TypeText, TypeText,
       Leaf("bool")>>
    BY <1>4, EntryCases
  <2>7. WriteEntry(t) = Token("storage", t[1]) \o s BY <1>4 DEF WriteEntry
  <2>8. Reads(Case("storage", of), Token("storage", t[1]) \o s, <<t[1], t[2], t[3], t[4],
       t[5]>>)
    BY <2>2, <2>3, <2>4, <2>5, <2>6, CaseFour
  <2> QED BY <2>1, <2>7, <2>8
<1>5. CASE t[1] = "DoubleMapType"
  <2> DEFINE s == Token("hasher", t[2]) \o WriteType(t[3]) \o WriteType(t[4])
       \o WriteType(t[5])
                    \o Token("hasher", t[6])
  <2>1. /\ t = <<t[1], t[2], t[3], t[4], t[5], t[6]>>
        /\ IsType(t[3]) /\ IsType(t[4]) /\ IsType(t[5])
    BY <1>2, <1>5 DEF IsEntry
  <2>2. Reads(TypeText, WriteType(t[3]), t[3]) BY <1>1, <2>1
  <2>3. Reads(TypeText, WriteType(t[4]), t[4]) BY <1>1, <2>1
  <2>4. Reads(TypeText, WriteType(t[5]), t[5]) BY <1>1, <2>1
  <2>5. Reads(Leaf("hasher"), Token("hasher", t[2]), t[2]) BY ReadsLeaf
  <2>6. Reads(Leaf("hasher"), Token("hasher", t[6]), t[6]) BY ReadsLeaf
  <2>7. /\ t[1] \in DOMAIN of
        /\ of[t[1]] = <<Leaf("hasher"), TypeText, TypeText, TypeText, Leaf("hasher")>>
    BY <1>5, EntryCases
  <2>8. WriteEntry(t) = Token("storage", t[1]) \o s BY <1>5 DEF WriteEntry
  <2>9. Reads(Case("storage", of), Token("storage", t[1]) \o s,
              <<t[1], t[2], t[3], t[4], t[5], t[6]>>)
    BY <2>2, <2>3, <2>4, <2>5, <2>6, <2>7, CaseFive
  <2> QED BY <2>1, <2>8, <2>9
<1> QED BY <1>2, <1>3, <1>4, <1>5 DEF IsEntry

LEMMA ReadsEntry6 ==
  ASSUME NEW v \in 6..12, NEW t, IsEntry(v, t)
  PROVE  Reads(Case("storage", Entry6), WriteEntry(t), t)
<1>1. v \in 6..13 /\ ~ (v >= 14) /\ v # 13 OBVIOUS
<1>2. t[1] # "NMap" BY <1>1 DEF IsEntry
<1> QED BY <1>1, <1>2, EntryCases, ReadsEntryOf

LEMMA ReadsEntry13 ==
  ASSUME NEW t, IsEntry(13, t)
  PROVE  Reads(Case("storage", Entry13), WriteEntry(t), t)
<1>1. /\ DOMAIN Entry13 = DOMAIN Entry6 \cup {"NMap"}
      /\ Entry13["NMap"] = <<Many(TypeText), Many(Leaf("hasher")), TypeText>>
      /\ \A tag \in {"PlainType", "MapType", "DoubleMapType"} : Entry13[tag] = Entry6[tag]
  BY EntryCases DEF Entry13
<1>2. CASE t[1] # "NMap"
  <2>1. {"PlainType", "MapType", "DoubleMapType"} \subseteq DOMAIN Entry13 BY <1>1,
       EntryCases
  <2>2. 13 \in 6..13 OBVIOUS
  <2> QED BY <1>1, <1>2, <2>1, <2>2, ReadsEntryOf
<1>3. CASE t[1] = "NMap"
  <2> DEFINE s == WriteNil(WriteType, t[2]) \o WriteTokens("hasher", t[3])
       \o WriteType(t[4])
  <2>1. /\ t = <<t[1], t[2], t[3], t[4]>>
        /\ IsNil(IsType, t[2]) /\ IsNil(IsAny, t[3]) /\ IsType(t[4])
    <3>1. ~ (13 >= 14) OBVIOUS
    <3> QED BY <1>3, <3>1 DEF IsEntry
  <2>2. Reads(Many(TypeText), WriteNil(WriteType, t[2]), t[2]) BY <2>1, ReadsTypes
  <2>3. Reads(Many(Leaf("hasher")), WriteTokens("hasher", t[3]), t[3]) BY <2>1, ReadsTokens
  <2>4. Reads(TypeText, WriteType(t[4]), t[4]) BY <2>1, ReadsType DEF IsType
  <2>5. /\ t[1] \in DOMAIN Entry13
        /\ Entry13[t[1]] = <<Many(TypeText), Many(Leaf("hasher")), TypeText>>
    BY <1>1, <1>3
  <2>6. WriteEntry(t) = Token("storage", t[1]) \o s BY <1>3 DEF WriteEntry
  <2>7. Reads(Case("storage", Entry13), Token("storage", t[1]) \o s, <<t[1], t[2], t[3],
       t[4]>>)
    BY <2>2, <2>3, <2>4, <2>5, CaseThree
  <2> QED BY <2>1, <2>6, <2>7
<1> QED BY <1>2, <1>3

LEMMA ReadsEntry14 ==
  ASSUME NEW v \in 14..16, NEW t, IsEntry(v, t)
  PROVE  Reads(Case("storage", Entry14), WriteEntry14(t), t)
<1>1. /\ DOMAIN Entry14 = {"PlainType", "Map"}
      /\ Entry14["PlainType"] = <<Id>> /\ Entry14["Map"] = <<Many(Leaf("hasher")), Id, Id>>
  BY DEF Entry14
<1>2. ~ (v < 14) /\ v # 13 OBVIOUS
<1>3. CASE t[1] = "PlainType"
  <2>1. t = <<t[1], t[2]>> BY <1>2, <1>3 DEF IsEntry
  <2>2. WriteEntry14(t) = Token("storage", t[1]) \o WriteId(t[2]) BY <1>3 DEF WriteEntry14
  <2>3. Reads(Id, WriteId(t[2]), t[2]) BY ReadsId
  <2>4. t[1] \in DOMAIN Entry14 /\ Entry14[t[1]] = <<Id>> BY <1>1, <1>3
  <2>5. Reads(Case("storage", Entry14), Token("storage", t[1]) \o WriteId(t[2]), <<t[1],
       t[2]>>)
    BY <2>3, <2>4, CaseOne
  <2> QED BY <2>1, <2>2, <2>5
<1>4. CASE t[1] = "Map"
  <2> DEFINE s == WriteTokens("hasher", t[2]) \o WriteId(t[3]) \o WriteId(t[4])
  <2>1. t = <<t[1], t[2], t[3], t[4]>> /\ IsNil(IsAny, t[2]) BY <1>2, <1>4 DEF IsEntry
  <2>2. Reads(Many(Leaf("hasher")), WriteTokens("hasher", t[2]), t[2]) BY <2>1, ReadsTokens
  <2>3. Reads(Id, WriteId(t[3]), t[3]) BY ReadsId
  <2>4. Reads(Id, WriteId(t[4]), t[4]) BY ReadsId
  <2>5. t[1] \in DOMAIN Entry14 /\ Entry14[t[1]] = <<Many(Leaf("hasher")), Id, Id>>
    BY <1>1, <1>4
  <2>6. WriteEntry14(t) = Token("storage", t[1]) \o s BY <1>4 DEF WriteEntry14
  <2>7. Reads(Case("storage", Entry14), Token("storage", t[1]) \o s, <<t[1], t[2], t[3],
       t[4]>>)
    BY <2>2, <2>3, <2>4, <2>5, CaseThree
  <2> QED BY <2>1, <2>6, <2>7
<1> QED BY <1>2, <1>3, <1>4 DEF IsEntry

(* Storage items. *)

EntryReader(v) ==
  Case("storage", IF v < 13 THEN Entry6 ELSE IF v = 13 THEN Entry13 ELSE Entry14)
EntryText(v, t) == IF v < 14 THEN WriteEntry(t) ELSE WriteEntry14(t)

LEMMA ReadsEntry ==
  ASSUME NEW v \in 6..16, NEW t, IsEntry(v, t)
  PROVE  Reads(EntryReader(v), EntryText(v, t), t)
<1>1. CASE v < 13
  <2>1. v \in 6..12 /\ v < 14 BY <1>1
  <2> QED BY <1>1, <2>1, ReadsEntry6 DEF EntryReader, EntryText
<1>2. CASE v = 13
  <2>1. ~ (v < 13) /\ v < 14 BY <1>2
  <2>2. IsEntry(13, t) BY <1>2
  <2> QED BY <1>2, <2>1, <2>2, ReadsEntry13 DEF EntryReader, EntryText
<1>3. CASE v > 13
  <2>1. ~ (v < 13) /\ v # 13 /\ ~ (v < 14) /\ v \in 14..16 BY <1>3
  <2> QED BY <2>1, ReadsEntry14 DEF EntryReader, EntryText
<1> QED BY <1>1, <1>2, <1>3

LEMMA ReadsStorageItem ==
  ASSUME NEW v \in 6..16, NEW x, IsStorage(v, x), NEW docs, NEW y, IsRecord(y, DOMAIN x),
         \A f \in DOMAIN x : f # "docs" => y[f] = x[f], Reads(docs, WriteDocs(x.docs),
              y["docs"])
  PROVE  Reads(StorageItem(EntryReader(v), docs), WriteStorage(v, x), y)
<1>1. /\ IsRecord(x, {"name", "modifier", "type", "fallback", "docs"}) /\ IsEntry(v, x.type)
      /\ DOMAIN x = {"name", "modifier", "type", "fallback", "docs"}
  BY DEF IsStorage, IsRecord
<1>2. /\ y["name"] = x.name /\ y["modifier"] = x.modifier
      /\ y["type"] = x.type /\ y["fallback"] = x.fallback
  BY <1>1
<1>3. Reads(Text, WriteText(x.name), y["name"]) BY <1>2, ReadsText
<1>4. Reads(Leaf("modifier"), Token("modifier", x.modifier), y["modifier"]) BY <1>2,
     ReadsLeaf
<1>5. Reads(EntryReader(v), EntryText(v, x.type), y["type"]) BY <1>1, <1>2, ReadsEntry
<1>6. Reads(Leaf("bytes"), Token("bytes", x.fallback), y["fallback"]) BY <1>2, ReadsLeaf
<1>7. WriteStorage(v, x) = WriteText(x.name) \o Token("modifier", x.modifier)
        \o EntryText(v, x.type) \o Token("bytes", x.fallback) \o WriteDocs(x.docs)
  BY DEF WriteStorage, EntryText
<1>8. IsRecord(y, {"name", "modifier", "type", "fallback", "docs"}) BY <1>1
<1> QED BY <1>3, <1>4, <1>5, <1>6, <1>7, <1>8, RowsFive DEF StorageItem

StorageReader(v) ==
  IF v < 13 THEN StorageItem7 ELSE IF v = 13 THEN StorageItem13
  ELSE IF v = 16 THEN With16(StorageItem14) ELSE StorageItem14

LEMMA ReadsStorageWith ==
  ASSUME NEW v \in 7..16, NEW x, IsWith(v, IsStorage, x)
  PROVE  Reads(StorageReader(v), With(v, WriteStorage, x), x)
<1> DEFINE item == StorageItem(EntryReader(v), Docs)
<1>1. ASSUME NEW y, IsStorage(v, y) PROVE Reads(item, WriteStorage(v, y), y)
  <2>1. IsRecord(y, DOMAIN y) /\ IsNil(IsAny, y.docs) BY <1>1 DEF IsStorage, IsRecord
  <2>2. Reads(Docs, WriteDocs(y.docs), y["docs"]) BY <2>1, ReadsDocs
  <2>3. v \in 6..16 OBVIOUS
  <2> QED BY <1>1, <2>1, <2>2, <2>3, ReadsStorageItem
<1>2. CASE v = 16
  <2>1. /\ IsStorage(v, x.item) /\ IsDeprecation(x.deprecation)
        /\ IsRecord(x, {"item", "deprecation"})
    BY <1>2 DEF IsWith
  <2>2. With(v, WriteStorage, x) = WriteStorage(v, x.item)
       \o WriteDeprecation(x.deprecation)
    BY <1>2 DEF With
  <2>3. item = StorageItem14
    <3>1. ~ (v < 13) /\ v # 13 BY <1>2
    <3> QED BY <3>1 DEF EntryReader, StorageItem14
  <2>4. StorageReader(v) = With16(StorageItem14)
    <3>1. ~ (v < 13) /\ v # 13 BY <1>2
    <3> QED BY <1>2, <3>1 DEF StorageReader
  <2>5. Reads(item, WriteStorage(v, x.item), x.item) BY <1>1, <2>1
  <2> QED BY <2>1, <2>2, <2>3, <2>4, <2>5, ReadsWith16
<1>3. CASE v # 16
  <2>1. IsStorage(v, x) BY <1>3 DEF IsWith
  <2>2. With(v, WriteStorage, x) = WriteStorage(v, x) BY <1>3 DEF With
  <2>3. item = StorageReader(v)
    BY <1>3 DEF EntryReader, StorageReader, StorageItem7, StorageItem13, StorageItem14
  <2>4. Reads(item, WriteStorage(v, x), x) BY <1>1, <2>1
  <2> QED BY <2>2, <2>3, <2>4
<1> QED BY <1>2, <1>3

LEMMA ReadsStorageItems ==
  ASSUME NEW v \in 7..16, NEW x, IsNil(LAMBDA y : IsWith(v, IsStorage, y), x)
  PROVE  Reads(Many(StorageReader(v)), WriteNil(LAMBDA i : With(v, WriteStorage, i), x), x)
<1> DEFINE xs == OrEmpty(x)
           ss == [i \in DOMAIN xs |-> With(v, WriteStorage, xs[i])]
<1>1. WriteNil(LAMBDA i : With(v, WriteStorage, i), x) = Token("count", Len(xs))
     \o FlattenSeq(ss)
  BY DEF WriteNil, WriteList
<1>2. x # None => x # <<>> /\ x \in Seq({x[i] : i \in DOMAIN x}) BY DEF IsNil, IsList
<1>3. Elements(StorageReader(v), ss, xs)
  <2>1. xs \in Seq({xs[i] : i \in DOMAIN xs}) BY <1>2, NilList
  <2>2. ASSUME NEW i \in DOMAIN xs PROVE Reads(StorageReader(v), ss[i], xs[i])
    <3>1. IsWith(v, IsStorage, xs[i]) BY DEF IsNil, IsList, OrEmpty
    <3> QED BY <3>1, ReadsStorageWith
  <2>3. ss \in [DOMAIN xs -> {ss[i] : i \in DOMAIN xs}] OBVIOUS
  <2> HIDE DEF xs, ss
  <2> QED BY <2>1, <2>2, <2>3 DEF Elements
<1> HIDE DEF ss
<1>4. Reads(Many(StorageReader(v)), Token("count", Len(xs)) \o FlattenSeq(ss), x) BY <1>2,
     <1>3, ReadsNil
<1> QED BY <1>1, <1>4

(* From version 7 on a pallet's storage has a prefix. *)
StorageText(v, x) ==
  (IF v = 6 THEN <<>> ELSE WriteText(x.prefix))
    \o WriteNil(LAMBDA i : With(v, WriteStorage, i), x.items)

LEMMA ReadsStorage ==
  ASSUME NEW v \in 7..16, NEW x, IsRecord(x, {"prefix", "items"}),
         IsNil(LAMBDA y : IsWith(v, IsStorage, y), x.items)
  PROVE  Reads(Storage(StorageReader(v)), StorageText(v, x), x)
<1>1. Reads(Text, WriteText(x.prefix), x["prefix"]) BY ReadsText
<1>2. Reads(Many(StorageReader(v)), WriteNil(LAMBDA i : With(v, WriteStorage, i), x.items),
            x["items"])
  BY ReadsStorageItems
<1>3. StorageText(v, x)
        = WriteText(x.prefix) \o WriteNil(LAMBDA i : With(v, WriteStorage, i), x.items)
  <2>1. v # 6 OBVIOUS
  <2> QED BY <2>1 DEF StorageText
<1> QED BY <1>1, <1>2, <1>3, RowsTwo DEF Storage

(* Version 6 keeps the last line of an item's documentation.               *)
LEMMA ReadsLastLine ==
  ASSUME NEW x, IsNil(IsAny, x)
  PROVE  Reads(LastOf(Text), WriteDocs(x), IF x = None THEN None ELSE <<x[Len(x)]>>)
<1> DEFINE xs == OrEmpty(x)
           ss == [i \in DOMAIN xs |-> WriteText(xs[i])]
<1>1. WriteDocs(x) = Token("count", Len(xs)) \o FlattenSeq(ss)
  BY DEF WriteDocs, WriteNil, WriteList
<1>2. x # None => x # <<>> /\ x \in Seq({x[i] : i \in DOMAIN x}) BY DEF IsNil, IsList
<1>3. Elements(Text, ss, xs)
  <2>1. xs \in Seq({xs[i] : i \in DOMAIN xs}) BY <1>2, NilList
  <2>2. \A i \in DOMAIN xs : Reads(Text, ss[i], xs[i]) BY ReadsText
  <2>3. ss \in [DOMAIN xs -> {ss[i] : i \in DOMAIN xs}] OBVIOUS
  <2> HIDE DEF xs, ss
  <2> QED BY <2>1, <2>2, <2>3 DEF Elements
<1>4. (IF xs = <<>> THEN None ELSE <<xs[Len(xs)]>>) = IF x
     = None THEN None ELSE <<x[Len(x)]>>
  BY <1>2 DEF OrEmpty
<1> HIDE DEF ss, xs
<1>5. Reads(LastOf(Text), Token("count", Len(xs)) \o FlattenSeq(ss),
            IF xs = <<>> THEN None ELSE <<xs[Len(xs)]>>)
  BY <1>3, ReadsLastOf
<1> QED BY <1>1, <1>4, <1>5

LEMMA ReadsStorage6Item ==
  ASSUME NEW x, IsStorage(6, x)
  PROVE  Reads(StorageItem6, WriteStorage(6, x), LastDoc(x))
<1> DEFINE y == LastDoc(x)  last == IF x.docs = None THEN None ELSE <<x.docs[Len(x.docs)]>>
<1>1. IsRecord(x, {"name", "modifier", "type", "fallback", "docs"}) /\ IsNil(IsAny, x.docs)
  BY DEF IsStorage
<1>2. DOMAIN x = {"name", "modifier", "type", "fallback", "docs"} BY <1>1 DEF IsRecord
<1>3. /\ y = [f \in DOMAIN x |-> y[f]] /\ y["docs"] = last
      /\ \A f \in DOMAIN x : f # "docs" => y[f] = x[f]
  BY <1>2 DEF LastDoc
<1>4. Reads(LastOf(Text), WriteDocs(x.docs), last) BY <1>1, ReadsLastLine
<1>5. EntryReader(6) = Case("storage", Entry6) /\ 6 \in 6..16 BY DEF EntryReader
<1> HIDE DEF y, last
<1>6. IsRecord(y, DOMAIN x) BY <1>3 DEF IsRecord
<1>7. Reads(StorageItem(EntryReader(6), LastOf(Text)), WriteStorage(6, x), y)
  BY <1>3, <1>4, <1>5, <1>6, ReadsStorageItem
<1> QED BY <1>5, <1>7 DEF StorageItem6, y

LEMMA ReadsStorage6 ==
  ASSUME NEW x, IsRecord(x, {"items"}), IsNil(LAMBDA y : IsWith(6, IsStorage, y), x.items)
  PROVE  Reads(Items6, StorageText(6, x),
               IF x.items = None THEN x
               ELSE [items |-> [i \in DOMAIN x.items |-> LastDoc(x.items[i])]])
<1> DEFINE xs == OrEmpty(x.items)
           ys == [i \in DOMAIN xs |-> LastDoc(xs[i])]
           ss == [i \in DOMAIN xs |-> WriteStorage(6, xs[i])]
           body == Token("count", Len(xs)) \o FlattenSeq(ss)
           y == IF x.items = None THEN x ELSE [items |-> ys]
<1>1. WriteNil(LAMBDA i : With(6, WriteStorage, i), x.items) = body
  BY DEF WriteNil, WriteList, With
<1>2. x.items # None => x.items # <<>>
     /\ x.items \in Seq({x.items[i] : i \in DOMAIN x.items})
  BY DEF IsNil, IsList
<1>3. xs \in Seq({xs[i] : i \in DOMAIN xs}) BY <1>2, NilList
<1>4. ASSUME NEW i \in DOMAIN xs PROVE Reads(StorageItem6, ss[i], ys[i])
  <2>1. IsStorage(6, xs[i])
    <3>1. 6 # 16 OBVIOUS
    <3> QED BY <3>1 DEF IsNil, IsList, OrEmpty, IsWith
  <2> QED BY <2>1, ReadsStorage6Item
<1>5. Elements(StorageItem6, ss, ys) /\ Len(ys) = Len(xs) /\ (xs = <<>> <=> ys = <<>>)
  <2>1. Len(xs) \in Nat /\ DOMAIN xs = 1..Len(xs) /\ (xs = <<>> <=> Len(xs) = 0)
    <3> HIDE DEF xs
    <3> QED BY <1>3
  <2>2. /\ ys \in [DOMAIN xs -> {ys[i] : i \in DOMAIN xs}] /\ DOMAIN ys = DOMAIN xs
        /\ ss \in [DOMAIN xs -> {ss[i] : i \in DOMAIN xs}]
    OBVIOUS
  <2> HIDE DEF xs, ys, ss
  <2>3. ys \in Seq({ys[i] : i \in DOMAIN ys}) /\ Len(ys) = Len(xs) BY <2>1, <2>2
  <2>4. xs = <<>> <=> ys = <<>> BY <2>1, <2>3
  <2> QED BY <1>4, <2>2, <2>3, <2>4 DEF Elements
<1>6. Reads(Many(StorageItem6), body, y["items"])
  <2>1. (IF ys = <<>> THEN None ELSE ys) = y["items"]
    <3>1. CASE x.items = None
      <4>1. xs = <<>> BY <3>1 DEF OrEmpty
      <4> HIDE DEF xs, ys
      <4> QED BY <1>5, <3>1, <4>1
    <3>2. CASE x.items # None
      <4>1. xs # <<>> BY <1>2, <3>2 DEF OrEmpty
      <4> HIDE DEF xs, ys
      <4> QED BY <1>5, <3>2, <4>1
    <3> QED BY <3>1, <3>2
  <2> HIDE DEF xs, ys, ss, y
  <2>2. Reads(Many(StorageItem6), Token("count", Len(ys)) \o FlattenSeq(ss),
              IF ys = <<>> THEN None ELSE ys)
    BY <1>5, ReadsMany
  <2> QED BY <1>5, <2>1, <2>2
<1>7. IsRecord(y, {"items"}) BY DEF IsRecord
<1>8. StorageText(6, x) = body
  <2>1. StorageText(6, x) = <<>> \o WriteNil(LAMBDA i : With(6, WriteStorage, i), x.items)
    BY DEF StorageText
  <2> HIDE DEF body
  <2>2. <<>> \o body = body BY <1>6, SeqNothing DEF Reads
  <2> QED BY <1>1, <2>1, <2>2
<1>9. y = IF x.items = None THEN x
          ELSE [items |-> [i \in DOMAIN x.items |-> LastDoc(x.items[i])]]
  BY DEF OrEmpty
<1> HIDE DEF body, y
<1>10. Reads(Items6, body, y) BY <1>6, <1>7, RowsOne DEF Items6
<1> QED BY <1>8, <1>9, <1>10

(* Constants. *)

ConstantReader(v) ==
  IF v < 14 THEN Constant6 ELSE IF v = 16 THEN With16(Constant14) ELSE Constant14

LEMMA ReadsConstant ==
  ASSUME NEW v \in 6..16, NEW x, IsConstant(v, x)
  PROVE  Reads(IF v < 14 THEN Constant6 ELSE Constant14, WriteConstant(v, x), x)
<1> DEFINE type == IF v < 14 THEN TypeText ELSE Id
           text == IF v < 14 THEN WriteType(x.type) ELSE WriteId(x.type)
<1>1. Reads(Text, WriteText(x.name), x["name"]) BY ReadsText
<1>2. Reads(type, text, x["type"]) BY ReadsType, ReadsId DEF IsConstant, IsType
<1>3. Reads(Leaf("bytes"), Token("bytes", x.value), x["value"]) BY ReadsLeaf
<1>4. Reads(Docs, WriteDocs(x.docs), x["docs"]) BY ReadsDocs DEF IsConstant
<1>5. IsRecord(x, {"name", "type", "value", "docs"}) BY DEF IsConstant
<1>6. WriteConstant(v, x)
        = WriteText(x.name) \o text \o Token("bytes", x.value) \o WriteDocs(x.docs)
  BY DEF WriteConstant
<1>7. (IF v < 14 THEN Constant6 ELSE Constant14)
        = Fields(<< <<"name", Text>>, <<"type", type>>, <<"value", Leaf("bytes")>>,
                    <<"docs", Docs>> >>)
  BY DEF Constant6, Constant14
<1> HIDE DEF type, text
<1> QED BY <1>1, <1>2, <1>3, <1>4, <1>5, <1>6, <1>7, RowsFour

LEMMA ReadsConstantWith ==
  ASSUME NEW v \in 6..16, NEW x, IsWith(v, IsConstant, x)
  PROVE  Reads(ConstantReader(v), With(v, WriteConstant, x), x)
<1>1. CASE v = 16
  <2>1. /\ IsConstant(v, x.item) /\ IsDeprecation(x.deprecation)
        /\ IsRecord(x, {"item", "deprecation"})
    BY <1>1 DEF IsWith
  <2>2. With(v, WriteConstant, x) = WriteConstant(v, x.item)
       \o WriteDeprecation(x.deprecation)
    BY <1>1 DEF With
  <2>3. ~ (v < 14) BY <1>1
  <2>4. ConstantReader(v) = With16(Constant14) BY <1>1, <2>3 DEF ConstantReader
  <2>5. Reads(Constant14, WriteConstant(v, x.item), x.item) BY <2>1, <2>3, ReadsConstant
  <2> QED BY <2>1, <2>2, <2>4, <2>5, ReadsWith16
<1>2. CASE v # 16
  <2>1. IsConstant(v, x) BY <1>2 DEF IsWith
  <2>2. With(v, WriteConstant, x) = WriteConstant(v, x) BY <1>2 DEF With
  <2>3. ConstantReader(v) = IF v < 14 THEN Constant6 ELSE Constant14
    BY <1>2 DEF ConstantReader
  <2> QED BY <2>1, <2>2, <2>3, ReadsConstant
<1> QED BY <1>1, <1>2

LEMMA ReadsConstants ==
  ASSUME NEW v \in 6..16, NEW x, IsNil(LAMBDA y : IsWith(v, IsConstant, y), x)
  PROVE  Reads(Many(ConstantReader(v)), WriteNil(LAMBDA i : With(v, WriteConstant, i), x),
       x)
<1> DEFINE xs == OrEmpty(x)
           ss == [i \in DOMAIN xs |-> With(v, WriteConstant, xs[i])]
<1>1. WriteNil(LAMBDA i : With(v, WriteConstant, i), x) = Token("count", Len(xs))
     \o FlattenSeq(ss)
  BY DEF WriteNil, WriteList
<1>2. x # None => x # <<>> /\ x \in Seq({x[i] : i \in DOMAIN x}) BY DEF IsNil, IsList
<1>3. Elements(ConstantReader(v), ss, xs)
  <2>1. xs \in Seq({xs[i] : i \in DOMAIN xs}) BY <1>2, NilList
  <2>2. ASSUME NEW i \in DOMAIN xs PROVE Reads(ConstantReader(v), ss[i], xs[i])
    <3>1. IsWith(v, IsConstant, xs[i]) BY DEF IsNil, IsList, OrEmpty
    <3> QED BY <3>1, ReadsConstantWith
  <2>3. ss \in [DOMAIN xs -> {ss[i] : i \in DOMAIN xs}] OBVIOUS
  <2> HIDE DEF xs, ss
  <2> QED BY <2>1, <2>2, <2>3 DEF Elements
<1> HIDE DEF ss
<1>4. Reads(Many(ConstantReader(v)), Token("count", Len(xs)) \o FlattenSeq(ss), x) BY <1>2,
     <1>3, ReadsNil
<1> QED BY <1>1, <1>4

(* What version 15 and 16 add to pallets, and the parameters of functions. *)

LEMMA ReadsParameter ==
  ASSUME NEW x, IsParameter(x)
  PROVE  Reads(Parameter, WriteParameter(x), x)
<1>1. Reads(Text, WriteText(x.name), x["name"]) BY ReadsText
<1>2. Reads(Id, WriteId(x.type), x["type"]) BY ReadsId
<1>3. IsRecord(x, {"name", "type"}) BY DEF IsParameter
<1>4. WriteParameter(x) = WriteText(x.name) \o WriteId(x.type) BY DEF WriteParameter
<1> QED BY <1>1, <1>2, <1>3, <1>4, RowsTwo DEF Parameter

LEMMA ReadsParameters ==
  ASSUME NEW x, IsNil(IsParameter, x)
  PROVE  Reads(Many(Parameter), WriteNil(WriteParameter, x), x)
<1> DEFINE xs == OrEmpty(x)
           ss == [i \in DOMAIN xs |-> WriteParameter(xs[i])]
<1>1. WriteNil(WriteParameter, x) = Token("count", Len(xs)) \o FlattenSeq(ss)
  BY DEF WriteNil, WriteList
<1>2. x # None => x # <<>> /\ x \in Seq({x[i] : i \in DOMAIN x}) BY DEF IsNil, IsList
<1>3. Elements(Parameter, ss, xs)
  <2>1. xs \in Seq({xs[i] : i \in DOMAIN xs}) BY <1>2, NilList
  <2>2. ASSUME NEW i \in DOMAIN xs PROVE Reads(Parameter, ss[i], xs[i])
    <3>1. IsParameter(xs[i]) BY DEF IsNil, IsList, OrEmpty
    <3> QED BY <3>1, ReadsParameter
  <2>3. ss \in [DOMAIN xs -> {ss[i] : i \in DOMAIN xs}] OBVIOUS
  <2> HIDE DEF xs, ss
  <2> QED BY <2>1, <2>2, <2>3 DEF Elements
<1> HIDE DEF ss
<1>4. Reads(Many(Parameter), Token("count", Len(xs)) \o FlattenSeq(ss), x) BY <1>2, <1>3,
     ReadsNil
<1> QED BY <1>1, <1>4

LEMMA ReadsParameterList ==
  ASSUME NEW x, IsList(IsParameter, x)
  PROVE  Reads(List(Parameter), WriteNil(WriteParameter, x), x)
<1> DEFINE xs == OrEmpty(x)
           ss == [i \in DOMAIN xs |-> WriteParameter(xs[i])]
<1>1. WriteNil(WriteParameter, x) = Token("count", Len(xs)) \o FlattenSeq(ss)
  BY DEF WriteNil, WriteList
<1>2. x # None /\ x \in Seq({x[i] : i \in DOMAIN x}) BY DEF IsList
<1>3. Elements(Parameter, ss, xs)
  <2>1. xs \in Seq({xs[i] : i \in DOMAIN xs}) BY <1>2, NilList
  <2>2. ASSUME NEW i \in DOMAIN xs PROVE Reads(Parameter, ss[i], xs[i])
    <3>1. IsParameter(xs[i]) BY DEF IsNil, IsList, OrEmpty
    <3> QED BY <3>1, ReadsParameter
  <2>3. ss \in [DOMAIN xs -> {ss[i] : i \in DOMAIN xs}] OBVIOUS
  <2> HIDE DEF xs, ss
  <2> QED BY <2>1, <2>2, <2>3 DEF Elements
<1> HIDE DEF ss
<1>4. xs = x BY <1>2 DEF OrEmpty
<1>5. Reads(List(Parameter), Token("count", Len(xs)) \o FlattenSeq(ss), xs) BY <1>3,
     ReadsList
<1> QED BY <1>1, <1>4, <1>5

LEMMA ReadsAssociated ==
  ASSUME NEW x, IsAssociated(x)
  PROVE  Reads(Associated, WriteParameter(x) \o WriteDocs(x.docs), x)
<1>1. Reads(Text, WriteText(x.name), x["name"]) BY ReadsText
<1>2. Reads(Id, WriteId(x.type), x["type"]) BY ReadsId
<1>3. Reads(List(Text), WriteDocs(x.docs), x["docs"]) BY ReadsLines DEF IsAssociated
<1>4. IsRecord(x, {"name", "type", "docs"}) BY DEF IsAssociated
<1>5. WriteParameter(x) \o WriteDocs(x.docs) = WriteText(x.name) \o WriteId(x.type)
     \o WriteDocs(x.docs) BY DEF WriteParameter
<1> QED BY <1>1, <1>2, <1>3, <1>4, <1>5, RowsThree DEF Associated

LEMMA ReadsAssociates ==
  ASSUME NEW x, IsNil(IsAssociated, x)
  PROVE  Reads(Many(Associated), WriteNil(LAMBDA a : WriteParameter(a)
       \o WriteDocs(a.docs), x), x)
<1> DEFINE xs == OrEmpty(x)
           ss == [i \in DOMAIN xs |-> WriteParameter(xs[i]) \o WriteDocs(xs[i].docs)]
<1>1. WriteNil(LAMBDA a : WriteParameter(a) \o WriteDocs(a.docs), x) = Token("count",
     Len(xs)) \o FlattenSeq(ss)
  BY DEF WriteNil, WriteList
<1>2. x # None => x # <<>> /\ x \in Seq({x[i] : i \in DOMAIN x}) BY DEF IsNil, IsList
<1>3. Elements(Associated, ss, xs)
  <2>1. xs \in Seq({xs[i] : i \in DOMAIN xs}) BY <1>2, NilList
  <2>2. ASSUME NEW i \in DOMAIN xs PROVE Reads(Associated, ss[i], xs[i])
    <3>1. IsAssociated(xs[i]) BY DEF IsNil, IsList, OrEmpty
    <3> QED BY <3>1, ReadsAssociated
  <2>3. ss \in [DOMAIN xs -> {ss[i] : i \in DOMAIN xs}] OBVIOUS
  <2> HIDE DEF xs, ss
  <2> QED BY <2>1, <2>2, <2>3 DEF Elements
<1> HIDE DEF ss
<1>4. Reads(Many(Associated), Token("count", Len(xs)) \o FlattenSeq(ss), x) BY <1>2, <1>3,
     ReadsNil
<1> QED BY <1>1, <1>4

LEMMA ReadsView ==
  ASSUME NEW x, IsView(x)
  PROVE  Reads(View, Token("bytes32", x.id) \o WriteText(x.name)
       \o WriteNil(WriteParameter, x.inputs) \o WriteId(x.output) \o WriteDocs(x.docs)
       \o WriteDeprecation(x.deprecation), x)
<1>1. Reads(Leaf("bytes32"), Token("bytes32", x.id), x["id"]) BY ReadsLeaf
<1>2. Reads(Text, WriteText(x.name), x["name"]) BY ReadsText
<1>3. Reads(Many(Parameter), WriteNil(WriteParameter, x.inputs), x["inputs"])
     BY ReadsParameters DEF IsView
<1>4. Reads(Id, WriteId(x.output), x["output"]) BY ReadsId
<1>5. Reads(List(Text), WriteDocs(x.docs), x["docs"]) BY ReadsLines DEF IsView
<1>6. Reads(Deprecation, WriteDeprecation(x.deprecation), x["deprecation"])
     BY ReadsDeprecation DEF IsView
<1>7. IsRecord(x, {"id", "name", "inputs", "output", "docs", "deprecation"}) BY DEF IsView
<1> QED BY <1>1, <1>2, <1>3, <1>4, <1>5, <1>6, <1>7, RowsSix DEF View

LEMMA ReadsViews ==
  ASSUME NEW x, IsNil(IsView, x)
  PROVE  Reads(Many(View), WriteNil(LAMBDA w : Token("bytes32", w.id)
       \o WriteText(w.name) \o WriteNil(WriteParameter, w.inputs) \o WriteId(w.output)
       \o WriteDocs(w.docs) \o WriteDeprecation(w.deprecation), x), x)
<1> DEFINE xs == OrEmpty(x)
           ss == [i \in DOMAIN xs |-> Token("bytes32", xs[i].id)
                \o WriteText(xs[i].name) \o WriteNil(WriteParameter, xs[i].inputs)
                \o WriteId(xs[i].output) \o WriteDocs(xs[i].docs)
                \o WriteDeprecation(xs[i].deprecation)]
<1>1. WriteNil(LAMBDA w : Token("bytes32", w.id) \o WriteText(w.name)
     \o WriteNil(WriteParameter, w.inputs) \o WriteId(w.output) \o WriteDocs(w.docs)
     \o WriteDeprecation(w.deprecation), x) = Token("count", Len(xs)) \o FlattenSeq(ss)
  BY DEF WriteNil, WriteList
<1>2. x # None => x # <<>> /\ x \in Seq({x[i] : i \in DOMAIN x}) BY DEF IsNil, IsList
<1>3. Elements(View, ss, xs)
  <2>1. xs \in Seq({xs[i] : i \in DOMAIN xs}) BY <1>2, NilList
  <2>2. ASSUME NEW i \in DOMAIN xs PROVE Reads(View, ss[i], xs[i])
    <3>1. IsView(xs[i]) BY DEF IsNil, IsList, OrEmpty
    <3> QED BY <3>1, ReadsView
  <2>3. ss \in [DOMAIN xs -> {ss[i] : i \in DOMAIN xs}] OBVIOUS
  <2> HIDE DEF xs, ss
  <2> QED BY <2>1, <2>2, <2>3 DEF Elements
<1> HIDE DEF ss
<1>4. Reads(Many(View), Token("count", Len(xs)) \o FlattenSeq(ss), x) BY <1>2, <1>3,
     ReadsNil
<1> QED BY <1>1, <1>4

-----------------------------------------------------------------------------
(* A pallet. *)

(* The bytes of a pallet, piece by piece.                                  *)
PrefixText(v, p) == IF v = 6 THEN WriteText(p.prefix) ELSE <<>>
StorageOption(v, p) == Option(p.storage, StorageText(v, p.storage))
SectionOption(v, section, p) == Option(p[section], WriteSection(v, section, p[section]))
ConstantsText(v, p) == WriteNil(LAMBDA i : With(v, WriteConstant, i), p.constants)
ErrorsText(v, p) ==
  CASE v < 8 -> <<>>
    [] v \in 8..13 -> WriteNil(LAMBDA i : WriteItem("errors", i), p.errors)
    [] OTHER -> SectionOption(v, "errors", p)
AssociatedText(p) ==
  WriteNil(LAMBDA a : WriteParameter(a) \o WriteDocs(a.docs), p.associated)
ViewsText(p) ==
  WriteNil(LAMBDA w : Token("bytes32", w.id) \o WriteText(w.name)
                        \o WriteNil(WriteParameter, w.inputs) \o WriteId(w.output)
                        \o WriteDocs(w.docs) \o WriteDeprecation(w.deprecation), p.views)
FunctionsText(v, p) == IF v < 16 THEN <<>> ELSE AssociatedText(p) \o ViewsText(p)
IndexText(v, p) == IF v < 12 THEN <<>> ELSE Token("u8", p.index)
DocsText(v, p) == IF v < 15 THEN <<>> ELSE WriteDocs(p.docs)
DeprecationText(v, p) == IF v < 16 THEN <<>> ELSE WriteDeprecation(p.deprecation)

LEMMA PalletText ==
  ASSUME NEW v, NEW p
  PROVE  WritePallet(v, p)
           = WriteText(p.name) \o PrefixText(v, p) \o StorageOption(v, p)
               \o SectionOption(v, "calls", p) \o SectionOption(v, "events", p)
               \o ConstantsText(v, p) \o ErrorsText(v, p) \o FunctionsText(v, p)
               \o IndexText(v, p) \o DocsText(v, p) \o DeprecationText(v, p)
BY DEF WritePallet, PrefixText, StorageOption, StorageText, SectionOption, ConstantsText,
       ErrorsText, FunctionsText, AssociatedText, ViewsText, IndexText, DocsText,
       DeprecationText, WriteOption, Option

LEMMA SeenFields ==
  ASSUME NEW v \in 6..16, NEW p, IsPallet(v, p)
  PROVE  /\ IsRecord(Seen(v, p), PalletFields(v))
         /\ \A f \in PalletFields(v) \ {"calls", "events", "storage"} : Seen(v, p)[f] = p[f]
         /\ Seen(v, p)["calls"] = SeenSection(v, p.calls)
         /\ Seen(v, p)["events"] = SeenSection(v, p.events)
         /\ v # 6 => Seen(v, p)["storage"] = p.storage
         /\ v = 6 =>
              Seen(v, p)["storage"] =
                IF p.storage = None THEN None
                ELSE IF p.storage.items = None THEN p.storage
                ELSE [items |-> [i \in DOMAIN p.storage.items |-> LastDoc(p.storage.items[i])]]
<1>1. p = [f \in PalletFields(v) |-> p[f]] BY DEF IsPallet, IsRecord
<1>2. {"calls", "events", "storage"} \subseteq PalletFields(v) BY DEF PalletFields
<1> DEFINE F == PalletFields(v)
<1> HIDE DEF F
<1>3. DOMAIN p = F /\ "calls" \in F /\ "events" \in F /\ "storage" \in F BY <1>1, <1>2 DEF F
<1> QED BY <1>3 DEF Seen, IsRecord, F

LEMMA ReadsStorageField ==
  ASSUME NEW v \in 6..16, NEW p, IsPallet(v, p)
  PROVE  Reads(If(IF v = 6 THEN Items6 ELSE Storage(StorageReader(v))), StorageOption(v, p),
               Seen(v, p)["storage"])
<1> DEFINE x == p.storage  y == Seen(v, p)["storage"]
<1>1. x = None => y = None BY SeenFields
<1>2. ASSUME x # None, v = 6 PROVE Reads(Items6, StorageText(v, x), y)
  <2>1. IsRecord(x, {"items"}) /\ IsNil(LAMBDA z : IsWith(v, IsStorage, z), x.items)
    BY <1>2 DEF IsPallet
  <2>2. y = IF x.items = None THEN x
            ELSE [items |-> [i \in DOMAIN x.items |-> LastDoc(x.items[i])]]
    BY <1>2, SeenFields
  <2> HIDE DEF x, y
  <2>3. IsNil(LAMBDA z : IsWith(6, IsStorage, z), x.items) BY <1>2, <2>1 DEF IsNil, IsList
  <2>4. Reads(Items6, StorageText(6, x), y) BY <2>1, <2>2, <2>3, ReadsStorage6
  <2> QED BY <1>2, <2>4
<1>3. ASSUME x # None, v # 6
      PROVE  Reads(Storage(StorageReader(v)), StorageText(v, x), y)
  <2>1. IsRecord(x, {"prefix", "items"}) /\ IsNil(LAMBDA z : IsWith(v, IsStorage, z),
       x.items)
    BY <1>3 DEF IsPallet
  <2>2. y = x BY <1>3, SeenFields
  <2>3. v \in 7..16 BY <1>3
  <2> HIDE DEF x, y
  <2>4. Reads(Storage(StorageReader(v)), StorageText(v, x), x) BY <2>1, <2>3, ReadsStorage
  <2> QED BY <2>2, <2>4
<1>4. x # None
        => Reads(IF v = 6 THEN Items6 ELSE Storage(StorageReader(v)), StorageText(v, x), y)
  BY <1>2, <1>3
<1> HIDE DEF x, y
<1> QED BY <1>1, <1>4, ReadsOption DEF StorageOption, x, y

LEMMA ReadsCallField ==
  ASSUME NEW v \in 6..13, NEW p, IsPallet(v, p)
  PROVE  Reads(If(IF v \in 8..11 THEN List(CallItem) ELSE Many(CallItem)),
               SectionOption(v, "calls", p), Seen(v, p)["calls"])
<1>1. IsSection(v, IsCall, p.calls) BY DEF IsPallet
<1>2. v \in 6..16 OBVIOUS
<1>3. Seen(v, p)["calls"] = SeenSection(v, p.calls) BY <1>2, SeenFields
<1> QED BY <1>1, <1>3, ReadsCallSection DEF SectionOption

LEMMA ReadsEventField ==
  ASSUME NEW v \in 6..13, NEW p, IsPallet(v, p)
  PROVE  Reads(If(IF v \in 8..11 THEN List(EventItem) ELSE Many(EventItem)),
               SectionOption(v, "events", p), Seen(v, p)["events"])
<1>1. IsSection(v, IsEvent, p.events) BY DEF IsPallet
<1>2. v \in 6..16 OBVIOUS
<1>3. Seen(v, p)["events"] = SeenSection(v, p.events) BY <1>2, SeenFields
<1> QED BY <1>1, <1>3, ReadsEventSection DEF SectionOption

LEMMA ReadsEnumField ==
  ASSUME NEW v \in 14..16, NEW p, IsPallet(v, p), NEW s \in {"calls", "events", "errors"}
  PROVE  Reads(If(IF v = 16 THEN Enum16 ELSE Id), SectionOption(v, s, p), Seen(v, p)[s])
<1>1. v \in 6..16 /\ v >= 14 /\ v >= 8 OBVIOUS
<1>2. v = 16 /\ p[s] # None => IsEnum(p[s])
  <2>1. CASE s = "calls"
    <3>1. IsSection(v, IsCall, p.calls) BY DEF IsPallet
    <3> QED BY <2>1, <3>1 DEF IsSection
  <2>2. CASE s = "events"
    <3>1. IsSection(v, IsEvent, p.events) BY DEF IsPallet
    <3> QED BY <2>2, <3>1 DEF IsSection
  <2>3. CASE s = "errors"
    <3>1. IsSection(v, IsAny, p.errors) BY <1>1 DEF IsPallet
    <3> QED BY <2>3, <3>1 DEF IsSection
  <2> QED BY <2>1, <2>2, <2>3
<1>3. Seen(v, p)[s] = p[s]
  <2>1. CASE s = "errors"
    <3>1. s \in PalletFields(v) \ {"calls", "events", "storage"} BY <1>1, <2>1
         DEF PalletFields
    <3> QED BY <1>1, <3>1, SeenFields
  <2>2. CASE s # "errors"
    <3>1. SeenSection(v, p[s]) = p[s]
      <4>1. v \notin {6, 7, 12, 13} OBVIOUS
      <4> QED BY <4>1 DEF SeenSection
    <3>2. Seen(v, p)[s] = SeenSection(v, p[s]) BY <1>1, <2>2, SeenFields
    <3> QED BY <3>1, <3>2
  <2> QED BY <2>1, <2>2
<1> QED BY <1>2, <1>3, ReadsEnumSection DEF SectionOption

LEMMA ReadsKeptField ==
  ASSUME NEW v \in 6..16, NEW p, IsPallet(v, p),
         NEW f \in PalletFields(v) \ {"calls", "events", "storage"},
         NEW r, NEW s, Reads(r, s, p[f])
  PROVE  Reads(r, s, Seen(v, p)[f])
BY SeenFields

LEMMA SeqAssoc ==
  ASSUME NEW a, IsSeq(a), NEW b, IsSeq(b), NEW c, IsSeq(c)
  PROVE  a \o (b \o c) = (a \o b) \o c
<1>1. PICK S : a \in Seq(S) BY DEF IsSeq
<1>2. PICK T : b \in Seq(T) BY DEF IsSeq
<1>3. PICK U : c \in Seq(U) BY DEF IsSeq
<1> DEFINE V == S \cup T \cup U
<1>4. a \in Seq(V) /\ b \in Seq(V) /\ c \in Seq(V) BY <1>1, <1>2, <1>3
<1> HIDE DEF V
<1> QED BY <1>4, ConcatAssoc

LEMMA ReadsPallet6 ==
  ASSUME NEW v, v = 6, NEW p, IsPallet(v, p)
  PROVE  Reads(Fields(Module6), WritePallet(v, p), Seen(v, p))
<1> DEFINE of == Module6  y == Seen(v, p)
<1>0. /\ v \in 6..16
      /\ v \in 6..13
      /\ v < 8
      /\ v < 12
      /\ v < 13
      /\ v < 14
      /\ v < 15
      /\ v < 16
      /\ v # 13
      /\ v # 16
      /\ v \notin 8..11
      /\ v \notin 8..13
  OBVIOUS
<1>1. IsSeq(of) /\ Len(of) = 6 /\ DOMAIN of = 1..6
  <2>1. of \in Seq({of[1], of[2], of[3], of[4], of[5], of[6]}) /\ Len(of) = 6 BY DEF Module6
  <2> HIDE DEF of
  <2>2. IsSeq(of) BY <2>1 DEF IsSeq
  <2> QED BY <2>1, <2>2, SeqDomain
<1>2. /\ of[1] = <<"name", Text>>
      /\ of[2] = <<"prefix", Text>>
      /\ of[3] = <<"storage", If(Items6)>>
      /\ of[4] = <<"calls", If(Many(CallItem))>>
      /\ of[5] = <<"events", If(Many(EventItem))>>
      /\ of[6] = <<"constants", Many(Constant6)>>
  BY DEF Module6
<1>3. PalletFields(v) = {"name", "prefix", "storage", "calls", "events", "constants"}
     BY <1>0 DEF PalletFields
<1>4. {of[i][1] : i \in DOMAIN of} = {"name", "prefix", "storage", "calls", "events",
     "constants"}
  <2>1. \A i \in 1..6 : i = 1 \/ i = 2 \/ i = 3 \/ i = 4 \/ i = 5 \/ i = 6 OBVIOUS
  <2> HIDE DEF of
  <2> QED BY <1>1, <1>2, <2>1
<1>5. Reads(Text, WriteText(p.name), y["name"])
  <2>1. "name" \in PalletFields(v) \ {"calls", "events", "storage"} BY <1>3
  <2>2. Reads(Text, WriteText(p.name), p["name"]) BY ReadsText
  <2> QED BY <1>0, <2>1, <2>2, ReadsKeptField
<1>6. Reads(Text, WriteText(p.prefix), y["prefix"])
  <2>1. "prefix" \in PalletFields(v) \ {"calls", "events", "storage"} BY <1>3
  <2>2. Reads(Text, WriteText(p.prefix), p["prefix"]) BY ReadsText
  <2> QED BY <1>0, <2>1, <2>2, ReadsKeptField
<1>7. Reads(If(Items6), StorageOption(v, p), y["storage"]) BY <1>0, ReadsStorageField
<1>8. Reads(If(Many(CallItem)), SectionOption(v, "calls", p), y["calls"]) BY <1>0,
     ReadsCallField
<1>9. Reads(If(Many(EventItem)), SectionOption(v, "events", p), y["events"]) BY <1>0,
     ReadsEventField
<1>10. Reads(Many(Constant6), ConstantsText(v, p), y["constants"])
  <2>1. "constants" \in PalletFields(v) \ {"calls", "events", "storage"} BY <1>3
  <2>2. Reads(Many(Constant6), ConstantsText(v, p), p["constants"]) 
    <3>1. ConstantReader(v) = Constant6 BY <1>0 DEF ConstantReader
    <3>2. IsNil(LAMBDA z : IsWith(v, IsConstant, z), p.constants) BY DEF IsPallet
    <3> QED BY <1>0, <3>1, <3>2, ReadsConstants DEF ConstantsText
  <2> QED BY <1>0, <2>1, <2>2, ReadsKeptField
<1> DEFINE s1 == WriteText(p.name)
           s2 == s1 \o PrefixText(v, p)
           s3 == s2 \o StorageOption(v, p)
           s4 == s3 \o SectionOption(v, "calls", p)
           s5 == s4 \o SectionOption(v, "events", p)
           s6 == s5 \o ConstantsText(v, p)
           s7 == s6 \o ErrorsText(v, p)
           s8 == s7 \o FunctionsText(v, p)
           s9 == s8 \o IndexText(v, p)
           s10 == s9 \o DocsText(v, p)
           s11 == s10 \o DeprecationText(v, p)
<1>11. WritePallet(v, p) = s11 BY PalletText
<1>12. IsRecord(y, {of[i][1] : i \in DOMAIN of}) BY <1>0, <1>3, <1>4, SeenFields
<1> HIDE DEF of, y, s1, s2, s3, s4, s5, s6, s7, s8, s9, s10, s11
<1>13. Rows(of, 1, s1, y)
  <2>1. Rows(of, 0, <<>>, y) /\ 0 + 1 = 1 /\ 0 < Len(of) BY <1>1, RowsNone
  <2>2. Rows(of, 1, <<>> \o WriteText(p.name), y) BY <1>2, <1>5, <2>1, RowsMore
  <2> QED BY <2>2, <1>5, SeqNothing DEF Reads, s1
<1>14. Rows(of, 2, s2, y)
  <2>1. 1 + 1 = 2 /\ 1 < Len(of) BY <1>1
  <2>2. PrefixText(v, p) = WriteText(p.prefix) BY <1>0 DEF PrefixText
  <2> QED BY <1>2, <1>13, <1>6, <2>1, <2>2, RowsMore DEF s2
<1>15. Rows(of, 3, s3, y)
  <2>1. 2 + 1 = 3 /\ 2 < Len(of) BY <1>1
  <2> QED BY <1>2, <1>14, <1>7, <2>1, RowsMore DEF s3
<1>16. Rows(of, 4, s4, y)
  <2>1. 3 + 1 = 4 /\ 3 < Len(of) BY <1>1
  <2> QED BY <1>2, <1>15, <1>8, <2>1, RowsMore DEF s4
<1>17. Rows(of, 5, s5, y)
  <2>1. 4 + 1 = 5 /\ 4 < Len(of) BY <1>1
  <2> QED BY <1>2, <1>16, <1>9, <2>1, RowsMore DEF s5
<1>18. Rows(of, 6, s6, y)
  <2>1. 5 + 1 = 6 /\ 5 < Len(of) BY <1>1
  <2> QED BY <1>2, <1>17, <1>10, <2>1, RowsMore DEF s6
<1>19. Rows(of, 6, s7, y)
  <2>1. ErrorsText(v, p) = <<>> BY <1>0 DEF ErrorsText
  <2> QED BY <1>18, <2>1, RowsSkip DEF s7
<1>20. Rows(of, 6, s8, y)
  <2>1. FunctionsText(v, p) = <<>> BY <1>0 DEF FunctionsText
  <2> QED BY <1>19, <2>1, RowsSkip DEF s8
<1>21. Rows(of, 6, s9, y)
  <2>1. IndexText(v, p) = <<>> BY <1>0 DEF IndexText
  <2> QED BY <1>20, <2>1, RowsSkip DEF s9
<1>22. Rows(of, 6, s10, y)
  <2>1. DocsText(v, p) = <<>> BY <1>0 DEF DocsText
  <2> QED BY <1>21, <2>1, RowsSkip DEF s10
<1>23. Rows(of, 6, s11, y)
  <2>1. DeprecationText(v, p) = <<>> BY <1>0 DEF DeprecationText
  <2> QED BY <1>22, <2>1, RowsSkip DEF s11
<1>24. Reads(Fields(of), s11, y) BY <1>1, <1>12, <1>23, RowsRead
<1> QED BY <1>11, <1>24 DEF of, y

LEMMA ReadsPallet7 ==
  ASSUME NEW v, v = 7, NEW p, IsPallet(v, p)
  PROVE  Reads(Fields(Module7), WritePallet(v, p), Seen(v, p))
<1> DEFINE of == Module7  y == Seen(v, p)
<1>0. /\ v \in 6..16
      /\ v \in 6..13
      /\ v # 6
      /\ v < 8
      /\ v < 12
      /\ v < 13
      /\ v < 14
      /\ v < 15
      /\ v < 16
      /\ v # 13
      /\ v # 16
      /\ v \notin 8..11
      /\ v \notin 8..13
  OBVIOUS
<1>1. IsSeq(of) /\ Len(of) = 5 /\ DOMAIN of = 1..5
  <2>1. of \in Seq({of[1], of[2], of[3], of[4], of[5]}) /\ Len(of) = 5 BY DEF Module7
  <2> HIDE DEF of
  <2>2. IsSeq(of) BY <2>1 DEF IsSeq
  <2> QED BY <2>1, <2>2, SeqDomain
<1>2. /\ of[1] = <<"name", Text>>
      /\ of[2] = <<"storage", If(Storage(StorageItem7))>>
      /\ of[3] = <<"calls", If(Many(CallItem))>>
      /\ of[4] = <<"events", If(Many(EventItem))>>
      /\ of[5] = <<"constants", Many(Constant6)>>
  BY DEF Module7
<1>3. PalletFields(v) = {"name", "storage", "calls", "events", "constants"} BY <1>0
     DEF PalletFields
<1>4. {of[i][1] : i \in DOMAIN of} = {"name", "storage", "calls", "events", "constants"}
  <2>1. \A i \in 1..5 : i = 1 \/ i = 2 \/ i = 3 \/ i = 4 \/ i = 5 OBVIOUS
  <2> HIDE DEF of
  <2> QED BY <1>1, <1>2, <2>1
<1>5. Reads(Text, WriteText(p.name), y["name"])
  <2>1. "name" \in PalletFields(v) \ {"calls", "events", "storage"} BY <1>3
  <2>2. Reads(Text, WriteText(p.name), p["name"]) BY ReadsText
  <2> QED BY <1>0, <2>1, <2>2, ReadsKeptField
<1>6. Reads(If(Storage(StorageItem7)), StorageOption(v, p), y["storage"])
  <2>1. StorageReader(v) = StorageItem7 BY <1>0 DEF StorageReader
  <2> QED BY <1>0, <2>1, ReadsStorageField
<1>7. Reads(If(Many(CallItem)), SectionOption(v, "calls", p), y["calls"]) BY <1>0,
     ReadsCallField
<1>8. Reads(If(Many(EventItem)), SectionOption(v, "events", p), y["events"]) BY <1>0,
     ReadsEventField
<1>9. Reads(Many(Constant6), ConstantsText(v, p), y["constants"])
  <2>1. "constants" \in PalletFields(v) \ {"calls", "events", "storage"} BY <1>3
  <2>2. Reads(Many(Constant6), ConstantsText(v, p), p["constants"]) 
    <3>1. ConstantReader(v) = Constant6 BY <1>0 DEF ConstantReader
    <3>2. IsNil(LAMBDA z : IsWith(v, IsConstant, z), p.constants) BY DEF IsPallet
    <3> QED BY <1>0, <3>1, <3>2, ReadsConstants DEF ConstantsText
  <2> QED BY <1>0, <2>1, <2>2, ReadsKeptField
<1> DEFINE s1 == WriteText(p.name)
           s2 == s1 \o PrefixText(v, p)
           s3 == s2 \o StorageOption(v, p)
           s4 == s3 \o SectionOption(v, "calls", p)
           s5 == s4 \o SectionOption(v, "events", p)
           s6 == s5 \o ConstantsText(v, p)
           s7 == s6 \o ErrorsText(v, p)
           s8 == s7 \o FunctionsText(v, p)
           s9 == s8 \o IndexText(v, p)
           s10 == s9 \o DocsText(v, p)
           s11 == s10 \o DeprecationText(v, p)
<1>10. WritePallet(v, p) = s11 BY PalletText
<1>11. IsRecord(y, {of[i][1] : i \in DOMAIN of}) BY <1>0, <1>3, <1>4, SeenFields
<1> HIDE DEF of, y, s1, s2, s3, s4, s5, s6, s7, s8, s9, s10, s11
<1>12. Rows(of, 1, s1, y)
  <2>1. Rows(of, 0, <<>>, y) /\ 0 + 1 = 1 /\ 0 < Len(of) BY <1>1, RowsNone
  <2>2. Rows(of, 1, <<>> \o WriteText(p.name), y) BY <1>2, <1>5, <2>1, RowsMore
  <2> QED BY <2>2, <1>5, SeqNothing DEF Reads, s1
<1>13. Rows(of, 1, s2, y)
  <2>1. PrefixText(v, p) = <<>> BY <1>0 DEF PrefixText
  <2> QED BY <1>12, <2>1, RowsSkip DEF s2
<1>14. Rows(of, 2, s3, y)
  <2>1. 1 + 1 = 2 /\ 1 < Len(of) BY <1>1
  <2> QED BY <1>2, <1>13, <1>6, <2>1, RowsMore DEF s3
<1>15. Rows(of, 3, s4, y)
  <2>1. 2 + 1 = 3 /\ 2 < Len(of) BY <1>1
  <2> QED BY <1>2, <1>14, <1>7, <2>1, RowsMore DEF s4
<1>16. Rows(of, 4, s5, y)
  <2>1. 3 + 1 = 4 /\ 3 < Len(of) BY <1>1
  <2> QED BY <1>2, <1>15, <1>8, <2>1, RowsMore DEF s5
<1>17. Rows(of, 5, s6, y)
  <2>1. 4 + 1 = 5 /\ 4 < Len(of) BY <1>1
  <2> QED BY <1>2, <1>16, <1>9, <2>1, RowsMore DEF s6
<1>18. Rows(of, 5, s7, y)
  <2>1. ErrorsText(v, p) = <<>> BY <1>0 DEF ErrorsText
  <2> QED BY <1>17, <2>1, RowsSkip DEF s7
<1>19. Rows(of, 5, s8, y)
  <2>1. FunctionsText(v, p) = <<>> BY <1>0 DEF FunctionsText
  <2> QED BY <1>18, <2>1, RowsSkip DEF s8
<1>20. Rows(of, 5, s9, y)
  <2>1. IndexText(v, p) = <<>> BY <1>0 DEF IndexText
  <2> QED BY <1>19, <2>1, RowsSkip DEF s9
<1>21. Rows(of, 5, s10, y)
  <2>1. DocsText(v, p) = <<>> BY <1>0 DEF DocsText
  <2> QED BY <1>20, <2>1, RowsSkip DEF s10
<1>22. Rows(of, 5, s11, y)
  <2>1. DeprecationText(v, p) = <<>> BY <1>0 DEF DeprecationText
  <2> QED BY <1>21, <2>1, RowsSkip DEF s11
<1>23. Reads(Fields(of), s11, y) BY <1>1, <1>11, <1>22, RowsRead
<1> QED BY <1>10, <1>23 DEF of, y

LEMMA ReadsPallet8 ==
  ASSUME NEW v \in 8..11, NEW p, IsPallet(v, p)
  PROVE  Reads(Fields(Module8), WritePallet(v, p), Seen(v, p))
<1> DEFINE of == Module8  y == Seen(v, p)
<1>0. /\ v \in 6..16
      /\ v \in 6..13
      /\ v # 6
      /\ v >= 8 /\ ~ (v < 8)
      /\ v < 12
      /\ v < 13
      /\ v < 14
      /\ v < 15
      /\ v < 16
      /\ v # 13
      /\ v # 16
      /\ v \in 8..11
      /\ v \in 8..13
  OBVIOUS
<1>1. IsSeq(of) /\ Len(of) = 6 /\ DOMAIN of = 1..6
  <2>1. of \in Seq({of[1], of[2], of[3], of[4], of[5], of[6]}) /\ Len(of) = 6 BY DEF Module8
  <2> HIDE DEF of
  <2>2. IsSeq(of) BY <2>1 DEF IsSeq
  <2> QED BY <2>1, <2>2, SeqDomain
<1>2. /\ of[1] = <<"name", Text>>
      /\ of[2] = <<"storage", If(Storage(StorageItem7))>>
      /\ of[3] = <<"calls", If(List(CallItem))>>
      /\ of[4] = <<"events", If(List(EventItem))>>
      /\ of[5] = <<"constants", Many(Constant6)>>
      /\ of[6] = <<"errors", Many(ErrorItem)>>
  BY DEF Module8
<1>3. PalletFields(v) = {"name", "storage", "calls", "events", "constants", "errors"}
     BY <1>0 DEF PalletFields
<1>4. {of[i][1] : i \in DOMAIN of} = {"name", "storage", "calls", "events", "constants",
     "errors"}
  <2>1. \A i \in 1..6 : i = 1 \/ i = 2 \/ i = 3 \/ i = 4 \/ i = 5 \/ i = 6 OBVIOUS
  <2> HIDE DEF of
  <2> QED BY <1>1, <1>2, <2>1
<1>5. Reads(Text, WriteText(p.name), y["name"])
  <2>1. "name" \in PalletFields(v) \ {"calls", "events", "storage"} BY <1>3
  <2>2. Reads(Text, WriteText(p.name), p["name"]) BY ReadsText
  <2> QED BY <1>0, <2>1, <2>2, ReadsKeptField
<1>6. Reads(If(Storage(StorageItem7)), StorageOption(v, p), y["storage"])
  <2>1. StorageReader(v) = StorageItem7 BY <1>0 DEF StorageReader
  <2> QED BY <1>0, <2>1, ReadsStorageField
<1>7. Reads(If(List(CallItem)), SectionOption(v, "calls", p), y["calls"]) BY <1>0,
     ReadsCallField
<1>8. Reads(If(List(EventItem)), SectionOption(v, "events", p), y["events"]) BY <1>0,
     ReadsEventField
<1>9. Reads(Many(Constant6), ConstantsText(v, p), y["constants"])
  <2>1. "constants" \in PalletFields(v) \ {"calls", "events", "storage"} BY <1>3
  <2>2. Reads(Many(Constant6), ConstantsText(v, p), p["constants"]) 
    <3>1. ConstantReader(v) = Constant6 BY <1>0 DEF ConstantReader
    <3>2. IsNil(LAMBDA z : IsWith(v, IsConstant, z), p.constants) BY DEF IsPallet
    <3> QED BY <1>0, <3>1, <3>2, ReadsConstants DEF ConstantsText
  <2> QED BY <1>0, <2>1, <2>2, ReadsKeptField
<1>10. Reads(Many(ErrorItem), ErrorsText(v, p), y["errors"])
  <2>1. "errors" \in PalletFields(v) \ {"calls", "events", "storage"} BY <1>3
  <2>2. Reads(Many(ErrorItem), ErrorsText(v, p), p["errors"]) 
    <3>1. IsNil(IsError, p.errors) BY <1>0 DEF IsPallet
    <3>2. ErrorsText(v, p) = WriteNil(LAMBDA i : WriteItem("errors", i), p.errors)
      BY <1>0 DEF ErrorsText
    <3> QED BY <3>1, <3>2, ReadsErrors
  <2> QED BY <1>0, <2>1, <2>2, ReadsKeptField
<1> DEFINE s1 == WriteText(p.name)
           s2 == s1 \o PrefixText(v, p)
           s3 == s2 \o StorageOption(v, p)
           s4 == s3 \o SectionOption(v, "calls", p)
           s5 == s4 \o SectionOption(v, "events", p)
           s6 == s5 \o ConstantsText(v, p)
           s7 == s6 \o ErrorsText(v, p)
           s8 == s7 \o FunctionsText(v, p)
           s9 == s8 \o IndexText(v, p)
           s10 == s9 \o DocsText(v, p)
           s11 == s10 \o DeprecationText(v, p)
<1>11. WritePallet(v, p) = s11 BY PalletText
<1>12. IsRecord(y, {of[i][1] : i \in DOMAIN of}) BY <1>0, <1>3, <1>4, SeenFields
<1> HIDE DEF of, y, s1, s2, s3, s4, s5, s6, s7, s8, s9, s10, s11
<1>13. Rows(of, 1, s1, y)
  <2>1. Rows(of, 0, <<>>, y) /\ 0 + 1 = 1 /\ 0 < Len(of) BY <1>1, RowsNone
  <2>2. Rows(of, 1, <<>> \o WriteText(p.name), y) BY <1>2, <1>5, <2>1, RowsMore
  <2> QED BY <2>2, <1>5, SeqNothing DEF Reads, s1
<1>14. Rows(of, 1, s2, y)
  <2>1. PrefixText(v, p) = <<>> BY <1>0 DEF PrefixText
  <2> QED BY <1>13, <2>1, RowsSkip DEF s2
<1>15. Rows(of, 2, s3, y)
  <2>1. 1 + 1 = 2 /\ 1 < Len(of) BY <1>1
  <2> QED BY <1>2, <1>14, <1>6, <2>1, RowsMore DEF s3
<1>16. Rows(of, 3, s4, y)
  <2>1. 2 + 1 = 3 /\ 2 < Len(of) BY <1>1
  <2> QED BY <1>2, <1>15, <1>7, <2>1, RowsMore DEF s4
<1>17. Rows(of, 4, s5, y)
  <2>1. 3 + 1 = 4 /\ 3 < Len(of) BY <1>1
  <2> QED BY <1>2, <1>16, <1>8, <2>1, RowsMore DEF s5
<1>18. Rows(of, 5, s6, y)
  <2>1. 4 + 1 = 5 /\ 4 < Len(of) BY <1>1
  <2> QED BY <1>2, <1>17, <1>9, <2>1, RowsMore DEF s6
<1>19. Rows(of, 6, s7, y)
  <2>1. 5 + 1 = 6 /\ 5 < Len(of) BY <1>1
  <2> QED BY <1>2, <1>18, <1>10, <2>1, RowsMore DEF s7
<1>20. Rows(of, 6, s8, y)
  <2>1. FunctionsText(v, p) = <<>> BY <1>0 DEF FunctionsText
  <2> QED BY <1>19, <2>1, RowsSkip DEF s8
<1>21. Rows(of, 6, s9, y)
  <2>1. IndexText(v, p) = <<>> BY <1>0 DEF IndexText
  <2> QED BY <1>20, <2>1, RowsSkip DEF s9
<1>22. Rows(of, 6, s10, y)
  <2>1. DocsText(v, p) = <<>> BY <1>0 DEF DocsText
  <2> QED BY <1>21, <2>1, RowsSkip DEF s10
<1>23. Rows(of, 6, s11, y)
  <2>1. DeprecationText(v, p) = <<>> BY <1>0 DEF DeprecationText
  <2> QED BY <1>22, <2>1, RowsSkip DEF s11
<1>24. Reads(Fields(of), s11, y) BY <1>1, <1>12, <1>23, RowsRead
<1> QED BY <1>11, <1>24 DEF of, y

LEMMA ReadsPallet12 ==
  ASSUME NEW v, v = 12, NEW p, IsPallet(v, p)
  PROVE  Reads(Fields(Module12), WritePallet(v, p), Seen(v, p))
<1> DEFINE of == Module12  y == Seen(v, p)
<1>0. /\ v \in 6..16
      /\ v \in 6..13
      /\ v # 6
      /\ v >= 8 /\ ~ (v < 8)
      /\ v >= 12 /\ ~ (v < 12)
      /\ v < 13
      /\ v < 14
      /\ v < 15
      /\ v < 16
      /\ v # 13
      /\ v # 16
      /\ v \notin 8..11
      /\ v \in 8..13
  OBVIOUS
<1>1. IsSeq(of) /\ Len(of) = 7 /\ DOMAIN of = 1..7
  <2>1. of \in Seq({of[1], of[2], of[3], of[4], of[5], of[6], of[7]}) /\ Len(of) = 7 BY
       DEF Module12
  <2> HIDE DEF of
  <2>2. IsSeq(of) BY <2>1 DEF IsSeq
  <2> QED BY <2>1, <2>2, SeqDomain
<1>2. /\ of[1] = <<"name", Text>>
      /\ of[2] = <<"storage", If(Storage(StorageItem7))>>
      /\ of[3] = <<"calls", If(Many(CallItem))>>
      /\ of[4] = <<"events", If(Many(EventItem))>>
      /\ of[5] = <<"constants", Many(Constant6)>>
      /\ of[6] = <<"errors", Many(ErrorItem)>>
      /\ of[7] = <<"index", U8>>
  BY DEF Module12
<1>3. PalletFields(v) = {"name", "storage", "calls", "events", "constants", "errors",
     "index"} BY <1>0 DEF PalletFields
<1>4. {of[i][1] : i \in DOMAIN of} = {"name", "storage", "calls", "events", "constants",
     "errors", "index"}
  <2>1. \A i \in 1..7 : i = 1 \/ i = 2 \/ i = 3 \/ i = 4 \/ i = 5 \/ i = 6 \/ i = 7 OBVIOUS
  <2> HIDE DEF of
  <2> QED BY <1>1, <1>2, <2>1
<1>5. Reads(Text, WriteText(p.name), y["name"])
  <2>1. "name" \in PalletFields(v) \ {"calls", "events", "storage"} BY <1>3
  <2>2. Reads(Text, WriteText(p.name), p["name"]) BY ReadsText
  <2> QED BY <1>0, <2>1, <2>2, ReadsKeptField
<1>6. Reads(If(Storage(StorageItem7)), StorageOption(v, p), y["storage"])
  <2>1. StorageReader(v) = StorageItem7 BY <1>0 DEF StorageReader
  <2> QED BY <1>0, <2>1, ReadsStorageField
<1>7. Reads(If(Many(CallItem)), SectionOption(v, "calls", p), y["calls"]) BY <1>0,
     ReadsCallField
<1>8. Reads(If(Many(EventItem)), SectionOption(v, "events", p), y["events"]) BY <1>0,
     ReadsEventField
<1>9. Reads(Many(Constant6), ConstantsText(v, p), y["constants"])
  <2>1. "constants" \in PalletFields(v) \ {"calls", "events", "storage"} BY <1>3
  <2>2. Reads(Many(Constant6), ConstantsText(v, p), p["constants"]) 
    <3>1. ConstantReader(v) = Constant6 BY <1>0 DEF ConstantReader
    <3>2. IsNil(LAMBDA z : IsWith(v, IsConstant, z), p.constants) BY DEF IsPallet
    <3> QED BY <1>0, <3>1, <3>2, ReadsConstants DEF ConstantsText
  <2> QED BY <1>0, <2>1, <2>2, ReadsKeptField
<1>10. Reads(Many(ErrorItem), ErrorsText(v, p), y["errors"])
  <2>1. "errors" \in PalletFields(v) \ {"calls", "events", "storage"} BY <1>3
  <2>2. Reads(Many(ErrorItem), ErrorsText(v, p), p["errors"]) 
    <3>1. IsNil(IsError, p.errors) BY <1>0 DEF IsPallet
    <3>2. ErrorsText(v, p) = WriteNil(LAMBDA i : WriteItem("errors", i), p.errors)
      BY <1>0 DEF ErrorsText
    <3> QED BY <3>1, <3>2, ReadsErrors
  <2> QED BY <1>0, <2>1, <2>2, ReadsKeptField
<1>11. Reads(U8, IndexText(v, p), y["index"])
  <2>1. "index" \in PalletFields(v) \ {"calls", "events", "storage"} BY <1>3
  <2>2. Reads(U8, IndexText(v, p), p["index"]) BY <1>0, ReadsU8 DEF IndexText
  <2> QED BY <1>0, <2>1, <2>2, ReadsKeptField
<1> DEFINE s1 == WriteText(p.name)
           s2 == s1 \o PrefixText(v, p)
           s3 == s2 \o StorageOption(v, p)
           s4 == s3 \o SectionOption(v, "calls", p)
           s5 == s4 \o SectionOption(v, "events", p)
           s6 == s5 \o ConstantsText(v, p)
           s7 == s6 \o ErrorsText(v, p)
           s8 == s7 \o FunctionsText(v, p)
           s9 == s8 \o IndexText(v, p)
           s10 == s9 \o DocsText(v, p)
           s11 == s10 \o DeprecationText(v, p)
<1>12. WritePallet(v, p) = s11 BY PalletText
<1>13. IsRecord(y, {of[i][1] : i \in DOMAIN of}) BY <1>0, <1>3, <1>4, SeenFields
<1> HIDE DEF of, y, s1, s2, s3, s4, s5, s6, s7, s8, s9, s10, s11
<1>14. Rows(of, 1, s1, y)
  <2>1. Rows(of, 0, <<>>, y) /\ 0 + 1 = 1 /\ 0 < Len(of) BY <1>1, RowsNone
  <2>2. Rows(of, 1, <<>> \o WriteText(p.name), y) BY <1>2, <1>5, <2>1, RowsMore
  <2> QED BY <2>2, <1>5, SeqNothing DEF Reads, s1
<1>15. Rows(of, 1, s2, y)
  <2>1. PrefixText(v, p) = <<>> BY <1>0 DEF PrefixText
  <2> QED BY <1>14, <2>1, RowsSkip DEF s2
<1>16. Rows(of, 2, s3, y)
  <2>1. 1 + 1 = 2 /\ 1 < Len(of) BY <1>1
  <2> QED BY <1>2, <1>15, <1>6, <2>1, RowsMore DEF s3
<1>17. Rows(of, 3, s4, y)
  <2>1. 2 + 1 = 3 /\ 2 < Len(of) BY <1>1
  <2> QED BY <1>2, <1>16, <1>7, <2>1, RowsMore DEF s4
<1>18. Rows(of, 4, s5, y)
  <2>1. 3 + 1 = 4 /\ 3 < Len(of) BY <1>1
  <2> QED BY <1>2, <1>17, <1>8, <2>1, RowsMore DEF s5
<1>19. Rows(of, 5, s6, y)
  <2>1. 4 + 1 = 5 /\ 4 < Len(of) BY <1>1
  <2> QED BY <1>2, <1>18, <1>9, <2>1, RowsMore DEF s6
<1>20. Rows(of, 6, s7, y)
  <2>1. 5 + 1 = 6 /\ 5 < Len(of) BY <1>1
  <2> QED BY <1>2, <1>19, <1>10, <2>1, RowsMore DEF s7
<1>21. Rows(of, 6, s8, y)
  <2>1. FunctionsText(v, p) = <<>> BY <1>0 DEF FunctionsText
  <2> QED BY <1>20, <2>1, RowsSkip DEF s8
<1>22. Rows(of, 7, s9, y)
  <2>1. 6 + 1 = 7 /\ 6 < Len(of) BY <1>1
  <2> QED BY <1>2, <1>21, <1>11, <2>1, RowsMore DEF s9
<1>23. Rows(of, 7, s10, y)
  <2>1. DocsText(v, p) = <<>> BY <1>0 DEF DocsText
  <2> QED BY <1>22, <2>1, RowsSkip DEF s10
<1>24. Rows(of, 7, s11, y)
  <2>1. DeprecationText(v, p) = <<>> BY <1>0 DEF DeprecationText
  <2> QED BY <1>23, <2>1, RowsSkip DEF s11
<1>25. Reads(Fields(of), s11, y) BY <1>1, <1>13, <1>24, RowsRead
<1> QED BY <1>12, <1>25 DEF of, y

LEMMA ReadsPallet13 ==
  ASSUME NEW v, v = 13, NEW p, IsPallet(v, p)
  PROVE  Reads(Fields(Module13), WritePallet(v, p), Seen(v, p))
<1> DEFINE of == Module13  y == Seen(v, p)
<1>0. /\ v \in 6..16
      /\ v \in 6..13
      /\ v # 6
      /\ v >= 8 /\ ~ (v < 8)
      /\ v >= 12 /\ ~ (v < 12)
      /\ v >= 13 /\ ~ (v < 13)
      /\ v < 14
      /\ v < 15
      /\ v < 16
      /\ v # 16
      /\ v \notin 8..11
      /\ v \in 8..13
  OBVIOUS
<1>1. IsSeq(of) /\ Len(of) = 7 /\ DOMAIN of = 1..7
  <2>1. of \in Seq({of[1], of[2], of[3], of[4], of[5], of[6], of[7]}) /\ Len(of) = 7 BY
       DEF Module13
  <2> HIDE DEF of
  <2>2. IsSeq(of) BY <2>1 DEF IsSeq
  <2> QED BY <2>1, <2>2, SeqDomain
<1>2. /\ of[1] = <<"name", Text>>
      /\ of[2] = <<"storage", If(Storage(StorageItem13))>>
      /\ of[3] = <<"calls", If(Many(CallItem))>>
      /\ of[4] = <<"events", If(Many(EventItem))>>
      /\ of[5] = <<"constants", Many(Constant6)>>
      /\ of[6] = <<"errors", Many(ErrorItem)>>
      /\ of[7] = <<"index", U8>>
  BY DEF Module13
<1>3. PalletFields(v) = {"name", "storage", "calls", "events", "constants", "errors",
     "index"} BY <1>0 DEF PalletFields
<1>4. {of[i][1] : i \in DOMAIN of} = {"name", "storage", "calls", "events", "constants",
     "errors", "index"}
  <2>1. \A i \in 1..7 : i = 1 \/ i = 2 \/ i = 3 \/ i = 4 \/ i = 5 \/ i = 6 \/ i = 7 OBVIOUS
  <2> HIDE DEF of
  <2> QED BY <1>1, <1>2, <2>1
<1>5. Reads(Text, WriteText(p.name), y["name"])
  <2>1. "name" \in PalletFields(v) \ {"calls", "events", "storage"} BY <1>3
  <2>2. Reads(Text, WriteText(p.name), p["name"]) BY ReadsText
  <2> QED BY <1>0, <2>1, <2>2, ReadsKeptField
<1>6. Reads(If(Storage(StorageItem13)), StorageOption(v, p), y["storage"])
  <2>1. StorageReader(v) = StorageItem13 BY <1>0 DEF StorageReader
  <2> QED BY <1>0, <2>1, ReadsStorageField
<1>7. Reads(If(Many(CallItem)), SectionOption(v, "calls", p), y["calls"]) BY <1>0,
     ReadsCallField
<1>8. Reads(If(Many(EventItem)), SectionOption(v, "events", p), y["events"]) BY <1>0,
     ReadsEventField
<1>9. Reads(Many(Constant6), ConstantsText(v, p), y["constants"])
  <2>1. "constants" \in PalletFields(v) \ {"calls", "events", "storage"} BY <1>3
  <2>2. Reads(Many(Constant6), ConstantsText(v, p), p["constants"]) 
    <3>1. ConstantReader(v) = Constant6 BY <1>0 DEF ConstantReader
    <3>2. IsNil(LAMBDA z : IsWith(v, IsConstant, z), p.constants) BY DEF IsPallet
    <3> QED BY <1>0, <3>1, <3>2, ReadsConstants DEF ConstantsText
  <2> QED BY <1>0, <2>1, <2>2, ReadsKeptField
<1>10. Reads(Many(ErrorItem), ErrorsText(v, p), y["errors"])
  <2>1. "errors" \in PalletFields(v) \ {"calls", "events", "storage"} BY <1>3
  <2>2. Reads(Many(ErrorItem), ErrorsText(v, p), p["errors"]) 
    <3>1. IsNil(IsError, p.errors) BY <1>0 DEF IsPallet
    <3>2. ErrorsText(v, p) = WriteNil(LAMBDA i : WriteItem("errors", i), p.errors)
      BY <1>0 DEF ErrorsText
    <3> QED BY <3>1, <3>2, ReadsErrors
  <2> QED BY <1>0, <2>1, <2>2, ReadsKeptField
<1>11. Reads(U8, IndexText(v, p), y["index"])
  <2>1. "index" \in PalletFields(v) \ {"calls", "events", "storage"} BY <1>3
  <2>2. Reads(U8, IndexText(v, p), p["index"]) BY <1>0, ReadsU8 DEF IndexText
  <2> QED BY <1>0, <2>1, <2>2, ReadsKeptField
<1> DEFINE s1 == WriteText(p.name)
           s2 == s1 \o PrefixText(v, p)
           s3 == s2 \o StorageOption(v, p)
           s4 == s3 \o SectionOption(v, "calls", p)
           s5 == s4 \o SectionOption(v, "events", p)
           s6 == s5 \o ConstantsText(v, p)
           s7 == s6 \o ErrorsText(v, p)
           s8 == s7 \o FunctionsText(v, p)
           s9 == s8 \o IndexText(v, p)
           s10 == s9 \o DocsText(v, p)
           s11 == s10 \o DeprecationText(v, p)
<1>12. WritePallet(v, p) = s11 BY PalletText
<1>13. IsRecord(y, {of[i][1] : i \in DOMAIN of}) BY <1>0, <1>3, <1>4, SeenFields
<1> HIDE DEF of, y, s1, s2, s3, s4, s5, s6, s7, s8, s9, s10, s11
<1>14. Rows(of, 1, s1, y)
  <2>1. Rows(of, 0, <<>>, y) /\ 0 + 1 = 1 /\ 0 < Len(of) BY <1>1, RowsNone
  <2>2. Rows(of, 1, <<>> \o WriteText(p.name), y) BY <1>2, <1>5, <2>1, RowsMore
  <2> QED BY <2>2, <1>5, SeqNothing DEF Reads, s1
<1>15. Rows(of, 1, s2, y)
  <2>1. PrefixText(v, p) = <<>> BY <1>0 DEF PrefixText
  <2> QED BY <1>14, <2>1, RowsSkip DEF s2
<1>16. Rows(of, 2, s3, y)
  <2>1. 1 + 1 = 2 /\ 1 < Len(of) BY <1>1
  <2> QED BY <1>2, <1>15, <1>6, <2>1, RowsMore DEF s3
<1>17. Rows(of, 3, s4, y)
  <2>1. 2 + 1 = 3 /\ 2 < Len(of) BY <1>1
  <2> QED BY <1>2, <1>16, <1>7, <2>1, RowsMore DEF s4
<1>18. Rows(of, 4, s5, y)
  <2>1. 3 + 1 = 4 /\ 3 < Len(of) BY <1>1
  <2> QED BY <1>2, <1>17, <1>8, <2>1, RowsMore DEF s5
<1>19. Rows(of, 5, s6, y)
  <2>1. 4 + 1 = 5 /\ 4 < Len(of) BY <1>1
  <2> QED BY <1>2, <1>18, <1>9, <2>1, RowsMore DEF s6
<1>20. Rows(of, 6, s7, y)
  <2>1. 5 + 1 = 6 /\ 5 < Len(of) BY <1>1
  <2> QED BY <1>2, <1>19, <1>10, <2>1, RowsMore DEF s7
<1>21. Rows(of, 6, s8, y)
  <2>1. FunctionsText(v, p) = <<>> BY <1>0 DEF FunctionsText
  <2> QED BY <1>20, <2>1, RowsSkip DEF s8
<1>22. Rows(of, 7, s9, y)
  <2>1. 6 + 1 = 7 /\ 6 < Len(of) BY <1>1
  <2> QED BY <1>2, <1>21, <1>11, <2>1, RowsMore DEF s9
<1>23. Rows(of, 7, s10, y)
  <2>1. DocsText(v, p) = <<>> BY <1>0 DEF DocsText
  <2> QED BY <1>22, <2>1, RowsSkip DEF s10
<1>24. Rows(of, 7, s11, y)
  <2>1. DeprecationText(v, p) = <<>> BY <1>0 DEF DeprecationText
  <2> QED BY <1>23, <2>1, RowsSkip DEF s11
<1>25. Reads(Fields(of), s11, y) BY <1>1, <1>13, <1>24, RowsRead
<1> QED BY <1>12, <1>25 DEF of, y

LEMMA ReadsPallet14 ==
  ASSUME NEW v, v = 14, NEW p, IsPallet(v, p)
  PROVE  Reads(Fields(Module14), WritePallet(v, p), Seen(v, p))
<1> DEFINE of == Module14  y == Seen(v, p)
<1>0. /\ v \in 6..16
      /\ v \in 14..16
      /\ v # 6
      /\ v >= 8 /\ ~ (v < 8)
      /\ v >= 12 /\ ~ (v < 12)
      /\ v >= 13 /\ ~ (v < 13)
      /\ v >= 14 /\ ~ (v < 14)
      /\ v < 15
      /\ v < 16
      /\ v # 13
      /\ v # 16
      /\ v \notin 8..11
      /\ v \notin 8..13
  OBVIOUS
<1>1. IsSeq(of) /\ Len(of) = 7 /\ DOMAIN of = 1..7
  <2>1. of \in Seq({of[1], of[2], of[3], of[4], of[5], of[6], of[7]}) /\ Len(of) = 7 BY
       DEF Module14
  <2> HIDE DEF of
  <2>2. IsSeq(of) BY <2>1 DEF IsSeq
  <2> QED BY <2>1, <2>2, SeqDomain
<1>2. /\ of[1] = <<"name", Text>>
      /\ of[2] = <<"storage", If(Storage(StorageItem14))>>
      /\ of[3] = <<"calls", If(Id)>>
      /\ of[4] = <<"events", If(Id)>>
      /\ of[5] = <<"constants", Many(Constant14)>>
      /\ of[6] = <<"errors", If(Id)>>
      /\ of[7] = <<"index", U8>>
  BY DEF Module14
<1>3. PalletFields(v) = {"name", "storage", "calls", "events", "constants", "errors",
     "index"} BY <1>0 DEF PalletFields
<1>4. {of[i][1] : i \in DOMAIN of} = {"name", "storage", "calls", "events", "constants",
     "errors", "index"}
  <2>1. \A i \in 1..7 : i = 1 \/ i = 2 \/ i = 3 \/ i = 4 \/ i = 5 \/ i = 6 \/ i = 7 OBVIOUS
  <2> HIDE DEF of
  <2> QED BY <1>1, <1>2, <2>1
<1>5. Reads(Text, WriteText(p.name), y["name"])
  <2>1. "name" \in PalletFields(v) \ {"calls", "events", "storage"} BY <1>3
  <2>2. Reads(Text, WriteText(p.name), p["name"]) BY ReadsText
  <2> QED BY <1>0, <2>1, <2>2, ReadsKeptField
<1>6. Reads(If(Storage(StorageItem14)), StorageOption(v, p), y["storage"])
  <2>1. StorageReader(v) = StorageItem14 BY <1>0 DEF StorageReader
  <2> QED BY <1>0, <2>1, ReadsStorageField
<1>7. Reads(If(Id), SectionOption(v, "calls", p), y["calls"]) BY <1>0, ReadsEnumField
<1>8. Reads(If(Id), SectionOption(v, "events", p), y["events"]) BY <1>0, ReadsEnumField
<1>9. Reads(Many(Constant14), ConstantsText(v, p), y["constants"])
  <2>1. "constants" \in PalletFields(v) \ {"calls", "events", "storage"} BY <1>3
  <2>2. Reads(Many(Constant14), ConstantsText(v, p), p["constants"]) 
    <3>1. ConstantReader(v) = Constant14 BY <1>0 DEF ConstantReader
    <3>2. IsNil(LAMBDA z : IsWith(v, IsConstant, z), p.constants) BY DEF IsPallet
    <3> QED BY <1>0, <3>1, <3>2, ReadsConstants DEF ConstantsText
  <2> QED BY <1>0, <2>1, <2>2, ReadsKeptField
<1>10. Reads(If(Id), ErrorsText(v, p), y["errors"])
  <2>1. ErrorsText(v, p) = SectionOption(v, "errors", p) BY <1>0 DEF ErrorsText
  <2> QED BY <1>0, <2>1, ReadsEnumField
<1>11. Reads(U8, IndexText(v, p), y["index"])
  <2>1. "index" \in PalletFields(v) \ {"calls", "events", "storage"} BY <1>3
  <2>2. Reads(U8, IndexText(v, p), p["index"]) BY <1>0, ReadsU8 DEF IndexText
  <2> QED BY <1>0, <2>1, <2>2, ReadsKeptField
<1> DEFINE s1 == WriteText(p.name)
           s2 == s1 \o PrefixText(v, p)
           s3 == s2 \o StorageOption(v, p)
           s4 == s3 \o SectionOption(v, "calls", p)
           s5 == s4 \o SectionOption(v, "events", p)
           s6 == s5 \o ConstantsText(v, p)
           s7 == s6 \o ErrorsText(v, p)
           s8 == s7 \o FunctionsText(v, p)
           s9 == s8 \o IndexText(v, p)
           s10 == s9 \o DocsText(v, p)
           s11 == s10 \o DeprecationText(v, p)
<1>12. WritePallet(v, p) = s11 BY PalletText
<1>13. IsRecord(y, {of[i][1] : i \in DOMAIN of}) BY <1>0, <1>3, <1>4, SeenFields
<1> HIDE DEF of, y, s1, s2, s3, s4, s5, s6, s7, s8, s9, s10, s11
<1>14. Rows(of, 1, s1, y)
  <2>1. Rows(of, 0, <<>>, y) /\ 0 + 1 = 1 /\ 0 < Len(of) BY <1>1, RowsNone
  <2>2. Rows(of, 1, <<>> \o WriteText(p.name), y) BY <1>2, <1>5, <2>1, RowsMore
  <2> QED BY <2>2, <1>5, SeqNothing DEF Reads, s1
<1>15. Rows(of, 1, s2, y)
  <2>1. PrefixText(v, p) = <<>> BY <1>0 DEF PrefixText
  <2> QED BY <1>14, <2>1, RowsSkip DEF s2
<1>16. Rows(of, 2, s3, y)
  <2>1. 1 + 1 = 2 /\ 1 < Len(of) BY <1>1
  <2> QED BY <1>2, <1>15, <1>6, <2>1, RowsMore DEF s3
<1>17. Rows(of, 3, s4, y)
  <2>1. 2 + 1 = 3 /\ 2 < Len(of) BY <1>1
  <2> QED BY <1>2, <1>16, <1>7, <2>1, RowsMore DEF s4
<1>18. Rows(of, 4, s5, y)
  <2>1. 3 + 1 = 4 /\ 3 < Len(of) BY <1>1
  <2> QED BY <1>2, <1>17, <1>8, <2>1, RowsMore DEF s5
<1>19. Rows(of, 5, s6, y)
  <2>1. 4 + 1 = 5 /\ 4 < Len(of) BY <1>1
  <2> QED BY <1>2, <1>18, <1>9, <2>1, RowsMore DEF s6
<1>20. Rows(of, 6, s7, y)
  <2>1. 5 + 1 = 6 /\ 5 < Len(of) BY <1>1
  <2> QED BY <1>2, <1>19, <1>10, <2>1, RowsMore DEF s7
<1>21. Rows(of, 6, s8, y)
  <2>1. FunctionsText(v, p) = <<>> BY <1>0 DEF FunctionsText
  <2> QED BY <1>20, <2>1, RowsSkip DEF s8
<1>22. Rows(of, 7, s9, y)
  <2>1. 6 + 1 = 7 /\ 6 < Len(of) BY <1>1
  <2> QED BY <1>2, <1>21, <1>11, <2>1, RowsMore DEF s9
<1>23. Rows(of, 7, s10, y)
  <2>1. DocsText(v, p) = <<>> BY <1>0 DEF DocsText
  <2> QED BY <1>22, <2>1, RowsSkip DEF s10
<1>24. Rows(of, 7, s11, y)
  <2>1. DeprecationText(v, p) = <<>> BY <1>0 DEF DeprecationText
  <2> QED BY <1>23, <2>1, RowsSkip DEF s11
<1>25. Reads(Fields(of), s11, y) BY <1>1, <1>13, <1>24, RowsRead
<1> QED BY <1>12, <1>25 DEF of, y

LEMMA ReadsPallet15 ==
  ASSUME NEW v, v = 15, NEW p, IsPallet(v, p)
  PROVE  Reads(Fields(Module15), WritePallet(v, p), Seen(v, p))
<1> DEFINE of == Module15  y == Seen(v, p)
<1>0. /\ v \in 6..16
      /\ v \in 14..16
      /\ v # 6
      /\ v >= 8 /\ ~ (v < 8)
      /\ v >= 12 /\ ~ (v < 12)
      /\ v >= 13 /\ ~ (v < 13)
      /\ v >= 14 /\ ~ (v < 14)
      /\ v >= 15 /\ ~ (v < 15)
      /\ v < 16
      /\ v # 13
      /\ v # 16
      /\ v \notin 8..11
      /\ v \notin 8..13
  OBVIOUS
<1>1. IsSeq(of) /\ Len(of) = 8 /\ DOMAIN of = 1..8
  <2>1. of \in Seq({of[1], of[2], of[3], of[4], of[5], of[6], of[7], of[8]}) /\ Len(of)
       = 8 BY DEF Module15
  <2> HIDE DEF of
  <2>2. IsSeq(of) BY <2>1 DEF IsSeq
  <2> QED BY <2>1, <2>2, SeqDomain
<1>2. /\ of[1] = <<"name", Text>>
      /\ of[2] = <<"storage", If(Storage(StorageItem14))>>
      /\ of[3] = <<"calls", If(Id)>>
      /\ of[4] = <<"events", If(Id)>>
      /\ of[5] = <<"constants", Many(Constant14)>>
      /\ of[6] = <<"errors", If(Id)>>
      /\ of[7] = <<"index", U8>>
      /\ of[8] = <<"docs", List(Text)>>
  BY DEF Module15
<1>3. PalletFields(v) = {"name", "storage", "calls", "events", "constants", "errors",
     "index", "docs"} BY <1>0 DEF PalletFields
<1>4. {of[i][1] : i \in DOMAIN of} = {"name", "storage", "calls", "events", "constants",
     "errors", "index", "docs"}
  <2>1. \A i \in 1..8 : i = 1 \/ i = 2 \/ i = 3 \/ i = 4 \/ i = 5 \/ i = 6 \/ i = 7 \/ i
       = 8 OBVIOUS
  <2> HIDE DEF of
  <2> QED BY <1>1, <1>2, <2>1
<1>5. Reads(Text, WriteText(p.name), y["name"])
  <2>1. "name" \in PalletFields(v) \ {"calls", "events", "storage"} BY <1>3
  <2>2. Reads(Text, WriteText(p.name), p["name"]) BY ReadsText
  <2> QED BY <1>0, <2>1, <2>2, ReadsKeptField
<1>6. Reads(If(Storage(StorageItem14)), StorageOption(v, p), y["storage"])
  <2>1. StorageReader(v) = StorageItem14 BY <1>0 DEF StorageReader
  <2> QED BY <1>0, <2>1, ReadsStorageField
<1>7. Reads(If(Id), SectionOption(v, "calls", p), y["calls"]) BY <1>0, ReadsEnumField
<1>8. Reads(If(Id), SectionOption(v, "events", p), y["events"]) BY <1>0, ReadsEnumField
<1>9. Reads(Many(Constant14), ConstantsText(v, p), y["constants"])
  <2>1. "constants" \in PalletFields(v) \ {"calls", "events", "storage"} BY <1>3
  <2>2. Reads(Many(Constant14), ConstantsText(v, p), p["constants"]) 
    <3>1. ConstantReader(v) = Constant14 BY <1>0 DEF ConstantReader
    <3>2. IsNil(LAMBDA z : IsWith(v, IsConstant, z), p.constants) BY DEF IsPallet
    <3> QED BY <1>0, <3>1, <3>2, ReadsConstants DEF ConstantsText
  <2> QED BY <1>0, <2>1, <2>2, ReadsKeptField
<1>10. Reads(If(Id), ErrorsText(v, p), y["errors"])
  <2>1. ErrorsText(v, p) = SectionOption(v, "errors", p) BY <1>0 DEF ErrorsText
  <2> QED BY <1>0, <2>1, ReadsEnumField
<1>11. Reads(U8, IndexText(v, p), y["index"])
  <2>1. "index" \in PalletFields(v) \ {"calls", "events", "storage"} BY <1>3
  <2>2. Reads(U8, IndexText(v, p), p["index"]) BY <1>0, ReadsU8 DEF IndexText
  <2> QED BY <1>0, <2>1, <2>2, ReadsKeptField
<1>12. Reads(List(Text), DocsText(v, p), y["docs"])
  <2>1. "docs" \in PalletFields(v) \ {"calls", "events", "storage"} BY <1>3
  <2>2. Reads(List(Text), DocsText(v, p), p["docs"]) 
    <3>1. IsList(IsAny, p.docs) BY <1>0 DEF IsPallet
    <3> QED BY <1>0, <3>1, ReadsLines DEF DocsText
  <2> QED BY <1>0, <2>1, <2>2, ReadsKeptField
<1> DEFINE s1 == WriteText(p.name)
           s2 == s1 \o PrefixText(v, p)
           s3 == s2 \o StorageOption(v, p)
           s4 == s3 \o SectionOption(v, "calls", p)
           s5 == s4 \o SectionOption(v, "events", p)
           s6 == s5 \o ConstantsText(v, p)
           s7 == s6 \o ErrorsText(v, p)
           s8 == s7 \o FunctionsText(v, p)
           s9 == s8 \o IndexText(v, p)
           s10 == s9 \o DocsText(v, p)
           s11 == s10 \o DeprecationText(v, p)
<1>13. WritePallet(v, p) = s11 BY PalletText
<1>14. IsRecord(y, {of[i][1] : i \in DOMAIN of}) BY <1>0, <1>3, <1>4, SeenFields
<1> HIDE DEF of, y, s1, s2, s3, s4, s5, s6, s7, s8, s9, s10, s11
<1>15. Rows(of, 1, s1, y)
  <2>1. Rows(of, 0, <<>>, y) /\ 0 + 1 = 1 /\ 0 < Len(of) BY <1>1, RowsNone
  <2>2. Rows(of, 1, <<>> \o WriteText(p.name), y) BY <1>2, <1>5, <2>1, RowsMore
  <2> QED BY <2>2, <1>5, SeqNothing DEF Reads, s1
<1>16. Rows(of, 1, s2, y)
  <2>1. PrefixText(v, p) = <<>> BY <1>0 DEF PrefixText
  <2> QED BY <1>15, <2>1, RowsSkip DEF s2
<1>17. Rows(of, 2, s3, y)
  <2>1. 1 + 1 = 2 /\ 1 < Len(of) BY <1>1
  <2> QED BY <1>2, <1>16, <1>6, <2>1, RowsMore DEF s3
<1>18. Rows(of, 3, s4, y)
  <2>1. 2 + 1 = 3 /\ 2 < Len(of) BY <1>1
  <2> QED BY <1>2, <1>17, <1>7, <2>1, RowsMore DEF s4
<1>19. Rows(of, 4, s5, y)
  <2>1. 3 + 1 = 4 /\ 3 < Len(of) BY <1>1
  <2> QED BY <1>2, <1>18, <1>8, <2>1, RowsMore DEF s5
<1>20. Rows(of, 5, s6, y)
  <2>1. 4 + 1 = 5 /\ 4 < Len(of) BY <1>1
  <2> QED BY <1>2, <1>19, <1>9, <2>1, RowsMore DEF s6
<1>21. Rows(of, 6, s7, y)
  <2>1. 5 + 1 = 6 /\ 5 < Len(of) BY <1>1
  <2> QED BY <1>2, <1>20, <1>10, <2>1, RowsMore DEF s7
<1>22. Rows(of, 6, s8, y)
  <2>1. FunctionsText(v, p) = <<>> BY <1>0 DEF FunctionsText
  <2> QED BY <1>21, <2>1, RowsSkip DEF s8
<1>23. Rows(of, 7, s9, y)
  <2>1. 6 + 1 = 7 /\ 6 < Len(of) BY <1>1
  <2> QED BY <1>2, <1>22, <1>11, <2>1, RowsMore DEF s9
<1>24. Rows(of, 8, s10, y)
  <2>1. 7 + 1 = 8 /\ 7 < Len(of) BY <1>1
  <2> QED BY <1>2, <1>23, <1>12, <2>1, RowsMore DEF s10
<1>25. Rows(of, 8, s11, y)
  <2>1. DeprecationText(v, p) = <<>> BY <1>0 DEF DeprecationText
  <2> QED BY <1>24, <2>1, RowsSkip DEF s11
<1>26. Reads(Fields(of), s11, y) BY <1>1, <1>14, <1>25, RowsRead
<1> QED BY <1>13, <1>26 DEF of, y

LEMMA ReadsPallet16 ==
  ASSUME NEW v, v = 16, NEW p, IsPallet(v, p)
  PROVE  Reads(Fields(Module16), WritePallet(v, p), Seen(v, p))
<1> DEFINE of == Module16  y == Seen(v, p)
<1>0. /\ v \in 6..16
      /\ v \in 14..16
      /\ v # 6
      /\ v >= 8 /\ ~ (v < 8)
      /\ v >= 12 /\ ~ (v < 12)
      /\ v >= 13 /\ ~ (v < 13)
      /\ v >= 14 /\ ~ (v < 14)
      /\ v >= 15 /\ ~ (v < 15)
      /\ v >= 16 /\ ~ (v < 16)
      /\ v # 13
      /\ v \notin 8..11
      /\ v \notin 8..13
  OBVIOUS
<1>1. IsSeq(of) /\ Len(of) = 11 /\ DOMAIN of = 1..11
  <2>1. of \in Seq({of[1], of[2], of[3], of[4], of[5], of[6], of[7], of[8], of[9], of[10],
       of[11]}) /\ Len(of) = 11 BY DEF Module16
  <2> HIDE DEF of
  <2>2. IsSeq(of) BY <2>1 DEF IsSeq
  <2> QED BY <2>1, <2>2, SeqDomain
<1>2. /\ of[1] = <<"name", Text>>
      /\ of[2] = <<"storage", If(Storage(With16(StorageItem14)))>>
      /\ of[3] = <<"calls", If(Enum16)>>
      /\ of[4] = <<"events", If(Enum16)>>
      /\ of[5] = <<"constants", Many(With16(Constant14))>>
      /\ of[6] = <<"errors", If(Enum16)>>
      /\ of[7] = <<"associated", Many(Associated)>>
      /\ of[8] = <<"views", Many(View)>>
      /\ of[9] = <<"index", U8>>
      /\ of[10] = <<"docs", Docs>>
      /\ of[11] = <<"deprecation", Deprecation>>
  BY DEF Module16
<1>3. PalletFields(v) = {"name", "storage", "calls", "events", "constants", "errors",
     "associated", "views", "index", "docs", "deprecation"} BY <1>0 DEF PalletFields
<1>4. {of[i][1] : i \in DOMAIN of} = {"name", "storage", "calls", "events", "constants",
     "errors", "associated", "views", "index", "docs", "deprecation"}
  <2>1. \A i \in 1..11 : i = 1 \/ i = 2 \/ i = 3 \/ i = 4 \/ i = 5 \/ i = 6 \/ i = 7 \/ i
       = 8 \/ i = 9 \/ i = 10 \/ i = 11 OBVIOUS
  <2> HIDE DEF of
  <2> QED BY <1>1, <1>2, <2>1
<1>5. Reads(Text, WriteText(p.name), y["name"])
  <2>1. "name" \in PalletFields(v) \ {"calls", "events", "storage"} BY <1>3
  <2>2. Reads(Text, WriteText(p.name), p["name"]) BY ReadsText
  <2> QED BY <1>0, <2>1, <2>2, ReadsKeptField
<1>6. Reads(If(Storage(With16(StorageItem14))), StorageOption(v, p), y["storage"])
  <2>1. StorageReader(v) = With16(StorageItem14) BY <1>0 DEF StorageReader
  <2> QED BY <1>0, <2>1, ReadsStorageField
<1>7. Reads(If(Enum16), SectionOption(v, "calls", p), y["calls"]) BY <1>0, ReadsEnumField
<1>8. Reads(If(Enum16), SectionOption(v, "events", p), y["events"]) BY <1>0, ReadsEnumField
<1>9. Reads(Many(With16(Constant14)), ConstantsText(v, p), y["constants"])
  <2>1. "constants" \in PalletFields(v) \ {"calls", "events", "storage"} BY <1>3
  <2>2. Reads(Many(With16(Constant14)), ConstantsText(v, p), p["constants"]) 
    <3>1. ConstantReader(v) = With16(Constant14) BY <1>0 DEF ConstantReader
    <3>2. IsNil(LAMBDA z : IsWith(v, IsConstant, z), p.constants) BY DEF IsPallet
    <3> QED BY <1>0, <3>1, <3>2, ReadsConstants DEF ConstantsText
  <2> QED BY <1>0, <2>1, <2>2, ReadsKeptField
<1>10. Reads(If(Enum16), ErrorsText(v, p), y["errors"])
  <2>1. ErrorsText(v, p) = SectionOption(v, "errors", p) BY <1>0 DEF ErrorsText
  <2> QED BY <1>0, <2>1, ReadsEnumField
<1>11. Reads(Many(Associated), AssociatedText(p), y["associated"])
  <2>1. "associated" \in PalletFields(v) \ {"calls", "events", "storage"} BY <1>3
  <2>2. Reads(Many(Associated), AssociatedText(p), p["associated"]) 
    <3>1. IsNil(IsAssociated, p.associated) BY <1>0 DEF IsPallet
    <3> QED BY <3>1, ReadsAssociates DEF AssociatedText
  <2> QED BY <1>0, <2>1, <2>2, ReadsKeptField
<1>12. Reads(Many(View), ViewsText(p), y["views"])
  <2>1. "views" \in PalletFields(v) \ {"calls", "events", "storage"} BY <1>3
  <2>2. Reads(Many(View), ViewsText(p), p["views"]) 
    <3>1. IsNil(IsView, p.views) BY <1>0 DEF IsPallet
    <3> QED BY <3>1, ReadsViews DEF ViewsText
  <2> QED BY <1>0, <2>1, <2>2, ReadsKeptField
<1>13. Reads(U8, IndexText(v, p), y["index"])
  <2>1. "index" \in PalletFields(v) \ {"calls", "events", "storage"} BY <1>3
  <2>2. Reads(U8, IndexText(v, p), p["index"]) BY <1>0, ReadsU8 DEF IndexText
  <2> QED BY <1>0, <2>1, <2>2, ReadsKeptField
<1>14. Reads(Docs, DocsText(v, p), y["docs"])
  <2>1. "docs" \in PalletFields(v) \ {"calls", "events", "storage"} BY <1>3
  <2>2. Reads(Docs, DocsText(v, p), p["docs"]) 
    <3>1. IsNil(IsAny, p.docs) BY <1>0 DEF IsPallet
    <3> QED BY <1>0, <3>1, ReadsDocs DEF DocsText
  <2> QED BY <1>0, <2>1, <2>2, ReadsKeptField
<1>15. Reads(Deprecation, DeprecationText(v, p), y["deprecation"])
  <2>1. "deprecation" \in PalletFields(v) \ {"calls", "events", "storage"} BY <1>3
  <2>2. Reads(Deprecation, DeprecationText(v, p), p["deprecation"]) 
    <3>1. IsDeprecation(p.deprecation) BY <1>0 DEF IsPallet
    <3> QED BY <1>0, <3>1, ReadsDeprecation DEF DeprecationText
  <2> QED BY <1>0, <2>1, <2>2, ReadsKeptField
<1> DEFINE s1 == WriteText(p.name)
           s2 == s1 \o PrefixText(v, p)
           s3 == s2 \o StorageOption(v, p)
           s4 == s3 \o SectionOption(v, "calls", p)
           s5 == s4 \o SectionOption(v, "events", p)
           s6 == s5 \o ConstantsText(v, p)
           s7 == s6 \o ErrorsText(v, p)
           s8 == s7 \o FunctionsText(v, p)
           s9 == s8 \o IndexText(v, p)
           s10 == s9 \o DocsText(v, p)
           s11 == s10 \o DeprecationText(v, p)
<1>16. WritePallet(v, p) = s11 BY PalletText
<1>17. IsRecord(y, {of[i][1] : i \in DOMAIN of}) BY <1>0, <1>3, <1>4, SeenFields
<1> HIDE DEF of, y, s1, s2, s3, s4, s5, s6, s7, s8, s9, s10, s11
<1>18. Rows(of, 1, s1, y)
  <2>1. Rows(of, 0, <<>>, y) /\ 0 + 1 = 1 /\ 0 < Len(of) BY <1>1, RowsNone
  <2>2. Rows(of, 1, <<>> \o WriteText(p.name), y) BY <1>2, <1>5, <2>1, RowsMore
  <2> QED BY <2>2, <1>5, SeqNothing DEF Reads, s1
<1>19. Rows(of, 1, s2, y)
  <2>1. PrefixText(v, p) = <<>> BY <1>0 DEF PrefixText
  <2> QED BY <1>18, <2>1, RowsSkip DEF s2
<1>20. Rows(of, 2, s3, y)
  <2>1. 1 + 1 = 2 /\ 1 < Len(of) BY <1>1
  <2> QED BY <1>2, <1>19, <1>6, <2>1, RowsMore DEF s3
<1>21. Rows(of, 3, s4, y)
  <2>1. 2 + 1 = 3 /\ 2 < Len(of) BY <1>1
  <2> QED BY <1>2, <1>20, <1>7, <2>1, RowsMore DEF s4
<1>22. Rows(of, 4, s5, y)
  <2>1. 3 + 1 = 4 /\ 3 < Len(of) BY <1>1
  <2> QED BY <1>2, <1>21, <1>8, <2>1, RowsMore DEF s5
<1>23. Rows(of, 5, s6, y)
  <2>1. 4 + 1 = 5 /\ 4 < Len(of) BY <1>1
  <2> QED BY <1>2, <1>22, <1>9, <2>1, RowsMore DEF s6
<1>24. Rows(of, 6, s7, y)
  <2>1. 5 + 1 = 6 /\ 5 < Len(of) BY <1>1
  <2> QED BY <1>2, <1>23, <1>10, <2>1, RowsMore DEF s7
<1>25. Rows(of, 8, s8, y)
  <2>1. 6 + 1 = 7 /\ 6 < Len(of) /\ 7 + 1 = 8 /\ 7 < Len(of) BY <1>1
  <2>2. Rows(of, 7, s7 \o AssociatedText(p), y) BY <1>2, <1>24, <1>11, <2>1, RowsMore
  <2>3. Rows(of, 8, s7 \o AssociatedText(p) \o ViewsText(p), y)
    BY <1>2, <2>2, <1>12, <2>1, RowsMore
  <2>4. IsSeq(s7) /\ IsSeq(AssociatedText(p)) /\ IsSeq(ViewsText(p))
    BY <1>24, <1>11, <1>12, ChainSeq DEF Rows, Reads
  <2>5. s7 \o (AssociatedText(p) \o ViewsText(p)) = s7 \o AssociatedText(p) \o ViewsText(p)
    BY <2>4, SeqAssoc
  <2>6. FunctionsText(v, p) = AssociatedText(p) \o ViewsText(p) BY <1>0 DEF FunctionsText
  <2> QED BY <2>3, <2>5, <2>6 DEF s8
<1>26. Rows(of, 9, s9, y)
  <2>1. 8 + 1 = 9 /\ 8 < Len(of) BY <1>1
  <2> QED BY <1>2, <1>25, <1>13, <2>1, RowsMore DEF s9
<1>27. Rows(of, 10, s10, y)
  <2>1. 9 + 1 = 10 /\ 9 < Len(of) BY <1>1
  <2> QED BY <1>2, <1>26, <1>14, <2>1, RowsMore DEF s10
<1>28. Rows(of, 11, s11, y)
  <2>1. 10 + 1 = 11 /\ 10 < Len(of) BY <1>1
  <2> QED BY <1>2, <1>27, <1>15, <2>1, RowsMore DEF s11
<1>29. Reads(Fields(of), s11, y) BY <1>1, <1>17, <1>28, RowsRead
<1> QED BY <1>16, <1>29 DEF of, y

(* Whatever the version and whatever optional parts a pallet has, its      *)
(* decoder reads it to its last byte, as Seen says.                        *)
LEMMA ReadsPallet ==
  ASSUME NEW v \in 6..16, NEW p, IsPallet(v, p)
  PROVE  Reads(ModuleLayout(v), WritePallet(v, p), Seen(v, p))

<1>1. CASE v = 6
  <2>1. ModuleLayout(v) = Fields(Module6) BY <1>1 DEF ModuleLayout
  <2> QED BY <1>1, <2>1, ReadsPallet6
<1>2. CASE v = 7
  <2>1. ModuleLayout(v) = Fields(Module7) BY <1>2 DEF ModuleLayout
  <2> QED BY <1>2, <2>1, ReadsPallet7
<1>3. CASE v \in 8..11
  <2>1. ModuleLayout(v) = Fields(Module8) BY <1>3 DEF ModuleLayout
  <2> QED BY <1>3, <2>1, ReadsPallet8
<1>4. CASE v = 12
  <2>1. ModuleLayout(v) = Fields(Module12) BY <1>4 DEF ModuleLayout
  <2> QED BY <1>4, <2>1, ReadsPallet12
<1>5. CASE v = 13
  <2>1. ModuleLayout(v) = Fields(Module13) BY <1>5 DEF ModuleLayout
  <2> QED BY <1>5, <2>1, ReadsPallet13
<1>6. CASE v = 14
  <2>1. ModuleLayout(v) = Fields(Module14) BY <1>6 DEF ModuleLayout
  <2> QED BY <1>6, <2>1, ReadsPallet14
<1>7. CASE v = 15
  <2>1. ModuleLayout(v) = Fields(Module15) BY <1>7 DEF ModuleLayout
  <2> QED BY <1>7, <2>1, ReadsPallet15
<1>8. CASE v = 16
  <2>1. ModuleLayout(v) = Fields(Module16) BY <1>8 DEF ModuleLayout
  <2> QED BY <1>8, <2>1, ReadsPallet16
<1> QED BY <1>1, <1>2, <1>3, <1>4, <1>5, <1>6, <1>7, <1>8

-----------------------------------------------------------------------------
(* What follows the pallets. *)

LEMMA ReadsExtension ==
  ASSUME NEW x, IsExtension(x)
  PROVE  Reads(Extension, WriteExtension(x), x)
<1>1. Reads(Text, WriteText(x.identifier), x["identifier"]) BY ReadsText
<1>2. Reads(Id, WriteId(x.type), x["type"]) BY ReadsId
<1>3. Reads(Id, WriteId(x.implicit), x["implicit"]) BY ReadsId
<1>4. IsRecord(x, {"identifier", "type", "implicit"}) BY DEF IsExtension
<1>5. WriteExtension(x) = WriteText(x.identifier) \o WriteId(x.type)
     \o WriteId(x.implicit) BY DEF WriteExtension
<1> QED BY <1>1, <1>2, <1>3, <1>4, <1>5, RowsThree DEF Extension

LEMMA ReadsExtensions ==
  ASSUME NEW x, IsNil(IsExtension, x)
  PROVE  Reads(Many(Extension), WriteNil(WriteExtension, x), x)
<1> DEFINE xs == OrEmpty(x)
           ss == [i \in DOMAIN xs |-> WriteExtension(xs[i])]
<1>1. WriteNil(WriteExtension, x) = Token("count", Len(xs)) \o FlattenSeq(ss)
  BY DEF WriteNil, WriteList
<1>2. x # None => x # <<>> /\ x \in Seq({x[i] : i \in DOMAIN x}) BY DEF IsNil, IsList
<1>3. Elements(Extension, ss, xs)
  <2>1. xs \in Seq({xs[i] : i \in DOMAIN xs}) BY <1>2, NilList
  <2>2. ASSUME NEW i \in DOMAIN xs PROVE Reads(Extension, ss[i], xs[i])
    <3>1. IsExtension(xs[i]) BY DEF IsNil, IsList, OrEmpty
    <3> QED BY <3>1, ReadsExtension
  <2>3. ss \in [DOMAIN xs -> {ss[i] : i \in DOMAIN xs}] OBVIOUS
  <2> HIDE DEF xs, ss
  <2> QED BY <2>1, <2>2, <2>3 DEF Elements
<1> HIDE DEF ss
<1>4. Reads(Many(Extension), Token("count", Len(xs)) \o FlattenSeq(ss), x) BY <1>2, <1>3,
     ReadsNil
<1> QED BY <1>1, <1>4

LEMMA ReadsExtrinsic12 ==
  ASSUME NEW v, v \in {12, 13}, NEW x, IsExtrinsic(v, x)
  PROVE  Reads(Fields(Extrinsic12), WriteExtrinsic(v, x), x)
<1>1. Reads(U8, Token("u8", x.version), x["version"]) BY ReadsU8
<1>2. Reads(Many(Text), WriteNil(WriteText, x.extensions), x["extensions"])
     BY ReadsTexts DEF IsExtrinsic
<1>3. IsRecord(x, {"version", "extensions"}) BY DEF IsExtrinsic
<1>4. WriteExtrinsic(v, x) = Token("u8", x.version) \o WriteNil(WriteText, x.extensions) 
  <2>1. v < 14 OBVIOUS
  <2> QED BY <2>1 DEF WriteExtrinsic
<1> QED BY <1>1, <1>2, <1>3, <1>4, RowsTwo DEF Extrinsic12

LEMMA ReadsExtrinsic14 ==
  ASSUME NEW v, v = 14, NEW x, IsExtrinsic(v, x)
  PROVE  Reads(Fields(Extrinsic14), WriteExtrinsic(v, x), x)
<1>1. Reads(Id, WriteId(x.type), x["type"]) BY ReadsId
<1>2. Reads(U8, Token("u8", x.version), x["version"]) BY ReadsU8
<1>3. Reads(Many(Extension), WriteNil(WriteExtension, x.extensions), x["extensions"])
     BY ReadsExtensions DEF IsExtrinsic
<1>4. IsRecord(x, {"type", "version", "extensions"}) BY DEF IsExtrinsic
<1>5. WriteExtrinsic(v, x) = WriteId(x.type) \o Token("u8", x.version)
     \o WriteNil(WriteExtension, x.extensions) 
  <2>1. ~ (v < 14) /\ v = 14 OBVIOUS
  <2> QED BY <2>1 DEF WriteExtrinsic
<1> QED BY <1>1, <1>2, <1>3, <1>4, <1>5, RowsThree DEF Extrinsic14

LEMMA ReadsExtrinsic15 ==
  ASSUME NEW v, v = 15, NEW x, IsExtrinsic(v, x)
  PROVE  Reads(Fields(Extrinsic15), WriteExtrinsic(v, x), x)
<1>1. Reads(U8, Token("u8", x.version), x["version"]) BY ReadsU8
<1>2. Reads(Id, WriteId(x.address), x["address"]) BY ReadsId
<1>3. Reads(Id, WriteId(x.call), x["call"]) BY ReadsId
<1>4. Reads(Id, WriteId(x.signature), x["signature"]) BY ReadsId
<1>5. Reads(Id, WriteId(x.extra), x["extra"]) BY ReadsId
<1>6. Reads(Many(Extension), WriteNil(WriteExtension, x.extensions), x["extensions"])
     BY ReadsExtensions DEF IsExtrinsic
<1>7. IsRecord(x, {"version", "address", "call", "signature", "extra", "extensions"})
     BY DEF IsExtrinsic
<1>8. WriteExtrinsic(v, x) = Token("u8", x.version) \o WriteId(x.address)
     \o WriteId(x.call) \o WriteId(x.signature) \o WriteId(x.extra)
     \o WriteNil(WriteExtension, x.extensions) 
  <2>1. ~ (v < 14) /\ v # 14 OBVIOUS
  <2> QED BY <2>1 DEF WriteExtrinsic
<1> QED BY <1>1, <1>2, <1>3, <1>4, <1>5, <1>6, <1>7, <1>8, RowsSix DEF Extrinsic15

LEMMA ReadsLayout16 ==
  ASSUME NEW x, IsLayout(x)
  PROVE  Reads(Layout16, WriteLayout(x), x)
<1>1. Reads(U8, Token("u8", x.version), x["version"]) BY ReadsU8
<1>2. Reads(Many(Leaf("count")), WriteTokens("count", x.indexes), x["indexes"])
     BY ReadsTokens DEF IsLayout
<1>3. IsRecord(x, {"version", "indexes"}) BY DEF IsLayout
<1>4. WriteLayout(x) = Token("u8", x.version) \o WriteTokens("count", x.indexes) BY
     DEF WriteLayout
<1> QED BY <1>1, <1>2, <1>3, <1>4, RowsTwo DEF Layout16

LEMMA ReadsLayouts16 ==
  ASSUME NEW x, IsNil(IsLayout, x)
  PROVE  Reads(Many(Layout16), WriteNil(WriteLayout, x), x)
<1> DEFINE xs == OrEmpty(x)
           ss == [i \in DOMAIN xs |-> WriteLayout(xs[i])]
<1>1. WriteNil(WriteLayout, x) = Token("count", Len(xs)) \o FlattenSeq(ss)
  BY DEF WriteNil, WriteList
<1>2. x # None => x # <<>> /\ x \in Seq({x[i] : i \in DOMAIN x}) BY DEF IsNil, IsList
<1>3. Elements(Layout16, ss, xs)
  <2>1. xs \in Seq({xs[i] : i \in DOMAIN xs}) BY <1>2, NilList
  <2>2. ASSUME NEW i \in DOMAIN xs PROVE Reads(Layout16, ss[i], xs[i])
    <3>1. IsLayout(xs[i]) BY DEF IsNil, IsList, OrEmpty
    <3> QED BY <3>1, ReadsLayout16
  <2>3. ss \in [DOMAIN xs -> {ss[i] : i \in DOMAIN xs}] OBVIOUS
  <2> HIDE DEF xs, ss
  <2> QED BY <2>1, <2>2, <2>3 DEF Elements
<1> HIDE DEF ss
<1>4. Reads(Many(Layout16), Token("count", Len(xs)) \o FlattenSeq(ss), x) BY <1>2, <1>3,
     ReadsNil
<1> QED BY <1>1, <1>4

LEMMA ReadsExtrinsic16 ==
  ASSUME NEW v, v = 16, NEW x, IsExtrinsic(v, x)
  PROVE  Reads(Fields(Extrinsic16), WriteExtrinsic(v, x), x)
<1>1. Reads(Leaf("bytes"), Token("bytes", x.versions), x["versions"]) BY ReadsLeaf
<1>2. Reads(Id, WriteId(x.address), x["address"]) BY ReadsId
<1>3. Reads(Id, WriteId(x.call), x["call"]) BY ReadsId
<1>4. Reads(Id, WriteId(x.signature), x["signature"]) BY ReadsId
<1>5. Reads(Many(Layout16), WriteNil(WriteLayout, x.layouts), x["layouts"])
     BY ReadsLayouts16 DEF IsExtrinsic
<1>6. Reads(Many(Extension), WriteNil(WriteExtension, x.catalog), x["catalog"])
     BY ReadsExtensions DEF IsExtrinsic
<1>7. IsRecord(x, {"versions", "address", "call", "signature", "layouts", "catalog"})
     BY DEF IsExtrinsic
<1>8. WriteExtrinsic(v, x) = Token("bytes", x.versions) \o WriteId(x.address)
     \o WriteId(x.call) \o WriteId(x.signature) \o WriteNil(WriteLayout, x.layouts)
     \o WriteNil(WriteExtension, x.catalog) 
  <2>1. ~ (v < 14) /\ v # 14 /\ v # 15 OBVIOUS
  <2> QED BY <2>1 DEF WriteExtrinsic
<1> QED BY <1>1, <1>2, <1>3, <1>4, <1>5, <1>6, <1>7, <1>8, RowsSix DEF Extrinsic16

LEMMA ReadsMethod15 ==
  ASSUME NEW v \in {15}, NEW x, IsMethod(v, x)
  PROVE  Reads(Fields(Method15), WriteMethod(v, x), x)
<1>1. Reads(Text, WriteText(x.name), x["name"]) BY ReadsText
<1>2. Reads(List(Parameter), WriteNil(WriteParameter, x.inputs), x["inputs"])
     BY ReadsParameterList DEF IsMethod
<1>3. Reads(Id, WriteId(x.output), x["output"]) BY ReadsId
<1>4. Reads(List(Text), WriteDocs(x.docs), x["docs"]) BY ReadsLines DEF IsMethod
<1>5. IsRecord(x, {"name", "inputs", "output", "docs"}) BY DEF IsMethod
<1>6. WriteMethod(v, x) = WriteText(x.name) \o WriteNil(WriteParameter, x.inputs)
     \o WriteId(x.output) \o WriteDocs(x.docs) 
  <2>1. IsSeq(WriteText(x.name) \o WriteNil(WriteParameter, x.inputs)
       \o WriteId(x.output) \o WriteDocs(x.docs))
    BY <1>1, <1>2, <1>3, <1>4, SeqConcat DEF Reads
  <2> QED BY <2>1, SeqNothing DEF WriteMethod
<1> QED BY <1>1, <1>2, <1>3, <1>4, <1>5, <1>6, RowsFour DEF Method15

LEMMA ReadsMethods15 ==
  ASSUME NEW v \in {15}, NEW x, IsList(LAMBDA m : IsMethod(v, m), x)
  PROVE  Reads(List(Fields(Method15)), WriteNil(LAMBDA y : WriteMethod(v, y), x), x)
<1> DEFINE xs == OrEmpty(x)
           ss == [i \in DOMAIN xs |-> WriteMethod(v, xs[i])]
<1>1. WriteNil(LAMBDA y : WriteMethod(v, y), x) = Token("count", Len(xs)) \o FlattenSeq(ss)
  BY DEF WriteNil, WriteList
<1>2. x # None /\ x \in Seq({x[i] : i \in DOMAIN x}) BY DEF IsList
<1>3. Elements(Fields(Method15), ss, xs)
  <2>1. xs \in Seq({xs[i] : i \in DOMAIN xs}) BY <1>2, NilList
  <2>2. ASSUME NEW i \in DOMAIN xs PROVE Reads(Fields(Method15), ss[i], xs[i])
    <3>1. IsMethod(v, xs[i]) BY DEF IsNil, IsList, OrEmpty
    <3> QED BY <3>1, ReadsMethod15
  <2>3. ss \in [DOMAIN xs -> {ss[i] : i \in DOMAIN xs}] OBVIOUS
  <2> HIDE DEF xs, ss
  <2> QED BY <2>1, <2>2, <2>3 DEF Elements
<1> HIDE DEF ss
<1>4. xs = x BY <1>2 DEF OrEmpty
<1>5. Reads(List(Fields(Method15)), Token("count", Len(xs)) \o FlattenSeq(ss), xs) BY <1>3,
     ReadsList
<1> QED BY <1>1, <1>4, <1>5

LEMMA ReadsApi15 ==
  ASSUME NEW v \in {15}, NEW x, IsApi(v, x)
  PROVE  Reads(Api15, WriteApi(v, x), x)
<1>1. Reads(Text, WriteText(x.name), x["name"]) BY ReadsText
<1>2. Reads(List(Fields(Method15)), WriteNil(LAMBDA y : WriteMethod(v, y), x.methods),
     x["methods"]) 
  <2>1. IsList(LAMBDA m : IsMethod(v, m), x.methods)
    <3>1. v # 16 OBVIOUS
    <3> QED BY <3>1 DEF IsApi, IsNil, IsList
  <2> QED BY <2>1, ReadsMethods15
<1>3. Reads(List(Text), WriteDocs(x.docs), x["docs"]) BY ReadsLines DEF IsApi
<1>4. IsRecord(x, {"name", "methods", "docs"}) BY DEF IsApi
<1>5. WriteApi(v, x) = WriteText(x.name) \o WriteNil(LAMBDA y : WriteMethod(v, y),
     x.methods) \o WriteDocs(x.docs) 
  <2> DEFINE a == WriteText(x.name) \o WriteNil(LAMBDA y : WriteMethod(v, y), x.methods)
       \o WriteDocs(x.docs)
  <2>0. v # 16 OBVIOUS
  <2>1. WriteApi(v, x) = a \o <<>> BY <2>0 DEF WriteApi
  <2>2. IsSeq(a) BY <1>1, <1>2, <1>3, SeqConcat DEF Reads
  <2> HIDE DEF a
  <2>3. WriteApi(v, x) = a BY <2>1, <2>2, SeqNothing
  <2> QED BY <2>3 DEF a
<1> QED BY <1>1, <1>2, <1>3, <1>4, <1>5, RowsThree DEF Api15

LEMMA ReadsApis15 ==
  ASSUME NEW v \in {15}, NEW x, IsNil(LAMBDA a : IsApi(v, a), x)
  PROVE  Reads(Many(Api15), WriteNil(LAMBDA a : WriteApi(v, a), x), x)
<1> DEFINE xs == OrEmpty(x)
           ss == [i \in DOMAIN xs |-> WriteApi(v, xs[i])]
<1>1. WriteNil(LAMBDA a : WriteApi(v, a), x) = Token("count", Len(xs)) \o FlattenSeq(ss)
  BY DEF WriteNil, WriteList
<1>2. x # None => x # <<>> /\ x \in Seq({x[i] : i \in DOMAIN x}) BY DEF IsNil, IsList
<1>3. Elements(Api15, ss, xs)
  <2>1. xs \in Seq({xs[i] : i \in DOMAIN xs}) BY <1>2, NilList
  <2>2. ASSUME NEW i \in DOMAIN xs PROVE Reads(Api15, ss[i], xs[i])
    <3>1. IsApi(v, xs[i]) BY DEF IsNil, IsList, OrEmpty
    <3> QED BY <3>1, ReadsApi15
  <2>3. ss \in [DOMAIN xs -> {ss[i] : i \in DOMAIN xs}] OBVIOUS
  <2> HIDE DEF xs, ss
  <2> QED BY <2>1, <2>2, <2>3 DEF Elements
<1> HIDE DEF ss
<1>4. Reads(Many(Api15), Token("count", Len(xs)) \o FlattenSeq(ss), x) BY <1>2, <1>3,
     ReadsNil
<1> QED BY <1>1, <1>4

LEMMA ReadsMethod16 ==
  ASSUME NEW v \in {16}, NEW x, IsMethod(v, x)
  PROVE  Reads(Fields(Method16), WriteMethod(v, x), x)
<1>1. Reads(Text, WriteText(x.name), x["name"]) BY ReadsText
<1>2. Reads(Many(Parameter), WriteNil(WriteParameter, x.inputs), x["inputs"])
     BY ReadsParameters DEF IsMethod
<1>3. Reads(Id, WriteId(x.output), x["output"]) BY ReadsId
<1>4. Reads(List(Text), WriteDocs(x.docs), x["docs"]) BY ReadsLines DEF IsMethod
<1>5. Reads(Deprecation, WriteDeprecation(x.deprecation), x["deprecation"])
     BY ReadsDeprecation DEF IsMethod
<1>6. IsRecord(x, {"name", "inputs", "output", "docs", "deprecation"}) BY DEF IsMethod
<1>7. WriteMethod(v, x) = WriteText(x.name) \o WriteNil(WriteParameter, x.inputs)
     \o WriteId(x.output) \o WriteDocs(x.docs) \o WriteDeprecation(x.deprecation) BY
     DEF WriteMethod
<1> QED BY <1>1, <1>2, <1>3, <1>4, <1>5, <1>6, <1>7, RowsFive DEF Method16

LEMMA ReadsMethods16 ==
  ASSUME NEW v \in {16}, NEW x, IsNil(LAMBDA m : IsMethod(v, m), x)
  PROVE  Reads(Many(Fields(Method16)), WriteNil(LAMBDA y : WriteMethod(v, y), x), x)
<1> DEFINE xs == OrEmpty(x)
           ss == [i \in DOMAIN xs |-> WriteMethod(v, xs[i])]
<1>1. WriteNil(LAMBDA y : WriteMethod(v, y), x) = Token("count", Len(xs)) \o FlattenSeq(ss)
  BY DEF WriteNil, WriteList
<1>2. x # None => x # <<>> /\ x \in Seq({x[i] : i \in DOMAIN x}) BY DEF IsNil, IsList
<1>3. Elements(Fields(Method16), ss, xs)
  <2>1. xs \in Seq({xs[i] : i \in DOMAIN xs}) BY <1>2, NilList
  <2>2. ASSUME NEW i \in DOMAIN xs PROVE Reads(Fields(Method16), ss[i], xs[i])
    <3>1. IsMethod(v, xs[i]) BY DEF IsNil, IsList, OrEmpty
    <3> QED BY <3>1, ReadsMethod16
  <2>3. ss \in [DOMAIN xs -> {ss[i] : i \in DOMAIN xs}] OBVIOUS
  <2> HIDE DEF xs, ss
  <2> QED BY <2>1, <2>2, <2>3 DEF Elements
<1> HIDE DEF ss
<1>4. Reads(Many(Fields(Method16)), Token("count", Len(xs)) \o FlattenSeq(ss), x) BY <1>2,
     <1>3, ReadsNil
<1> QED BY <1>1, <1>4

LEMMA ReadsApi16 ==
  ASSUME NEW v \in {16}, NEW x, IsApi(v, x)
  PROVE  Reads(Api16, WriteApi(v, x), x)
<1>1. Reads(Text, WriteText(x.name), x["name"]) BY ReadsText
<1>2. Reads(Many(Fields(Method16)), WriteNil(LAMBDA y : WriteMethod(v, y), x.methods),
     x["methods"]) 
  <2>1. IsNil(LAMBDA m : IsMethod(v, m), x.methods)
    <3>1. v = 16 OBVIOUS
    <3> QED BY <3>1 DEF IsApi, IsNil, IsList
  <2> QED BY <2>1, ReadsMethods16
<1>3. Reads(List(Text), WriteDocs(x.docs), x["docs"]) BY ReadsLines DEF IsApi
<1>4. Reads(Leaf("count"), Token("count", x.version), x["version"]) BY ReadsLeaf
<1>5. Reads(Deprecation, WriteDeprecation(x.deprecation), x["deprecation"])
     BY ReadsDeprecation DEF IsApi
<1>6. IsRecord(x, {"name", "methods", "docs", "version", "deprecation"}) BY DEF IsApi
<1>7. WriteApi(v, x) = WriteText(x.name) \o WriteNil(LAMBDA y : WriteMethod(v, y),
     x.methods) \o WriteDocs(x.docs) \o Token("count", x.version)
     \o WriteDeprecation(x.deprecation) 
  <2> DEFINE a == WriteText(x.name) \o WriteNil(LAMBDA y : WriteMethod(v, y), x.methods)
       \o WriteDocs(x.docs)
             b == Token("count", x.version)
             c == WriteDeprecation(x.deprecation)
  <2>1. WriteApi(v, x) = a \o (b \o c) BY DEF WriteApi
  <2>2. IsSeq(a) /\ IsSeq(b) /\ IsSeq(c) BY <1>1, <1>2, <1>3, <1>4, <1>5, SeqConcat
       DEF Reads
  <2> HIDE DEF a, b, c
  <2>3. a \o (b \o c) = a \o b \o c BY <2>2, SeqAssoc
  <2> QED BY <2>1, <2>3 DEF a, b, c
<1> QED BY <1>1, <1>2, <1>3, <1>4, <1>5, <1>6, <1>7, RowsFive DEF Api16

LEMMA ReadsApis16 ==
  ASSUME NEW v \in {16}, NEW x, IsNil(LAMBDA a : IsApi(v, a), x)
  PROVE  Reads(Many(Api16), WriteNil(LAMBDA a : WriteApi(v, a), x), x)
<1> DEFINE xs == OrEmpty(x)
           ss == [i \in DOMAIN xs |-> WriteApi(v, xs[i])]
<1>1. WriteNil(LAMBDA a : WriteApi(v, a), x) = Token("count", Len(xs)) \o FlattenSeq(ss)
  BY DEF WriteNil, WriteList
<1>2. x # None => x # <<>> /\ x \in Seq({x[i] : i \in DOMAIN x}) BY DEF IsNil, IsList
<1>3. Elements(Api16, ss, xs)
  <2>1. xs \in Seq({xs[i] : i \in DOMAIN xs}) BY <1>2, NilList
  <2>2. ASSUME NEW i \in DOMAIN xs PROVE Reads(Api16, ss[i], xs[i])
    <3>1. IsApi(v, xs[i]) BY DEF IsNil, IsList, OrEmpty
    <3> QED BY <3>1, ReadsApi16
  <2>3. ss \in [DOMAIN xs -> {ss[i] : i \in DOMAIN xs}] OBVIOUS
  <2> HIDE DEF xs, ss
  <2> QED BY <2>1, <2>2, <2>3 DEF Elements
<1> HIDE DEF ss
<1>4. Reads(Many(Api16), Token("count", Len(xs)) \o FlattenSeq(ss), x) BY <1>2, <1>3,
     ReadsNil
<1> QED BY <1>1, <1>4

LEMMA ReadsOuterEnums ==
  ASSUME NEW x, IsRecord(x, {"call", "event", "error"})
  PROVE  Reads(OuterEnums, WriteId(x.call) \o WriteId(x.event) \o WriteId(x.error), x)
<1>1. Reads(Id, WriteId(x.call), x["call"]) BY ReadsId
<1>2. Reads(Id, WriteId(x.event), x["event"]) BY ReadsId
<1>3. Reads(Id, WriteId(x.error), x["error"]) BY ReadsId
<1>4. IsRecord(x, {"call", "event", "error"}) OBVIOUS
<1> QED BY <1>1, <1>2, <1>3, <1>4, RowsThree DEF OuterEnums

LEMMA ReadsCustomValue ==
  ASSUME NEW x, IsRecord(x, {"key", "type", "value"})
  PROVE  Reads(CustomValue, WriteText(x.key) \o WriteId(x.type) \o Token("bytes", x.value),
       x)
<1>1. Reads(Text, WriteText(x.key), x["key"]) BY ReadsText
<1>2. Reads(Id, WriteId(x.type), x["type"]) BY ReadsId
<1>3. Reads(Leaf("bytes"), Token("bytes", x.value), x["value"]) BY ReadsLeaf
<1>4. IsRecord(x, {"key", "type", "value"}) OBVIOUS
<1> QED BY <1>1, <1>2, <1>3, <1>4, RowsThree DEF CustomValue

LEMMA ReadsCustom ==
  ASSUME NEW x, IsNil(LAMBDA c : IsRecord(c, {"key", "type", "value"}), x)
  PROVE  Reads(Custom, WriteNil(LAMBDA c : WriteText(c.key) \o WriteId(c.type)
       \o Token("bytes", c.value), x), x)
<1> DEFINE xs == OrEmpty(x)
           ss == [i \in DOMAIN xs |-> WriteText(xs[i].key) \o WriteId(xs[i].type)
                \o Token("bytes", xs[i].value)]
<1>1. WriteNil(LAMBDA c : WriteText(c.key) \o WriteId(c.type) \o Token("bytes", c.value),
     x) = Token("count", Len(xs)) \o FlattenSeq(ss)
  BY DEF WriteNil, WriteList
<1>2. x # None => x # <<>> /\ x \in Seq({x[i] : i \in DOMAIN x}) BY DEF IsNil, IsList
<1>3. Elements(CustomValue, ss, xs)
  <2>1. xs \in Seq({xs[i] : i \in DOMAIN xs}) BY <1>2, NilList
  <2>2. ASSUME NEW i \in DOMAIN xs PROVE Reads(CustomValue, ss[i], xs[i])
    <3>1. IsRecord(xs[i], {"key", "type", "value"}) BY DEF IsNil, IsList, OrEmpty
    <3> QED BY <3>1, ReadsCustomValue
  <2>3. ss \in [DOMAIN xs -> {ss[i] : i \in DOMAIN xs}] OBVIOUS
  <2> HIDE DEF xs, ss
  <2> QED BY <2>1, <2>2, <2>3 DEF Elements
<1> HIDE DEF ss
<1>4. Reads(Many(CustomValue), Token("count", Len(xs)) \o FlattenSeq(ss), x) BY <1>2, <1>3,
     ReadsNil
<1> QED BY <1>1, <1>4 DEF Custom

(* What is read of the tail is what was written there; version 14 leaves   *)
(* the type of the runtime behind.                                         *)
TailRead(v, t) ==
  \E s, u, x : /\ WriteTail(v, t) = s \o u /\ IsSeq(s) /\ IsSeq(u)
                /\ Reads(TailLayout(v), s, x) /\ \A part \in DOMAIN x : x[part] = t[part]

LEMMA TailPart ==
  ASSUME NEW t, NEW names
  PROVE  /\ IsRecord([f \in names |-> t[f]], names)
         /\ \A f \in names : [g \in names |-> t[g]][f] = t[f]
BY DEF IsRecord

LEMMA ReadsTail11 ==
  ASSUME NEW v \in 6..11, NEW t
  PROVE  TailRead(v, t)
<1> DEFINE none == <<>>  x == [f \in {} |-> t[f]]
<1>1. TailLayout(v) = Fields(none)
  <2>1. v < 12 /\ v \notin {12, 13} /\ v # 14 /\ v # 15 /\ v # 16 OBVIOUS
  <2> QED BY <2>1 DEF TailLayout
<1>2. IsSeq(none) /\ Len(none) = 0 /\ none \o none = none BY SeqEmpty
<1>3. WriteTail(v, t) = none \o none
  <2>1. v < 12 /\ v \notin {14, 15} /\ v < 15 OBVIOUS
  <2>2. WriteTail(v, t) = none \o none \o none BY <2>1 DEF WriteTail
  <2> QED BY <1>2, <2>2
<1>4. {none[i][1] : i \in DOMAIN none} = {} OBVIOUS
<1>5. IsRecord(x, {none[i][1] : i \in DOMAIN none}) /\ DOMAIN x = {} BY <1>4 DEF IsRecord
<1> HIDE DEF x
<1>6. Rows(none, Len(none), none, x) BY <1>2, RowsNone
<1> HIDE DEF none
<1>7. Reads(Fields(none), none, x) BY <1>5, <1>6, RowsRead
<1> QED BY <1>1, <1>2, <1>3, <1>5, <1>7 DEF TailRead

LEMMA ReadsTail13 ==
  ASSUME NEW v \in {12, 13}, NEW t, IsTail(v, t)
  PROVE  TailRead(v, t)
<1> DEFINE x == [f \in {"extrinsic"} |-> t[f]]  s == WriteExtrinsic(v, t.extrinsic)
<1>1. TailLayout(v) = Fields(<< <<"extrinsic", Fields(Extrinsic12)>> >>)
  <2>1. ~ (v < 12) /\ v # 14 /\ v # 15 /\ v # 16 OBVIOUS
  <2> QED BY <2>1 DEF TailLayout
<1>2. x["extrinsic"] = t.extrinsic /\ DOMAIN x = {"extrinsic"} /\ IsRecord(x, {"extrinsic"})
  BY DEF IsRecord
<1>3. IsExtrinsic(v, t.extrinsic)
  <2>1. v >= 12 OBVIOUS
  <2> QED BY <2>1 DEF IsTail
<1>4. Reads(Fields(Extrinsic12), s, t.extrinsic) BY <1>3, ReadsExtrinsic12
<1>5. IsSeq(s) BY <1>4 DEF Reads
<1>6. WriteTail(v, t) = s \o <<>>
  <2>1. ~ (v < 12) /\ v \notin {14, 15} /\ v < 15 OBVIOUS
  <2>2. WriteTail(v, t) = s \o <<>> \o <<>> BY <2>1 DEF WriteTail
  <2> HIDE DEF s
  <2> QED BY <1>5, <2>2, SeqNothing
<1> HIDE DEF x, s
<1>7. Reads(TailLayout(v), s, x) BY <1>1, <1>2, <1>4, RowsOne
<1> QED BY <1>2, <1>5, <1>6, <1>7, SeqEmpty DEF TailRead

LEMMA ReadsTail14 ==
  ASSUME NEW v \in {14}, NEW t, IsTail(v, t)
  PROVE  TailRead(v, t)
<1> DEFINE x == [f \in {"extrinsic"} |-> t[f]]  s == WriteExtrinsic(v, t.extrinsic)
           u == WriteId(t.type)
<1>1. TailLayout(v) = Fields(<< <<"extrinsic", Fields(Extrinsic14)>> >>)
  <2>1. ~ (v < 12) /\ v \notin {12, 13} /\ v # 15 /\ v # 16 /\ v = 14 OBVIOUS
  <2> QED BY <2>1 DEF TailLayout
<1>2. x["extrinsic"] = t.extrinsic /\ DOMAIN x = {"extrinsic"} /\ IsRecord(x, {"extrinsic"})
  BY DEF IsRecord
<1>3. IsExtrinsic(v, t.extrinsic)
  <2>1. v >= 12 OBVIOUS
  <2> QED BY <2>1 DEF IsTail
<1>4. Reads(Fields(Extrinsic14), s, t.extrinsic) BY <1>3, ReadsExtrinsic14
<1>5. IsSeq(s) /\ IsSeq(u) BY <1>4, ReadsId DEF Reads
<1>6. WriteTail(v, t) = s \o u
  <2>1. ~ (v < 12) /\ v \in {14, 15} /\ v < 15 OBVIOUS
  <2>2. WriteTail(v, t) = s \o u \o <<>> BY <2>1 DEF WriteTail
  <2> HIDE DEF s, u
  <2>3. IsSeq(s \o u) BY <1>5, SeqConcat
  <2> QED BY <2>2, <2>3, SeqNothing
<1> HIDE DEF x, s, u
<1>7. Reads(TailLayout(v), s, x) BY <1>1, <1>2, <1>4, RowsOne
<1> QED BY <1>2, <1>5, <1>6, <1>7 DEF TailRead

Regrouped(a, b, c) == a \o (b \o c) = (a \o b) \o c
LEMMA Regroup ==
  ASSUME NEW a, IsSeq(a), NEW b, IsSeq(b), NEW c, IsSeq(c)
  PROVE  Regrouped(a, b, c)
BY SeqAssoc DEF Regrouped

PartsOf(a, b, c, d, e, f) ==
  a \o (b \o c \o d \o e \o f) = a \o b \o (c \o d \o e) \o f

LEMMA FourParts ==
  ASSUME NEW a, IsSeq(a), NEW b, IsSeq(b), NEW c, IsSeq(c), NEW d, IsSeq(d),
         NEW e, IsSeq(e), NEW f, IsSeq(f)
  PROVE  PartsOf(a, b, c, d, e, f)
<1>1. IsSeq(c \o d) /\ IsSeq(b \o c) BY SeqConcat
<1>2. IsSeq(c \o d \o e) BY <1>1, SeqConcat
<1>3. IsSeq(b \o (c \o d \o e)) BY <1>2, SeqConcat
<1>4. Regrouped(b, c, d) BY Regroup
<1>5. Regrouped(b, c \o d, e) BY <1>1, Regroup
<1>6. Regrouped(a, b, c \o d \o e) BY <1>2, Regroup
<1>7. Regrouped(a, b \o (c \o d \o e), f) BY <1>3, Regroup
<1> QED BY <1>4, <1>5, <1>6, <1>7 DEF Regrouped, PartsOf

LEMMA ReadsTail15 ==
  ASSUME NEW v \in {15}, NEW t, IsTail(v, t)
  PROVE  TailRead(v, t)
<1> DEFINE x == [f \in {"extrinsic", "type", "apis", "outerEnums", "custom"} |-> t[f]]
           a == WriteExtrinsic(v, t.extrinsic)  b == WriteNil(LAMBDA y : WriteApi(v, y),
                t.apis)
           c == WriteId(t.outerEnums.call)  d == WriteId(t.outerEnums.event)
           e == WriteId(t.outerEnums.error)
           g == WriteNil(LAMBDA y : WriteText(y.key) \o WriteId(y.type) \o Token("bytes",
                y.value),
                         t.custom)
           s == a \o WriteId(t.type) \o b \o (c \o d \o e) \o g
<1>1. TailLayout(v) = Fields(<< <<"extrinsic", Fields(Extrinsic15)>>, <<"type", Id>>,
     <<"apis", Many(Api15)>>, <<"outerEnums", OuterEnums>>, <<"custom", Custom>> >>)
  <2>1. ~ (v < 12) /\ v \notin {12, 13} /\ v # 14 /\ v = 15 OBVIOUS
  <2> QED BY <2>1 DEF TailLayout
<1>2. /\ x["extrinsic"] = t.extrinsic
      /\ x["type"] = t.type
      /\ x["apis"] = t.apis
      /\ x["outerEnums"] = t.outerEnums
      /\ x["custom"] = t.custom
      /\ DOMAIN x = {"extrinsic", "type", "apis", "outerEnums", "custom"} /\ IsRecord(x,
           {"extrinsic", "type", "apis", "outerEnums", "custom"})
  BY DEF IsRecord
<1>3. /\ IsExtrinsic(v, t.extrinsic) /\ IsRecord(t.outerEnums, {"call", "event", "error"})
      /\ IsNil(LAMBDA y : IsApi(v, y), t.apis)
      /\ IsNil(LAMBDA y : IsRecord(y, {"key", "type", "value"}), t.custom)
  <2>1. v >= 12 /\ v >= 15 OBVIOUS
  <2> QED BY <2>1 DEF IsTail, IsNil, IsList
<1>4. Reads(Fields(Extrinsic15), a, t.extrinsic) BY <1>3, ReadsExtrinsic15
<1>5. Reads(Many(Api15), b, t.apis) BY <1>3, ReadsApis15
<1>6. Reads(OuterEnums, c \o d \o e, t.outerEnums) BY <1>3, ReadsOuterEnums
<1>7. Reads(Custom, g, t.custom) BY <1>3, ReadsCustom
<1>8. Reads(Id, WriteId(t.type), t.type) BY ReadsId
<1>9. IsSeq(a) /\ IsSeq(b) /\ IsSeq(g) /\ IsSeq(WriteId(t.type)) BY <1>4, <1>5, <1>7,
     <1>8 DEF Reads
<1>10. IsSeq(c) /\ IsSeq(d) /\ IsSeq(e) BY ReadsId DEF Reads
<1>11. WriteTail(v, t) = s
  <2> DEFINE h == a \o WriteId(t.type)
  <2>1. WriteTail(v, t) = h \o (b \o c \o d \o e \o g)
    <3>1. ~ (v < 12) /\ ~ (v < 15) /\ v \in {14, 15} OBVIOUS
    <3> QED BY <3>1 DEF WriteTail
  <2> HIDE DEF a, b, c, d, e, g
  <2>2. IsSeq(h) BY <1>9, SeqConcat
  <2> HIDE DEF h
  <2>3. PartsOf(h, b, c, d, e, g) BY <1>9, <1>10, <2>2, FourParts
  <2> QED BY <2>1, <2>2, <2>3 DEF h, PartsOf
<1> DEFINE m == c \o d \o e
<1> HIDE DEF a, b, c, d, e, g, x
<1>12. Reads(TailLayout(v), s, x)
  <2>1. /\ Reads(Fields(Extrinsic15), a, x["extrinsic"]) /\ Reads(Many(Api15), b, x["apis"])
        /\ Reads(OuterEnums, m, x["outerEnums"]) /\ Reads(Custom, g, x["custom"])
        /\ Reads(Id, WriteId(t.type), x["type"])
    BY <1>2, <1>4, <1>5, <1>6, <1>7, <1>8
  <2> HIDE DEF m
  <2>2. Reads(TailLayout(v), a \o WriteId(t.type) \o b \o m \o g, x) BY <1>1, <1>2, <2>1,
       RowsFive
  <2> QED BY <2>2 DEF m
<1>13. IsSeq(s) BY <1>12 DEF Reads
<1> HIDE DEF s
<1>14. s = s \o <<>> /\ IsSeq(<<>>) BY <1>13, SeqNothing, SeqEmpty
<1>15. \A f \in DOMAIN x : x[f] = t[f] BY <1>2
<1> QED BY <1>11, <1>12, <1>13, <1>14, <1>15 DEF TailRead

LEMMA ReadsTail16 ==
  ASSUME NEW v \in {16}, NEW t, IsTail(v, t)
  PROVE  TailRead(v, t)
<1> DEFINE x == [f \in {"extrinsic", "apis", "outerEnums", "custom"} |-> t[f]]
           a == WriteExtrinsic(v, t.extrinsic)  b == WriteNil(LAMBDA y : WriteApi(v, y),
                t.apis)
           c == WriteId(t.outerEnums.call)  d == WriteId(t.outerEnums.event)
           e == WriteId(t.outerEnums.error)
           g == WriteNil(LAMBDA y : WriteText(y.key) \o WriteId(y.type) \o Token("bytes",
                y.value),
                         t.custom)
           s == a \o b \o (c \o d \o e) \o g
<1>1. TailLayout(v) = Fields(<< <<"extrinsic", Fields(Extrinsic16)>>, <<"apis",
     Many(Api16)>>, <<"outerEnums", OuterEnums>>, <<"custom", Custom>> >>)
  <2>1. ~ (v < 12) /\ v \notin {12, 13} /\ v # 14 /\ v = 16 OBVIOUS
  <2> QED BY <2>1 DEF TailLayout
<1>2. /\ x["extrinsic"] = t.extrinsic
      /\ x["apis"] = t.apis
      /\ x["outerEnums"] = t.outerEnums
      /\ x["custom"] = t.custom
      /\ DOMAIN x = {"extrinsic", "apis", "outerEnums", "custom"} /\ IsRecord(x,
           {"extrinsic", "apis", "outerEnums", "custom"})
  BY DEF IsRecord
<1>3. /\ IsExtrinsic(v, t.extrinsic) /\ IsRecord(t.outerEnums, {"call", "event", "error"})
      /\ IsNil(LAMBDA y : IsApi(v, y), t.apis)
      /\ IsNil(LAMBDA y : IsRecord(y, {"key", "type", "value"}), t.custom)
  <2>1. v >= 12 /\ v >= 15 OBVIOUS
  <2> QED BY <2>1 DEF IsTail, IsNil, IsList
<1>4. Reads(Fields(Extrinsic16), a, t.extrinsic) BY <1>3, ReadsExtrinsic16
<1>5. Reads(Many(Api16), b, t.apis) BY <1>3, ReadsApis16
<1>6. Reads(OuterEnums, c \o d \o e, t.outerEnums) BY <1>3, ReadsOuterEnums
<1>7. Reads(Custom, g, t.custom) BY <1>3, ReadsCustom
<1>8. Reads(Id, WriteId(t.type), t.type) BY ReadsId
<1>9. IsSeq(a) /\ IsSeq(b) /\ IsSeq(g) /\ IsSeq(WriteId(t.type)) BY <1>4, <1>5, <1>7,
     <1>8 DEF Reads
<1>10. IsSeq(c) /\ IsSeq(d) /\ IsSeq(e) BY ReadsId DEF Reads
<1>11. WriteTail(v, t) = s
  <2> DEFINE h == a \o <<>>
  <2>1. WriteTail(v, t) = h \o (b \o c \o d \o e \o g)
    <3>1. ~ (v < 12) /\ ~ (v < 15) /\ v \notin {14, 15} OBVIOUS
    <3> QED BY <3>1 DEF WriteTail
  <2> HIDE DEF a, b, c, d, e, g
  <2>2. IsSeq(h) /\ h = a BY <1>9, SeqNothing
  <2> HIDE DEF h
  <2>3. PartsOf(h, b, c, d, e, g) BY <1>9, <1>10, <2>2, FourParts
  <2> QED BY <2>1, <2>2, <2>3 DEF h, PartsOf
<1> DEFINE m == c \o d \o e
<1> HIDE DEF a, b, c, d, e, g, x
<1>12. Reads(TailLayout(v), s, x)
  <2>1. /\ Reads(Fields(Extrinsic16), a, x["extrinsic"]) /\ Reads(Many(Api16), b, x["apis"])
        /\ Reads(OuterEnums, m, x["outerEnums"]) /\ Reads(Custom, g, x["custom"])
        
    BY <1>2, <1>4, <1>5, <1>6, <1>7, <1>8
  <2> HIDE DEF m
  <2>2. Reads(TailLayout(v), a \o b \o m \o g, x) BY <1>1, <1>2, <2>1, RowsFour
  <2> QED BY <2>2 DEF m
<1>13. IsSeq(s) BY <1>12 DEF Reads
<1> HIDE DEF s
<1>14. s = s \o <<>> /\ IsSeq(<<>>) BY <1>13, SeqNothing, SeqEmpty
<1>15. \A f \in DOMAIN x : x[f] = t[f] BY <1>2
<1> QED BY <1>11, <1>12, <1>13, <1>14, <1>15 DEF TailRead

LEMMA ReadsTail ==
  ASSUME NEW v \in 6..16, NEW t, IsTail(v, t)
  PROVE  TailRead(v, t)
<1>1. v \in 6..11 \/ v \in {12, 13} \/ v \in {14} \/ v \in {15} \/ v \in {16} OBVIOUS
<1> QED BY <1>1, ReadsTail11, ReadsTail13, ReadsTail14, ReadsTail15, ReadsTail16
=============================================================================
