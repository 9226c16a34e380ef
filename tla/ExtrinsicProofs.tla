---------------------------- MODULE ExtrinsicProofs ----------------------------
(***************************************************************************)
(* What a client decodes of an extrinsic, for every client and extrinsic   *)
(* of ClientAssumption: proofs about ExtrinsicClient.                      *)
(*                                                                         *)
(* The fields still to be read say what is left of the bytes (Stream) and  *)
(* what is left of the record (Completes).  The first part shows that the  *)
(* preamble a runtime writes is the stream of the fields that its version  *)
(* byte announces, the second that reading a field takes its bytes off the *)
(* stream and puts the sender's value where the record needs it, the third *)
(* that every step keeps the invariant IInv that joins the two.            *)
(***************************************************************************)
EXTENDS ExtrinsicClient, SequenceLemmas

-----------------------------------------------------------------------------
(* The bytes of the preamble *)

(* The value the sender wrote for a field of the preamble.                 *)
Due(f) ==
  CASE f.what = "signer" -> tx.signer
    [] f.what = "signature" -> tx.signature
    [] f.what = "era" -> tx.era
    [] f.what = "nonce" -> tx.nonce
    [] f.what = "tip" -> tx.tip
    [] f.what \in {"version", "general"} -> tx.version
    [] f.what = "record" -> IF tx.form = "84" THEN tx.value ELSE Shown(f.id)
    [] f.what \in {"extra", "layout"} -> Shown(f.id)

What == {"signer", "signature", "era", "nonce", "tip", "version", "general", "record", "extra",
         "layout"}
FieldSet ==
  [what : What, type : STRING \cup BuiltIn \cup {"Address"}, id : STRING \cup {""}]

(* Its bytes, those of some fields, and those after the preamble.          *)
Item(f) == [kind |-> Kind(NoModule, f.type), val |-> Due(f)]
Pending(f) == IF f.type = "NULL" THEN <<>> ELSE <<Item(f)>>
Pieces(s) == [i \in DOMAIN s |-> Pending(s[i])]
Stream(s) == FlattenSeq(Pieces(s))
Args ==
  [i \in DOMAIN tx.args |-> [kind |-> Kind(tx.module, tx.args[i]), val |-> <<"arg", i>>]]
Rest == Token("call", tx.call) \o Args

Items == {Item(f) : f \in FieldSet}
Tokens == Items \cup ToSet(Args) \cup ToSet(Token("call", tx.call))

LEMMA PendingType ==
  ASSUME NEW f \in FieldSet
  PROVE  Pending(f) \in Seq(Items)
<1>1. Item(f) \in Items BY DEF Items
<1> QED BY <1>1 DEF Pending

LEMMA PiecesType ==
  ASSUME NEW s \in Seq(FieldSet)
  PROVE  Pieces(s) \in Seq(Seq(Items)) /\ Len(Pieces(s)) = Len(s)
<1>1. \A i \in 1..Len(s) : Pending(s[i]) \in Seq(Items)
  BY PendingType, ElementType
<1> QED BY <1>1 DEF Pieces

LEMMA StreamType ==
  ASSUME NEW s \in Seq(FieldSet)
  PROVE  Stream(s) \in Seq(Items)
BY PiecesType, FlatType DEF Stream

LEMMA PiecesConcat ==
  ASSUME NEW a \in Seq(FieldSet), NEW b \in Seq(FieldSet)
  PROVE  Pieces(a \o b) = Pieces(a) \o Pieces(b)
<1>1. /\ a \o b \in Seq(FieldSet) /\ Len(a \o b) = Len(a) + Len(b)
      /\ \A i \in 1..(Len(a) + Len(b)) :
           (a \o b)[i] = IF i <= Len(a) THEN a[i] ELSE b[i - Len(a)]
  BY ConcatType
<1> DEFINE p == Pieces(a)  q == Pieces(b)
<1>2. /\ p \in Seq(Seq(Items)) /\ Len(p) = Len(a) /\ q \in Seq(Seq(Items)) /\ Len(q) = Len(b)
  BY PiecesType
<1>3. /\ p \o q \in Seq(Seq(Items)) /\ Len(p \o q) = Len(a) + Len(b)
      /\ \A i \in 1..(Len(a) + Len(b)) :
           (p \o q)[i] = IF i <= Len(a) THEN p[i] ELSE q[i - Len(a)]
  <2> HIDE DEF p, q
  <2>1. /\ p \o q \in Seq(Seq(Items)) /\ Len(p \o q) = Len(p) + Len(q)
        /\ \A i \in 1..(Len(p) + Len(q)) :
             (p \o q)[i] = IF i <= Len(p) THEN p[i] ELSE q[i - Len(p)]
    BY <1>2, ConcatType
  <2> QED BY <1>2, <2>1
<1>4. Pieces(a \o b) \in Seq(Seq(Items)) /\ Len(Pieces(a \o b)) = Len(a) + Len(b)
  BY <1>1, PiecesType
<1>5. ASSUME NEW i \in 1..(Len(a) + Len(b)) PROVE Pieces(a \o b)[i] = (p \o q)[i]
  <2>0. Len(a) \in Nat /\ Len(b) \in Nat OBVIOUS
  <2>1. Pieces(a \o b)[i] = Pending((a \o b)[i]) BY <1>1 DEF Pieces
  <2>2. CASE i <= Len(a)
    <3>1. i \in DOMAIN a BY <2>0, <2>2
    <3>2. p[i] = Pending(a[i]) BY <3>1 DEF Pieces
    <3> HIDE DEF p, q
    <3> QED BY <1>1, <1>3, <2>1, <2>2, <3>2
  <2>3. CASE ~ (i <= Len(a))
    <3>1. i - Len(a) \in DOMAIN b BY <2>0, <2>3
    <3>2. q[i - Len(a)] = Pending(b[i - Len(a)]) BY <3>1 DEF Pieces
    <3> HIDE DEF p, q
    <3> QED BY <1>1, <1>3, <2>1, <2>3, <3>2
  <2> QED BY <2>2, <2>3
<1> HIDE DEF p, q
<1>6. Pieces(a \o b) = p \o q
  <2> DEFINE u == Pieces(a \o b)  v == p \o q
  <2>1. u \in Seq(Seq(Items)) /\ v \in Seq(Seq(Items)) /\ Len(u) = Len(v) BY <1>3, <1>4
  <2>2. \A i \in 1..Len(u) : u[i] = v[i] BY <1>4, <1>5
  <2> HIDE DEF u, v
  <2>3. u = v BY <2>1, <2>2, EqualSeqs
  <2> QED BY <2>3 DEF u, v
<1> QED BY <1>6 DEF p, q

LEMMA StreamConcat ==
  ASSUME NEW a \in Seq(FieldSet), NEW b \in Seq(FieldSet)
  PROVE  Stream(a \o b) = Stream(a) \o Stream(b)
BY PiecesType, PiecesConcat, FlatConcat DEF Stream

LEMMA StreamEmpty == Stream(<<>>) = <<>>
<1>1. Pieces(<<>>) = <<>> BY DEF Pieces
<1> QED BY <1>1, FlatEmpty DEF Stream

LEMMA StreamOne ==
  ASSUME NEW f \in FieldSet
  PROVE  Stream(<<f>>) = Pending(f)
<1>1. Pieces(<<f>>) = <<Pending(f)>> BY DEF Pieces
<1> QED BY <1>1, PendingType, FlatOne DEF Stream

LEMMA StreamHead ==
  ASSUME NEW s \in Seq(FieldSet), s # <<>>
  PROVE  /\ Head(s) \in FieldSet /\ Tail(s) \in Seq(FieldSet)
         /\ Stream(s) = Pending(Head(s)) \o Stream(Tail(s))
<1>1. /\ Head(s) \in FieldSet /\ Tail(s) \in Seq(FieldSet) /\ <<Head(s)>> \in Seq(FieldSet)
      /\ s = <<Head(s)>> \o Tail(s)
  OBVIOUS
<1>2. Stream(s) = Stream(<<Head(s)>>) \o Stream(Tail(s)) BY <1>1, StreamConcat
<1> QED BY <1>1, <1>2, StreamOne

(* What is read next: nothing for a field of type NULL, else its bytes.    *)
LEMMA ReadNext ==
  ASSUME NEW s \in Seq(FieldSet), s # <<>>, NEW r \in Seq(Tokens)
  PROVE  /\ Head(s).type = "NULL" => Stream(s) \o r = Stream(Tail(s)) \o r
         /\ Head(s).type # "NULL" =>
              /\ Head(Stream(s) \o r) = Item(Head(s))
              /\ Tail(Stream(s) \o r) = Stream(Tail(s)) \o r
<1> DEFINE t == Stream(Tail(s))  x == Item(Head(s))
<1>1. /\ Head(s) \in FieldSet /\ Tail(s) \in Seq(FieldSet)
      /\ Stream(s) = Pending(Head(s)) \o t
  BY StreamHead
<1>2. t \in Seq(Items) BY <1>1, StreamType
<1>3. x \in Tokens /\ t \in Seq(Tokens) /\ x \in Items
  <2>1. Items \subseteq Tokens BY DEF Tokens
  <2>2. x \in Items BY <1>1 DEF Items
  <2> HIDE DEF t, x
  <2> QED BY <1>2, <2>1, <2>2
<1>4. CASE Head(s).type = "NULL"
  <2>1. Pending(Head(s)) = <<>> BY <1>4 DEF Pending
  <2> HIDE DEF t
  <2>2. <<>> \o t = t BY <1>2, ConcatEmpty
  <2>3. Stream(s) = t BY <1>1, <2>1, <2>2
  <2> QED BY <1>4, <2>3 DEF t
<1>5. CASE Head(s).type # "NULL"
  <2>1. Pending(Head(s)) = <<x>> BY <1>5 DEF Pending
  <2> HIDE DEF t, x
  <2>2. Stream(s) \o r = <<x>> \o (t \o r)
    <3>1. <<x>> \in Seq(Tokens) BY <1>3
    <3>2. (<<x>> \o t) \o r = <<x>> \o (t \o r) BY <1>3, <3>1
    <3> QED BY <1>1, <2>1, <3>2
  <2>3. t \o r \in Seq(Tokens) BY <1>3, ConcatType
  <2>4. Head(<<x>> \o (t \o r)) = x /\ Tail(<<x>> \o (t \o r)) = t \o r
    <3> DEFINE u == t \o r
    <3> HIDE DEF u
    <3>1. Head(<<x>> \o u) = x /\ Tail(<<x>> \o u) = u BY <1>3, <2>3, ConcatHead DEF u
    <3> QED BY <3>1 DEF u
  <2> QED BY <1>5, <2>2, <2>4 DEF t, x
<1> QED BY <1>4, <1>5

-----------------------------------------------------------------------------
(* Lists of extensions *)

LEMMA InRange ==
  ASSUME NEW S, NEW s \in Seq(S)
  PROVE  /\ ToSet(s) \subseteq S /\ DOMAIN s = 1..Len(s) /\ Len(s) \in Nat
         /\ \A i \in DOMAIN s : s[i] \in ToSet(s) /\ s[i] \in S
         /\ \A x \in ToSet(s) : \E i \in DOMAIN s : s[i] = x
BY DEF ToSet

LEMMA OfType ==
  ASSUME NEW what \in What, NEW s \in Seq(Ext)
  PROVE  /\ Of(what, s) \in Seq(FieldSet) /\ Len(Of(what, s)) = Len(s)
         /\ DOMAIN Of(what, s) = DOMAIN s
         /\ \A i \in DOMAIN s : Of(what, s)[i] = Field(what, s[i].type, s[i].identifier)
<1>1. \A i \in 1..Len(s) : s[i] \in Ext BY ElementType
<1>2. \A i \in 1..Len(s) : Field(what, s[i].type, s[i].identifier) \in FieldSet
  BY <1>1 DEF Ext, Field, FieldSet
<1> QED BY <1>2 DEF Of

LEMMA OfConcat ==
  ASSUME NEW what \in What, NEW a \in Seq(Ext), NEW b \in Seq(Ext)
  PROVE  Of(what, a \o b) = Of(what, a) \o Of(what, b)
<1>1. /\ a \o b \in Seq(Ext) /\ Len(a \o b) = Len(a) + Len(b)
      /\ \A i \in 1..(Len(a) + Len(b)) :
           (a \o b)[i] = IF i <= Len(a) THEN a[i] ELSE b[i - Len(a)]
  BY ConcatType
<1> DEFINE p == Of(what, a)  q == Of(what, b)  u == Of(what, a \o b)  v == p \o q
<1>2. /\ p \in Seq(FieldSet) /\ Len(p) = Len(a) /\ q \in Seq(FieldSet) /\ Len(q) = Len(b)
      /\ u \in Seq(FieldSet) /\ Len(u) = Len(a) + Len(b)
  BY <1>1, OfType
<1>3. /\ v \in Seq(FieldSet) /\ Len(v) = Len(a) + Len(b)
      /\ \A i \in 1..(Len(a) + Len(b)) :
           v[i] = IF i <= Len(a) THEN p[i] ELSE q[i - Len(a)]
  <2> HIDE DEF p, q
  <2>1. /\ p \o q \in Seq(FieldSet) /\ Len(p \o q) = Len(p) + Len(q)
        /\ \A i \in 1..(Len(p) + Len(q)) :
             (p \o q)[i] = IF i <= Len(p) THEN p[i] ELSE q[i - Len(p)]
    BY <1>2, ConcatType
  <2> QED BY <1>2, <2>1
<1>4. ASSUME NEW i \in 1..(Len(a) + Len(b)) PROVE u[i] = v[i]
  <2>0. Len(a) \in Nat /\ Len(b) \in Nat /\ DOMAIN a = 1..Len(a) /\ DOMAIN b = 1..Len(b)
        /\ DOMAIN (a \o b) = 1..(Len(a) + Len(b))
    BY <1>1
  <2> DEFINE y == (a \o b)[i]
  <2>1. u[i] = Field(what, y.type, y.identifier) BY <1>1, <2>0, OfType
  <2>2. CASE i <= Len(a)
    <3>1. p[i] = Field(what, a[i].type, a[i].identifier) BY <2>0, <2>2, OfType
    <3> HIDE DEF p, q, u, v
    <3> QED BY <1>1, <1>3, <2>1, <2>2, <3>1
  <2>3. CASE ~ (i <= Len(a))
    <3> DEFINE j == i - Len(a)
    <3>1. j \in DOMAIN b BY <2>0, <2>3
    <3>2. q[j] = Field(what, b[j].type, b[j].identifier) BY <3>1, OfType
    <3> HIDE DEF p, q, u, v
    <3> QED BY <1>1, <1>3, <2>1, <2>3, <3>2
  <2> QED BY <2>2, <2>3
<1> HIDE DEF p, q, u, v
<1>5. u = v BY <1>2, <1>3, <1>4, EqualSeqs
<1> QED BY <1>5 DEF p, q, u, v

(* Lists of which some members are taken.                                  *)
LEMMA WithExtraSet ==
  ASSUME NEW s \in Seq(Ext)
  PROVE  /\ WithExtra(s) \in Seq(Ext)
         /\ \A x : x \in ToSet(WithExtra(s)) <=> x \in ToSet(s) /\ x.type # "NULL"
<1> DEFINE part(x) == IF x.type = "NULL" THEN <<>> ELSE <<x>>
           ss == [i \in DOMAIN s |-> part(s[i])]
<1>1. ss \in Seq(Seq(Ext)) /\ DOMAIN ss = DOMAIN s
  <2>1. \A i \in 1..Len(s) : part(s[i]) \in Seq(Ext) BY ElementType
  <2> HIDE DEF part
  <2> QED BY <2>1
<1>2. ASSUME NEW x, NEW i \in DOMAIN s
      PROVE x \in ToSet(ss[i]) <=> x = s[i] /\ s[i].type # "NULL"
  BY DEF ToSet
<1>3. WithExtra(s) = FlattenSeq(ss) BY DEF WithExtra
<1> HIDE DEF ss
<1>4. FlattenSeq(ss) \in Seq(Ext) BY <1>1, FlatType
<1>5. ASSUME NEW x
      PROVE x \in ToSet(FlattenSeq(ss)) <=> x \in ToSet(s) /\ x.type # "NULL"
  <2>1. x \in ToSet(FlattenSeq(ss)) <=> \E i \in DOMAIN ss : x \in ToSet(ss[i])
    BY <1>1, FlatRange
  <2>2. x \in ToSet(s) <=> \E i \in DOMAIN s : x = s[i] BY DEF ToSet
  <2> QED BY <1>1, <1>2, <2>1, <2>2
<1> QED BY <1>3, <1>4, <1>5

LEMMA EnabledSet ==
  ASSUME NEW s \in Seq(Ext)
  PROVE  /\ Enabled(s) \in Seq(Ext)
         /\ \A x : x \in ToSet(Enabled(s)) <=>
              x \in ToSet(s) /\ x.identifier \in SignedExts \cup meta.additionalCheck
<1> DEFINE on(x) == x.identifier \in SignedExts \cup meta.additionalCheck
           part(x) == IF on(x) THEN <<x>> ELSE <<>>
           ss == [i \in DOMAIN s |-> part(s[i])]
<1>1. ss \in Seq(Seq(Ext)) /\ DOMAIN ss = DOMAIN s
  <2>1. \A i \in 1..Len(s) : part(s[i]) \in Seq(Ext) BY ElementType
  <2> HIDE DEF part
  <2> QED BY <2>1
<1>2. ASSUME NEW x, NEW i \in DOMAIN s
      PROVE x \in ToSet(ss[i]) <=> x = s[i] /\ on(s[i])
  <2> HIDE DEF on
  <2> QED BY DEF ToSet
<1>3. Enabled(s) = FlattenSeq(ss) BY DEF Enabled
<1> HIDE DEF ss
<1>4. FlattenSeq(ss) \in Seq(Ext) BY <1>1, FlatType
<1>5. ASSUME NEW x
      PROVE x \in ToSet(FlattenSeq(ss)) <=> x \in ToSet(s) /\ on(x)
  <2> HIDE DEF on
  <2>1. x \in ToSet(FlattenSeq(ss)) <=> \E i \in DOMAIN ss : x \in ToSet(ss[i])
    BY <1>1, FlatRange
  <2>2. x \in ToSet(s) <=> \E i \in DOMAIN s : x = s[i] BY DEF ToSet
  <2> QED BY <1>1, <1>2, <2>1, <2>2
<1> QED BY <1>3, <1>4, <1>5

LEMMA WithExtraHead ==
  ASSUME NEW s \in Seq(Ext), s # <<>>
  PROVE  WithExtra(s) = (IF Head(s).type = "NULL" THEN <<>> ELSE <<Head(s)>>)
                          \o WithExtra(Tail(s))
<1> DEFINE part(x) == IF x.type = "NULL" THEN <<>> ELSE <<x>>
           ss == [i \in DOMAIN s |-> part(s[i])]
           t == Tail(s)
           tt == [i \in DOMAIN t |-> part(t[i])]
<1>1. ss \in Seq(Seq(Ext)) /\ Len(ss) = Len(s) /\ DOMAIN ss = 1..Len(s) /\ Len(s) \in Nat
  <2>1. \A i \in 1..Len(s) : part(s[i]) \in Seq(Ext) BY ElementType
  <2> HIDE DEF part
  <2> QED BY <2>1
<1>2. /\ t \in Seq(Ext) /\ Len(t) = Len(s) - 1 /\ DOMAIN t = 1..(Len(s) - 1)
      /\ \A i \in 1..(Len(s) - 1) : t[i] = s[i + 1]
  OBVIOUS
<1>3. ss[1] = part(Head(s)) /\ ss # <<>> /\ Head(ss) = ss[1]
  <2> HIDE DEF part
  <2>1. Len(s) # 0 OBVIOUS
  <2>2. ss[1] = part(s[1]) /\ Head(s) = s[1] BY <1>1, <2>1
  <2> HIDE DEF ss
  <2> QED BY <1>1, <2>1, <2>2
<1>4. Tail(ss) = tt
  <2> HIDE DEF part
  <2>1. tt \in Seq(Seq(Ext)) /\ Len(tt) = Len(s) - 1
    <3>1. \A i \in 1..Len(t) : part(t[i]) \in Seq(Ext) BY <1>2, ElementType DEF part
    <3> HIDE DEF t
    <3> QED BY <1>2, <3>1
  <2>2. Tail(ss) \in Seq(Seq(Ext)) /\ Len(Tail(ss)) = Len(s) - 1
    <3> HIDE DEF ss
    <3> QED BY <1>1, <1>3
  <2>3. ASSUME NEW i \in 1..(Len(s) - 1) PROVE Tail(ss)[i] = tt[i]
    <3>1. Tail(ss)[i] = ss[i + 1]
      <4> HIDE DEF ss
      <4> QED BY <1>1, <1>3
    <3>2. ss[i + 1] = part(s[i + 1]) BY <1>1
    <3>3. tt[i] = part(t[i]) BY <1>2
    <3> HIDE DEF ss, tt, t
    <3> QED BY <1>2, <3>1, <3>2, <3>3
  <2> HIDE DEF ss, tt
  <2> QED BY <2>1, <2>2, <2>3, EqualSeqs
<1>5. WithExtra(s) = FlattenSeq(ss) /\ WithExtra(t) = FlattenSeq(tt) BY DEF WithExtra
<1>6. FlattenSeq(ss) = Head(ss) \o FlattenSeq(Tail(ss))
  <2> HIDE DEF ss
  <2> QED BY <1>1, <1>3, FlatHead
<1> HIDE DEF ss, tt
<1> QED BY <1>3, <1>4, <1>5, <1>6

-----------------------------------------------------------------------------
(* What the sender writes is what the decoder expects *)

Paired == \E c \in Client : meta = c.meta /\ tx = c.tx

LEMMA Fitting == Paired => Fits(meta, tx)
BY ClientAssumption DEF Paired

LEMMA PlainKind ==
  ASSUME NEW t, Plain(t)
  PROVE  Kind(NoModule, t) = t
BY DEF Plain, Kind

LEMMA BuiltInKind ==
  ASSUME NEW t \in BuiltIn
  PROVE  Kind(NoModule, t) = t /\ t # Unresolved
<1>1. Plain(t) BY ClientAssumption
<1>2. Kind(NoModule, t) = t BY <1>1, PlainKind
<1>3. t # Unresolved BY <1>1 DEF Plain
<1> QED BY <1>2, <1>3

(* The extensions of a layout, under the name of the branch that reads     *)
(* them.                                                                   *)
LEMMA ExtensionsWritten ==
  ASSUME NEW what \in {"record", "extra", "layout"}, tx.form = "84" => what # "record",
         NEW s \in Seq(Ext), \A x \in ToSet(s) : Plain(x.type)
  PROVE  WriteExtensions(s) = Stream(Of(what, s))
<1> DEFINE part(x) == IF x.type = "NULL" THEN <<>> ELSE Token(x.type, Shown(x.identifier))
           u == [i \in DOMAIN s |-> part(s[i])]
<1>0. what \in What BY DEF What
<1>1. Pieces(Of(what, s)) = [i \in DOMAIN s |-> Pending(Of(what, s)[i])]
  BY <1>0, OfType DEF Pieces
<1>2. ASSUME NEW i \in DOMAIN s PROVE Pending(Of(what, s)[i]) = part(s[i])
  <2> DEFINE f == Field(what, s[i].type, s[i].identifier)
  <2>1. Of(what, s)[i] = f BY <1>0, OfType
  <2>2. f.what = what /\ f.type = s[i].type /\ f.id = s[i].identifier BY DEF Field
  <2>3. Kind(NoModule, f.type) = s[i].type BY <2>2, InRange, PlainKind
  <2>4. Due(f) = Shown(s[i].identifier)
    <3> HIDE DEF f
    <3> QED BY <2>2 DEF Due
  <2>5. Pending(f) = part(s[i])
    <3> HIDE DEF f
    <3> QED BY <2>2, <2>3, <2>4 DEF Pending, Item, Token
  <2> QED BY <2>1, <2>5
<1>3. Pieces(Of(what, s)) = u
  <2> HIDE DEF part
  <2> QED BY <1>1, <1>2
<1>4. WriteExtensions(s) = FlattenSeq(u) BY DEF WriteExtensions
<1> QED BY <1>3, <1>4 DEF Stream

(* Extensions without a type add nothing to the bytes.                     *)
LEMMA NullsAside ==
  ASSUME NEW s \in Seq(Ext)
  PROVE  Stream(Of("extra", WithExtra(s))) = Stream(Of("extra", s))
<1> DEFINE Same(a) == Stream(Of("extra", WithExtra(a))) = Stream(Of("extra", a))
           T == {n \in Nat : \A a \in Seq(Ext) : Len(a) = n => Same(a)}
<1>0. "extra" \in What BY DEF What
<1>1. ASSUME NEW a \in Seq(Ext), Len(a) = 0 PROVE Same(a)
  <2>1. a = <<>> BY <1>1
  <2>2. WithExtra(<<>>) = <<>>
    <3>1. [i \in DOMAIN <<>> |-> IF <<>>[i].type = "NULL" THEN <<>> ELSE <<(<<>>)[i]>>] = <<>>
      OBVIOUS
    <3> QED BY <3>1, FlatEmpty DEF WithExtra
  <2> QED BY <2>1, <2>2
<1>2. ASSUME NEW a \in Seq(Ext), a # <<>>, Same(Tail(a)) PROVE Same(a)
  <2> DEFINE h == Head(a)  t == Tail(a)  f == Field("extra", h.type, h.identifier)
             w == WithExtra(t)
  <2>1. h \in Ext /\ t \in Seq(Ext) /\ <<h>> \in Seq(Ext) /\ a = <<h>> \o t BY <1>2
  <2>2. w \in Seq(Ext) BY <2>1, WithExtraSet
  <2>3. Of("extra", <<h>>) = <<f>> /\ f \in FieldSet
    <3>1. Of("extra", <<h>>) = <<f>> BY DEF Of
    <3>2. f \in FieldSet BY <1>0, <2>1 DEF Field, FieldSet, Ext
    <3> QED BY <3>1, <3>2
  <2>4. ASSUME NEW b \in Seq(Ext)
        PROVE /\ Stream(Of("extra", <<h>> \o b)) = Pending(f) \o Stream(Of("extra", b))
              /\ Stream(Of("extra", b)) \in Seq(Items)
    <3>1. Of("extra", <<h>> \o b) = <<f>> \o Of("extra", b)
      <4> DEFINE c == <<h>>
      <4>1. c \in Seq(Ext) /\ Of("extra", c) = <<f>> BY <2>1, <2>3
      <4> HIDE DEF c, f
      <4>2. Of("extra", c \o b) = Of("extra", c) \o Of("extra", b) BY <1>0, <4>1, OfConcat
      <4> QED BY <4>1, <4>2 DEF c
    <3>2. Of("extra", b) \in Seq(FieldSet) /\ <<f>> \in Seq(FieldSet)
      BY <1>0, <2>3, OfType
    <3> HIDE DEF f, h
    <3> QED BY <2>3, <3>1, <3>2, StreamConcat, StreamOne, StreamType
  <2>5. Stream(Of("extra", a)) = Pending(f) \o Stream(Of("extra", t))
    BY <2>1, <2>4
  <2>6. CASE h.type = "NULL"
    <3>1. WithExtra(a) = <<>> \o w BY <1>2, <2>6, WithExtraHead
    <3>2. WithExtra(a) = w BY <2>2, <3>1
    <3>3. Pending(f) = <<>> BY <2>6 DEF Pending, Field
    <3>4. Stream(Of("extra", a)) = Stream(Of("extra", t))
      <4> HIDE DEF f, h, t
      <4> QED BY <2>1, <2>4, <2>5, <3>3, ConcatEmpty
    <3> QED BY <1>2, <3>2, <3>4
  <2>7. CASE h.type # "NULL"
    <3>1. WithExtra(a) = <<h>> \o w BY <1>2, <2>7, WithExtraHead
    <3>2. Stream(Of("extra", WithExtra(a))) = Pending(f) \o Stream(Of("extra", w))
      <4> HIDE DEF f, h, w
      <4> QED BY <2>2, <2>4, <3>1
    <3> QED BY <1>2, <2>5, <3>2
  <2> QED BY <2>6, <2>7
<1>3. Len(s) \in T
  <2> HIDE DEF Same
  <2>1. 0 \in T BY <1>1
  <2>2. ASSUME NEW n \in Nat, n \in T PROVE n + 1 \in T
    <3>1. ASSUME NEW a \in Seq(Ext), Len(a) = n + 1 PROVE Same(a)
      <4>1. a # <<>> /\ Tail(a) \in Seq(Ext) /\ Len(Tail(a)) = n BY <3>1
      <4>2. Same(Tail(a)) BY <2>2, <4>1
      <4> QED BY <1>2, <4>1, <4>2
    <3> QED BY <3>1
  <2> HIDE DEF T
  <2>3. Nat \subseteq T BY <2>1, <2>2, SetInduction
  <2>4. Len(s) \in Nat OBVIOUS
  <2> QED BY <2>3, <2>4
<1>4. Same(s)
  <2> HIDE DEF Same
  <2> QED BY <1>3
<1> QED BY <1>4

(* Four lists of fields, one after the other.                              *)
Joined(a, b, c, d) ==
  /\ a \o b \o c \o d \in Seq(FieldSet)
  /\ Stream(a \o b \o c \o d) = Stream(a) \o Stream(b) \o Stream(c) \o Stream(d)
  /\ ToSet(a \o b \o c \o d) = UNION {ToSet(a), ToSet(b), ToSet(c), ToSet(d)}

LEMMA StreamFour ==
  ASSUME NEW a \in Seq(FieldSet), NEW b \in Seq(FieldSet), NEW c \in Seq(FieldSet),
         NEW d \in Seq(FieldSet)
  PROVE  Joined(a, b, c, d)
<1> DEFINE ab == a \o b  abc == ab \o c
<1>1. ab \in Seq(FieldSet) /\ Stream(ab) = Stream(a) \o Stream(b)
  BY StreamConcat, ConcatType
<1> HIDE DEF ab
<1>2. abc \in Seq(FieldSet) /\ Stream(abc) = Stream(ab) \o Stream(c)
  BY <1>1, StreamConcat, ConcatType
<1> HIDE DEF abc
<1>3. abc \o d \in Seq(FieldSet) /\ Stream(abc \o d) = Stream(abc) \o Stream(d)
  BY <1>2, StreamConcat, ConcatType
<1>4. ToSet(abc \o d) = ToSet(abc) \cup ToSet(d) BY <1>2, ConcatRange
<1>5. ToSet(abc) = ToSet(ab) \cup ToSet(c) BY <1>1, ConcatRange DEF abc
<1>6. ToSet(ab) = ToSet(a) \cup ToSet(b) BY ConcatRange DEF ab
<1>7. ToSet(abc \o d) = UNION {ToSet(a), ToSet(b), ToSet(c), ToSet(d)} BY <1>4, <1>5, <1>6
<1>8. abc \o d \in Seq(FieldSet)
      /\ Stream(abc \o d) = Stream(a) \o Stream(b) \o Stream(c) \o Stream(d)
  BY <1>1, <1>2, <1>3
<1> QED BY <1>7, <1>8 DEF ab, abc, Joined

LEMMA BuiltInField ==
  ASSUME NEW w \in What, NEW t \in BuiltIn
  PROVE  /\ Field(w, t, "") \in FieldSet
         /\ t # "NULL" => Stream(<<Field(w, t, "")>>) = Token(t, Due(Field(w, t, "")))
<1> DEFINE f == Field(w, t, "")
<1>1. f \in FieldSet /\ f.type = t BY DEF Field, FieldSet
<1> HIDE DEF f
<1>2. Kind(NoModule, t) = t BY BuiltInKind
<1>3. t # "NULL" => Pending(f) = Token(t, Due(f)) BY <1>1, <1>2 DEF Pending, Item, Token
<1>4. Stream(<<f>>) = Pending(f) BY <1>1, StreamOne
<1> QED BY <1>1, <1>3, <1>4 DEF f

LEMMA PairConcat ==
  ASSUME NEW S, NEW x \in S, NEW y \in S
  PROVE  <<x>> \o <<y>> = <<x, y>>
<1> DEFINE a == <<x>>  b == <<y>>  c == <<x, y>>
<1>1. a \in Seq(S) /\ b \in Seq(S) /\ c \in Seq(S) OBVIOUS
<1>2. Len(a) = 1 /\ Len(b) = 1 /\ Len(c) = 2 /\ a[1] = x /\ b[1] = y /\ c[1] = x /\ c[2] = y
  OBVIOUS
<1> HIDE DEF a, b, c
<1> DEFINE d == a \o b
<1>3. d \in Seq(S) /\ Len(d) = 2 /\ d[1] = x /\ d[2] = y BY <1>1, <1>2, ConcatType
<1> HIDE DEF d
<1>4. \A i \in 1..2 : i = 1 \/ i = 2 OBVIOUS
<1>5. d = c BY <1>1, <1>2, <1>3, <1>4, EqualSeqs
<1> QED BY <1>5 DEF a, b, c, d

LEMMA StreamTwo ==
  ASSUME NEW f \in FieldSet, NEW h \in FieldSet
  PROVE  <<f, h>> \in Seq(FieldSet) /\ Stream(<<f, h>>) = Stream(<<f>>) \o Stream(<<h>>)
<1> DEFINE a == <<f>>  b == <<h>>
<1>1. a \in Seq(FieldSet) /\ b \in Seq(FieldSet) OBVIOUS
<1>2. <<f, h>> = a \o b BY PairConcat
<1> HIDE DEF a, b
<1>3. a \o b \in Seq(FieldSet) /\ Stream(a \o b) = Stream(a) \o Stream(b)
  BY <1>1, StreamConcat, ConcatType
<1> QED BY <1>2, <1>3 DEF a, b

LEMMA SignWritten == Signer \in Seq(FieldSet) /\ Sign = Stream(Signer)
<1> DEFINE f == Field("signer", SignerType("Address"), "")
           h == Field("signature", "ExtrinsicSignature", "")
           t == IF meta.version >= 14 /\ meta.hasSigner THEN "ExtrinsicSigner" ELSE meta.address
<1>1. h \in FieldSet /\ Stream(<<h>>) = Token("ExtrinsicSignature", tx.signature)
  BY BuiltInField DEF What, BuiltIn, Due, Field
<1>2. f \in FieldSet /\ f.type = SignerType("Address") /\ f.what = "signer"
  BY DEF Field, FieldSet, SignerType, What, BuiltIn
<1>3. Kind(NoModule, SignerType("Address")) = t
  BY BuiltInKind DEF Kind, SignerType, BuiltIn
<1>4. SignerType("Address") # "NULL" BY DEF SignerType
<1> HIDE DEF f, h, t
<1>5. Stream(<<f>>) = Token(t, tx.signer)
  <2>1. Due(f) = tx.signer BY <1>2 DEF Due
  <2>2. Pending(f) = Token(t, tx.signer)
    BY <1>2, <1>3, <1>4, <2>1 DEF Pending, Item, Token
  <2> QED BY <1>2, <2>2, StreamOne
<1>6. Signer = <<f, h>> BY DEF Signer, f, h
<1>7. Stream(Signer) = Stream(<<f>>) \o Stream(<<h>>) /\ Signer \in Seq(FieldSet)
  BY <1>1, <1>2, <1>6, StreamTwo
<1> QED BY <1>1, <1>5, <1>7 DEF Sign, t

LEMMA CommonWritten == EraNonce \in Seq(FieldSet) /\ Common = Stream(EraNonce)
<1> DEFINE f == Field("era", "EraExtrinsic", "")  h == Field("nonce", "Compact<U64>", "")
<1>1. f \in FieldSet /\ Stream(<<f>>) = Token("EraExtrinsic", tx.era)
  BY BuiltInField DEF What, BuiltIn, Due, Field
<1>2. h \in FieldSet /\ Stream(<<h>>) = Token("Compact<U64>", tx.nonce)
  BY BuiltInField DEF What, BuiltIn, Due, Field
<1>3. EraNonce = <<f, h>> BY DEF EraNonce
<1> HIDE DEF f, h
<1> QED BY <1>1, <1>2, <1>3, StreamTwo DEF Common

LEMMA VersionWritten ==
  ASSUME NEW w \in {"version", "general"}
  PROVE  /\ Field(w, "U8", "") \in FieldSet
         /\ Stream(<<Field(w, "U8", "")>>) = Token("U8", tx.version)
<1> DEFINE f == Field(w, "U8", "")
<1>1. w \in What /\ "U8" \in BuiltIn BY DEF What, BuiltIn
<1>2. f \in FieldSet /\ Stream(<<f>>) = Token("U8", Due(f)) BY <1>1, BuiltInField
<1>3. f.what = w BY DEF Field
<1> HIDE DEF f
<1>4. Due(f) = tx.version BY <1>3 DEF Due
<1> QED BY <1>2, <1>4 DEF f

LEMMA TipWritten ==
  /\ TipField \in FieldSet /\ Stream(<<TipField>>) = Token("Compact<Balance>", tx.tip)
  /\ LegacyTip \in Seq(FieldSet)
  /\ meta.version \in Nat /\ meta.version < 14 =>
       Stream(LegacyTip) = IF Nil \/ Listed(Payment) THEN Token("Compact<Balance>", tx.tip)
                           ELSE <<>>
  /\ meta.version \in Nat /\ meta.version >= 14 => LegacyTip = <<>>
<1>1. TipField \in FieldSet /\ Stream(<<TipField>>) = Token("Compact<Balance>", tx.tip)
  BY BuiltInField DEF What, BuiltIn, Due, Field, TipField
<1> QED BY <1>1, StreamEmpty DEF LegacyTip

(* What the client was told of older extensions.                           *)
Told(f) == f.what = "record" /\ Plain(f.type) /\ f.type # "NULL"

LEMMA AdditionalFields ==
  ASSUME Fits(meta, tx)
  PROVE  /\ Additional \in Seq(FieldSet) /\ \A f \in ToSet(Additional) : Told(f)
         /\ meta.signedExtensions = <<>> => Additional = <<>>
<1> DEFINE o == meta.signedExtensions
           part(x) == IF Listed(x.name) THEN Of("record", x.additional) ELSE <<>>
           ss == [i \in DOMAIN o |-> part(o[i])]
<1>0. "record" \in What BY DEF What
<1>1. o \in Seq([name : STRING, additional : Seq(Ext)]) BY DEF Fits
<1>2. ASSUME NEW i \in DOMAIN o
      PROVE  part(o[i]) \in Seq(FieldSet) /\ \A f \in ToSet(part(o[i])) : Told(f)
  <2> DEFINE a == o[i].additional
  <2>1. o[i] \in [name : STRING, additional : Seq(Ext)] /\ o[i] \in ToSet(o)
    BY <1>1, InRange
  <2>2. a \in Seq(Ext) /\ \A x \in ToSet(a) : Plain(x.type) /\ x.type # "NULL"
    BY <2>1 DEF Fits
  <2> HIDE DEF a
  <2>3. Of("record", a) \in Seq(FieldSet) BY <1>0, <2>2, OfType
  <2>4. ASSUME NEW f \in ToSet(Of("record", a)) PROVE Told(f)
    <3>1. PICK j \in DOMAIN Of("record", a) : Of("record", a)[j] = f BY <2>3, <2>4, InRange
    <3>2. j \in DOMAIN a /\ f = Field("record", a[j].type, a[j].identifier)
      BY <1>0, <2>2, <3>1, OfType
    <3>3. Plain(a[j].type) /\ a[j].type # "NULL" BY <2>2, <3>2, InRange
    <3> QED BY <3>2, <3>3 DEF Told, Field
  <2>5. CASE Listed(o[i].name) BY <2>3, <2>4, <2>5 DEF a
  <2>6. CASE ~ Listed(o[i].name)
    <3>1. part(o[i]) = <<>> BY <2>6
    <3>2. ToSet(<<>>) = {} BY DEF ToSet
    <3> HIDE DEF part
    <3> QED BY <3>1, <3>2
  <2> QED BY <2>5, <2>6
<1>3. Additional = FlattenSeq(ss) BY DEF Additional
<1> HIDE DEF part
<1>4. ss \in Seq(Seq(FieldSet)) BY <1>1, <1>2
<1>5. FlattenSeq(ss) \in Seq(FieldSet) BY <1>4, FlatType
<1>6. ASSUME NEW f \in ToSet(FlattenSeq(ss)) PROVE Told(f)
  <2>1. PICK i \in DOMAIN ss : f \in ToSet(ss[i]) BY <1>4, <1>6, FlatRange
  <2> QED BY <1>2, <2>1
<1>7. ASSUME o = <<>> PROVE FlattenSeq(ss) = <<>>
  <2>1. ss = <<>> BY <1>7
  <2> QED BY <2>1, FlatEmpty
<1> QED BY <1>3, <1>5, <1>6, <1>7

LEMMA AdditionalWritten ==
  ASSUME Fits(meta, tx), tx.form = "84"
  PROVE  Stream(Additional) =
           FlattenSeq([i \in DOMAIN Additional |-> Token(Additional[i].type, tx.value)])
<1> DEFINE u == [i \in DOMAIN Additional |-> Token(Additional[i].type, tx.value)]
<1>1. Additional \in Seq(FieldSet) /\ \A f \in ToSet(Additional) : Told(f)
  BY AdditionalFields
<1>2. ASSUME NEW i \in DOMAIN Additional
      PROVE  Pending(Additional[i]) = Token(Additional[i].type, tx.value)
  <2> DEFINE f == Additional[i]
  <2>1. Told(f) BY <1>1, InRange
  <2> HIDE DEF f
  <2>2. Kind(NoModule, f.type) = f.type BY <2>1, PlainKind DEF Told
  <2>3. Due(f) = tx.value BY <2>1 DEF Told, Due
  <2>4. Pending(f) = Token(f.type, tx.value) BY <2>1, <2>2, <2>3 DEF Told, Pending, Item, Token
  <2> QED BY <2>4 DEF f
<1>3. Pieces(Additional) = u BY <1>2 DEF Pieces
<1> QED BY <1>3 DEF Stream

(* The preamble is the bytes of the fields its version byte announces.     *)
LEMMA LegacyPreamble ==
  ASSUME Fits(meta, tx), tx.form = "84", meta.version < 14
  PROVE  /\ Fields("84") = Signer \o EraNonce \o LegacyTip \o Additional
         /\ Fields("84") \in Seq(FieldSet)
         /\ WrittenPreamble = Stream(Fields("84"))
<1>0. meta.version \in Nat BY DEF Fits
<1>1. Extra = EraNonce BY <1>0 DEF Extra
<1>2. Fields("84") = Signer \o EraNonce \o LegacyTip \o Additional BY <1>1 DEF Fields
<1>3. /\ Signer \in Seq(FieldSet) /\ EraNonce \in Seq(FieldSet)
      /\ LegacyTip \in Seq(FieldSet) /\ Additional \in Seq(FieldSet)
  BY SignWritten, CommonWritten, TipWritten, AdditionalFields
<1>4. /\ Fields("84") \in Seq(FieldSet)
      /\ Stream(Fields("84")) =
           Stream(Signer) \o Stream(EraNonce) \o Stream(LegacyTip) \o Stream(Additional)
  <2>1. Joined(Signer, EraNonce, LegacyTip, Additional) BY ONLY <1>3, StreamFour
  <2> QED BY <1>2, <2>1 DEF Joined
<1>5. WrittenPreamble =
        Sign \o Common
          \o (IF Nil \/ Listed(Payment) THEN Token("Compact<Balance>", tx.tip) ELSE <<>>)
          \o FlattenSeq([i \in DOMAIN Additional |-> Token(Additional[i].type, tx.value)])
  <2>1. ~ (meta.version >= 14) BY <1>0
  <2> QED BY <2>1, Zenon DEF WrittenPreamble
<1>6. Stream(LegacyTip) = IF Nil \/ Listed(Payment) THEN Token("Compact<Balance>", tx.tip)
                          ELSE <<>>
  BY <1>0, TipWritten
<1>7. WrittenPreamble =
        Stream(Signer) \o Stream(EraNonce) \o Stream(LegacyTip) \o Stream(Additional)
  BY <1>5, <1>6, SignWritten, CommonWritten, AdditionalWritten
<1> QED BY <1>2, <1>4, <1>7

LEMMA SignedPreamble ==
  ASSUME Fits(meta, tx), tx.form = "84", meta.version >= 14
  PROVE  /\ Fields("84") = Signer \o Of("extra", WithExtra(tx.extensions))
         /\ Fields("84") \in Seq(FieldSet)
         /\ WrittenPreamble = Stream(Fields("84"))
<1> DEFINE e == Of("extra", WithExtra(tx.extensions))
<1>0. /\ meta.version \in Nat /\ meta.extrinsic # None /\ meta.signedExtensions = <<>>
      /\ meta.extrinsic.signed = tx.extensions /\ LayoutOK(tx.extensions)
  BY DEF Fits
<1>1. tx.extensions \in Seq(Ext) /\ \A x \in ToSet(tx.extensions) : Plain(x.type)
  <2>1. tx.extensions \in Seq(Ext) BY <1>0 DEF LayoutOK
  <2> QED BY <1>0, <2>1, InRange DEF LayoutOK
<1>2. Extra = e BY <1>0 DEF Extra, Nil
<1>3. LegacyTip = <<>> /\ Additional = <<>> BY <1>0, TipWritten, AdditionalFields
<1>4. e \in Seq(FieldSet)
  BY <1>1, WithExtraSet, OfType DEF What
<1>5. WriteExtensions(tx.extensions) = Stream(e)
  <2>1. WriteExtensions(tx.extensions) = Stream(Of("extra", tx.extensions))
    BY <1>1, ExtensionsWritten
  <2> QED BY <1>1, <2>1, NullsAside
<1> HIDE DEF e
<1>6. Signer \in Seq(FieldSet) /\ Sign = Stream(Signer) BY SignWritten
<1>7. /\ Signer \o e \in Seq(FieldSet)
      /\ Signer \o e \o <<>> \o <<>> = Signer \o e
  <2> DEFINE u == Signer \o e
  <2>1. u \in Seq(FieldSet) BY <1>4, <1>6, ConcatType
  <2> HIDE DEF u
  <2>2. u \o <<>> \o <<>> = u BY <2>1, ConcatEmpty
  <2> QED BY <2>1, <2>2 DEF u
<1>8. Fields("84") = Signer \o e BY <1>2, <1>3, <1>7 DEF Fields
<1>9. Stream(Signer \o e) = Stream(Signer) \o Stream(e) BY <1>4, <1>6, StreamConcat
<1>10. WrittenPreamble = Sign \o WriteExtensions(tx.extensions)
  <2>1. ~ (meta.version < 14) BY <1>0
  <2> QED BY <2>1, Zenon DEF WrittenPreamble
<1>11. Fields("84") \in Seq(FieldSet) /\ WrittenPreamble = Stream(Fields("84"))
  BY <1>5, <1>6, <1>7, <1>8, <1>9, <1>10
<1>12. Fields("84") = Signer \o Of("extra", WithExtra(tx.extensions)) BY <1>8 DEF e
<1> QED BY <1>11, <1>12

LEMMA EnabledWritten ==
  ASSUME Fits(meta, tx), tx.form = "85", meta.extrinsic # None
  PROVE  /\ EnabledFields = [i \in DOMAIN Enabled(tx.extensions) |->
                               EnabledField(Enabled(tx.extensions)[i])]
         /\ EnabledFields \in Seq(FieldSet)
         /\ WriteExtensions(Enabled(tx.extensions)) = Stream(EnabledFields)
<1> DEFINE s == Enabled(tx.extensions)
           part(x) == IF x.type = "NULL" THEN <<>> ELSE Token(x.type, Shown(x.identifier))
           u == [i \in DOMAIN s |-> part(s[i])]
<1>0. /\ LayoutOK(tx.extensions) /\ meta.extrinsic.signed = tx.extensions
      /\ \A x \in ToSet(tx.extensions) :
           /\ x.identifier = Nonce => x.type = "Compact<U64>"
           /\ x.identifier = Payment => x.type = "Compact<Balance>"
  BY DEF Fits
<1>1. tx.extensions \in Seq(Ext) /\ \A x \in ToSet(tx.extensions) : Plain(x.type)
  <2>1. tx.extensions \in Seq(Ext) BY <1>0 DEF LayoutOK
  <2> QED BY <1>0, <2>1, InRange DEF LayoutOK
<1>2. s \in Seq(Ext) /\ ToSet(s) \subseteq ToSet(tx.extensions) BY <1>1, EnabledSet
<1>3. EnabledFields = [i \in DOMAIN s |-> EnabledField(s[i])] BY <1>0 DEF EnabledFields
<1>4. WriteExtensions(s) = FlattenSeq(u) BY DEF WriteExtensions
<1> HIDE DEF s
<1>5. ASSUME NEW i \in DOMAIN s
      PROVE  EnabledField(s[i]) \in FieldSet /\ Pending(EnabledField(s[i])) = part(s[i])
  <2> DEFINE x == s[i]  f == EnabledField(x)
  <2>1. x \in Ext /\ x \in ToSet(tx.extensions) /\ Plain(x.type) BY <1>1, <1>2, InRange
  <2> HIDE DEF x
  <2>2. CASE x.identifier = Payment
    <3>1. f = TipField BY <2>2 DEF EnabledField, Nonce, Payment
    <3>2. Pending(TipField) = Token("Compact<Balance>", tx.tip)
      BY TipWritten, StreamOne
    <3>3. part(x) = Token("Compact<Balance>", tx.tip)
      BY <1>0, <2>1, <2>2 DEF Shown, Payment, Nonce, Mortality, AssetPayment, Verify
    <3> QED BY <3>1, <3>2, <3>3, TipWritten DEF x
  <2>3. CASE x.identifier = Nonce
    <3>1. f = Field("nonce", "Compact<U64>", "") BY <2>3 DEF EnabledField, Nonce, Payment
    <3> HIDE DEF f
    <3>2. f \in FieldSet /\ f.type = "Compact<U64>" /\ f.what = "nonce"
      BY <3>1 DEF Field, FieldSet, What, BuiltIn
    <3>3. Due(f) = tx.nonce BY <3>2 DEF Due
    <3>4. Kind(NoModule, "Compact<U64>") = "Compact<U64>" BY BuiltInKind DEF BuiltIn
    <3>5. Pending(f) = Token("Compact<U64>", tx.nonce)
      BY <3>2, <3>3, <3>4 DEF Pending, Item, Token
    <3>6. part(x) = Token("Compact<U64>", tx.nonce)
      BY <1>0, <2>1, <2>3 DEF Shown, Payment, Nonce, Mortality, AssetPayment, Verify
    <3> QED BY <3>2, <3>5, <3>6 DEF x, f
  <2>4. CASE x.identifier \notin {Payment, Nonce}
    <3>1. f = Field("record", x.type, x.identifier) BY <2>4 DEF EnabledField
    <3> HIDE DEF f
    <3>2. f \in FieldSet /\ f.type = x.type /\ f.what = "record" /\ f.id = x.identifier
      BY <2>1, <3>1 DEF Field, FieldSet, What, Ext
    <3>3. Due(f) = Shown(x.identifier) BY <3>2 DEF Due
    <3>4. Kind(NoModule, x.type) = x.type BY <2>1, PlainKind
    <3>5. Pending(f) = part(x) BY <3>2, <3>3, <3>4 DEF Pending, Item, Token
    <3> QED BY <3>2, <3>5 DEF x, f
  <2> QED BY <2>2, <2>3, <2>4
<1> DEFINE e == [i \in DOMAIN s |-> EnabledField(s[i])]
<1>6. e \in Seq(FieldSet)
  <2>1. DOMAIN s = 1..Len(s) /\ Len(s) \in Nat BY <1>2
  <2>2. e \in [1..Len(s) -> FieldSet] BY <1>5, <2>1
  <2> HIDE DEF e
  <2> QED BY <2>1, <2>2
<1>7. Pieces(e) = u
  <2> HIDE DEF part
  <2> QED BY <1>5 DEF Pieces
<1> QED BY <1>3, <1>4, <1>6, <1>7 DEF Stream, s

LEMMA PreambleV5 ==
  ASSUME Fits(meta, tx), tx.form = "85", meta.extrinsic # None
  PROVE  /\ Fields("85") = Signer \o <<Field("version", "U8", "")>> \o EraNonce \o EnabledFields
         /\ Fields("85") \in Seq(FieldSet)
         /\ WrittenPreamble = Stream(Fields("85"))
<1> DEFINE f == Field("version", "U8", "")  v == <<f>>
<1>1. f \in FieldSet /\ Stream(v) = Token("U8", tx.version)
  <2>1. \A w \in {"version", "general"} :
          /\ Field(w, "U8", "") \in FieldSet
          /\ Stream(<<Field(w, "U8", "")>>) = Token("U8", tx.version)
    BY VersionWritten
  <2>2. "version" \in {"version", "general"} OBVIOUS
  <2> QED BY <2>1, <2>2, Zenon
<1>2. v \in Seq(FieldSet)
  <2> HIDE DEF f
  <2> QED BY <1>1
<1>3. Fields("85") = Signer \o v \o EraNonce \o EnabledFields BY DEF Fields
<1>4. WrittenPreamble =
        Sign \o Token("U8", tx.version) \o Common \o WriteExtensions(Enabled(tx.extensions))
  BY DEF WrittenPreamble
<1> HIDE DEF f, v
<1>5. /\ Fields("85") \in Seq(FieldSet)
      /\ Stream(Fields("85")) =
           Stream(Signer) \o Stream(v) \o Stream(EraNonce) \o Stream(EnabledFields)
  <2>1. Signer \in Seq(FieldSet) /\ EraNonce \in Seq(FieldSet) /\ EnabledFields \in Seq(FieldSet)
    BY SignWritten, CommonWritten, EnabledWritten
  <2>2. Joined(Signer, v, EraNonce, EnabledFields) BY ONLY <1>2, <2>1, StreamFour
  <2> QED BY <1>3, <2>2 DEF Joined
<1>6. WrittenPreamble =
        Stream(Signer) \o Stream(v) \o Stream(EraNonce) \o Stream(EnabledFields)
  BY <1>1, <1>4, SignWritten, CommonWritten, EnabledWritten
<1>7. Fields("85") \in Seq(FieldSet) /\ WrittenPreamble = Stream(Fields("85")) BY <1>5, <1>6
<1>8. Fields("85") = Signer \o <<Field("version", "U8", "")>> \o EraNonce \o EnabledFields
  BY DEF Fields
<1> QED BY <1>7, <1>8

LEMMA LayoutWritten ==
  ASSUME Fits(meta, tx), NEW what \in {"extra", "layout"}
  PROVE  /\ tx.extensions \in Seq(Ext) /\ \A x \in ToSet(tx.extensions) : Plain(x.type)
         /\ Of(what, tx.extensions) \in Seq(FieldSet)
         /\ WriteExtensions(tx.extensions) = Stream(Of(what, tx.extensions))
<1>1. tx.extensions \in Seq(Ext) /\ \A x \in ToSet(tx.extensions) : Plain(x.type)
  <2>1. LayoutOK(tx.extensions) BY DEF Fits
  <2>2. tx.extensions \in Seq(Ext) BY <2>1 DEF LayoutOK
  <2> QED BY <2>1, <2>2, InRange DEF LayoutOK
<1>2. what \in What BY DEF What
<1> QED BY <1>1, <1>2, OfType, ExtensionsWritten

-----------------------------------------------------------------------------
(* The inductive invariant *)

Forms == {"04", "05", "84", "85", "45"}
Named == {Mortality, Nonce, Payment, AssetPayment, Verify}
Shows == {"signer", "signature", "era", "nonce", "tip", "version"}

(* The value a field is read as, and whether the record keeps it as an     *)
(* extension.                                                              *)
Given(f) == IF f.type = "NULL" THEN None ELSE Due(f)
Recorded(f) ==
  \/ f.what \in {"record", "layout"}
  \/ f.what = "extra" /\ ShouldRecord(f.id, Given(f))

(* A field that can be read: only an extension no one knows by name has no *)
(* type.                                                                   *)
Readable(f) ==
  /\ f.type # Unresolved /\ f.what # "general"
  /\ f.type = "NULL" =>
       f.what = "record" \/ (f.what \in {"extra", "layout"} /\ f.id \notin Named)

(* Field f gives the record's component k the sender's value.              *)
Sets(f, k) ==
  \/ f.what = k
  \/ /\ f.what \in {"extra", "layout"}
     /\ \/ k = "era" /\ f.id = Mortality
        \/ k = "nonce" /\ f.id = Nonce
        \/ k = "tip" /\ f.id \in {Payment, AssetPayment}
  \/ f.what = "layout" /\ k \in {"signer", "signature"} /\ f.id = Verify /\ tx.signer # None

(* The components that Decoded speaks of.                                  *)
Needed(k) ==
  CASE k \in {"signer", "signature"} -> Signed \/ (Has(Verify) /\ tx.signer # None)
    [] k = "era" -> tx.form = "85" \/ (Signed /\ Legacy) \/ Has(Mortality)
    [] k = "nonce" -> tx.form = "85" \/ (Signed /\ Legacy) \/ Has(Nonce)
    [] k = "tip" -> Paid
    [] k = "version" -> tx.form \in {"85", "45"}

(* The fields s, once they are read, complete the record r.                *)
Covers(s) ==
  /\ s \in Seq(FieldSet) /\ \A f \in ToSet(s) : Readable(f)
  /\ \A f \in ToSet(s) : Recorded(f) => f.id \in DOMAIN Expected /\ Expected[f.id] = Given(f)
Completes(s, r) ==
  /\ Covers(s)
  /\ DOMAIN r = DOMAIN Blank
  /\ r.extensions = [id \in DOMAIN r.extensions |-> Expected[id]]
  /\ DOMAIN r.extensions \subseteq DOMAIN Expected
  /\ \A id \in DOMAIN Expected :
       id \in DOMAIN r.extensions \/ \E f \in ToSet(s) : Recorded(f) /\ f.id = id
  /\ \A k \in Shows : Needed(k) => r[k] = tx[k] \/ \E f \in ToSet(s) : Sets(f, k)

(* The layout of a general extrinsic is the sender's; its hash is that of  *)
(* the whole extrinsic.                                                    *)
Known ==
  /\ version = tx.form /\ tx.form \in Forms
  /\ tx.form \in {"84", "85", "45"} => g.hash = Prefixed(Body)
Agreed == tx.form = "45" => Layout(tx.version) = [ok |-> TRUE, extensions |-> tx.extensions]

(* A prefix that is not taken for one.                                     *)
Unmatched == tx.prefixed /\ ~Matches(Announced(data), data)

Opening ==
  /\ tx.form = "45" /\ todo = <<Field("general", "U8", "")>> /\ g.extensions = <<>>
  /\ wire = Token("U8", tx.version) \o Stream(Of("layout", tx.extensions)) \o Rest
Reading == wire = Stream(todo) \o Rest /\ Completes(todo, g) /\ Agreed

Read ==
  /\ Known /\ Agreed /\ Completes(<<>>, g)
  /\ g.call = tx.call /\ tx.call \in DOMAIN meta.calls

Progress ==
  /\ stage \in {"length", "version"} => g = Blank
  /\ stage = "version" => wire = Body \/ (Unmatched /\ wire = data)
  /\ stage = "fields" => Known /\ (Opening \/ Reading)
  /\ stage = "args" => Read /\ wire = Args
  /\ Done => Read /\ g.params = [i \in DOMAIN tx.args |-> <<"arg", i>>]
  /\ stage = "panic" => ~Described \/ Unmatched
  /\ stage = "astray" => ~tx.prefixed /\ Matches(Announced(data), data)
  /\ Refused
Whole == Paired /\ data = IF tx.prefixed THEN Prefixed(Body) ELSE Body
IInv ==
  /\ Whole
  /\ TypeOK /\ (stage # "fields" => todo = <<>>)
  /\ Progress

-----------------------------------------------------------------------------
(* The fields of a preamble cover what the record needs *)

(* The fields s complete a record in which the components outside K are as *)
(* they should be.                                                         *)
Ready(s, K) ==
  /\ Covers(s)
  /\ \A id \in DOMAIN Expected : \E f \in ToSet(s) : Recorded(f) /\ f.id = id
  /\ \A k \in K : Needed(k) => \E f \in ToSet(s) : Sets(f, k)

LEMMA ReadyCompletes ==
  ASSUME NEW s, NEW K \in SUBSET Shows, Ready(s, K),
         NEW r, DOMAIN r = DOMAIN Blank, r.extensions = <<>>,
         \A k \in Shows \ K : r[k] = tx[k]
  PROVE  Completes(s, r)
<1>1. DOMAIN r.extensions = {} OBVIOUS
<1>2. r.extensions = [id \in DOMAIN r.extensions |-> Expected[id]] BY <1>1
<1> QED BY <1>1, <1>2 DEF Ready, Completes

LEMMA HasType ==
  ASSUME Fits(meta, tx), NEW x \in ToSet(tx.extensions)
  PROVE  /\ Has(x.identifier) <=> x.type # "NULL"
         /\ x.identifier \in Named => x.type # "NULL"
<1>1. LayoutOK(tx.extensions) BY DEF Fits
<1>2. tx.extensions \in Seq(Ext) BY <1>1 DEF LayoutOK
<1>3. PICK i \in DOMAIN tx.extensions : tx.extensions[i] = x BY <1>2, InRange
<1>4. ASSUME NEW j \in DOMAIN tx.extensions, tx.extensions[j].identifier = x.identifier
      PROVE  tx.extensions[j] = x
  BY <1>1, <1>3, <1>4 DEF LayoutOK
<1>5. x.identifier \in Named => x.type # "NULL" BY <1>1, <1>3 DEF LayoutOK, Named
<1> QED BY <1>3, <1>4, <1>5 DEF Has

LEMMA HasOne ==
  ASSUME Fits(meta, tx), NEW id, Has(id)
  PROVE  \E x \in ToSet(tx.extensions) : x.identifier = id /\ x.type # "NULL"
<1>1. tx.extensions \in Seq(Ext) BY DEF Fits, LayoutOK
<1> QED BY <1>1, InRange DEF Has

LEMMA IdentifierSet ==
  ASSUME NEW s \in Seq(Ext)
  PROVE  ToSet(Identifiers(s)) = {x.identifier : x \in ToSet(s)}
BY DEF ToSet, Identifiers

LEMMA OfSet ==
  ASSUME NEW what \in What, NEW s \in Seq(Ext)
  PROVE  /\ Of(what, s) \in Seq(FieldSet)
         /\ ToSet(Of(what, s)) = {Field(what, x.type, x.identifier) : x \in ToSet(s)}
<1>1. Of(what, s) \in Seq(FieldSet) /\ DOMAIN Of(what, s) = DOMAIN s BY OfType
<1>2. \A i \in DOMAIN s : Of(what, s)[i] = Field(what, s[i].type, s[i].identifier) BY OfType
<1> QED BY <1>1, <1>2 DEF ToSet

LEMMA SetOne ==
  ASSUME NEW x
  PROVE  ToSet(<<x>>) = {x}
BY DEF ToSet

LEMMA SetTwo ==
  ASSUME NEW x, NEW y
  PROVE  ToSet(<<x, y>>) = {x, y}
<1> DEFINE a == <<x, y>>
<1>1. DOMAIN a = {1, 2} /\ a[1] = x /\ a[2] = y OBVIOUS
<1> HIDE DEF a
<1>2. ToSet(a) = {x, y} BY <1>1 DEF ToSet
<1> QED BY <1>2 DEF a

(* What an extension is as a field of the preamble.                        *)
LEMMA ExtensionField ==
  ASSUME Fits(meta, tx), NEW x \in ToSet(tx.extensions), NEW what \in {"extra", "layout"},
         NEW f, f = Field(what, x.type, x.identifier)
  PROVE  /\ Readable(f) /\ f.what = what /\ f.id = x.identifier /\ f.type = x.type
         /\ Given(f) = IF Has(x.identifier) THEN Shown(x.identifier) ELSE None
         /\ x.identifier = Mortality => Sets(f, "era")
         /\ x.identifier = Nonce => Sets(f, "nonce")
         /\ x.identifier \in {Payment, AssetPayment} => Sets(f, "tip")
         /\ what = "layout" /\ x.identifier = Verify /\ tx.signer # None =>
              Sets(f, "signer") /\ Sets(f, "signature")
<1>1. f.what = what /\ f.id = x.identifier /\ f.type = x.type BY DEF Field
<1>2. x.type # Unresolved BY LayoutWritten DEF Plain
<1>3. Has(x.identifier) <=> x.type # "NULL" BY HasType
<1>4. x.identifier \in Named => x.type # "NULL" BY HasType
<1>5. Readable(f) BY <1>1, <1>2, <1>4 DEF Readable
<1>6. Due(f) = Shown(x.identifier) BY <1>1 DEF Due
<1>7. Given(f) = IF Has(x.identifier) THEN Shown(x.identifier) ELSE None
  BY <1>1, <1>3, <1>6 DEF Given
<1> QED BY <1>1, <1>5, <1>7 DEF Sets

(* Fields that are no extensions.                                          *)
Unrecorded(s) == s \in Seq(FieldSet) /\ \A f \in ToSet(s) : Readable(f) /\ ~Recorded(f)

LEMMA BuiltInUnrecorded ==
  ASSUME NEW w \in Shows, NEW t, t \in BuiltIn \ {"NULL"} \/ t = "Address",
         NEW f, f = Field(w, t, "")
  PROVE  f \in FieldSet /\ Readable(f) /\ ~Recorded(f) /\ Sets(f, w)
<1>1. f.what = w /\ f.type = t /\ f.id = "" BY DEF Field
<1>2. f \in FieldSet BY <1>1 DEF Field, FieldSet, What, Shows
<1>3. t # Unresolved /\ t # "NULL" BY BuiltInKind, ClientAssumption
<1>4. Readable(f) BY <1>1, <1>3 DEF Readable, Shows
<1>5. ~Recorded(f) BY <1>1 DEF Recorded, Shows
<1> QED BY <1>1, <1>2, <1>4, <1>5 DEF Sets

LEMMA SignerFields ==
  /\ Unrecorded(Signer)
  /\ \A k \in {"signer", "signature"} : \E f \in ToSet(Signer) : Sets(f, k)
<1> DEFINE f == Field("signer", SignerType("Address"), "")
           h == Field("signature", "ExtrinsicSignature", "")
<1>1. f \in FieldSet /\ Readable(f) /\ ~Recorded(f) /\ Sets(f, "signer")
  <2>1. SignerType("Address") \in BuiltIn \ {"NULL"} \/ SignerType("Address") = "Address"
    BY DEF SignerType, BuiltIn
  <2>2. "signer" \in Shows BY DEF Shows
  <2> QED BY <2>1, <2>2, BuiltInUnrecorded
<1>2. h \in FieldSet /\ Readable(h) /\ ~Recorded(h) /\ Sets(h, "signature")
  <2>1. "ExtrinsicSignature" \in BuiltIn \ {"NULL"} /\ "signature" \in Shows
    BY DEF BuiltIn, Shows
  <2> QED BY <2>1, BuiltInUnrecorded
<1>3. Signer = <<f, h>> BY DEF Signer
<1> HIDE DEF f, h
<1>4. ToSet(Signer) = {f, h} BY <1>3, SetTwo
<1> QED BY <1>1, <1>2, <1>4, SignWritten DEF Unrecorded

LEMMA EraFields ==
  /\ Unrecorded(EraNonce)
  /\ \A k \in {"era", "nonce"} : \E f \in ToSet(EraNonce) : Sets(f, k)
<1> DEFINE f == Field("era", "EraExtrinsic", "")
           h == Field("nonce", "Compact<U64>", "")
<1>1. f \in FieldSet /\ Readable(f) /\ ~Recorded(f) /\ Sets(f, "era")
  <2>1. "EraExtrinsic" \in BuiltIn \ {"NULL"} /\ "era" \in Shows BY DEF BuiltIn, Shows
  <2> QED BY <2>1, BuiltInUnrecorded
<1>2. h \in FieldSet /\ Readable(h) /\ ~Recorded(h) /\ Sets(h, "nonce")
  <2>1. "Compact<U64>" \in BuiltIn \ {"NULL"} /\ "nonce" \in Shows BY DEF BuiltIn, Shows
  <2> QED BY <2>1, BuiltInUnrecorded
<1>3. EraNonce = <<f, h>> BY DEF EraNonce
<1> HIDE DEF f, h
<1>4. ToSet(EraNonce) = {f, h} BY <1>3, SetTwo
<1> QED BY <1>1, <1>2, <1>4, CommonWritten DEF Unrecorded

LEMMA TipFields ==
  /\ TipField \in FieldSet /\ Readable(TipField) /\ ~Recorded(TipField) /\ Sets(TipField, "tip")
  /\ Unrecorded(LegacyTip)
<1>1. TipField \in FieldSet /\ Readable(TipField) /\ ~Recorded(TipField) /\ Sets(TipField, "tip")
  <2>1. "Compact<Balance>" \in BuiltIn \ {"NULL"} /\ "tip" \in Shows BY DEF BuiltIn, Shows
  <2> QED BY <2>1, BuiltInUnrecorded DEF TipField
<1>2. LegacyTip = <<TipField>> \/ LegacyTip = <<>> BY DEF LegacyTip
<1>3. ToSet(LegacyTip) \subseteq {TipField}
  <2>1. ToSet(<<>>) = {} BY DEF ToSet
  <2> QED BY <1>2, <2>1, SetOne
<1> QED BY <1>1, <1>3, TipWritten DEF Unrecorded

LEMMA VersionFields ==
  ASSUME NEW f, f = Field("version", "U8", "")
  PROVE  /\ Unrecorded(<<f>>) /\ ToSet(<<f>>) = {f} /\ Sets(f, "version")
<1>1. f \in FieldSet /\ Readable(f) /\ ~Recorded(f) /\ Sets(f, "version")
  <2>1. "U8" \in BuiltIn \ {"NULL"} /\ "version" \in Shows BY DEF BuiltIn, Shows
  <2> QED BY <2>1, BuiltInUnrecorded
<1>2. ToSet(<<f>>) = {f} BY SetOne
<1>3. <<f>> \in Seq(FieldSet) BY ONLY <1>1
<1> QED BY <1>1, <1>2, <1>3, Zenon DEF Unrecorded


LEMMA ReadyBare ==
  ASSUME Fits(meta, tx), tx.form \in {"04", "05"}
  PROVE  Fields(tx.form) = <<>> /\ Ready(<<>>, Shows)
<1>1. tx.extensions = <<>> BY DEF Fits
<1>2. \A id : ~Has(id) BY <1>1 DEF Has
<1>3. Expected = <<>> /\ DOMAIN Expected = {}
  <2>1. Expected = <<>> BY Zenon DEF Expected
  <2> QED BY <2>1
<1>4. ~Signed BY DEF Signed
<1>5. \A k \in Shows : ~Needed(k) BY <1>2, <1>4 DEF Shows, Needed, Paid
<1>6. <<>> \in Seq(FieldSet) /\ ToSet(<<>>) = {} BY DEF ToSet
<1>7. Covers(<<>>) BY <1>6 DEF Covers
<1>8. Fields(tx.form) = <<>> BY DEF Fields
<1> QED BY <1>3, <1>5, <1>7, <1>8 DEF Ready

LEMMA ReadyLegacy ==
  ASSUME Fits(meta, tx), tx.form = "84", meta.version < 14
  PROVE  Ready(Fields("84"), Shows)
<1> DEFINE s == Fields("84")
<1>0. meta.version \in Nat /\ tx.extensions = <<>> BY DEF Fits
<1>1. \A id : ~Has(id) BY <1>0 DEF Has
<1>2. /\ s = Signer \o EraNonce \o LegacyTip \o Additional /\ s \in Seq(FieldSet)
      /\ Additional \in Seq(FieldSet) /\ \A f \in ToSet(Additional) : Told(f)
  BY LegacyPreamble, AdditionalFields
<1>3. Unrecorded(Signer) /\ Unrecorded(EraNonce) /\ Unrecorded(LegacyTip)
  BY SignerFields, EraFields, TipFields
<1>4. ToSet(s) = UNION {ToSet(Signer), ToSet(EraNonce), ToSet(LegacyTip), ToSet(Additional)}
  <2>1. Signer \in Seq(FieldSet) /\ EraNonce \in Seq(FieldSet) /\ LegacyTip \in Seq(FieldSet)
    BY <1>3 DEF Unrecorded
  <2>2. Joined(Signer, EraNonce, LegacyTip, Additional) BY ONLY <1>2, <2>1, StreamFour
  <2> QED BY <1>2, <2>2 DEF Joined
<1> HIDE DEF s
<1>5. Legacy BY DEF Legacy
<1>6. Expected = [id \in {Additional[i].id : i \in DOMAIN Additional} |-> tx.value]
  BY <1>5, Zenon DEF Expected
<1>7. DOMAIN Expected = {f.id : f \in ToSet(Additional)}
  BY <1>2, <1>6 DEF ToSet
<1>8. ASSUME NEW f \in ToSet(Additional)
      PROVE  Readable(f) /\ Recorded(f) /\ f.id \in DOMAIN Expected
             /\ Expected[f.id] = Given(f)
  <2>1. f.what = "record" /\ Plain(f.type) /\ f.type # "NULL" BY <1>2 DEF Told
  <2>2. Given(f) = tx.value BY <2>1 DEF Given, Due
  <2>3. Readable(f) /\ Recorded(f) BY <2>1 DEF Readable, Recorded, Plain
  <2>4. f.id \in DOMAIN Expected BY <1>7
  <2>5. Expected[f.id] = tx.value BY <1>6, <2>4
  <2> QED BY <2>2, <2>3, <2>4, <2>5
<1>9. Covers(s) BY <1>2, <1>3, <1>4, <1>8 DEF Covers, Unrecorded
<1>10. \A id \in DOMAIN Expected : \E f \in ToSet(s) : Recorded(f) /\ f.id = id
  BY <1>4, <1>7, <1>8
<1>11. ASSUME NEW k \in Shows, Needed(k) PROVE \E f \in ToSet(s) : Sets(f, k)
  <2>1. CASE k \in {"signer", "signature", "era", "nonce"}
    BY <1>4, <2>1, SignerFields, EraFields
  <2>2. CASE k = "tip"
    <3>1. Nil \/ Listed(Payment) BY <1>1, <1>11, <2>2 DEF Needed, Paid
    <3>2. LegacyTip = <<TipField>> BY <3>1 DEF LegacyTip
    <3>3. TipField \in ToSet(LegacyTip) BY <3>2, SetOne
    <3> QED BY <1>4, <2>2, <3>3, TipFields
  <2>3. k # "version" BY <1>11 DEF Needed
  <2> QED BY <2>1, <2>2, <2>3 DEF Shows
<1>12. Ready(s, Shows) BY <1>9, <1>10, <1>11 DEF Ready
<1> QED BY <1>12 DEF s

LEMMA ReadySigned ==
  ASSUME Fits(meta, tx), tx.form = "84", meta.version >= 14
  PROVE  Ready(Fields("84"), Shows)
<1> DEFINE s == Fields("84")  w == WithExtra(tx.extensions)  e == Of("extra", w)
<1>1. s = Signer \o e /\ s \in Seq(FieldSet) BY SignedPreamble
<1>2. /\ tx.extensions \in Seq(Ext) /\ w \in Seq(Ext)
      /\ \A x : x \in ToSet(w) <=> x \in ToSet(tx.extensions) /\ x.type # "NULL"
  BY LayoutWritten, WithExtraSet
<1>3. /\ e \in Seq(FieldSet)
      /\ ToSet(e) = {Field("extra", x.type, x.identifier) : x \in ToSet(w)}
  BY <1>2, OfSet DEF What
<1>4. Unrecorded(Signer) BY SignerFields
<1> HIDE DEF s, w, e
<1>5. ToSet(s) = ToSet(Signer) \cup ToSet(e)
  <2>1. Signer \in Seq(FieldSet) BY <1>4 DEF Unrecorded
  <2>2. ASSUME NEW x PROVE x \in ToSet(Signer \o e) <=> x \in ToSet(Signer) \/ x \in ToSet(e)
    BY <1>3, <2>1, ConcatRange
  <2> QED BY <1>1, <2>2
<1>6. meta.version \in Nat /\ ~Legacy BY DEF Fits, Legacy
<1> DEFINE D == {j \in ToSet(Identifiers(tx.extensions)) \ {Mortality, Nonce, Payment} :
                   Has(j) /\ Shown(j) # None}
<1>7. Expected = [id \in D |-> Shown(id)] BY <1>6, Zenon DEF Expected
<1>8. ToSet(Identifiers(tx.extensions)) = {x.identifier : x \in ToSet(tx.extensions)}
  BY <1>2, IdentifierSet
<1>9. ASSUME NEW x \in ToSet(w), NEW f, f = Field("extra", x.type, x.identifier)
      PROVE  /\ f \in ToSet(e) /\ Readable(f) /\ f.id = x.identifier
             /\ Given(f) = Shown(x.identifier) /\ (Recorded(f) <=> x.identifier \in D)
             /\ x.identifier = Mortality => Sets(f, "era")
             /\ x.identifier = Nonce => Sets(f, "nonce")
             /\ x.identifier \in {Payment, AssetPayment} => Sets(f, "tip")
  <2>1. x \in ToSet(tx.extensions) /\ x.type # "NULL" BY <1>2
  <2>2. /\ Readable(f) /\ f.what = "extra" /\ f.id = x.identifier
        /\ Given(f) = IF Has(x.identifier) THEN Shown(x.identifier) ELSE None
        /\ x.identifier = Mortality => Sets(f, "era")
        /\ x.identifier = Nonce => Sets(f, "nonce")
        /\ x.identifier \in {Payment, AssetPayment} => Sets(f, "tip")
    BY <1>9, <2>1, ExtensionField
  <2>3. Has(x.identifier) BY <2>1, HasType
  <2>4. Recorded(f) <=> x.identifier \notin {Mortality, Nonce, Payment} /\ Shown(x.identifier) # None
    BY <2>2, <2>3 DEF Recorded, ShouldRecord, HasValue
  <2>5. Recorded(f) <=> x.identifier \in D BY <1>8, <2>1, <2>3, <2>4
  <2>6. f \in ToSet(e) BY <1>3, <1>9
  <2> HIDE DEF D
  <2> QED BY <2>2, <2>3, <2>5, <2>6
<1>10. ASSUME NEW id, Has(id)
       PROVE  \E x \in ToSet(w) : x.identifier = id
  BY <1>2, <1>10, HasOne
<1>11. Covers(s)
  <2>1. ASSUME NEW f \in ToSet(e)
        PROVE  Readable(f) /\ (Recorded(f) => f.id \in DOMAIN Expected /\ Expected[f.id] = Given(f))
    <3>1. PICK x \in ToSet(w) : f = Field("extra", x.type, x.identifier) BY <1>3
    <3> HIDE DEF D
    <3>2. /\ Readable(f) /\ f.id = x.identifier
          /\ Given(f) = Shown(x.identifier) /\ (Recorded(f) <=> x.identifier \in D)
      BY <1>9, <3>1
    <3> QED BY <1>7, <3>2
  <2> QED BY <1>1, <1>4, <1>5, <2>1 DEF Covers, Unrecorded
<1>12. ASSUME NEW id \in DOMAIN Expected PROVE \E f \in ToSet(s) : Recorded(f) /\ f.id = id
  <2>1. id \in D /\ Has(id) BY <1>7
  <2>2. PICK x \in ToSet(w) : x.identifier = id BY <1>10, <2>1
  <2> DEFINE f == Field("extra", x.type, x.identifier)
  <2> HIDE DEF D
  <2>3. f \in ToSet(e) /\ f.id = id /\ Recorded(f) BY <1>9, <2>1, <2>2
  <2> QED BY <1>5, <2>3
<1>13. ASSUME NEW k \in Shows, Needed(k) PROVE \E f \in ToSet(s) : Sets(f, k)
  <2>1. CASE k \in {"signer", "signature"} BY <1>5, <2>1, SignerFields
  <2>2. ASSUME NEW id, Has(id), NEW l, \A f : f.what = "extra" /\ f.id = id => Sets(f, l)
        PROVE  \E f \in ToSet(s) : Sets(f, l)
    <3>1. PICK x \in ToSet(w) : x.identifier = id BY <1>10, <2>2
    <3> DEFINE f == Field("extra", x.type, x.identifier)
    <3>2. f.what = "extra" /\ f.id = id BY <3>1 DEF Field
    <3>3. f \in ToSet(e) BY <1>3
    <3> HIDE DEF f
    <3> QED BY <1>5, <2>2, <3>2, <3>3
  <2>3. CASE k = "era"
    <3>1. Has(Mortality) BY <1>6, <1>13, <2>3 DEF Needed
    <3>2. \A f : f.what = "extra" /\ f.id = Mortality => Sets(f, k) BY <2>3 DEF Sets
    <3> QED BY <2>2, <3>1, <3>2
  <2>4. CASE k = "nonce"
    <3>1. Has(Nonce) BY <1>6, <1>13, <2>4 DEF Needed
    <3>2. \A f : f.what = "extra" /\ f.id = Nonce => Sets(f, k) BY <2>4 DEF Sets
    <3> QED BY <2>2, <3>1, <3>2
  <2>5. CASE k = "tip"
    <3>1. Has(Payment) \/ Has(AssetPayment) BY <1>6, <1>13, <2>5 DEF Needed, Paid
    <3>2. \A f : f.what = "extra" /\ f.id \in {Payment, AssetPayment} => Sets(f, k)
      BY <2>5 DEF Sets
    <3> QED BY <2>2, <3>1, <3>2
  <2>6. k # "version" BY <1>13 DEF Needed
  <2> QED BY <2>1, <2>3, <2>4, <2>5, <2>6 DEF Shows
<1>14. Ready(s, Shows) BY <1>11, <1>12, <1>13 DEF Ready
<1> QED BY <1>14 DEF s


LEMMA ReadyV5 ==
  ASSUME Fits(meta, tx), tx.form = "85", meta.extrinsic # None
  PROVE  Ready(Fields("85"), Shows)
<1> DEFINE s == Fields("85")  w == Enabled(tx.extensions)  e == EnabledFields
           v == Field("version", "U8", "")
<1>1. s = Signer \o <<v>> \o EraNonce \o e /\ s \in Seq(FieldSet) BY PreambleV5
<1>2. /\ tx.extensions \in Seq(Ext) /\ w \in Seq(Ext)
      /\ ToSet(w) \subseteq ToSet(tx.extensions)
      /\ \A x \in ToSet(tx.extensions) : x.identifier \in SignedExts => x \in ToSet(w)
  BY LayoutWritten, EnabledSet
<1>3. /\ e \in Seq(FieldSet)
      /\ ToSet(e) = {EnabledField(x) : x \in ToSet(w)}
  <2>1. e = [i \in DOMAIN w |-> EnabledField(w[i])] /\ e \in Seq(FieldSet) BY EnabledWritten
  <2> QED BY <2>1 DEF ToSet
<1>4. /\ Unrecorded(Signer) /\ Unrecorded(EraNonce) /\ Unrecorded(<<v>>)
      /\ ToSet(<<v>>) = {v} /\ Sets(v, "version")
  BY SignerFields, EraFields, VersionFields
<1> HIDE DEF s, w, e, v
<1>5. ToSet(s) = UNION {ToSet(Signer), ToSet(<<v>>), ToSet(EraNonce), ToSet(e)}
  <2> DEFINE vs == <<v>>
  <2>1. Signer \in Seq(FieldSet) /\ EraNonce \in Seq(FieldSet) /\ vs \in Seq(FieldSet)
    BY <1>4 DEF Unrecorded
  <2> HIDE DEF vs
  <2>2. Joined(Signer, vs, EraNonce, e) BY ONLY <1>3, <2>1, StreamFour
  <2> QED BY <1>1, <2>2 DEF Joined, vs
<1> DEFINE D == ToSet(Identifiers(w)) \ {Nonce, Payment}
<1>6. Expected = [id \in D |-> IF Has(id) THEN Shown(id) ELSE None]
  BY Zenon DEF Expected, w
<1>7. ToSet(Identifiers(w)) = {x.identifier : x \in ToSet(w)} BY <1>2, IdentifierSet
<1>8. ASSUME NEW x \in ToSet(w), x.identifier \in {Nonce, Payment}
      PROVE  Readable(EnabledField(x)) /\ ~Recorded(EnabledField(x))
  <2>1. CASE x.identifier = Payment
    <3>1. EnabledField(x) = TipField BY <2>1 DEF EnabledField, Nonce, Payment
    <3> QED BY <3>1, TipFields
  <2>2. CASE x.identifier = Nonce
    <3> DEFINE f == Field("nonce", "Compact<U64>", "")
    <3>1. EnabledField(x) = f BY <2>2 DEF EnabledField, Nonce, Payment
    <3>2. "Compact<U64>" \in BuiltIn \ {"NULL"} /\ "nonce" \in Shows BY DEF BuiltIn, Shows
    <3> HIDE DEF f
    <3>3. Readable(f) /\ ~Recorded(f) BY <3>2, BuiltInUnrecorded DEF f
    <3> QED BY <3>1, <3>3
  <2> QED BY <1>8, <2>1, <2>2
<1>9. ASSUME NEW x \in ToSet(w), x.identifier \notin {Nonce, Payment},
             NEW f, f = EnabledField(x)
      PROVE  /\ Readable(f) /\ Recorded(f) /\ f.id = x.identifier /\ x.identifier \in D
             /\ Given(f) = IF Has(x.identifier) THEN Shown(x.identifier) ELSE None
  <2>1. x \in ToSet(tx.extensions) BY <1>2
  <2>2. f = Field("record", x.type, x.identifier)
    BY <1>9 DEF EnabledField, Nonce, Payment
  <2>3. f.what = "record" /\ f.type = x.type /\ f.id = x.identifier BY <2>2 DEF Field
  <2>4. Has(x.identifier) <=> x.type # "NULL" BY <2>1, HasType
  <2>5. x.type # Unresolved BY <2>1, LayoutWritten DEF Plain
  <2>6. Due(f) = Shown(x.identifier) BY <2>3 DEF Due
  <2>7. Given(f) = IF Has(x.identifier) THEN Shown(x.identifier) ELSE None
    BY <2>3, <2>4, <2>6 DEF Given
  <2>8. Readable(f) /\ Recorded(f) BY <2>3, <2>5 DEF Readable, Recorded
  <2>9. x.identifier \in D BY <1>7, <1>9
  <2> QED BY <2>3, <2>7, <2>8, <2>9
<1>10. Covers(s)
  <2>1. ASSUME NEW f \in ToSet(e)
        PROVE  Readable(f) /\ (Recorded(f) => f.id \in DOMAIN Expected /\ Expected[f.id] = Given(f))
    <3>1. PICK x \in ToSet(w) : f = EnabledField(x) BY <1>3
    <3> HIDE DEF D
    <3>2. CASE x.identifier \in {Nonce, Payment} BY <1>8, <3>1, <3>2
    <3>3. CASE x.identifier \notin {Nonce, Payment}
      <4>1. /\ Readable(f) /\ f.id = x.identifier /\ x.identifier \in D
            /\ Given(f) = IF Has(x.identifier) THEN Shown(x.identifier) ELSE None
        BY <1>9, <3>1, <3>3
      <4> QED BY <1>6, <4>1
    <3> QED BY <3>2, <3>3
  <2> QED BY <1>1, <1>4, <1>5, <2>1 DEF Covers, Unrecorded
<1>11. ASSUME NEW id \in DOMAIN Expected PROVE \E f \in ToSet(s) : Recorded(f) /\ f.id = id
  <2>1. id \in D BY <1>6
  <2>2. PICK x \in ToSet(w) : x.identifier = id BY <1>7, <2>1
  <2>3. x.identifier \notin {Nonce, Payment} BY <2>1, <2>2
  <2>4. EnabledField(x) \in ToSet(e) BY <1>3
  <2>5. Recorded(EnabledField(x)) /\ EnabledField(x).id = id BY <1>9, <2>2, <2>3
  <2> QED BY <1>5, <2>4, <2>5
<1>12. ASSUME NEW k \in Shows, Needed(k) PROVE \E f \in ToSet(s) : Sets(f, k)
  <2>1. CASE k \in {"signer", "signature"} BY <1>5, <2>1, SignerFields
  <2>2. CASE k \in {"era", "nonce"} BY <1>5, <2>2, EraFields
  <2>3. CASE k = "version" BY <1>4, <1>5, <2>3
  <2>4. CASE k = "tip"
    <3>1. Has(Payment) BY <1>12, <2>4 DEF Needed, Paid
    <3>2. PICK x \in ToSet(tx.extensions) : x.identifier = Payment BY <3>1, HasOne
    <3>3. x \in ToSet(w) BY <1>2, <3>2, ClientAssumption
    <3>4. EnabledField(x) = TipField BY <3>2 DEF EnabledField, Nonce, Payment
    <3>5. TipField \in ToSet(e) BY <1>3, <3>3, <3>4
    <3> QED BY <1>5, <2>4, <3>5, TipFields
  <2> QED BY <2>1, <2>2, <2>3, <2>4 DEF Shows
<1>13. Ready(s, Shows) BY <1>10, <1>11, <1>12 DEF Ready
<1> QED BY <1>13 DEF s

LEMMA ReadyGeneral ==
  ASSUME Fits(meta, tx), tx.form = "45"
  PROVE  Ready(Of("layout", tx.extensions), Shows \ {"version"})
<1> DEFINE w == tx.extensions  e == Of("layout", w)
<1>1. w \in Seq(Ext) BY LayoutWritten
<1>2. /\ e \in Seq(FieldSet)
      /\ ToSet(e) = {Field("layout", x.type, x.identifier) : x \in ToSet(w)}
  BY <1>1, OfSet DEF What
<1>3. ToSet(Identifiers(w)) = {x.identifier : x \in ToSet(w)} BY <1>1, IdentifierSet
<1>4. Expected = [id \in ToSet(Identifiers(w)) |-> IF Has(id) THEN Shown(id) ELSE None]
  BY Zenon DEF Expected
<1>5. ASSUME NEW x \in ToSet(w), NEW f, f = Field("layout", x.type, x.identifier)
      PROVE  /\ f \in ToSet(e) /\ Readable(f) /\ Recorded(f) /\ f.id = x.identifier
             /\ f.id \in DOMAIN Expected /\ Expected[f.id] = Given(f)
             /\ x.identifier = Mortality => Sets(f, "era")
             /\ x.identifier = Nonce => Sets(f, "nonce")
             /\ x.identifier \in {Payment, AssetPayment} => Sets(f, "tip")
             /\ x.identifier = Verify /\ tx.signer # None =>
                  Sets(f, "signer") /\ Sets(f, "signature")
  <2>1. /\ Readable(f) /\ f.what = "layout" /\ f.id = x.identifier
        /\ Given(f) = IF Has(x.identifier) THEN Shown(x.identifier) ELSE None
        /\ x.identifier = Mortality => Sets(f, "era")
        /\ x.identifier = Nonce => Sets(f, "nonce")
        /\ x.identifier \in {Payment, AssetPayment} => Sets(f, "tip")
        /\ x.identifier = Verify /\ tx.signer # None => Sets(f, "signer") /\ Sets(f, "signature")
    BY <1>5, ExtensionField
  <2>2. f \in ToSet(e) BY <1>2, <1>5
  <2>3. Recorded(f) BY <2>1 DEF Recorded
  <2>4. x.identifier \in DOMAIN Expected BY <1>3, <1>4
  <2>5. Expected[x.identifier] = IF Has(x.identifier) THEN Shown(x.identifier) ELSE None
    BY <1>4, <2>4
  <2> QED BY <2>1, <2>2, <2>3, <2>4, <2>5
<1> HIDE DEF e
<1>6. Covers(e)
  <2>1. ASSUME NEW f \in ToSet(e)
        PROVE  Readable(f) /\ f.id \in DOMAIN Expected /\ Expected[f.id] = Given(f)
    <3>1. PICK x \in ToSet(w) : f = Field("layout", x.type, x.identifier) BY <1>2
    <3> QED BY <1>5, <3>1
  <2> QED BY <1>2, <2>1 DEF Covers
<1>7. ASSUME NEW id \in DOMAIN Expected PROVE \E f \in ToSet(e) : Recorded(f) /\ f.id = id
  <2>1. PICK x \in ToSet(w) : x.identifier = id BY <1>3, <1>4
  <2> DEFINE f == Field("layout", x.type, x.identifier)
  <2>2. f \in ToSet(e) /\ Recorded(f) /\ f.id = id BY <1>5, <2>1
  <2> QED BY <2>2
<1>8. ASSUME NEW k \in Shows \ {"version"}, Needed(k) PROVE \E f \in ToSet(e) : Sets(f, k)
  <2>0. ~Signed BY DEF Signed
  <2>1. \E id : /\ Has(id)
                /\ \/ id = Mortality /\ k = "era"
                   \/ id = Nonce /\ k = "nonce"
                   \/ id \in {Payment, AssetPayment} /\ k = "tip"
                   \/ id = Verify /\ tx.signer # None /\ k \in {"signer", "signature"}
    BY <1>8, <2>0 DEF Shows, Needed, Paid
  <2>2. PICK x \in ToSet(w) :
          \/ x.identifier = Mortality /\ k = "era"
          \/ x.identifier = Nonce /\ k = "nonce"
          \/ x.identifier \in {Payment, AssetPayment} /\ k = "tip"
          \/ x.identifier = Verify /\ tx.signer # None /\ k \in {"signer", "signature"}
    BY <2>1, HasOne
  <2> DEFINE f == Field("layout", x.type, x.identifier)
  <2> HIDE DEF f
  <2>3. f \in ToSet(e) /\ Sets(f, k) BY <1>5, <2>2 DEF f
  <2> QED BY <2>3
<1>9. Ready(e, Shows \ {"version"}) BY <1>6, <1>7, <1>8 DEF Ready
<1> QED BY <1>9 DEF e

LEMMA ShownNamed ==
  /\ Shown(Mortality) = tx.era /\ Shown(Nonce) = tx.nonce /\ Shown(Payment) = tx.tip
  /\ Shown(AssetPayment) = [tip |-> tx.tip, asset |-> "dot"]
  /\ Shown(Verify) = IF tx.signer = None THEN Disabled
                     ELSE [account |-> tx.signer, signature |-> tx.signature]
<1>1. Shown(Mortality) = tx.era
  BY DEF Shown, Mortality, Nonce, Payment, AssetPayment, Verify
<1>2. Shown(Nonce) = tx.nonce
  BY DEF Shown, Mortality, Nonce, Payment, AssetPayment, Verify
<1>3. Shown(Payment) = tx.tip
  BY DEF Shown, Mortality, Nonce, Payment, AssetPayment, Verify
<1>4. Shown(AssetPayment) = [tip |-> tx.tip, asset |-> "dot"]
  BY DEF Shown, Mortality, Nonce, Payment, AssetPayment, Verify
<1>5. Shown(Verify) = IF tx.signer = None THEN Disabled
                      ELSE [account |-> tx.signer, signature |-> tx.signature]
  BY DEF Shown, Mortality, Nonce, Payment, AssetPayment, Verify
<1> QED BY <1>1, <1>2, <1>3, <1>4, <1>5

(* The record after a field has been read.                                 *)
LEMMA ExposeShows ==
  ASSUME NEW f, f.what \in {"extra", "layout"}, Readable(f),
         NEW r, DOMAIN r = DOMAIN Blank, NEW q, q = Expose(r, f.id, Given(f))
  PROVE  /\ DOMAIN q = DOMAIN Blank
         /\ q.extensions = r.extensions /\ q.hash = r.hash
         /\ q.call = r.call /\ q.params = r.params
         /\ \A k \in {"era", "nonce", "tip"} : q[k] = IF Sets(f, k) THEN tx[k] ELSE r[k]
         /\ \A k \in {"signer", "signature", "version"} : q[k] = r[k]
<1>1. f.id \in Named => Given(f) = Shown(f.id)
  BY DEF Readable, Given, Due, Named
<1>2. Mortality # Nonce /\ Mortality # Payment /\ Mortality # AssetPayment
      /\ Nonce # Payment /\ Nonce # AssetPayment /\ Payment # AssetPayment
  BY DEF Mortality, Nonce, Payment, AssetPayment
<1>3. DOMAIN Blank = {"signer", "signature", "era", "nonce", "tip", "version", "extensions",
                      "hash", "call", "params"}
  BY DEF Blank
<1>4. CASE f.id = Mortality
  <2>1. q = [r EXCEPT !.era = tx.era]
    <3>1. Given(f) = tx.era BY <1>1, <1>4, ShownNamed DEF Named
    <3> QED BY <1>2, <1>4, <3>1 DEF Expose
  <2>2. /\ Sets(f, "era") /\ ~Sets(f, "nonce") /\ ~Sets(f, "tip") BY <1>2, <1>4 DEF Sets
  <2> QED BY <1>3, <2>1, <2>2
<1>5. CASE f.id = Nonce
  <2>1. q = [r EXCEPT !.nonce = tx.nonce]
    <3>1. Given(f) = tx.nonce BY <1>1, <1>5, ShownNamed DEF Named
    <3> QED BY <1>2, <1>5, <3>1 DEF Expose
  <2>2. /\ ~Sets(f, "era") /\ Sets(f, "nonce") /\ ~Sets(f, "tip") BY <1>2, <1>5 DEF Sets
  <2> QED BY <1>3, <2>1, <2>2
<1>6. CASE f.id \in {Payment, AssetPayment}
  <2>1. ExtractTip(f.id, Given(f)) = tx.tip
    <3>1. Given(f) = IF f.id = Payment THEN tx.tip ELSE [tip |-> tx.tip, asset |-> "dot"]
      BY <1>1, <1>6, ShownNamed DEF Named
    <3> QED BY <1>2, <1>6, <3>1 DEF ExtractTip
  <2>2. q = [r EXCEPT !.tip = tx.tip]
    BY <1>2, <1>6, <2>1 DEF Expose
  <2>3. /\ ~Sets(f, "era") /\ ~Sets(f, "nonce") /\ Sets(f, "tip") BY <1>2, <1>6 DEF Sets
  <2> QED BY <1>3, <2>2, <2>3
<1>7. CASE f.id \notin {Mortality, Nonce, Payment, AssetPayment}
  <2>1. q = r BY <1>7 DEF Expose
  <2>2. /\ ~Sets(f, "era") /\ ~Sets(f, "nonce") /\ ~Sets(f, "tip") BY <1>7 DEF Sets
  <2> QED BY <2>1, <2>2
<1> QED BY <1>4, <1>5, <1>6, <1>7


(* q is the record r once the field f is read.                             *)
Stored(f, r, q) ==
  /\ DOMAIN q = DOMAIN Blank
  /\ q.hash = r.hash /\ q.call = r.call /\ q.params = r.params
  /\ q.extensions =
       IF Recorded(f)
       THEN [i \in DOMAIN r.extensions \cup {f.id} |->
               IF i = f.id THEN Given(f) ELSE r.extensions[i]]
       ELSE r.extensions
  /\ \A k \in Shows : q[k] = IF Sets(f, k) THEN tx[k] ELSE r[k]

LEMMA StoreShows ==
  ASSUME Fits(meta, tx), NEW f \in FieldSet, Readable(f),
         NEW r, DOMAIN r = DOMAIN Blank, NEW q, q = Store(r, f, Given(f))
  PROVE  Stored(f, r, q)
<1> USE DEF Stored
<1>1. DOMAIN Blank = {"signer", "signature", "era", "nonce", "tip", "version", "extensions",
                      "hash", "call", "params"}
  BY DEF Blank
<1>2. f.what \in Shows \cup {"record", "extra", "layout"}
  BY DEF FieldSet, What, Readable, Shows
<1>3. CASE f.what \in Shows
  <2>1. q = [r EXCEPT ![f.what] = tx[f.what]]
    <3>1. Given(f) = tx[f.what] BY <1>3 DEF Given, Due, Readable, Shows
    <3> QED BY <1>3, <3>1 DEF Store, Shows
  <2>2. ~Recorded(f) BY <1>3 DEF Recorded, Shows
  <2>3. \A k \in Shows : Sets(f, k) <=> f.what = k BY <1>3 DEF Sets, Shows
  <2> QED BY <1>1, <1>3, <2>1, <2>2, <2>3 DEF Shows
<1>4. CASE f.what = "record"
  <2>1. q = Record(r, f.id, Given(f)) BY <1>4 DEF Store
  <2>2. Recorded(f) BY <1>4 DEF Recorded
  <2>3. \A k \in Shows : ~Sets(f, k) BY <1>4 DEF Sets, Shows
  <2> QED BY <1>1, <2>1, <2>2, <2>3 DEF Shows, Record
<1>5. CASE f.what = "extra"
  <2> DEFINE p == Expose(r, f.id, Given(f))
  <2>1. q = IF Recorded(f) THEN Record(p, f.id, Given(f)) ELSE p
    BY <1>5 DEF Store, Recorded
  <2>2. /\ DOMAIN p = DOMAIN Blank
        /\ p.extensions = r.extensions /\ p.hash = r.hash
        /\ p.call = r.call /\ p.params = r.params
        /\ \A k \in {"era", "nonce", "tip"} : p[k] = IF Sets(f, k) THEN tx[k] ELSE r[k]
        /\ \A k \in {"signer", "signature", "version"} : p[k] = r[k]
    BY <1>5, ExposeShows
  <2> HIDE DEF p
  <2>3. \A k \in {"signer", "signature", "version"} : ~Sets(f, k) BY <1>5 DEF Sets
  <2>4. \A k \in Shows : p[k] = IF Sets(f, k) THEN tx[k] ELSE r[k]
    BY <2>2, <2>3 DEF Shows
  <2>5. CASE Recorded(f)
    <3>1. q = Record(p, f.id, Given(f)) BY <2>1, <2>5
    <3>2. /\ DOMAIN q = DOMAIN p /\ q.hash = p.hash /\ q.call = p.call /\ q.params = p.params
          /\ q.extensions = [i \in DOMAIN p.extensions \cup {f.id} |->
                               IF i = f.id THEN Given(f) ELSE p.extensions[i]]
          /\ \A k \in Shows : q[k] = p[k]
      BY <1>1, <2>2, <3>1 DEF Record, Shows
    <3> QED BY <2>2, <2>4, <2>5, <3>2
  <2>6. CASE ~Recorded(f)
    <3>1. q = p BY <2>1, <2>6
    <3> QED BY <2>2, <2>4, <2>6, <3>1
  <2> QED BY <2>5, <2>6
<1>6. CASE f.what = "layout"
  <2> DEFINE n == Record(r, f.id, Given(f))  p == Expose(n, f.id, Given(f))
  <2>1. q = Authorize(p, f.id, Given(f)) BY <1>6 DEF Store, Keep
  <2>2. /\ DOMAIN n = DOMAIN r /\ n.hash = r.hash /\ n.call = r.call /\ n.params = r.params
        /\ n.extensions = [i \in DOMAIN r.extensions \cup {f.id} |->
                             IF i = f.id THEN Given(f) ELSE r.extensions[i]]
        /\ \A k \in Shows : n[k] = r[k]
    BY <1>1 DEF Record, Shows
  <2> HIDE DEF n
  <2>3. /\ DOMAIN p = DOMAIN Blank
        /\ p.extensions = n.extensions /\ p.hash = n.hash
        /\ p.call = n.call /\ p.params = n.params
        /\ \A k \in {"era", "nonce", "tip"} : p[k] = IF Sets(f, k) THEN tx[k] ELSE n[k]
        /\ \A k \in {"signer", "signature", "version"} : p[k] = n[k]
    BY <1>6, <2>2, ExposeShows
  <2> HIDE DEF p
  <2>4. Recorded(f) BY <1>6 DEF Recorded
  <2>5. ~Sets(f, "version") BY <1>6 DEF Sets
  <2>6. CASE f.id = Verify /\ tx.signer # None
    <3>1. Given(f) = [account |-> tx.signer, signature |-> tx.signature]
      BY <1>6, <2>6, ShownNamed DEF Given, Due, Readable, Named
    <3>2. Given(f) \notin {Disabled, Misread} BY <3>1 DEF Fits
    <3>3. q = [p EXCEPT !.signer = tx.signer, !.signature = tx.signature]
      BY <2>1, <2>6, <3>1, <3>2 DEF Authorize
    <3>4. Sets(f, "signer") /\ Sets(f, "signature") BY <1>6, <2>6 DEF Sets
    <3>5. /\ DOMAIN q = DOMAIN p /\ q.hash = p.hash /\ q.call = p.call /\ q.params = p.params
          /\ q.extensions = p.extensions /\ q.signer = tx.signer /\ q.signature = tx.signature
          /\ q.era = p.era /\ q.nonce = p.nonce /\ q.tip = p.tip /\ q.version = p.version
      BY <1>1, <2>3, <3>3
    <3>6. \A k \in Shows : q[k] = IF Sets(f, k) THEN tx[k] ELSE r[k]
      BY <2>2, <2>3, <2>5, <3>4, <3>5 DEF Shows
    <3> QED BY <2>2, <2>3, <2>4, <3>5, <3>6
  <2>7. CASE ~ (f.id = Verify /\ tx.signer # None)
    <3>1. f.id = Verify => Given(f) = Disabled
      BY <1>6, <2>7, ShownNamed DEF Given, Due, Readable, Named
    <3>2. q = p BY <2>1, <3>1 DEF Authorize
    <3>3. ~Sets(f, "signer") /\ ~Sets(f, "signature") BY <1>6, <2>7 DEF Sets
    <3>4. \A k \in Shows : q[k] = IF Sets(f, k) THEN tx[k] ELSE r[k]
      BY <2>2, <2>3, <2>5, <3>2, <3>3 DEF Shows
    <3> QED BY <2>2, <2>3, <2>4, <3>2, <3>4
  <2> QED BY <2>6, <2>7
<1> QED BY <1>2, <1>3, <1>4, <1>5, <1>6

(* Reading the first of the fields keeps what the record and the others    *)
(* complete.                                                               *)
LEMMA StoreCompletes ==
  ASSUME Fits(meta, tx), NEW s, s # <<>>, NEW r, Completes(s, r),
         NEW q, q = Store(r, Head(s), Given(Head(s)))
  PROVE  Completes(Tail(s), q) /\ q.hash = r.hash
<1> DEFINE f == Head(s)  t == Tail(s)
<1>1. /\ f \in FieldSet /\ t \in Seq(FieldSet) /\ f \in ToSet(s)
      /\ \A x : x \in ToSet(s) <=> x = f \/ x \in ToSet(t)
  <2>1. s \in Seq(FieldSet) BY DEF Completes, Covers
  <2>2. f \in FieldSet /\ t \in Seq(FieldSet) /\ <<f>> \in Seq(FieldSet) /\ s = <<f>> \o t
    BY <2>1
  <2> HIDE DEF f, t
  <2>3. ASSUME NEW x PROVE x \in ToSet(<<f>> \o t) <=> x \in ToSet(<<f>>) \/ x \in ToSet(t)
    BY <2>2, ConcatRange
  <2> QED BY <2>2, <2>3, SetOne
<1> HIDE DEF t
<1>2. Stored(f, r, q)
  <2>1. Readable(f) /\ DOMAIN r = DOMAIN Blank BY <1>1 DEF Completes, Covers
  <2>2. q = Store(r, f, Given(f)) OBVIOUS
  <2> HIDE DEF f
  <2> QED BY <1>1, <2>1, <2>2, StoreShows
<1> HIDE DEF f
<1>3. Covers(t) BY <1>1 DEF Completes, Covers
<1>4. /\ r.extensions = [id \in DOMAIN r.extensions |-> Expected[id]]
      /\ DOMAIN r.extensions \subseteq DOMAIN Expected
      /\ Recorded(f) => f.id \in DOMAIN Expected /\ Expected[f.id] = Given(f)
      /\ \A id \in DOMAIN Expected :
           id \in DOMAIN r.extensions \/ \E x \in ToSet(s) : Recorded(x) /\ x.id = id
  BY <1>1 DEF Completes, Covers
<1>5. /\ q.extensions = [id \in DOMAIN q.extensions |-> Expected[id]]
      /\ DOMAIN q.extensions = DOMAIN r.extensions \cup (IF Recorded(f) THEN {f.id} ELSE {})
  <2> DEFINE o == r.extensions
  <2>1. \A id \in DOMAIN o : o[id] = Expected[id] BY <1>4
  <2>2. CASE Recorded(f)
    <3>1. q.extensions = [i \in DOMAIN o \cup {f.id} |-> IF i = f.id THEN Given(f) ELSE o[i]]
      BY <1>2, <2>2 DEF Stored
    <3>2. Expected[f.id] = Given(f) BY <1>4, <2>2
    <3> HIDE DEF o
    <3>3. DOMAIN q.extensions = DOMAIN o \cup {f.id} BY <3>1
    <3>4. q.extensions = [i \in DOMAIN o \cup {f.id} |-> Expected[i]] BY <2>1, <3>1, <3>2
    <3> QED BY <2>2, <3>3, <3>4 DEF o
  <2>3. CASE ~Recorded(f) BY <1>2, <1>4, <2>3 DEF Stored
  <2> QED BY <2>2, <2>3
<1>6. DOMAIN q.extensions \subseteq DOMAIN Expected BY <1>4, <1>5
<1>7. \A id \in DOMAIN Expected :
        id \in DOMAIN q.extensions \/ \E x \in ToSet(t) : Recorded(x) /\ x.id = id
  BY <1>1, <1>4, <1>5
<1>8. ASSUME NEW k \in Shows, Needed(k)
      PROVE  q[k] = tx[k] \/ \E x \in ToSet(t) : Sets(x, k)
  <2>1. r[k] = tx[k] \/ \E x \in ToSet(s) : Sets(x, k) BY <1>8 DEF Completes
  <2> QED BY <1>1, <1>2, <2>1 DEF Stored
<1>9. Completes(t, q) BY <1>2, <1>3, <1>5, <1>6, <1>7, <1>8 DEF Completes, Stored
<1> QED BY <1>2, <1>9 DEF t, Stored


-----------------------------------------------------------------------------
(* The layout of a general extrinsic *)

LEMMA Unlisted ==
  ASSUME Unversioned(meta.extrinsic), meta.extrinsic # None, NEW n
  PROVE  Layout(n) = IF n = 0 THEN [ok |-> TRUE, extensions |-> meta.extrinsic.signed]
                     ELSE NoLayout
BY DEF Layout, Nil, ExtensionsForVersion, Unversioned

(* Metadata of version 16: the layout found is that of the version.        *)
Found(x, l) ==
  \/ /\ l = NoLayout
     /\ \A i \in DOMAIN x.layouts :
          x.layouts[i].version = tx.version => ~Usable(x, x.layouts[i])
  \/ \E i \in DOMAIN x.layouts :
       /\ x.layouts[i].version = tx.version /\ Usable(x, x.layouts[i])
       /\ l = [ok |-> TRUE,
               extensions |-> [k \in DOMAIN x.layouts[i].indexes |->
                                 x.catalog[x.layouts[i].indexes[k] + 1]]]

LEMMA LayoutFound ==
  ASSUME NEW x, ~Unversioned(x), LayoutsOK(x, tx), NEW l, l = ExtensionsForVersion(x, tx.version)
  PROVE  Found(x, l)
<1> USE DEF Found
<1> DEFINE hits == {i \in DOMAIN x.layouts : x.layouts[i].version = tx.version}
           c == CHOOSE i \in hits : \A j \in hits : i <= j
           first == x.layouts[c]
<1>1. l = IF tx.version \notin 0..255 \/ hits = {} \/ ~Usable(x, first) THEN NoLayout
          ELSE [ok |-> TRUE,
                extensions |-> [k \in DOMAIN first.indexes |->
                                  x.catalog[first.indexes[k] + 1]]]
  BY Zenon DEF ExtensionsForVersion, Unversioned
<1>2. tx.version \in 0..255 BY DEF LayoutsOK
<1>3. \A i, j \in hits : i = j BY DEF LayoutsOK
<1>4. CASE hits = {}
  <2>1. l = NoLayout BY <1>1, <1>4
  <2> QED BY <1>4, <2>1
<1>5. ASSUME NEW h \in hits PROVE c = h
  <2>1. DOMAIN x.layouts \subseteq Nat BY DEF LayoutsOK
  <2>2. \A j \in hits : h <= j BY <1>3, <2>1
  <2> HIDE DEF hits
  <2>3. c \in hits BY <2>2
  <2> HIDE DEF c
  <2> QED BY <1>3, <2>3
<1>6. CASE hits # {}
  <2>1. PICK h \in hits : TRUE BY <1>6
  <2>2. c = h /\ h \in DOMAIN x.layouts /\ x.layouts[h].version = tx.version BY <1>5, <2>1
  <2>3. \A j \in DOMAIN x.layouts : x.layouts[j].version = tx.version => j = h
    BY <1>3, <2>1
  <2> HIDE DEF hits, c
  <2>4. CASE Usable(x, x.layouts[h])
    <3>1. l = [ok |-> TRUE,
               extensions |-> [k \in DOMAIN x.layouts[h].indexes |->
                                 x.catalog[x.layouts[h].indexes[k] + 1]]]
      BY <1>1, <1>2, <1>6, <2>2, <2>4
    <3> QED BY <2>2, <2>4, <3>1
  <2>5. CASE ~Usable(x, x.layouts[h])
    <3>1. l = NoLayout BY <1>1, <1>2, <1>6, <2>2, <2>5
    <3> QED BY <2>3, <2>5, <3>1
  <2> QED BY <2>4, <2>5
<1> QED BY <1>4, <1>6

LEMMA LayoutAgrees ==
  ASSUME Fits(meta, tx), tx.form = "45"
  PROVE  /\ Layout(tx.version) = NoLayout /\ ~Describes(tx.version)
         \/ Layout(tx.version) = [ok |-> TRUE, extensions |-> tx.extensions]
<1> DEFINE x == meta.extrinsic
<1>0. tx.extensions \in Seq(Ext) BY LayoutWritten
<1>1. CASE x = None BY <1>1 DEF Layout, Nil, Describes
<1>2. CASE x # None /\ Unversioned(x)
  <2>1. LayoutsOK(x, tx) /\ meta.version < 16 BY <1>2 DEF Fits
  <2>2. Layout(tx.version) = IF tx.version = 0 THEN [ok |-> TRUE, extensions |-> x.signed]
                             ELSE NoLayout
    BY <1>2, Unlisted
  <2>3. tx.version = 0 => x.signed = tx.extensions BY <1>2, <2>1 DEF LayoutsOK
  <2>4. tx.version # 0 => ~Describes(tx.version) BY <2>1 DEF Describes
  <2> QED BY <2>2, <2>3, <2>4
<1>3. CASE x # None /\ ~Unversioned(x)
  <2>1. LayoutsOK(x, tx) /\ ~ (meta.version < 16) BY <1>3 DEF Fits
  <2>2. Layout(tx.version) = ExtensionsForVersion(x, tx.version) BY <1>3 DEF Layout, Nil
  <2>3. ASSUME NEW i \in DOMAIN x.layouts, x.layouts[i].version = tx.version
        PROVE  LET at == x.layouts[i].indexes IN
               /\ at \in Seq(Nat) /\ Len(at) = Len(tx.extensions)
               /\ \A k \in DOMAIN at :
                    /\ at[k] < Len(x.catalog)
                    /\ x.catalog[at[k] + 1].type # Unresolved =>
                         x.catalog[at[k] + 1] = tx.extensions[k]
    <3>1. x.layouts \in Seq([version : Nat, indexes : Seq(Nat)]) BY <2>1 DEF LayoutsOK
    <3>2. x.layouts[i] \in [version : Nat, indexes : Seq(Nat)] BY <3>1, InRange
    <3> QED BY <2>1, <2>3, <3>2 DEF LayoutsOK
  <2>4. CASE /\ Layout(tx.version) = NoLayout
             /\ \A i \in DOMAIN x.layouts :
                  x.layouts[i].version = tx.version => ~Usable(x, x.layouts[i])
    <3>1. ASSUME Describes(tx.version) PROVE FALSE
      <4>1. PICK i \in DOMAIN x.layouts :
              /\ x.layouts[i].version = tx.version
              /\ \A k \in ToSet(x.layouts[i].indexes) : x.catalog[k + 1].type # Unresolved
        BY <2>1, <3>1 DEF Describes
      <4> DEFINE at == x.layouts[i].indexes
      <4>2. at \in Seq(Nat) /\ \A k \in DOMAIN at : at[k] < Len(x.catalog) BY <2>3, <4>1
      <4>3. Len(x.catalog) \in Nat BY <2>1 DEF LayoutsOK
      <4>4. ASSUME NEW k \in DOMAIN at
            PROVE  at[k] \in 0..(Len(x.catalog) - 1) /\ x.catalog[at[k] + 1].type # Unresolved
        <5>1. at[k] \in ToSet(at) /\ at[k] \in Nat
          <6> HIDE DEF at
          <6> QED BY <4>2, InRange
        <5>2. x.catalog[at[k] + 1].type # Unresolved BY <4>1, <5>1
        <5> HIDE DEF at
        <5> QED BY <4>2, <4>3, <5>1, <5>2
      <4>5. Usable(x, x.layouts[i]) BY <4>4 DEF Usable
      <4> QED BY <2>4, <4>1, <4>5
    <3> QED BY <2>4, <3>1
  <2>5. ASSUME NEW i \in DOMAIN x.layouts, x.layouts[i].version = tx.version,
               Usable(x, x.layouts[i]),
               Layout(tx.version) =
                 [ok |-> TRUE,
                  extensions |-> [k \in DOMAIN x.layouts[i].indexes |->
                                    x.catalog[x.layouts[i].indexes[k] + 1]]]
        PROVE  Layout(tx.version) = [ok |-> TRUE, extensions |-> tx.extensions]
    <3> DEFINE at == x.layouts[i].indexes  e == [k \in DOMAIN at |-> x.catalog[at[k] + 1]]
    <3>1. /\ at \in Seq(Nat) /\ Len(at) = Len(tx.extensions)
          /\ \A k \in DOMAIN at :
               x.catalog[at[k] + 1].type # Unresolved =>
                 x.catalog[at[k] + 1] = tx.extensions[k]
      BY <2>3, <2>5
    <3>2. \A k \in DOMAIN at : x.catalog[at[k] + 1].type # Unresolved
      BY <2>5 DEF Usable
    <3>3. DOMAIN at = DOMAIN tx.extensions
      <4> HIDE DEF at
      <4> QED BY <1>0, <3>1
    <3>4. e = [k \in DOMAIN tx.extensions |-> tx.extensions[k]]
      <4> HIDE DEF at
      <4> QED BY <3>1, <3>2, <3>3
    <3>5. tx.extensions = [k \in DOMAIN tx.extensions |-> tx.extensions[k]] BY <1>0
    <3>6. e = tx.extensions
      <4> HIDE DEF e
      <4> QED BY <3>4, <3>5
    <3> QED BY <2>5, <3>6
  <2> DEFINE l == Layout(tx.version)
  <2>6. Found(x, l)
    <3> HIDE DEF x
    <3> QED BY <1>3, <2>1, <2>2, LayoutFound
  <2> QED BY <2>4, <2>5, <2>6 DEF Found
<1> QED BY <1>1, <1>2, <1>3


-----------------------------------------------------------------------------
(* The extrinsic's bytes *)

LEMMA VersionType == Token("U8", tx.version) \in Seq(Items)
<1> DEFINE f == Field("version", "U8", "")  v == <<f>>
<1>1. f \in FieldSet /\ Stream(<<f>>) = Token("U8", tx.version) BY VersionWritten
<1> HIDE DEF f
<1>2. v \in Seq(FieldSet) /\ Stream(v) = Token("U8", tx.version) BY <1>1
<1> HIDE DEF v
<1> QED BY <1>2, StreamType

(* The parts of a signed extrinsic of version 5.                           *)
LEMMA PreambleV5Type ==
  ASSUME Fits(meta, tx), tx.form = "85"
  PROVE  /\ Sign \in Seq(Items) /\ Token("U8", tx.version) \in Seq(Items)
         /\ Common \in Seq(Items) /\ WriteExtensions(Enabled(tx.extensions)) \in Seq(Items)
         /\ WrittenPreamble = Sign \o Token("U8", tx.version) \o Common
                                \o WriteExtensions(Enabled(tx.extensions))
<1> DEFINE a == Sign  b == Token("U8", tx.version)  c == Common
           d == WriteExtensions(Enabled(tx.extensions))
<1>1. a \in Seq(Items) /\ c \in Seq(Items) BY SignWritten, CommonWritten, StreamType
<1>2. b \in Seq(Items) BY VersionType
<1>3. d \in Seq(Items)
  <2>1. /\ tx.extensions \in Seq(Ext) /\ Enabled(tx.extensions) \in Seq(Ext)
        /\ \A x \in ToSet(Enabled(tx.extensions)) : Plain(x.type)
    BY LayoutWritten, EnabledSet
  <2>2. d = Stream(Of("layout", Enabled(tx.extensions)))
    BY <2>1, ExtensionsWritten
  <2>3. Of("layout", Enabled(tx.extensions)) \in Seq(FieldSet) BY <2>1, OfSet DEF What
  <2> HIDE DEF d
  <2> QED BY <2>2, <2>3, StreamType
<1>4. WrittenPreamble = a \o b \o c \o d BY Zenon DEF WrittenPreamble
<1> QED BY <1>1, <1>2, <1>3, <1>4

LEMMA PreambleType ==
  ASSUME Fits(meta, tx)
  PROVE  /\ WrittenPreamble \in Seq(Items)
         /\ tx.form = "45" =>
              WrittenPreamble = Token("U8", tx.version) \o Stream(Of("layout", tx.extensions))
<1>0. Items \subseteq Items /\ meta.version \in Nat BY DEF Fits
<1>1. CASE tx.form \in {"04", "05"}
  <2>1. WrittenPreamble = <<>> BY <1>1, Zenon DEF WrittenPreamble
  <2> QED BY <1>1, <2>1
<1>2. CASE tx.form = "84"
  <2>1. WrittenPreamble = Stream(Fields("84")) /\ Fields("84") \in Seq(FieldSet)
    BY <1>0, <1>2, LegacyPreamble, SignedPreamble
  <2> QED BY <1>2, <2>1, StreamType
<1>4. CASE tx.form = "85"
  <2> DEFINE a == Sign  b == Token("U8", tx.version)  c == Common
             d == WriteExtensions(Enabled(tx.extensions))
  <2>1. /\ a \in Seq(Items) /\ b \in Seq(Items) /\ c \in Seq(Items) /\ d \in Seq(Items)
        /\ WrittenPreamble = a \o b \o c \o d
    BY <1>4, PreambleV5Type
  <2> HIDE DEF a, b, c, d
  <2>2. a \o b \o c \o d \in Seq(Items) BY <2>1, ConcatType
  <2> QED BY <1>4, <2>1, <2>2
<1>5. CASE tx.form = "45"
  <2> DEFINE b == Token("U8", tx.version)  d == Stream(Of("layout", tx.extensions))
  <2>1. b \in Seq(Items) BY VersionType
  <2>2. d \in Seq(Items) BY LayoutWritten, StreamType
  <2>3. WrittenPreamble = b \o WriteExtensions(tx.extensions)
    BY <1>5, Zenon DEF WrittenPreamble
  <2>4. WriteExtensions(tx.extensions) = d BY LayoutWritten
  <2> HIDE DEF b, d
  <2>5. b \o d \in Seq(Items) BY <2>1, <2>2, ConcatType
  <2> QED BY <2>3, <2>4, <2>5 DEF b, d
<1>6. CASE tx.form \notin Forms
  <2>1. WrittenPreamble = <<>> BY <1>6, Zenon DEF WrittenPreamble, Forms
  <2> QED BY <1>6, <2>1 DEF Forms
<1> QED BY <1>1, <1>2, <1>4, <1>5, <1>6 DEF Forms

LEMMA RestType ==
  ASSUME Fits(meta, tx)
  PROVE  /\ Args \in Seq(Tokens) /\ Len(Args) = Len(tx.args) /\ DOMAIN Args = DOMAIN tx.args
         /\ Rest \in Seq(Tokens) /\ Token("call", tx.call) \in Seq(Tokens)
         /\ Rest # <<>> /\ Head(Rest) = [kind |-> "call", val |-> tx.call] /\ Tail(Rest) = Args
<1>1. tx.args \in Seq(STRING) BY DEF Fits
<1>2. Args \in Seq(Tokens) /\ Len(Args) = Len(tx.args) /\ DOMAIN Args = DOMAIN tx.args
  <2>1. DOMAIN tx.args = 1..Len(tx.args) /\ Len(tx.args) \in Nat BY <1>1
  <2>2. DOMAIN Args = DOMAIN tx.args BY DEF Args
  <2>3. ASSUME NEW i \in DOMAIN Args PROVE Args[i] \in Tokens
    BY <2>3 DEF ToSet, Tokens
  <2>4. Args = [i \in 1..Len(tx.args) |-> Args[i]] BY <2>1 DEF Args
  <2> DEFINE a == Args
  <2> HIDE DEF a
  <2>5. a = [i \in 1..Len(tx.args) |-> a[i]] /\ \A i \in 1..Len(tx.args) : a[i] \in Tokens
    BY <2>1, <2>2, <2>3, <2>4 DEF a
  <2>6. a \in Seq(Tokens) /\ Len(a) = Len(tx.args) BY <2>1, <2>5
  <2> QED BY <2>2, <2>6 DEF a
<1> DEFINE x == [kind |-> "call", val |-> tx.call]
<1>3. x \in Tokens
  <2>1. ToSet(Token("call", tx.call)) = {x} BY SetOne DEF Token
  <2> QED BY <2>1 DEF Tokens
<1>4. Token("call", tx.call) = <<x>> BY DEF Token
<1> HIDE DEF x
<1>5. <<x>> \in Seq(Tokens) BY <1>3
<1>6. Rest = <<x>> \o Args BY <1>4 DEF Rest
<1> DEFINE a == Args
<1> HIDE DEF a
<1>7. <<x>> \o a # <<>> /\ Head(<<x>> \o a) = x /\ Tail(<<x>> \o a) = a /\ <<x>> \o a \in Seq(Tokens)
  BY <1>2, <1>3, ConcatHead DEF a
<1> QED BY <1>2, <1>4, <1>5, <1>6, <1>7 DEF x, a

(* The length, the version byte, the preamble, the call and its arguments. *)
LEMMA BodyParts ==
  ASSUME Fits(meta, tx)
  PROVE  LET v == [kind |-> "version", val |-> tx.form]
             h == [kind |-> "length", val |-> Bytes(Body)]
         IN /\ Body \in Seq(Tokens \cup {v, h}) /\ WrittenPreamble \o Rest \in Seq(Tokens)
            /\ Body # <<>> /\ Head(Body) = v /\ Body[1] = v /\ Tail(Body) = WrittenPreamble \o Rest
            /\ Head(Prefixed(Body)) = h /\ Prefixed(Body)[1] = h /\ Tail(Prefixed(Body)) = Body
            /\ Prefixed(Body) = <<h>> \o Body /\ Prefixed(Body) # Body
<1> DEFINE v == [kind |-> "version", val |-> tx.form]
           h == [kind |-> "length", val |-> Bytes(Body)]
           S == Tokens \cup {v, h}
           p == WrittenPreamble  c == Token("call", tx.call)  a == Args
<1>1. p \in Seq(Tokens) /\ c \in Seq(Tokens) /\ a \in Seq(Tokens)
  <2>1. p \in Seq(Items) BY PreambleType
  <2>2. Items \subseteq Tokens BY DEF Tokens
  <2> HIDE DEF p
  <2>3. p \in Seq(Tokens) BY <2>1, <2>2
  <2> QED BY <2>3, RestType
<1>2. Body = <<v>> \o p \o c \o a BY DEF Body, Token, Args
<1>3. Prefixed(Body) = <<h>> \o Body BY DEF Prefixed, Token
<1>4. Rest = c \o a BY DEF Rest
<1> HIDE DEF v, h, p, c, a
<1>5. p \o (c \o a) \in Seq(Tokens) /\ c \o a \in Seq(Tokens) BY <1>1, ConcatType
<1>6. <<v>> \o p \o c \o a = <<v>> \o (p \o (c \o a))
  <2>1. /\ p \in Seq(S) /\ c \in Seq(S) /\ a \in Seq(S) /\ <<v>> \in Seq(S) BY <1>1
  <2> DEFINE w == <<v>>
  <2> HIDE DEF w, S
  <2>2. w \o p \o c \o a = w \o (p \o (c \o a)) BY <2>1 DEF w
  <2> QED BY <2>2 DEF w
<1> DEFINE b == p \o (c \o a)
<1>7. b \in Seq(S) /\ b \in Seq(Tokens) BY <1>5
<1> HIDE DEF b, S
<1>8. v \in S /\ h \in S BY DEF S
<1>9. /\ <<v>> \o b # <<>> /\ Head(<<v>> \o b) = v /\ Tail(<<v>> \o b) = b /\ <<v>> \o b \in Seq(S)
  BY <1>7, <1>8, ConcatHead
<1>10. Body = <<v>> \o b BY <1>2, <1>6 DEF b
<1>11. /\ <<h>> \o Body # <<>> /\ Head(<<h>> \o Body) = h /\ Tail(<<h>> \o Body) = Body
       /\ <<h>> \o Body \in Seq(S)
  <2> DEFINE y == Body
  <2>1. y \in Seq(S) BY <1>9, <1>10
  <2> HIDE DEF y
  <2>2. /\ <<h>> \o y # <<>> /\ Head(<<h>> \o y) = h /\ Tail(<<h>> \o y) = y
        /\ <<h>> \o y \in Seq(S)
    BY <1>8, <2>1, ConcatHead
  <2> QED BY <2>2 DEF y
<1>12. Prefixed(Body) # Body /\ Body[1] = v /\ Prefixed(Body)[1] = h
  <2> DEFINE y == Body  z == Prefixed(Body)
  <2>1. /\ y \in Seq(S) /\ z \in Seq(S) /\ y # <<>> /\ z # <<>> /\ Tail(z) = y
        /\ Head(y) = v /\ Head(z) = h
    BY <1>3, <1>9, <1>10, <1>11
  <2> HIDE DEF y, z
  <2>2. Len(z) = Len(y) + 1 /\ Len(y) \in Nat BY <2>1
  <2>3. z # y BY <2>2
  <2>4. y[1] = v /\ z[1] = h BY <2>1
  <2> QED BY <2>3, <2>4 DEF y, z
<1>13. WrittenPreamble \o Rest = b BY <1>4 DEF b, p
<1>14. Body \in Seq(S) BY <1>9, <1>10
<1>15. Head(Body) = v /\ Tail(Body) = b /\ Body # <<>> BY <1>9, <1>10
<1>16. Head(Prefixed(Body)) = h /\ Tail(Prefixed(Body)) = Body BY <1>3, <1>11
<1> QED BY <1>3, <1>7, <1>12, <1>13, <1>14, <1>15, <1>16, Zenon DEF v, h, S


-----------------------------------------------------------------------------
(* What only the client and the extrinsic decide does not change *)

LEMMA SameClient ==
  ASSUME UNCHANGED <<meta, tx>>
  PROVE  /\ Nil' <=> Nil
         /\ \A id : (Listed(id)' <=> Listed(id))
         /\ \A m, t : Kind(m, t)' = Kind(m, t)
         /\ \A t : SignerType(t)' = SignerType(t)
         /\ \A n : Layout(n)' = Layout(n)
         /\ \A n : (Describes(n)' <=> Describes(n))
         /\ \A v : (Dangling(v)' <=> Dangling(v))
         /\ \A id : Shown(id)' = Shown(id)
         /\ \A id : (Has(id)' <=> Has(id))
         /\ Legacy' <=> Legacy
         /\ Signed' <=> Signed
<1>0. meta' = meta /\ tx' = tx OBVIOUS
<1>1. Nil' <=> Nil BY <1>0 DEF Nil
<1>2. \A id : (Listed(id)' <=> Listed(id)) BY <1>0, <1>1 DEF Listed
<1>3. \A m, t : Kind(m, t)' = Kind(m, t) BY <1>0 DEF Kind
<1>4. \A t : SignerType(t)' = SignerType(t) BY <1>0 DEF SignerType
<1>5. \A n : Layout(n)' = Layout(n) BY <1>0, <1>1 DEF Layout
<1>6. \A n : (Describes(n)' <=> Describes(n)) BY <1>0, <1>1 DEF Describes
<1>7. \A v : (Dangling(v)' <=> Dangling(v)) BY <1>0, <1>1 DEF Dangling
<1>8. \A id : Shown(id)' = Shown(id) BY <1>0 DEF Shown
<1>9. \A id : (Has(id)' <=> Has(id)) BY <1>0 DEF Has
<1>10. Legacy' <=> Legacy BY <1>0 DEF Legacy
<1>11. Signed' <=> Signed BY <1>0 DEF Signed
<1> QED BY ONLY <1>1, <1>2, <1>3, <1>4, <1>5, <1>6, <1>7, <1>8, <1>9, <1>10, <1>11, Zenon

LEMMA SameLists ==
  ASSUME UNCHANGED <<meta, tx>>
  PROVE  /\ Additional' = Additional
         /\ \A s : Enabled(s)' = Enabled(s)
         /\ \A s : WriteExtensions(s)' = WriteExtensions(s)
<1>0. meta' = meta /\ tx' = tx OBVIOUS
<1>1. Additional' = Additional
  <2> DEFINE part(i) == IF Listed(meta.signedExtensions[i].name)
                        THEN Of("record", meta.signedExtensions[i].additional) ELSE <<>>
  <2>1. \A i : part(i)' = part(i) BY <1>0, SameClient DEF Of, Field
  <2>2. Additional = FlattenSeq([i \in DOMAIN meta.signedExtensions |-> part(i)])
    BY DEF Additional
  <2>3. Additional' = FlattenSeq([i \in DOMAIN meta'.signedExtensions |-> part(i)'])
    BY DEF Additional
  <2> HIDE DEF part
  <2> QED BY <1>0, <2>1, <2>2, <2>3, Zenon
<1>2. \A s : Enabled(s)' = Enabled(s) BY <1>0 DEF Enabled
<1>3. \A s : WriteExtensions(s)' = WriteExtensions(s) BY SameClient DEF WriteExtensions
<1> QED BY <1>1, <1>2, <1>3

LEMMA SameBody ==
  ASSUME UNCHANGED <<meta, tx>>
  PROVE  Body' = Body /\ Args' = Args /\ Rest' = Rest
<1>1. Args' = Args BY SameClient DEF Args
<1>2. Rest' = Rest BY <1>1 DEF Rest
<1>3. Sign' = Sign /\ Common' = Common BY SameClient DEF Sign, Common
<1>4. WrittenPreamble' = WrittenPreamble
  BY <1>3, SameClient, SameLists DEF WrittenPreamble
<1>5. Body' = Body BY <1>4, SameClient DEF Body
<1> QED BY <1>1, <1>2, <1>5

LEMMA SameExpected ==
  ASSUME UNCHANGED <<meta, tx>>
  PROVE  Expected' = Expected
<1>0. meta' = meta /\ tx' = tx OBVIOUS
<1>1. CASE tx.form = "45"
  BY <1>0, <1>1, SameClient, Zenon DEF Expected
<1>2. CASE tx.form = "84" /\ Legacy
  BY <1>0, <1>2, SameClient, SameLists, Zenon DEF Expected
<1>3. CASE tx.form = "84" /\ ~Legacy
  <2> DEFINE ids == {j \in ToSet(Identifiers(tx.extensions)) \ {Mortality, Nonce, Payment} :
                       Has(j) /\ Shown(j) # None}
  <2>1. \A j : (Has(j)' /\ Shown(j)' # None <=> Has(j) /\ Shown(j) # None)
    BY SameClient
  <2>2. Identifiers(tx.extensions)' = Identifiers(tx.extensions) BY <1>0 DEF Identifiers
  <2>3. ids' = ids BY <2>1, <2>2
  <2>4. Expected = [id \in ids |-> Shown(id)] BY <1>3, Zenon DEF Expected
  <2>5. Expected' = [id \in ids' |-> Shown(id)']
    BY <1>0, <1>3, SameClient, Zenon DEF Expected
  <2>6. \A id : Shown(id)' = Shown(id) BY SameClient
  <2> HIDE DEF ids
  <2> QED BY <2>3, <2>4, <2>5, <2>6
<1>4. CASE tx.form = "85"
  BY <1>0, <1>4, SameClient, SameLists, Zenon DEF Expected
<1>5. CASE tx.form \notin {"45", "84", "85"}
  BY <1>0, <1>5, SameClient, Zenon DEF Expected
<1> QED BY <1>1, <1>2, <1>3, <1>4, <1>5

LEMMA SameFields ==
  ASSUME UNCHANGED <<meta, tx>>
  PROVE  /\ \A f : Due(f)' = Due(f)
         /\ \A f : Given(f)' = Given(f)
         /\ \A f : (Recorded(f)' <=> Recorded(f))
         /\ \A f, k : (Sets(f, k)' <=> Sets(f, k))
         /\ \A k : (Needed(k)' <=> Needed(k))
         /\ \A f : Pending(f)' = Pending(f)
<1>0. meta' = meta /\ tx' = tx OBVIOUS
<1>1. \A f : Due(f)' = Due(f) BY <1>0, SameClient DEF Due
<1>2. \A f : Given(f)' = Given(f) BY <1>1 DEF Given
<1>3. \A f : (Recorded(f)' <=> Recorded(f)) BY <1>2 DEF Recorded
<1>4. \A f, k : (Sets(f, k)' <=> Sets(f, k)) BY <1>0 DEF Sets
<1>5. \A k : (Needed(k)' <=> Needed(k))
  <2> DEFINE A == Has(Verify)  B == Has(Mortality)  C == Has(Nonce)  D == Paid
  <2>1. /\ A' <=> A
        /\ B' <=> B
        /\ C' <=> C
        /\ Signed' <=> Signed
        /\ Legacy' <=> Legacy
    BY SameClient
  <2>2. D' <=> D BY <1>0, SameClient DEF Paid
  <2> HIDE DEF A, B, C, D
  <2> QED BY <1>0, <2>1, <2>2, Zenon DEF Needed, A, B, C, D
<1>6. \A f : Pending(f)' = Pending(f) BY <1>1, SameClient DEF Pending, Item
<1> QED BY ONLY <1>1, <1>2, <1>3, <1>4, <1>5, <1>6, Zenon

LEMMA SameReading ==
  ASSUME UNCHANGED <<meta, tx>>
  PROVE  /\ Stream(todo)' = Stream(todo')
         /\ Completes(todo, g)' <=> Completes(todo', g')
         /\ Completes(<<>>, g)' <=> Completes(<<>>, g')
         /\ Stream(Of("layout", tx.extensions))' = Stream(Of("layout", tx.extensions))
<1>1. Stream(todo)' = Stream(todo') BY SameFields DEF Stream, Pieces
<1>2. Completes(todo, g)' <=> Completes(todo', g')
  BY SameFields, SameExpected DEF Completes, Covers
<1>3. Completes(<<>>, g)' <=> Completes(<<>>, g')
  BY SameFields, SameExpected DEF Completes, Covers
<1>4. Stream(Of("layout", tx.extensions))' = Stream(Of("layout", tx.extensions))
  BY SameFields DEF Stream, Pieces
<1> QED BY <1>1, <1>2, <1>3, <1>4

-----------------------------------------------------------------------------
(* The number of bytes *)

(* Every token has a number of bytes.                                      *)
Sized == \A tok : Width(tok) \in Nat

(* The number of bytes before each token and at the end.                   *)
Sums(s, f) ==
  /\ DOMAIN f = 0..Len(s) /\ f[0] = 0
  /\ \A i \in 1..Len(s) : f[i] = f[i - 1] + Width(s[i])

LEMMA SumsExist ==
  ASSUME Sized, NEW s, Len(s) \in Nat
  PROVE  \E f \in [0..Len(s) -> Nat] : Sums(s, f)
<1> DEFINE Upto(n, f) == f[0] = 0 /\ \A i \in 1..n : f[i] = f[i - 1] + Width(s[i])
           Good(n) == \E f \in [0..n -> Nat] : Upto(n, f)
           T == {n \in Nat : Good(n)}
<1>1. Good(0)
  <2> DEFINE h == [i \in 0..0 |-> 0]
  <2>1. h \in [0..0 -> Nat] /\ h[0] = 0 OBVIOUS
  <2>2. \A i \in 1..0 : h[i] = h[i - 1] + Width(s[i]) OBVIOUS
  <2> HIDE DEF h
  <2> QED BY <2>1, <2>2
<1>2. ASSUME NEW n \in Nat, Good(n) PROVE Good(n + 1)
  <2>1. PICK f \in [0..n -> Nat] : Upto(n, f) BY <1>2
  <2> DEFINE h == [i \in 0..(n + 1) |-> IF i = n + 1 THEN f[n] + Width(s[n + 1]) ELSE f[i]]
  <2>2. Width(s[n + 1]) \in Nat /\ f[n] \in Nat BY DEF Sized
  <2>3. h \in [0..(n + 1) -> Nat] BY <2>2
  <2>4. h[0] = 0 BY <2>1
  <2>5. ASSUME NEW i \in 1..(n + 1) PROVE h[i] = h[i - 1] + Width(s[i])
    <3>1. i - 1 \in 0..n /\ i - 1 # n + 1 OBVIOUS
    <3>2. h[i - 1] = f[i - 1] BY <3>1
    <3>3. CASE i = n + 1
      <4>1. h[i] = f[n] + Width(s[n + 1]) BY <3>3
      <4>2. i - 1 = n BY <3>3
      <4> HIDE DEF h
      <4> QED BY <3>2, <3>3, <4>1, <4>2
    <3>4. CASE i # n + 1
      <4>1. i \in 1..n /\ h[i] = f[i] BY <3>4
      <4>2. f[i] = f[i - 1] + Width(s[i]) BY <2>1, <4>1
      <4> HIDE DEF h
      <4> QED BY <3>2, <4>1, <4>2
    <3> QED BY <3>3, <3>4
  <2> HIDE DEF h
  <2> QED BY <2>3, <2>4, <2>5
<1>3. Len(s) \in T
  <2> HIDE DEF Good
  <2>1. 0 \in T BY <1>1
  <2>2. \A n \in Nat : n \in T => n + 1 \in T BY <1>2
  <2> HIDE DEF T
  <2> QED BY <2>1, <2>2, SetInduction
<1>4. Good(Len(s))
  <2> HIDE DEF Good
  <2> QED BY <1>3
<1> QED BY <1>4 DEF Sums

LEMMA BytesSums ==
  ASSUME Sized, NEW s, Len(s) \in Nat
  PROVE  \E f : Sums(s, f) /\ Bytes(s) = f[Len(s)]
<1> DEFINE D(h) == [n \in 0..Len(s) |-> IF n = 0 THEN 0 ELSE h[n - 1] + Width(s[n])]
           sum == CHOOSE h : h = D(h)
<1>1. PICK f \in [0..Len(s) -> Nat] : Sums(s, f) BY SumsExist
<1>2. f = D(f)
  <2>1. \A n \in 0..Len(s) : f[n] = D(f)[n] BY <1>1 DEF Sums
  <2> QED BY <2>1
<1>3. sum = D(sum)
  <2> HIDE DEF D
  <2> QED BY <1>2
<1>4. Bytes(s) = sum[Len(s)] BY DEF Bytes
<1> HIDE DEF sum
<1>5. \A n \in 0..Len(s) : sum[n] = IF n = 0 THEN 0 ELSE sum[n - 1] + Width(s[n])
  <2>1. \A n \in 0..Len(s) : D(sum)[n] = IF n = 0 THEN 0 ELSE sum[n - 1] + Width(s[n])
    OBVIOUS
  <2> HIDE DEF D
  <2> QED BY <1>3, <2>1
<1>6. DOMAIN sum = 0..Len(s)
  <2>1. DOMAIN D(sum) = 0..Len(s) OBVIOUS
  <2> HIDE DEF D
  <2> QED BY <1>3, <2>1
<1>7. Sums(s, sum) BY <1>5, <1>6 DEF Sums
<1> QED BY <1>4, <1>7

LEMMA BytesHead ==
  ASSUME Sized, NEW S, NEW x \in S, NEW b \in Seq(S)
  PROVE  Bytes(b) \in Nat /\ Bytes(<<x>> \o b) = Width(x) + Bytes(b)
<1> DEFINE c == <<x>> \o b
<1>1. /\ Len(b) \in Nat /\ Len(c) = Len(b) + 1 /\ c[1] = x
      /\ \A i \in 1..Len(b) : c[i + 1] = b[i]
  OBVIOUS
<1> HIDE DEF c
<1>2. PICK f : Sums(b, f) /\ Bytes(b) = f[Len(b)] BY <1>1, BytesSums
<1>3. PICK h : Sums(c, h) /\ Bytes(c) = h[Len(c)] BY <1>1, BytesSums
<1> DEFINE T == {n \in Nat : n <= Len(b) => f[n] \in Nat /\ h[n + 1] = Width(x) + f[n]}
<1>4. 0 \in T
  <2>1. h[1] = h[0] + Width(c[1]) /\ h[0] = 0 /\ f[0] = 0 BY <1>1, <1>2, <1>3 DEF Sums
  <2> QED BY <1>1, <2>1 DEF Sized
<1>5. ASSUME NEW n \in Nat, n \in T PROVE n + 1 \in T
  <2>1. ASSUME n + 1 <= Len(b)
        PROVE  f[n + 1] \in Nat /\ h[n + 1 + 1] = Width(x) + f[n + 1]
    <3>1. n + 1 \in 1..Len(b) /\ n + 1 - 1 = n /\ n <= Len(b) BY <1>1, <2>1
    <3>2. n + 1 + 1 \in 1..Len(c) /\ n + 1 + 1 - 1 = n + 1 BY <1>1, <2>1
    <3>3. f[n + 1] = f[n] + Width(b[n + 1]) BY <1>2, <3>1 DEF Sums
    <3>4. h[n + 1 + 1] = h[n + 1] + Width(c[n + 1 + 1]) BY <1>3, <3>2 DEF Sums
    <3>5. c[n + 1 + 1] = b[n + 1] BY <1>1, <3>1
    <3>6. f[n] \in Nat /\ h[n + 1] = Width(x) + f[n] BY <1>5, <3>1
    <3>7. Width(b[n + 1]) \in Nat /\ Width(x) \in Nat BY DEF Sized
    <3> QED BY <3>3, <3>4, <3>5, <3>6, <3>7
  <2> QED BY <2>1
<1>6. Len(b) \in T
  <2> HIDE DEF T
  <2> QED BY <1>1, <1>4, <1>5, SetInduction
<1> QED BY <1>1, <1>2, <1>3, <1>6 DEF c

(* A length that was written is taken for one.                             *)
LEMMA PrefixMatches ==
  ASSUME Fits(meta, tx), Sized
  PROVE  Matches(Announced(Prefixed(Body)), Prefixed(Body))
<1> DEFINE v == [kind |-> "version", val |-> tx.form]
           h == [kind |-> "length", val |-> Bytes(Body)]
           S == Tokens \cup {v, h}  y == Body  z == Prefixed(Body)
<1>1. /\ y \in Seq(S) /\ z[1] = h /\ z = <<h>> \o y BY BodyParts
<1>2. h.kind = "length" /\ h.val = Bytes(y) /\ h \in S OBVIOUS
<1> HIDE DEF h, S, y, z
<1>3. Bytes(y) \in Nat /\ Bytes(z) = Width(h) + Bytes(y) /\ Width(h) \in Nat
  BY <1>1, <1>2, BytesHead DEF Sized
<1>4. Announced(z) = [length |-> Bytes(y), used |-> Width(h)] BY <1>1, <1>2 DEF Announced
<1>5. Bytes(y) = Bytes(z) - Width(h) BY <1>3
<1>6. Matches(Announced(z), z) BY <1>4, <1>5 DEF Matches
<1> QED BY <1>6 DEF z

(* A signed extrinsic begins with its signer and signature.                *)
LEMMA SignFirst ==
  ASSUME Fits(meta, tx), tx.form \in {"84", "85"}
  PROVE  \E p \in Seq(Items) : WrittenPreamble = Sign \o p
<1>0. meta.version \in Nat BY DEF Fits
<1>1. Signer \in Seq(FieldSet) /\ Sign = Stream(Signer) BY SignWritten
<1>2. ASSUME NEW t \in Seq(FieldSet), WrittenPreamble = Stream(Signer \o t)
      PROVE  \E p \in Seq(Items) : WrittenPreamble = Sign \o p
  <2>1. Stream(Signer \o t) = Sign \o Stream(t) BY <1>1, StreamConcat
  <2>2. Stream(t) \in Seq(Items) BY StreamType
  <2> QED BY <1>2, <2>1, <2>2
<1>3. CASE tx.form = "84" /\ meta.version < 14
  <2> DEFINE a == Signer  b == EraNonce  c == LegacyTip  d == Additional
  <2>1. a \in Seq(FieldSet) /\ b \in Seq(FieldSet) /\ c \in Seq(FieldSet) /\ d \in Seq(FieldSet)
    BY SignWritten, CommonWritten, TipWritten, AdditionalFields, TipFields DEF Unrecorded
  <2>2. WrittenPreamble = Stream(a \o b \o c \o d) BY <1>3, LegacyPreamble
  <2> HIDE DEF a, b, c, d
  <2>3. Chained(FieldSet, a, b, c, d) BY ONLY <2>1, ConcatFour
  <2>4. a \o b \o c \o d = a \o (b \o (c \o d)) /\ b \o (c \o d) \in Seq(FieldSet)
    BY ONLY <2>3 DEF Chained
  <2>5. WrittenPreamble = Stream(Signer \o (b \o (c \o d))) BY <2>2, <2>4 DEF a
  <2> QED BY <1>2, <2>4, <2>5
<1>4. CASE tx.form = "84" /\ ~ (meta.version < 14)
  <2>1. meta.version >= 14 BY <1>0, <1>4
  <2> DEFINE e == Of("extra", WithExtra(tx.extensions))
  <2>2. WrittenPreamble = Stream(Signer \o e) BY <1>4, <2>1, SignedPreamble
  <2>3. e \in Seq(FieldSet)
    <3>1. WithExtra(tx.extensions) \in Seq(Ext) BY LayoutWritten, WithExtraSet
    <3> QED BY <3>1, OfSet DEF What
  <2> HIDE DEF e
  <2> QED BY <1>2, <2>2, <2>3
<1>5. CASE tx.form = "85"
  <2> DEFINE a == Sign  b == Token("U8", tx.version)  c == Common
             d == WriteExtensions(Enabled(tx.extensions))
  <2>1. /\ a \in Seq(Items) /\ b \in Seq(Items) /\ c \in Seq(Items) /\ d \in Seq(Items)
        /\ WrittenPreamble = a \o b \o c \o d
    BY <1>5, PreambleV5Type
  <2> HIDE DEF a, b, c, d
  <2>2. Chained(Items, a, b, c, d) BY ONLY <2>1, ConcatFour
  <2>3. a \o b \o c \o d = a \o (b \o (c \o d)) /\ b \o (c \o d) \in Seq(Items)
    BY ONLY <2>2 DEF Chained
  <2> QED BY <2>1, <2>3 DEF a
<1> QED BY <1>3, <1>4, <1>5

LEMMA SignedBytes ==
  ASSUME Fits(meta, tx), Sized, tx.form \in {"84", "85"}
  PROVE  /\ Body[2] = Head(Sign)
         /\ \E n \in Nat :
              Bytes(Body) = Width([kind |-> "version", val |-> tx.form])
                + Width([kind |-> "ExtrinsicSignature", val |-> tx.signature]) + n
<1> DEFINE v == [kind |-> "version", val |-> tx.form]
           a == [kind |-> IF meta.version >= 14 /\ meta.hasSigner THEN "ExtrinsicSigner"
                          ELSE meta.address, val |-> tx.signer]
           b == [kind |-> "ExtrinsicSignature", val |-> tx.signature]
<1>1. PICK p \in Seq(Items) : WrittenPreamble = Sign \o p BY SignFirst
<1>2. Sign = <<a>> \o <<b>> BY DEF Sign, Token
<1>3. Body = <<v>> \o Tail(Body) /\ Tail(Body) = WrittenPreamble \o Rest
  <2> DEFINE h == [kind |-> "length", val |-> Bytes(Body)]  S == Tokens \cup {v, h}  y == Body
  <2>1. y \in Seq(S) /\ y # <<>> /\ Head(y) = v /\ Tail(y) = WrittenPreamble \o Rest
    BY BodyParts
  <2> HIDE DEF v, S, y
  <2>2. y = <<v>> \o Tail(y) BY <2>1
  <2> QED BY <2>1, <2>2 DEF y
<1>4. Rest \in Seq(Tokens) BY RestType
<1> DEFINE S == Tokens \cup {v, a, b}  r == Rest
<1>5. p \in Seq(S) /\ r \in Seq(S) /\ v \in S /\ a \in S /\ b \in S
  <2>1. Items \subseteq S BY DEF Tokens
  <2> HIDE DEF r, S
  <2>2. p \in Seq(S) BY <2>1
  <2>3. r \in Seq(S) BY <1>4 DEF r, S
  <2> QED BY <2>2, <2>3 DEF S
<1> HIDE DEF v, a, b, S, r
<1>6. Body = <<v>> \o ((<<a>> \o <<b>> \o p) \o r) BY <1>1, <1>2, <1>3 DEF r
<1> DEFINE q == p \o r
<1>7. q \in Seq(S) /\ (<<a>> \o <<b>> \o p) \o r = <<a>> \o (<<b>> \o q)
  <2> DEFINE x == <<a>>  y == <<b>>
  <2>1. x \in Seq(S) /\ y \in Seq(S) BY <1>5
  <2> HIDE DEF x, y
  <2>2. Chained(S, x, y, p, r) BY ONLY <1>5, <2>1, ConcatFour
  <2>3. x \o y \o p \o r = x \o (y \o (p \o r)) BY ONLY <2>2 DEF Chained
  <2>4. p \o r \in Seq(S) BY <1>5, ConcatType
  <2> QED BY <2>3, <2>4 DEF x, y
<1> HIDE DEF q
<1> DEFINE s == <<b>> \o q  t == <<a>> \o s
<1>8. s \in Seq(S) /\ Bytes(q) \in Nat /\ Bytes(s) = Width(b) + Bytes(q)
  BY <1>5, <1>7, BytesHead, ConcatHead
<1> HIDE DEF s
<1>9. t \in Seq(S) /\ Bytes(t) = Width(a) + Bytes(s) /\ t # <<>> /\ Head(t) = a
  BY <1>5, <1>8, BytesHead, ConcatHead
<1>10. Body = <<v>> \o t BY <1>6, <1>7 DEF s
<1>11. Head(Sign) = a BY <1>2
<1> HIDE DEF t
<1>12. Bytes(<<v>> \o t) = Width(v) + Bytes(t) BY <1>5, <1>9, BytesHead
<1>13. (<<v>> \o t)[2] = a BY <1>5, <1>9
<1>14. Width(v) \in Nat /\ Width(a) \in Nat /\ Width(b) \in Nat BY DEF Sized
<1>15. Bytes(Body) = Width(v) + Width(b) + (Width(a) + Bytes(q))
  BY <1>8, <1>9, <1>10, <1>12, <1>14
<1>16. Width(a) + Bytes(q) \in Nat BY <1>8, <1>14
<1> QED BY <1>10, <1>11, <1>13, <1>15, <1>16 DEF v, b

LEMMA BareBytes ==
  ASSUME Fits(meta, tx), Sized, tx.form = "04"
  PROVE  \E n \in Nat :
           Bytes(Body) = Width([kind |-> "version", val |-> tx.form])
             + Width([kind |-> "call", val |-> tx.call]) + n
<1> DEFINE v == [kind |-> "version", val |-> tx.form]
           c == [kind |-> "call", val |-> tx.call]
           S == Tokens \cup {v, c}  a == Args
<1>1. a \in Seq(Tokens) BY RestType
<1>2. WrittenPreamble = <<>> BY Zenon DEF WrittenPreamble
<1>3. Body = <<v>> \o <<>> \o <<c>> \o a BY <1>2 DEF Body, Token, Args
<1>4. v \in S /\ c \in S /\ Tokens \subseteq S OBVIOUS
<1> HIDE DEF v, c, S, a
<1>5. a \in Seq(S) BY <1>1, <1>4
<1> DEFINE s == <<c>> \o a
<1>6. s \in Seq(S) /\ Bytes(a) \in Nat /\ Bytes(s) = Width(c) + Bytes(a)
  BY <1>4, <1>5, BytesHead, ConcatHead
<1>7. <<v>> \o <<>> \o <<c>> \o a = <<v>> \o s BY <1>4, <1>5
<1> HIDE DEF s
<1>8. Bytes(<<v>> \o s) = Width(v) + Bytes(s) BY <1>4, <1>6, BytesHead
<1>9. Width(v) \in Nat /\ Width(c) \in Nat BY DEF Sized
<1>10. Body = <<v>> \o s BY ONLY <1>3, <1>7
<1>11. Bytes(Body) = Width(v) + (Width(c) + Bytes(a)) BY ONLY <1>6, <1>8, <1>10
<1>12. Bytes(Body) = Width(v) + Width(c) + Bytes(a) BY <1>6, <1>9, <1>11
<1> QED BY <1>6, <1>12 DEF v, c

(* The first bytes are no length unless the extrinsic is of version 5.     *)
LEMMA NoLength ==
  ASSUME Paired, Sized, Sizes, Matches(Announced(Body), Body)
  PROVE  tx.form \notin {"04", "84"} /\ (tx.form = "85" => Byte(Head(Sign)) # 0)
<1>0. Fits(meta, tx) BY Fitting
<1> DEFINE v == [kind |-> "version", val |-> tx.form]
<1>1. Body[1] = v /\ v.kind # "length" BY <1>0, BodyParts
<1>2. /\ Width(v) = 1
      /\ Width([kind |-> "call", val |-> tx.call]) = 2
      /\ tx.form \in {"84", "85"} =>
           Width([kind |-> "ExtrinsicSignature", val |-> tx.signature]) >= 64
  BY DEF Sizes, Paired
<1>3. /\ tx.form = "04" => Byte(v) = 4
      /\ tx.form = "84" => Byte(v) = 132
      /\ tx.form = "85" => Byte(v) = 133
  <2>1. /\ Byte([kind |-> "version", val |-> <<"04", 4>>[1]]) = <<"04", 4>>[2]
        /\ Byte([kind |-> "version", val |-> <<"84", 132>>[1]]) = <<"84", 132>>[2]
        /\ Byte([kind |-> "version", val |-> <<"85", 133>>[1]]) = <<"85", 133>>[2]
    BY Zenon DEF Sizes
  <2> QED BY <2>1
<1>4. Announced(Body) = IF Byte(v) % 4 = 0 THEN [length |-> Byte(v) \div 4, used |-> 1]
                        ELSE [length |-> (Byte(v) + 256 * Byte(Body[2])) \div 4, used |-> 2]
  BY <1>1 DEF Announced
<1>5. ASSUME tx.form = "04" PROVE FALSE
  <2>1. PICK n \in Nat : Bytes(Body) = 3 + n BY <1>0, <1>2, <1>5, BareBytes
  <2>2. Announced(Body) = [length |-> 1, used |-> 1] BY <1>3, <1>4, <1>5
  <2>3. 1 = Bytes(Body) - 1 BY <2>2 DEF Matches
  <2> QED BY <2>1, <2>3
<1>6. ASSUME tx.form = "84" PROVE FALSE
  <2>1. PICK n \in Nat : Bytes(Body) = 1
          + Width([kind |-> "ExtrinsicSignature", val |-> tx.signature]) + n
    BY <1>0, <1>2, <1>6, SignedBytes
  <2>2. Announced(Body) = [length |-> 33, used |-> 1] BY <1>3, <1>4, <1>6
  <2>3. 33 = Bytes(Body) - 1 BY <2>2 DEF Matches
  <2>4. Width([kind |-> "ExtrinsicSignature", val |-> tx.signature]) >= 64 BY <1>2, <1>6
  <2>5. Width([kind |-> "ExtrinsicSignature", val |-> tx.signature]) \in Nat BY DEF Sized
  <2> QED BY <2>1, <2>3, <2>4, <2>5
<1>7. ASSUME tx.form = "85", Byte(Head(Sign)) = 0 PROVE FALSE
  <2>1. PICK n \in Nat : Bytes(Body) = 1
          + Width([kind |-> "ExtrinsicSignature", val |-> tx.signature]) + n
    BY <1>0, <1>2, <1>7, SignedBytes
  <2>2. Byte(Body[2]) = 0 BY <1>0, <1>7, SignedBytes
  <2>3. Announced(Body) = [length |-> 33, used |-> 2] BY <1>3, <1>4, <1>7, <2>2
  <2>4. 33 = Bytes(Body) - 2 BY <2>3 DEF Matches
  <2>5. Width([kind |-> "ExtrinsicSignature", val |-> tx.signature]) >= 64 BY <1>2, <1>7
  <2>6. Width([kind |-> "ExtrinsicSignature", val |-> tx.signature]) \in Nat BY DEF Sized
  <2> QED BY <2>1, <2>4, <2>5, <2>6
<1> QED BY <1>5, <1>6, <1>7

-----------------------------------------------------------------------------
(* The invariant holds at the start and after every step *)

LEMMA SameStatus ==
  ASSUME UNCHANGED <<meta, data, tx>>
  PROVE  /\ Whole' <=> Whole
         /\ Described' <=> Described
         /\ Unmatched' <=> Unmatched
         /\ Agreed' <=> Agreed
         /\ Prefixed(Body)' = Prefixed(Body)
<1>0. meta' = meta /\ tx' = tx /\ data' = data OBVIOUS
<1>1. Prefixed(Body)' = Prefixed(Body)
  <2>1. Body' = Body BY SameBody
  <2> QED BY <2>1 DEF Prefixed, Token
<1>2. Paired' <=> Paired BY <1>0 DEF Paired
<1>3. Whole' <=> Whole
  <2>1. Body' = Body BY SameBody
  <2> QED BY <1>0, <1>1, <1>2, <2>1 DEF Whole
<1>4. Described' <=> Described
  <2>1. Describes(tx.version)' <=> Describes(tx.version) BY <1>0, SameClient
  <2>2. Dangling(tx.form)' <=> Dangling(tx.form) BY <1>0, SameClient
  <2> QED BY <1>0, <2>1, <2>2 DEF Described
<1>5. Unmatched' <=> Unmatched BY <1>0 DEF Unmatched
<1>6. Agreed' <=> Agreed
  <2>1. Layout(tx.version)' = Layout(tx.version) BY <1>0, SameClient
  <2> QED BY <1>0, <2>1 DEF Agreed
<1> QED BY <1>1, <1>3, <1>4, <1>5, <1>6

LEMMA NoRefusal ==
  ASSUME out = <<>>
  PROVE  Refused
BY DEF Refused

LEMMA InitInv == ClientInit => IInv
<1> SUFFICES ASSUME ClientInit PROVE IInv OBVIOUS
<1>1. Whole BY DEF ClientInit, Whole, Paired
<1>2. stage = "length" /\ todo = <<>> /\ g = Blank /\ out = <<>>
  BY DEF ClientInit, CodecInit
<1>3. TypeOK BY <1>2 DEF TypeOK, ToSet
<1>4. Refused BY <1>2, NoRefusal
<1>5. Progress BY <1>2, <1>4 DEF Progress, Done
<1> QED BY <1>1, <1>2, <1>3, <1>5 DEF IInv

LEMMA LengthInv ==
  ASSUME IInv, ReadLength, UNCHANGED tx
  PROVE  IInv'
<1>1. /\ stage = "length" /\ todo = <<>> /\ g = Blank /\ out = <<>> /\ Whole
  BY DEF IInv, ReadLength, Progress, TypeOK
<1>2. /\ UNCHANGED <<meta, data, tx>> /\ todo' = <<>> /\ g' = Blank /\ out' = <<>>
  BY <1>1 DEF ReadLength
<1>3. Fits(meta, tx) BY <1>1, Fitting DEF Whole
<1> DEFINE match == Matches(Announced(data), data)
<1>4. /\ stage' = IF ~match \/ data[1].kind = "length" THEN "version" ELSE "astray"
      /\ wire' = IF match THEN Tail(data) ELSE data
  BY DEF ReadLength
<1>5. /\ Whole'
      /\ Unmatched' <=> Unmatched
      /\ Body' = Body
  BY <1>1, <1>2, SameStatus, SameBody
<1>6. stage' = "version" => wire' = Body \/ (Unmatched /\ wire' = data)
  <2>1. CASE tx.prefixed
    <3>1. data = Prefixed(Body) BY <1>1, <2>1 DEF Whole
    <3>2. Tail(data) = Body BY <1>3, <3>1, BodyParts
    <3> QED BY <1>4, <2>1, <3>2 DEF Unmatched
  <2>2. CASE ~tx.prefixed
    <3>1. data = Body BY <1>1, <2>2 DEF Whole
    <3>2. data[1] = [kind |-> "version", val |-> tx.form] BY <1>3, <3>1, BodyParts
    <3>3. data[1].kind # "length" BY <3>2
    <3> QED BY <1>4, <3>1, <3>3
  <2> QED BY <2>1, <2>2
<1>7. stage' \in {"version", "astray"} BY <1>4
<1>8. TypeOK' BY <1>2, <1>7 DEF TypeOK, ToSet
<1>9. Refused' BY <1>2 DEF Refused
<1>10. stage' = "astray" => ~tx'.prefixed /\ Matches(Announced(data), data)'
  <2>1. ASSUME stage' = "astray" PROVE match /\ data[1].kind # "length" BY <1>4, <2>1
  <2>2. ASSUME tx.prefixed PROVE data[1].kind = "length"
    <3>1. data = Prefixed(Body) BY <1>1, <2>2 DEF Whole
    <3>2. data[1] = [kind |-> "length", val |-> Bytes(Body)] BY <1>3, <3>1, BodyParts
    <3> QED BY <3>2
  <2>3. Matches(Announced(data), data)' <=> match BY <1>2 DEF Matches, Announced
  <2> QED BY <1>2, <2>1, <2>2, <2>3
<1>11. Progress' BY <1>2, <1>5, <1>6, <1>7, <1>9, <1>10 DEF Progress, Done
<1> QED BY <1>2, <1>5, <1>8, <1>11 DEF IInv

(* The fields a version byte announces are those the sender wrote, but for *)
(* a general extrinsic, which says its version first.                      *)
LEMMA FieldsWritten ==
  ASSUME Fits(meta, tx), tx.form \in Forms, ~Dangling(tx.form), tx.form # "45"
  PROVE  /\ Fields(tx.form) \in Seq(FieldSet) /\ Ready(Fields(tx.form), Shows)
         /\ WrittenPreamble = Stream(Fields(tx.form))
<1>0. meta.version \in Nat BY DEF Fits
<1>1. CASE tx.form \in {"04", "05"}
  <2>1. Fields(tx.form) = <<>> /\ Ready(<<>>, Shows) BY <1>1, ReadyBare
  <2>2. WrittenPreamble = <<>> BY <1>1, Zenon DEF WrittenPreamble
  <2>3. <<>> \in Seq(FieldSet) OBVIOUS
  <2> QED BY <2>1, <2>2, <2>3, StreamEmpty
<1>2. CASE tx.form = "84" /\ meta.version < 14
  BY <1>2, ReadyLegacy, LegacyPreamble
<1>3. CASE tx.form = "84" /\ ~ (meta.version < 14)
  <2>1. meta.version >= 14 BY <1>0, <1>3
  <2> QED BY <1>3, <2>1, ReadySigned, SignedPreamble
<1>4. CASE tx.form = "85"
  <2>1. meta.extrinsic # None BY <1>4 DEF Dangling, Nil
  <2> QED BY <1>4, <2>1, ReadyV5, PreambleV5
<1> QED BY <1>1, <1>2, <1>3, <1>4 DEF Forms

LEMMA FieldTypes ==
  ASSUME NEW s, Covers(s)
  PROVE  \A f \in ToSet(s) : f.type # Unresolved
BY DEF Covers, Readable

LEMMA VersionInv ==
  ASSUME IInv, ReadVersion, UNCHANGED tx
  PROVE  IInv'
<1>1. /\ stage = "version" /\ todo = <<>> /\ g = Blank /\ out = <<>> /\ Whole
      /\ wire = Body \/ (Unmatched /\ wire = data)
  BY DEF IInv, ReadVersion, Progress, TypeOK
<1>2. UNCHANGED <<meta, data, tx>> /\ wire' = Tail(wire) /\ out' = <<>>
  BY <1>1 DEF ReadVersion
<1>3. Fits(meta, tx) BY <1>1, Fitting DEF Whole
<1> DEFINE v == Head(wire).val
           ok == /\ Head(wire).kind = "version" /\ v \in {"04", "05", "84", "85", "45"}
                 /\ ~Dangling(v)
<1>4. /\ version' = v /\ stage' = IF ok THEN "fields" ELSE "panic"
      /\ todo' = IF ok THEN Fields(v) ELSE <<>>
      /\ g' = IF v \notin {"84", "85", "45"} THEN g
              ELSE [g EXCEPT !.hash = IF wire = data THEN Prefixed(data) ELSE data]
  BY DEF ReadVersion
<1>5. /\ Whole'
      /\ Unmatched' <=> Unmatched
      /\ Described' <=> Described
      /\ Agreed' <=> Agreed
      /\ Prefixed(Body)' = Prefixed(Body)
      /\ Rest' = Rest
  BY <1>1, <1>2, SameStatus, SameBody
<1>6. DOMAIN g' = DOMAIN Blank /\ g'.extensions = <<>> BY <1>1, <1>4 DEF Blank
<1>7. Refused' BY <1>2 DEF Refused
<1>8. ASSUME ~ok, Unmatched \/ ~Described PROVE IInv'
  <2>1. stage' = "panic" /\ todo' = <<>> BY <1>4, <1>8
  <2>2. TypeOK' BY <1>2, <1>6, <2>1 DEF TypeOK, ToSet
  <2>3. Progress' BY <1>5, <1>7, <1>8, <2>1 DEF Progress, Done
  <2> QED BY <1>5, <2>1, <2>2, <2>3 DEF IInv
<1>9. CASE Unmatched /\ wire = data
  <2>1. data = Prefixed(Body) BY <1>1, <1>9 DEF Whole, Unmatched
  <2>2. Head(wire) = [kind |-> "length", val |-> Bytes(Body)] BY <1>3, <1>9, <2>1, BodyParts
  <2>3. ~ok BY <2>2
  <2> QED BY <1>8, <1>9, <2>3
<1>10. CASE wire = Body
  <2>1. Head(wire) = [kind |-> "version", val |-> tx.form] /\ wire' = WrittenPreamble \o Rest
    BY <1>2, <1>3, <1>10, BodyParts
  <2>2. v = tx.form BY <2>1
  <2>3. ok <=> tx.form \in Forms /\ ~Dangling(tx.form) BY <2>1 DEF Forms
  <2> HIDE DEF v, ok
  <2>4. CASE ~ok
    <3>1. ~Described BY <2>3, <2>4 DEF Described, Forms
    <3> QED BY <1>8, <2>4, <3>1
  <2>5. CASE ok
    <3>1. tx.form \in Forms /\ ~Dangling(tx.form) BY <2>3, <2>5
    <3>2. version' = tx.form /\ stage' = "fields" /\ todo' = Fields(tx.form)
      BY <1>4, <2>2, <2>5
    <3>3. tx.form \in {"84", "85", "45"} => g'.hash = Prefixed(Body)
      <4>1. ASSUME tx.form \in {"84", "85", "45"} PROVE g'.hash = Prefixed(Body)
        <5>1. g' = [g EXCEPT !.hash = IF wire = data THEN Prefixed(data) ELSE data]
          BY <1>4, <2>2, <4>1
        <5>2. g'.hash = IF wire = data THEN Prefixed(data) ELSE data
          BY <1>1, <5>1 DEF Blank
        <5>3. Prefixed(Body) # Body BY <1>3, BodyParts
        <5>4. CASE tx.prefixed BY <1>1, <1>10, <5>2, <5>3, <5>4 DEF Whole
        <5>5. CASE ~tx.prefixed BY <1>1, <1>10, <5>2, <5>5 DEF Whole
        <5> QED BY <5>4, <5>5
      <4> QED BY <4>1
    <3>4. Known' BY <1>2, <1>5, <3>1, <3>2, <3>3 DEF Known
    <3>5. CASE tx.form = "45"
      <4>1. WrittenPreamble = Token("U8", tx.version) \o Stream(Of("layout", tx.extensions))
        BY <1>3, <3>5, PreambleType
      <4>2. Fields(tx.form) = <<Field("general", "U8", "")>> BY <3>5, Zenon DEF Fields
      <4>3. Stream(Of("layout", tx.extensions))' = Stream(Of("layout", tx.extensions))
        BY <1>2, SameReading
      <4>4. Opening'
        BY <1>2, <1>5, <1>6, <2>1, <3>2, <3>5, <4>1, <4>2, <4>3 DEF Opening, Token, Field
      <4>5. \A f \in ToSet(todo') : f.type # Unresolved
        <5>1. todo' = <<Field("general", "U8", "")>> BY <3>2, <4>2
        <5>3. ToSet(<<Field("general", "U8", "")>>) = {Field("general", "U8", "")} BY SetOne
        <5>2. "U8" # Unresolved BY BuiltInKind DEF BuiltIn
        <5>4. Field("general", "U8", "").type # Unresolved BY <5>2 DEF Field
        <5> QED BY <5>1, <5>3, <5>4
      <4>6. TypeOK' BY <1>2, <1>6, <3>2, <4>5 DEF TypeOK, ToSet
      <4>7. Progress' BY <1>7, <3>2, <3>4, <4>4 DEF Progress, Done
      <4> QED BY <1>5, <3>2, <4>6, <4>7 DEF IInv
    <3>6. CASE tx.form # "45"
      <4>1. /\ Fields(tx.form) \in Seq(FieldSet) /\ Ready(Fields(tx.form), Shows)
            /\ WrittenPreamble = Stream(Fields(tx.form))
        BY <1>3, <3>1, <3>6, FieldsWritten
      <4>2. Completes(Fields(tx.form), g')
        <5> DEFINE s == Fields(tx.form)  r == g'
        <5>1. Ready(s, Shows) /\ DOMAIN r = DOMAIN Blank /\ r.extensions = <<>>
          BY <1>6, <4>1
        <5> HIDE DEF s, r
        <5>2. Completes(s, r) BY <5>1, ReadyCompletes
        <5> QED BY <5>2 DEF s, r
      <4>3. Completes(todo, g)' BY <1>2, <3>2, <4>2, SameReading
      <4>4. wire' = Stream(todo') \o Rest BY <2>1, <3>2, <4>1
      <4>5. (Stream(todo) \o Rest)' = Stream(todo') \o Rest BY <1>2, <1>5, SameReading
      <4>6. Agreed BY <3>6 DEF Agreed
      <4>7. Reading' BY <1>5, <4>3, <4>4, <4>5, <4>6 DEF Reading
      <4>8. \A f \in ToSet(todo') : f.type # Unresolved
        BY <3>2, <4>2, FieldTypes DEF Completes
      <4>9. TypeOK' BY <1>2, <1>6, <3>2, <4>8 DEF TypeOK, ToSet
      <4>10. Progress' BY <1>7, <3>2, <3>4, <4>7 DEF Progress, Done
      <4> QED BY <1>5, <3>2, <4>9, <4>10 DEF IInv
    <3> QED BY <3>5, <3>6
  <2> QED BY <2>4, <2>5
<1> QED BY <1>1, <1>9, <1>10

(* The version of a general extrinsic, which selects the layout.           *)
LEMMA GeneralInv ==
  ASSUME IInv, ReadField, UNCHANGED tx, Opening, Known
  PROVE  IInv'
<1>1. /\ stage = "fields" /\ out = <<>> /\ Whole /\ DOMAIN g = DOMAIN Blank
      /\ tx.form = "45" /\ todo = <<Field("general", "U8", "")>> /\ g.extensions = <<>>
      /\ wire = Token("U8", tx.version) \o Stream(Of("layout", tx.extensions)) \o Rest
  BY DEF IInv, ReadField, TypeOK, Opening
<1>2. UNCHANGED <<meta, data, version, tx>> /\ out' = <<>>
  BY <1>1 DEF ReadField
<1>3. Fits(meta, tx) BY <1>1, Fitting DEF Whole
<1> DEFINE l == Layout(tx.version)  e == Of("layout", tx.extensions)
<1>4. /\ Head(wire) = [kind |-> "U8", val |-> tx.version] /\ Tail(wire) = Stream(e) \o Rest
  <2> DEFINE x == [kind |-> "U8", val |-> tx.version]  a == Stream(e)  b == Rest
             S == Tokens \cup {x}
  <2>1. Token("U8", tx.version) = <<x>> BY DEF Token
  <2>2. a \in Seq(Tokens) /\ b \in Seq(Tokens)
    <3>1. a \in Seq(Items) BY <1>3, LayoutWritten, StreamType
    <3>2. Items \subseteq Tokens BY DEF Tokens
    <3> HIDE DEF a
    <3> QED BY <1>3, <3>1, <3>2, RestType
  <2>3. wire = <<x>> \o a \o b BY <1>1, <2>1
  <2> HIDE DEF x, a, b
  <2>4. x \in S /\ a \in Seq(S) /\ b \in Seq(S) BY <2>2
  <2> HIDE DEF S
  <2>5. <<x>> \o a \o b = <<x>> \o (a \o b) /\ a \o b \in Seq(S)
    <3>1. <<x>> \in Seq(S) BY <2>4
    <3> DEFINE w == <<x>>
    <3> HIDE DEF w
    <3>2. (w \o a) \o b = w \o (a \o b) /\ a \o b \in Seq(S)
      BY <2>4, <3>1, ConcatAssoc, ConcatType DEF w
    <3> QED BY <3>2 DEF w
  <2> DEFINE c == a \o b
  <2> HIDE DEF c
  <2>6. Head(<<x>> \o c) = x /\ Tail(<<x>> \o c) = c BY <2>4, <2>5, ConcatHead DEF c
  <2>7. Head(wire) = x /\ Tail(wire) = c BY <2>3, <2>5, <2>6 DEF c
  <2> QED BY <2>7 DEF c, x, a, b
<1> DEFINE f == Head(todo)
<1>5. f = Field("general", "U8", "") /\ Tail(todo) = <<>>
      /\ f.what = "general" /\ f.type = "U8"
  <2> DEFINE x == Field("general", "U8", "")
  <2>1. x.what = "general" /\ x.type = "U8" BY DEF Field
  <2> HIDE DEF x
  <2>2. todo = <<x>> BY <1>1 DEF x
  <2>3. Head(todo) = x /\ Tail(todo) = <<>> BY <2>2
  <2> QED BY <2>1, <2>3 DEF x
<1>6. /\ stage' = IF l.ok THEN stage ELSE "panic"
      /\ g' = [g EXCEPT !.version = tx.version]
      /\ todo' = Of("layout", l.extensions) \o <<>>
      /\ wire' = Stream(e) \o Rest
  <2>1. Value(NoModule, "U8", Head(wire)) = tx.version
    <3>1. Kind(NoModule, "U8") = "U8" BY BuiltInKind DEF BuiltIn
    <3> QED BY <1>4, <3>1 DEF Value
  <2> DEFINE x == IF f.type = "NULL" THEN None ELSE Value(NoModule, f.type, Head(wire))
             k == IF f.what = "general" THEN Layout(x) ELSE [ok |-> TRUE, extensions |-> <<>>]
  <2>2. x = tx.version BY <1>5, <2>1
  <2>3. k = l BY <1>5, <2>2
  <2>4. /\ stage' = IF k.ok THEN stage ELSE "panic"
        /\ g' = Store(g, f, x)
        /\ todo' = Of("layout", k.extensions) \o Tail(todo)
        /\ wire' = IF f.type = "NULL" THEN wire ELSE Tail(wire)
    BY DEF ReadField
  <2>5. Store(g, f, tx.version) = [g EXCEPT !.version = tx.version] BY <1>5 DEF Store
  <2> HIDE DEF x, k, l, f
  <2> QED BY <1>4, <1>5, <2>2, <2>3, <2>4, <2>5
<1>7. /\ Whole'
      /\ Described' <=> Described
      /\ Agreed' <=> Agreed
      /\ Prefixed(Body)' = Prefixed(Body)
      /\ Rest' = Rest
  BY <1>1, <1>2, SameStatus, SameBody
<1>8. DOMAIN g' = DOMAIN Blank /\ g'.extensions = <<>> /\ g'.version = tx.version
      /\ g'.hash = g.hash
  BY <1>1, <1>6 DEF Blank
<1>9. Refused' BY <1>2 DEF Refused
<1>10. CASE l = NoLayout /\ ~Describes(tx.version)
  <2>1. stage' = "panic" BY <1>6, <1>10 DEF NoLayout
  <2>2. todo' = <<>>
    <3>1. l.extensions = <<>> BY <1>10 DEF NoLayout
    <3>2. todo' = Of("layout", <<>>) \o <<>> BY <1>6, <3>1
    <3>3. Of("layout", <<>>) = <<>> BY DEF Of
    <3> QED BY <3>2, <3>3
  <2>3. ~Described BY <1>1, <1>10 DEF Described
  <2>4. TypeOK' BY <1>2, <1>8, <2>1, <2>2 DEF TypeOK, ToSet
  <2>5. Progress' BY <1>7, <1>9, <2>1, <2>3 DEF Progress, Done
  <2> QED BY <1>7, <2>2, <2>4, <2>5 DEF IInv
<1>11. CASE l = [ok |-> TRUE, extensions |-> tx.extensions]
  <2>1. stage' = "fields"
    <3> HIDE DEF l
    <3>1. l.ok = TRUE BY <1>11
    <3> QED BY <1>1, <1>6, <3>1
  <2>2. todo' = e
    <3>1. todo' = e \o <<>> BY <1>6, <1>11
    <3>2. e \in Seq(FieldSet) BY <1>3, LayoutWritten
    <3> HIDE DEF e
    <3> QED BY <3>1, <3>2, ConcatEmpty
  <2>3. Completes(e, g')
    <3> DEFINE r == g'  K == Shows \ {"version"}
    <3>1. Ready(e, K) BY <1>1, <1>3, ReadyGeneral
    <3>2. \A k \in Shows \ K : r[k] = tx[k] BY <1>8
    <3>3. K \in SUBSET Shows /\ DOMAIN r = DOMAIN Blank /\ r.extensions = <<>> BY <1>8
    <3> HIDE DEF r, e, K
    <3>4. Completes(e, r) BY <3>1, <3>2, <3>3, ReadyCompletes
    <3> QED BY <3>4 DEF r
  <2> HIDE DEF e
  <2>4. Completes(todo, g)' BY <1>2, <2>2, <2>3, SameReading
  <2>5. (Stream(todo) \o Rest)' = Stream(todo') \o Rest BY <1>2, <1>7, SameReading
  <2>6. Agreed BY <1>11 DEF Agreed
  <2>7. Reading' BY <1>6, <1>7, <2>2, <2>4, <2>5, <2>6 DEF Reading
  <2>8. Known' BY <1>2, <1>7, <1>8 DEF Known
  <2>9. \A x \in ToSet(todo') : x.type # Unresolved BY <2>2, <2>3, FieldTypes DEF Completes
  <2>10. TypeOK' BY <1>2, <1>8, <2>1, <2>9 DEF TypeOK, ToSet
  <2>11. Progress' BY <1>9, <2>1, <2>7, <2>8 DEF Progress, Done
  <2> QED BY <1>7, <2>1, <2>10, <2>11 DEF IInv
<1> QED BY <1>1, <1>3, <1>10, <1>11, LayoutAgrees

(* Any other field: the value read is the sender's.                        *)
LEMMA FieldInv ==
  ASSUME IInv, ReadField, UNCHANGED tx, Reading, Known
  PROVE  IInv'
<1>1. /\ stage = "fields" /\ out = <<>> /\ Whole /\ DOMAIN g = DOMAIN Blank /\ todo # <<>>
      /\ wire = Stream(todo) \o Rest /\ Completes(todo, g) /\ Agreed
  BY DEF IInv, ReadField, TypeOK, Reading
<1>2. UNCHANGED <<meta, data, version, tx>> /\ out' = <<>>
  BY <1>1 DEF ReadField
<1>3. Fits(meta, tx) BY <1>1, Fitting DEF Whole
<1> DEFINE f == Head(todo)  t == Tail(todo)
           x == IF f.type = "NULL" THEN None ELSE Value(NoModule, f.type, Head(wire))
           k == IF f.what = "general" THEN Layout(x) ELSE [ok |-> TRUE, extensions |-> <<>>]
<1>4. /\ stage' = IF k.ok THEN stage ELSE "panic"
      /\ g' = Store(g, f, x)
      /\ todo' = Of("layout", k.extensions) \o t
      /\ wire' = IF f.type = "NULL" THEN wire ELSE Tail(wire)
  BY DEF ReadField
<1>5. /\ todo \in Seq(FieldSet) /\ t \in Seq(FieldSet) /\ f \in ToSet(todo) /\ Readable(f)
  <2>1. todo \in Seq(FieldSet) /\ \A y \in ToSet(todo) : Readable(y)
    BY <1>1 DEF Completes, Covers
  <2>2. t \in Seq(FieldSet) BY <1>1, <2>1
  <2>3. f \in ToSet(todo)
    <3>1. 1 \in DOMAIN todo /\ f = todo[1] BY <1>1, <2>1
    <3> HIDE DEF f
    <3> QED BY <2>1, <3>1, InRange
  <2> QED BY <2>1, <2>2, <2>3
<1> HIDE DEF f, t
<1>6. x = Given(f) /\ wire' = Stream(t) \o Rest
  <2>1. /\ f.type = "NULL" => Stream(todo) \o Rest = Stream(t) \o Rest
        /\ f.type # "NULL" =>
             /\ Head(Stream(todo) \o Rest) = Item(f)
             /\ Tail(Stream(todo) \o Rest) = Stream(t) \o Rest
    <3>1. Rest \in Seq(Tokens) BY <1>3, RestType
    <3> QED BY <1>1, <1>5, <3>1, ReadNext DEF f, t
  <2>2. CASE f.type = "NULL" BY <1>1, <1>4, <2>1, <2>2 DEF Given
  <2>3. CASE f.type # "NULL"
    <3>1. Head(wire) = Item(f) /\ wire' = Stream(t) \o Rest BY <1>1, <1>4, <2>1, <2>3
    <3>2. Value(NoModule, f.type, Item(f)) = Due(f) BY DEF Value, Item
    <3> QED BY <2>3, <3>1, <3>2 DEF Given
  <2> QED BY <2>2, <2>3
<1>7. stage' = "fields" /\ todo' = t
  <2>1. k = [ok |-> TRUE, extensions |-> <<>>] BY <1>5 DEF Readable
  <2> HIDE DEF k
  <2>2. stage' = "fields" /\ todo' = Of("layout", <<>>) \o t BY <1>1, <1>4, <2>1
  <2>3. Of("layout", <<>>) = <<>> BY DEF Of
  <2> QED BY <1>5, <2>2, <2>3, ConcatEmpty
<1> HIDE DEF x, k
<1>8. Completes(t, g') /\ g'.hash = g.hash
  <2> DEFINE q == g'
  <2>1. q = Store(g, f, Given(f)) BY <1>4, <1>6
  <2> HIDE DEF q
  <2>2. Completes(t, q) /\ q.hash = g.hash BY <1>1, <1>3, <2>1, StoreCompletes DEF f, t
  <2> QED BY <2>2 DEF q
<1>9. /\ Whole'
      /\ Agreed' <=> Agreed
      /\ Prefixed(Body)' = Prefixed(Body)
      /\ Rest' = Rest
  BY <1>1, <1>2, SameStatus, SameBody
<1>10. Completes(todo, g)' BY <1>2, <1>7, <1>8, SameReading
<1>11. (Stream(todo) \o Rest)' = Stream(todo') \o Rest BY <1>2, <1>9, SameReading
<1>12. Reading' BY <1>1, <1>6, <1>7, <1>9, <1>10, <1>11 DEF Reading
<1>13. Known' BY <1>2, <1>8, <1>9 DEF Known
<1>14. Refused' BY <1>2 DEF Refused
<1>15. \A y \in ToSet(todo') : y.type # Unresolved BY <1>7, <1>8, FieldTypes DEF Completes
<1>16. TypeOK'
  <2>1. DOMAIN g' = DOMAIN Blank BY <1>8 DEF Completes
  <2> QED BY <1>2, <1>7, <1>15, <2>1 DEF TypeOK, ToSet
<1>17. Progress' BY <1>7, <1>12, <1>13, <1>14 DEF Progress, Done
<1> QED BY <1>7, <1>9, <1>16, <1>17 DEF IInv

LEMMA SameComplete ==
  ASSUME NEW s, NEW r, Completes(s, r), NEW q, DOMAIN q = DOMAIN r,
         q.extensions = r.extensions, \A k \in Shows : q[k] = r[k]
  PROVE  Completes(s, q)
BY DEF Completes

LEMMA CallInv ==
  ASSUME IInv, ReadCall, UNCHANGED tx
  PROVE  IInv'
<1>1. /\ stage = "fields" /\ out = <<>> /\ Whole /\ DOMAIN g = DOMAIN Blank /\ todo = <<>>
      /\ Known /\ (Opening \/ Reading)
  BY DEF IInv, ReadCall, TypeOK, Progress
<1>2. wire = Stream(<<>>) \o Rest /\ Completes(<<>>, g) /\ Agreed
  BY <1>1 DEF Opening, Reading
<1>3. UNCHANGED <<meta, data, version, tx, todo>> /\ out' = <<>>
  BY <1>1 DEF ReadCall
<1>4. Fits(meta, tx) BY <1>1, Fitting DEF Whole
<1>5. Head(wire) = [kind |-> "call", val |-> tx.call] /\ Tail(wire) = Args
  <2>1. Rest \in Seq(Tokens) BY <1>4, RestType
  <2>2. wire = Rest BY <1>2, <2>1, StreamEmpty, ConcatEmpty
  <2> QED BY <1>4, <2>2, RestType
<1>6. Value(NoModule, "call", Head(wire)) = tx.call
  <2>1. Kind(NoModule, "call") = "call" BY BuiltInKind DEF BuiltIn
  <2> QED BY <1>5, <2>1 DEF Value
<1>7. /\ stage' = IF tx.call \in DOMAIN meta.calls THEN "args" ELSE "panic"
      /\ g' = [g EXCEPT !.call = tx.call] /\ wire' = Args
  BY <1>5, <1>6 DEF ReadCall
<1>8. /\ DOMAIN g' = DOMAIN Blank /\ g'.extensions = g.extensions /\ g'.call = tx.call
      /\ g'.hash = g.hash
      /\ \A k \in Shows : g'[k] = g[k]
  BY <1>1, <1>7 DEF Blank, Shows
<1>9. /\ Whole'
      /\ Described' <=> Described
      /\ Agreed' <=> Agreed
      /\ Prefixed(Body)' = Prefixed(Body)
      /\ Args' = Args
  BY <1>1, <1>3, SameStatus, SameBody
<1>10. Known' BY <1>1, <1>3, <1>8, <1>9 DEF Known
<1>11. Completes(<<>>, g)'
  <2> DEFINE q == g'
  <2>1. DOMAIN q = DOMAIN g /\ q.extensions = g.extensions /\ \A k \in Shows : q[k] = g[k]
    BY <1>1, <1>8
  <2> HIDE DEF q
  <2>2. Completes(<<>>, q) BY <1>2, <2>1, SameComplete
  <2> QED BY <1>3, <2>2, SameReading DEF q
<1>12. Refused' BY <1>3 DEF Refused
<1>13. stage' \in {"args", "panic"} BY <1>7
<1>14. TypeOK' BY <1>1, <1>3, <1>8, <1>13 DEF TypeOK, ToSet
<1>15. CASE tx.call \in DOMAIN meta.calls
  <2>1. stage' = "args" BY <1>7, <1>15
  <2>2. Read' BY <1>2, <1>3, <1>8, <1>9, <1>10, <1>11, <1>15 DEF Read
  <2>3. Progress' BY <1>7, <1>9, <1>12, <2>1, <2>2 DEF Progress, Done
  <2> QED BY <1>1, <1>3, <1>9, <1>14, <2>3 DEF IInv
<1>16. CASE tx.call \notin DOMAIN meta.calls
  <2>1. stage' = "panic" BY <1>7, <1>16
  <2>2. ~Described BY <1>16 DEF Described
  <2>3. Progress' BY <1>9, <1>12, <2>1, <2>2 DEF Progress, Done
  <2> QED BY <1>1, <1>3, <1>9, <1>14, <2>3 DEF IInv
<1> QED BY <1>15, <1>16

LEMMA ArgsInv ==
  ASSUME IInv, ReadArgs, UNCHANGED tx
  PROVE  IInv'
<1>1. /\ stage = "args" /\ out = <<>> /\ Whole /\ DOMAIN g = DOMAIN Blank /\ todo = <<>>
      /\ Read /\ wire = Args
  BY DEF IInv, ReadArgs, TypeOK, Progress
<1>2. UNCHANGED <<meta, data, wire, version, tx, todo>> /\ out' = <<>> /\ stage' = "decoded"
  BY <1>1 DEF ReadArgs
<1>3. Fits(meta, tx) BY <1>1, Fitting DEF Whole
<1>4. meta.calls[g.call] = [module |-> tx.module, args |-> tx.args]
  BY <1>1, <1>3 DEF Read, Fits
<1>5. ASSUME NEW i \in DOMAIN tx.args
      PROVE  Value(tx.module, tx.args[i], wire[i]) = <<"arg", i>>
  <2>1. wire[i] = [kind |-> Kind(tx.module, tx.args[i]), val |-> <<"arg", i>>]
    BY <1>1 DEF Args
  <2> QED BY <2>1 DEF Value
<1>6. g' = [g EXCEPT !.params = [i \in DOMAIN tx.args |-> <<"arg", i>>]]
  <2> DEFINE c == meta.calls[g.call]
  <2>1. g' = [g EXCEPT !.params = [i \in DOMAIN c.args |->
                                     Value(ArgModule(c), c.args[i], wire[i])]]
    BY DEF ReadArgs
  <2>2. c.args = tx.args /\ ArgModule(c) = tx.module BY <1>4 DEF ArgModule
  <2> HIDE DEF c
  <2>3. [i \in DOMAIN c.args |-> Value(ArgModule(c), c.args[i], wire[i])]
        = [i \in DOMAIN tx.args |-> <<"arg", i>>]
    BY <1>5, <2>2
  <2> QED BY <2>1, <2>3
<1>7. /\ DOMAIN g' = DOMAIN Blank /\ g'.extensions = g.extensions /\ g'.call = g.call
      /\ g'.hash = g.hash /\ g'.params = [i \in DOMAIN tx.args |-> <<"arg", i>>]
      /\ \A k \in Shows : g'[k] = g[k]
  BY <1>1, <1>6 DEF Blank, Shows
<1>8. /\ Whole'
      /\ Agreed' <=> Agreed
      /\ Prefixed(Body)' = Prefixed(Body)
  BY <1>1, <1>2, SameStatus
<1>9. Completes(<<>>, g)'
  <2> DEFINE q == g'
  <2>1. DOMAIN q = DOMAIN g /\ q.extensions = g.extensions /\ \A k \in Shows : q[k] = g[k]
    BY <1>1, <1>7
  <2>2. Completes(<<>>, g) BY <1>1 DEF Read
  <2> HIDE DEF q
  <2>3. Completes(<<>>, q) BY <2>1, <2>2, SameComplete
  <2> QED BY <1>2, <2>3, SameReading DEF q
<1>10. Known' BY <1>1, <1>2, <1>7, <1>8 DEF Known, Read
<1>11. Read' BY <1>1, <1>2, <1>7, <1>8, <1>9, <1>10 DEF Read
<1>12. Refused' BY <1>2 DEF Refused
<1>13. TypeOK' BY <1>1, <1>2, <1>7 DEF TypeOK, ToSet
<1>14. (g.params = [i \in DOMAIN tx.args |-> <<"arg", i>>])' BY <1>2, <1>7
<1>15. Progress' BY <1>2, <1>11, <1>12, <1>14 DEF Progress, Done
<1> QED BY <1>1, <1>2, <1>8, <1>13, <1>15 DEF IInv

(* A record is refused if it names no call, has not as many arguments as   *)
(* its call, or lacks an extension that a general extrinsic of its version *)
(* has bytes for.                                                          *)
LEMMA Refuses ==
  ASSUME NEW r,
         \/ r.call \notin DOMAIN meta.calls
         \/ Len(r.params) # Len(meta.calls[r.call].args)
         \/ version = "45" /\ Missing(r, Layout(r.version).extensions) # {}
  PROVE  ~Encoded(r).ok
<1>1. Failed("panic").ok = FALSE /\ Failed("error").ok = FALSE BY DEF Failed
<1>2. Encoded(r) = Failed("panic") \/ Encoded(r) = Failed("error")
  BY Zenon DEF Encoded
<1> QED BY <1>1, <1>2

(* What a caller may have changed.                                         *)
LEMMA EditKinds ==
  ASSUME NEW r, NEW e \in Edits(r)
  PROVE  /\ e.what = "call" => e.r = [r EXCEPT !.call = None]
         /\ e.what = "param" => e.r = [r EXCEPT !.params = Tail(@)] /\ 1 \in DOMAIN r.params
         /\ e.what = "extension" =>
              e.r = [r EXCEPT !.extensions = [j \in DOMAIN @ \ {e.id} |-> @[j]]]
<1> DEFINE none == [what |-> "none", id |-> "", r |-> r]
           call == [what |-> "call", id |-> "", r |-> [r EXCEPT !.call = None]]
           param == [what |-> "param", id |-> "", r |-> [r EXCEPT !.params = Tail(@)]]
           ext(x) == [what |-> "extension", id |-> x, r |->
                        [r EXCEPT !.extensions = [j \in DOMAIN @ \ {x} |-> @[j]]]]
<1>1. \/ e = none
      \/ e = call
      \/ 1 \in DOMAIN r.params /\ e = param
      \/ \E x \in DOMAIN r.extensions : e = ext(x)
  <2> HIDE DEF none, call, param, ext
  <2>1. Edits(r) = {none, call} \cup {param : i \in {1} \cap DOMAIN r.params}
                     \cup {ext(x) : x \in DOMAIN r.extensions}
    BY Zenon DEF Edits, none, call, param, ext
  <2> QED BY <2>1
<1>2. none.what = "none" OBVIOUS
<1>3. call.what = "call" /\ call.r = [r EXCEPT !.call = None] OBVIOUS
<1>4. param.what = "param" /\ param.r = [r EXCEPT !.params = Tail(@)] OBVIOUS
<1>5. \A x : /\ ext(x).what = "extension" /\ ext(x).id = x
             /\ ext(x).r = [r EXCEPT !.extensions = [j \in DOMAIN @ \ {x} |-> @[j]]]
  OBVIOUS
<1>6. CASE e = none BY <1>2, <1>6
<1>7. CASE e = call
  <2> HIDE DEF none, call, param, ext
  <2> QED BY <1>3, <1>7
<1>8. CASE 1 \in DOMAIN r.params /\ e = param
  <2> HIDE DEF none, call, param, ext
  <2> QED BY <1>4, <1>8
<1>9. ASSUME NEW x \in DOMAIN r.extensions, e = ext(x)
      PROVE  e.what = "extension" /\ e.id = x
             /\ e.r = [r EXCEPT !.extensions = [j \in DOMAIN @ \ {x} |-> @[j]]]
  <2> HIDE DEF none, call, param, ext
  <2> QED BY <1>5, <1>9
<1> HIDE DEF none, call, param, ext
<1> QED BY <1>1, <1>6, <1>7, <1>8, <1>9

LEMMA EncodeInv ==
  ASSUME IInv, Encode, UNCHANGED tx
  PROVE  IInv'
<1>1. /\ stage = "decoded" /\ Whole /\ DOMAIN g = DOMAIN Blank /\ todo = <<>>
      /\ Read /\ g.params = [i \in DOMAIN tx.args |-> <<"arg", i>>]
  BY DEF IInv, Encode, TypeOK, Progress, Done
<1>2. UNCHANGED <<meta, data, wire, version, tx, todo, g>> /\ stage' = "encoded"
  BY <1>1 DEF Encode
<1>3. Fits(meta, tx) BY <1>1, Fitting DEF Whole
<1>4. PICK e \in Edits(g) : out' = [edit |-> e.what, id |-> e.id, result |-> Encoded(e.r)]
  BY DEF Encode
<1>5. /\ None \notin DOMAIN meta.calls /\ g.call = tx.call
      /\ meta.calls[g.call] = [module |-> tx.module, args |-> tx.args]
  BY <1>1, <1>3 DEF Read, Fits
<1>6. ASSUME e.what = "call" PROVE ~Encoded(e.r).ok
  <2>1. e.r = [g EXCEPT !.call = None] BY <1>6, EditKinds
  <2>2. e.r.call = None BY <1>1, <2>1 DEF Blank
  <2> QED BY <1>5, <2>2, Refuses
<1>7. ASSUME e.what = "param" PROVE ~Encoded(e.r).ok
  <2>1. e.r = [g EXCEPT !.params = Tail(@)] /\ 1 \in DOMAIN g.params BY <1>7, EditKinds
  <2>2. e.r.call = g.call /\ e.r.params = Tail(g.params) BY <1>1, <2>1 DEF Blank
  <2>3. Len(Tail(g.params)) # Len(tx.args)
    <3> DEFINE p == g.params  S == {<<"arg", i>> : i \in DOMAIN tx.args}
    <3>1. tx.args \in Seq(STRING) BY <1>3 DEF Fits
    <3>2. DOMAIN tx.args = 1..Len(tx.args) /\ Len(tx.args) \in Nat BY <3>1
    <3>3. p \in [1..Len(tx.args) -> S] BY <1>1, <3>2
    <3>4. p # <<>> BY <2>1
    <3> HIDE DEF p, S
    <3>5. p \in Seq(S) /\ Len(p) = Len(tx.args) BY <3>2, <3>3
    <3>6. Len(Tail(p)) = Len(tx.args) - 1 BY <3>4, <3>5
    <3> QED BY <3>2, <3>6 DEF p
  <2>4. Len(e.r.params) # Len(meta.calls[e.r.call].args)
    <3>1. meta.calls[e.r.call].args = tx.args BY <1>5, <2>2
    <3> QED BY <2>2, <2>3, <3>1
  <2> QED BY <2>4, Refuses
<1>8. ASSUME tx.form = "45", e.what = "extension", Has(e.id) PROVE ~Encoded(e.r).ok
  <2>1. e.r = [g EXCEPT !.extensions = [j \in DOMAIN @ \ {e.id} |-> @[j]]]
    BY <1>8, EditKinds
  <2>2. /\ version = "45" /\ e.r.version = tx.version
        /\ DOMAIN e.r.extensions = DOMAIN g.extensions \ {e.id}
    <3>1. version = "45" BY <1>1, <1>8 DEF Read, Known
    <3>2. g.version = tx.version
      <4>1. Completes(<<>>, g) BY <1>1 DEF Read
      <4>2. "version" \in Shows /\ Needed("version") BY <1>8 DEF Shows, Needed
      <4>3. ToSet(<<>>) = {} BY DEF ToSet
      <4>4. g["version"] = tx["version"] BY <4>1, <4>2, <4>3 DEF Completes
      <4> QED BY <4>4
    <3>3. e.r.version = g.version
          /\ e.r.extensions = [j \in DOMAIN g.extensions \ {e.id} |-> g.extensions[j]]
      BY <1>1, <2>1 DEF Blank
    <3> QED BY <3>1, <3>2, <3>3
  <2>3. Layout(e.r.version).extensions = tx.extensions
    <3>1. Layout(tx.version) = [ok |-> TRUE, extensions |-> tx.extensions]
      BY <1>1, <1>8 DEF Read, Agreed
    <3> QED BY <2>2, <3>1
  <2>4. PICK i \in DOMAIN tx.extensions :
          tx.extensions[i].identifier = e.id /\ tx.extensions[i].type # "NULL"
    BY <1>8 DEF Has
  <2>5. i \in Missing(e.r, Layout(e.r.version).extensions)
    <3>1. e.id \notin DOMAIN e.r.extensions BY <2>2
    <3>2. i \in Missing(e.r, tx.extensions) BY <2>4, <3>1 DEF Missing
    <3> QED BY <2>3, <3>2
  <2> QED BY <2>2, <2>5, Refuses
<1>9. out'.edit = e.what /\ out'.id = e.id /\ out'.result.ok = Encoded(e.r).ok BY <1>4
<1>10. Refused'
  <2>1. Has(out.id)' <=> Has(e.id) BY <1>2, <1>9 DEF Has
  <2> QED BY <1>2, <1>6, <1>7, <1>8, <1>9, <2>1 DEF Refused
<1>11. /\ Whole'
       /\ Agreed' <=> Agreed
       /\ Prefixed(Body)' = Prefixed(Body)
  BY <1>1, <1>2, SameStatus
<1>12. Completes(<<>>, g)' BY <1>1, <1>2, SameReading DEF Read
<1>13. Known' BY <1>1, <1>2, <1>11 DEF Known, Read
<1>14. Read' BY <1>1, <1>2, <1>11, <1>12, <1>13 DEF Read
<1>15. (g.params = [i \in DOMAIN tx.args |-> <<"arg", i>>])' BY <1>1, <1>2
<1>16. TypeOK'
  <2>1. out' # <<>>
    <3>1. out'.edit = e.what BY <1>9
    <3>2. DOMAIN out' = {"edit", "id", "result"} BY <1>4
    <3>3. DOMAIN <<>> = {} OBVIOUS
    <3> QED BY <3>2, <3>3
  <2> QED BY <1>1, <1>2, <2>1 DEF TypeOK, ToSet
<1>17. Progress' BY <1>2, <1>10, <1>14, <1>15 DEF Progress, Done
<1> QED BY <1>1, <1>2, <1>11, <1>16, <1>17 DEF IInv

LEMMA StutterInv ==
  ASSUME IInv, UNCHANGED <<vars, tx>>
  PROVE  IInv'
<1>1. UNCHANGED <<meta, tx, data, wire, stage, todo, version, g, out>> BY DEF vars
<1>2. /\ Whole'
      /\ Described' <=> Described
      /\ Unmatched' <=> Unmatched
      /\ Agreed' <=> Agreed
      /\ Prefixed(Body)' = Prefixed(Body)
      /\ Body' = Body /\ Args' = Args /\ Rest' = Rest
  BY <1>1, SameStatus, SameBody DEF IInv
<1>3. /\ Stream(todo)' = Stream(todo)
      /\ Completes(todo, g)' <=> Completes(todo, g)
      /\ Completes(<<>>, g)' <=> Completes(<<>>, g)
      /\ Stream(Of("layout", tx.extensions))' = Stream(Of("layout", tx.extensions))
  BY <1>1, SameReading
<1>4. Known' <=> Known BY <1>1, <1>2 DEF Known
<1>5. Opening' <=> Opening BY <1>1, <1>2, <1>3 DEF Opening, Token, Field
<1>6. Reading' <=> Reading
  <2>1. (Stream(todo) \o Rest)' = Stream(todo) \o Rest BY <1>2, <1>3
  <2> QED BY <1>1, <1>2, <1>3, <2>1 DEF Reading
<1>7. Read' <=> Read BY <1>1, <1>2, <1>3, <1>4 DEF Read
<1>8. Refused' <=> Refused BY <1>1 DEF Refused, Has
<1>9. TypeOK' BY <1>1 DEF IInv, TypeOK, ToSet
<1>10. Progress' BY <1>1, <1>2, <1>4, <1>5, <1>6, <1>7, <1>8 DEF IInv, Progress, Done
<1> QED BY <1>1, <1>2, <1>9, <1>10 DEF IInv

LEMMA NextInv == IInv /\ [ClientNext]_<<vars, tx>> => IInv'
<1> SUFFICES ASSUME IInv, [ClientNext]_<<vars, tx>> PROVE IInv' OBVIOUS
<1>1. CASE ReadLength /\ UNCHANGED tx BY <1>1, LengthInv
<1>2. CASE ReadVersion /\ UNCHANGED tx BY <1>2, VersionInv
<1>3. CASE ReadField /\ UNCHANGED tx
  <2>1. Known /\ (Opening \/ Reading) BY <1>3 DEF IInv, Progress, ReadField
  <2> QED BY <1>3, <2>1, GeneralInv, FieldInv
<1>4. CASE ReadCall /\ UNCHANGED tx BY <1>4, CallInv
<1>5. CASE ReadArgs /\ UNCHANGED tx BY <1>5, ArgsInv
<1>6. CASE Encode /\ UNCHANGED tx BY <1>6, EncodeInv
<1>7. CASE UNCHANGED <<vars, tx>> BY <1>7, StutterInv
<1> QED BY <1>1, <1>2, <1>3, <1>4, <1>5, <1>6, <1>7 DEF ClientNext, CodecNext

LEMMA Inductive == ClientSpec => []IInv
BY InitInv, NextInv, PTL DEF ClientSpec

-----------------------------------------------------------------------------
(* The theorems *)

LEMMA ExpectedFunction == Expected = [id \in DOMAIN Expected |-> Expected[id]]
<1>1. CASE tx.form = "45" BY <1>1, Zenon DEF Expected
<1>2. CASE tx.form = "84" /\ Legacy BY <1>2, Zenon DEF Expected
<1>3. CASE tx.form = "84" /\ ~Legacy BY <1>3, Zenon DEF Expected
<1>4. CASE tx.form = "85" BY <1>4, Zenon DEF Expected
<1>5. CASE tx.form \notin {"45", "84", "85"}
  <2>1. Expected = <<>> BY <1>5, Zenon DEF Expected
  <2> QED BY <2>1
<1> QED BY <1>1, <1>2, <1>3, <1>4, <1>5

LEMMA InvDecoded == IInv => Decoded
<1> SUFFICES ASSUME IInv, Done PROVE Decoded BY DEF Decoded
<1>1. Known /\ Completes(<<>>, g) /\ g.call = tx.call
      /\ g.params = [i \in DOMAIN tx.args |-> <<"arg", i>>]
  BY DEF IInv, Progress, Read
<1>2. ToSet(<<>>) = {} BY DEF ToSet
<1>3. g.extensions = Expected
  <2>1. /\ g.extensions = [id \in DOMAIN g.extensions |-> Expected[id]]
        /\ DOMAIN g.extensions = DOMAIN Expected
    BY <1>1, <1>2 DEF Completes
  <2> QED BY <2>1, ExpectedFunction
<1>4. \A k \in Shows : Needed(k) => g[k] = tx[k] BY <1>1, <1>2 DEF Completes
<1>5. (Signed \/ (Has(Verify) /\ tx.signer # None)) =>
        g.signer = tx.signer /\ g.signature = tx.signature
  <2>1. Needed("signer") => g["signer"] = tx["signer"] BY <1>4 DEF Shows
  <2>2. Needed("signature") => g["signature"] = tx["signature"] BY <1>4 DEF Shows
  <2> QED BY <2>1, <2>2 DEF Needed
<1>6. (tx.form = "85" \/ (Signed /\ Legacy) \/ Has(Mortality)) => g.era = tx.era
  <2>1. Needed("era") => g["era"] = tx["era"] BY <1>4 DEF Shows
  <2> QED BY <2>1 DEF Needed
<1>7. (tx.form = "85" \/ (Signed /\ Legacy) \/ Has(Nonce)) => g.nonce = tx.nonce
  <2>1. Needed("nonce") => g["nonce"] = tx["nonce"] BY <1>4 DEF Shows
  <2> QED BY <2>1 DEF Needed
<1>8. Paid => g.tip = tx.tip
  <2>1. Needed("tip") => g["tip"] = tx["tip"] BY <1>4 DEF Shows
  <2> QED BY <2>1 DEF Needed
<1>9. tx.form \in {"85", "45"} => g.version = tx.version
  <2>1. Needed("version") => g["version"] = tx["version"] BY <1>4 DEF Shows
  <2> QED BY <2>1 DEF Needed
<1>10. tx.form \in {"84", "85", "45"} => g.hash = Prefixed(Body) BY <1>1 DEF Known
<1> QED BY <1>1, <1>3, <1>5, <1>6, <1>7, <1>8, <1>9, <1>10 DEF Decoded

(* The decoder's stages, the fields of its record and of its preamble: no  *)
(* field is ever queued with a type that is not registered (TypeOK).       *)
THEOREM Typed == ClientSpec => []TypeOK
<1>1. IInv => TypeOK BY DEF IInv
<1> QED BY <1>1, Inductive, PTL

(* Whatever extrinsic of whatever client is decoded to its end shows what  *)
(* the runtime wrote: signer, signature, era, nonce, tip, every extension, *)
(* the call with its arguments and the hash of the bytes (Decoded).        *)
THEOREM DecodesWhatWasWritten == ClientSpec => []Decoded
BY InvDecoded, Inductive, PTL

(* Encode refuses a record that lacks its call, an argument or an          *)
(* extension that a general extrinsic has bytes for (Refused).             *)
THEOREM RefusesIncomplete == ClientSpec => []Refused
<1>1. IInv => Refused BY DEF IInv, Progress
<1> QED BY <1>1, Inductive, PTL

(* An extrinsic that the client's metadata describes is never left with a  *)
(* panic, also when it comes without its length (NoPanic).  That a length  *)
(* is recognized as one takes that every token has a number of bytes.      *)
THEOREM DescribedNeverPanics ==
  ASSUME \A tok : Width(tok) \in Nat
  PROVE  ClientSpec => []NoPanic
<1>1. Sized BY DEF Sized
<1>2. IInv => NoPanic
  <2> SUFFICES ASSUME IInv, stage = "panic", Described PROVE FALSE BY DEF NoPanic
  <2>1. Whole /\ Unmatched BY DEF IInv, Progress
  <2>2. Fits(meta, tx) BY <2>1, Fitting DEF Whole
  <2>3. data = Prefixed(Body) BY <2>1 DEF Whole, Unmatched
  <2>4. Matches(Announced(data), data) BY <1>1, <2>2, <2>3, PrefixMatches
  <2> QED BY <2>1, <2>4 DEF Unmatched
<1> QED BY <1>2, Inductive, PTL

(* No extrinsic that comes with its length is mistaken for a length, and   *)
(* of those without only version 5: bare or general, or signed by a signer *)
(* that does not begin with a zero (OnlyV5Astray).  It takes the sizes of  *)
(* a version byte, a call and a signature.                                 *)
THEOREM OnlyVersion5Astray ==
  ASSUME \A tok : Width(tok) \in Nat, Sizes
  PROVE  ClientSpec => []OnlyV5Astray
<1>1. Sized BY DEF Sized
<1>2. IInv => OnlyV5Astray
  <2> SUFFICES ASSUME IInv, stage = "astray"
               PROVE  /\ ~tx.prefixed /\ tx.form \notin {"04", "84"}
                      /\ tx.form = "85" => Byte(Head(Sign)) # 0
    BY DEF OnlyV5Astray
  <2>1. ~tx.prefixed /\ Matches(Announced(data), data) /\ Whole BY DEF IInv, Progress
  <2>2. data = Body /\ Paired BY <2>1 DEF Whole
  <2>3. Matches(Announced(Body), Body) BY <2>1, <2>2
  <2> QED BY <1>1, <2>1, <2>2, <2>3, NoLength
<1> QED BY <1>2, Inductive, PTL

-----------------------------------------------------------------------------
(* What is written for each element, one after the other *)

Each(G, s) == [i \in DOMAIN s |-> G[s[i]]]
Spread(G, s) == FlattenSeq(Each(G, s))
Distributed(G, a, b) == Spread(G, a \o b) = Spread(G, a) \o Spread(G, b)

Follows(S, a, b, c) ==
  /\ c \in Seq(S) /\ Len(c) = Len(a) + Len(b) /\ Len(a) \in Nat /\ Len(b) \in Nat
  /\ \A i \in 1..(Len(a) + Len(b)) : c[i] = IF i <= Len(a) THEN a[i] ELSE b[i - Len(a)]
Pieced(G, s, T, p) ==
  p \in Seq(Seq(T)) /\ Len(p) = Len(s) /\ \A i \in 1..Len(s) : p[i] = G[s[i]]

LEMMA ConcatFollows ==
  ASSUME NEW S, NEW a \in Seq(S), NEW b \in Seq(S)
  PROVE  Follows(S, a, b, a \o b)
<1>1. Len(a) \in Nat /\ Len(b) \in Nat OBVIOUS
<1> QED BY <1>1, ConcatType DEF Follows

LEMMA EachType ==
  ASSUME NEW S, NEW T, NEW G \in [S -> Seq(T)], NEW s \in Seq(S)
  PROVE  Pieced(G, s, T, Each(G, s))
<1>1. \A i \in 1..Len(s) : G[s[i]] \in Seq(T) BY ElementType
<1>2. DOMAIN s = 1..Len(s) /\ Len(s) \in Nat OBVIOUS
<1> QED BY <1>1, <1>2 DEF Each, Pieced

LEMMA SpreadType ==
  ASSUME NEW S, NEW T, NEW G \in [S -> Seq(T)], NEW s \in Seq(S)
  PROVE  Spread(G, s) \in Seq(T)
<1>1. Each(G, s) \in Seq(Seq(T)) BY EachType DEF Pieced
<1> QED BY <1>1, FlatType DEF Spread

LEMMA SpreadEmpty ==
  ASSUME NEW G
  PROVE  Spread(G, <<>>) = <<>>
<1>1. Each(G, <<>>) = <<>> BY DEF Each
<1> QED BY <1>1, FlatEmpty DEF Spread

LEMMA SpreadOne ==
  ASSUME NEW S, NEW T, NEW G \in [S -> Seq(T)], NEW x \in S
  PROVE  Spread(G, <<x>>) = G[x]
<1>1. Each(G, <<x>>) = <<G[x]>> BY DEF Each
<1>2. FlattenSeq(<<G[x]>>) = G[x] BY FlatOne
<1> QED BY <1>1, <1>2 DEF Spread

LEMMA SpreadConcat ==
  ASSUME NEW S, NEW T, NEW G \in [S -> Seq(T)], NEW a \in Seq(S), NEW b \in Seq(S)
  PROVE  Distributed(G, a, b)
<1> DEFINE c == a \o b  p == Each(G, a)  q == Each(G, b)  r == Each(G, c)
<1>1. Follows(S, a, b, c) BY ConcatFollows
<1>2. c \in Seq(S) BY <1>1 DEF Follows
<1> HIDE DEF c
<1>3. Pieced(G, a, T, p) /\ Pieced(G, b, T, q) /\ Pieced(G, c, T, r) BY <1>2, EachType
<1> HIDE DEF p, q, r
<1>4. r = p \o q
  <2> DEFINE z == p \o q
  <2>0. p \in Seq(Seq(T)) /\ q \in Seq(Seq(T)) BY <1>3 DEF Pieced
  <2>1. Follows(Seq(T), p, q, z) BY <2>0, ConcatFollows
  <2> HIDE DEF z
  <2>2. ASSUME NEW i \in 1..(Len(a) + Len(b)) PROVE r[i] = z[i]
    <3>1. i <= Len(a) => i \in 1..Len(a) BY <1>1 DEF Follows
    <3>2. ~ (i <= Len(a)) => i - Len(a) \in 1..Len(b) BY <1>1 DEF Follows
    <3>3. CASE i <= Len(a)
      <4>1. z[i] = p[i] /\ c[i] = a[i] BY <1>1, <1>3, <2>1, <3>3 DEF Follows, Pieced
      <4> QED BY <1>1, <1>3, <3>1, <3>3, <4>1 DEF Follows, Pieced
    <3>4. CASE ~ (i <= Len(a))
      <4>1. z[i] = q[i - Len(a)] /\ c[i] = b[i - Len(a)] BY <1>1, <1>3, <2>1, <3>4 DEF Follows, Pieced
      <4> QED BY <1>1, <1>3, <3>2, <3>4, <4>1 DEF Follows, Pieced
    <3> QED BY <3>3, <3>4
  <2>3. r \in Seq(Seq(T)) /\ z \in Seq(Seq(T)) /\ Len(r) = Len(a) + Len(b) /\ Len(z) = Len(r)
    BY <1>1, <1>3, <2>1 DEF Follows, Pieced
  <2>4. r = z BY <2>2, <2>3, EqualSeqs
  <2> QED BY <2>4 DEF z
<1>5. FlattenSeq(p \o q) = FlattenSeq(p) \o FlattenSeq(q) BY <1>3, FlatConcat DEF Pieced
<1> QED BY <1>4, <1>5 DEF c, p, q, r, Distributed, Spread

LEMMA SpreadNothing ==
  ASSUME NEW S, NEW T, NEW G \in [S -> Seq(T)], NEW s \in Seq(S),
         \A x \in ToSet(s) : G[x] = <<>>
  PROVE  Spread(G, s) = <<>>
<1> DEFINE p == Each(G, s)  r == FlattenSeq(p)
<1>1. p \in Seq(Seq(T)) /\ \A i \in DOMAIN p : p[i] = <<>>
  <2>1. \A i \in DOMAIN s : s[i] \in ToSet(s) BY InRange
  <2>2. Pieced(G, s, T, p) BY EachType
  <2> HIDE DEF p
  <2>3. DOMAIN p = DOMAIN s /\ DOMAIN s = 1..Len(s) BY <2>2 DEF Pieced
  <2> QED BY <2>1, <2>2, <2>3 DEF Pieced
<1>2. ToSet(<<>>) = {} BY DEF ToSet
<1> HIDE DEF p
<1>3. r \in Seq(T) BY <1>1, FlatType
<1>4. \A x : x \notin ToSet(r) BY <1>1, <1>2, FlatRange
<1> HIDE DEF r
<1>5. r = <<>>
  <2>1. \A i \in 1..Len(r) : r[i] \in ToSet(r) BY <1>3, InRange
  <2>2. Len(r) = 0 BY <1>3, <1>4, <2>1
  <2> QED BY <1>3, <2>2
<1> QED BY <1>5 DEF r, p, Spread

LEMMA SpreadSame ==
  ASSUME NEW S, NEW s \in Seq(S), NEW G, NEW H, \A x \in ToSet(s) : G[x] = H[x]
  PROVE  Spread(G, s) = Spread(H, s)
<1>1. \A i \in DOMAIN s : G[s[i]] = H[s[i]] BY InRange
<1>2. Each(G, s) = Each(H, s) BY <1>1 DEF Each
<1> QED BY <1>2 DEF Spread

(* Pieces of one element each are the sequence itself.                     *)
LEMMA FlatSingles ==
  ASSUME NEW S, NEW a \in Seq(S)
  PROVE  FlattenSeq([i \in DOMAIN a |-> <<a[i]>>]) = a
<1> DEFINE ss == [i \in DOMAIN a |-> <<a[i]>>]
           f == [n \in 0..Len(a) |-> SubSeq(a, 1, n)]
<1>1. Len(a) \in Nat /\ DOMAIN a = 1..Len(a) OBVIOUS
<1>2. ss \in Seq(Seq(S)) /\ Len(ss) = Len(a) /\ \A i \in 1..Len(a) : ss[i] = <<a[i]>>
  <2>1. \A i \in 1..Len(a) : <<a[i]>> \in Seq(S) BY ElementType
  <2> QED BY <1>1, <2>1
<1>3. f \in [0..Len(a) -> Seq(S)] /\ f[0] = <<>> /\ f[Len(a)] = a OBVIOUS
<1>4. ASSUME NEW i \in 1..Len(a) PROVE f[i] = f[i - 1] \o ss[i]
  <2>1. f[i] = SubSeq(a, 1, i) /\ f[i - 1] = SubSeq(a, 1, i - 1) BY <1>1
  <2>2. SubSeq(a, 1, i) = SubSeq(a, 1, i - 1) \o <<a[i]>>
    <3> DEFINE p == SubSeq(a, 1, i)  q == SubSeq(a, 1, i - 1)  e == <<a[i]>>
    <3>1. p \in Seq(S) /\ Len(p) = i /\ \A k \in 1..i : p[k] = a[k] BY <1>1
    <3>2. q \in Seq(S) /\ Len(q) = i - 1 /\ \A k \in 1..(i - 1) : q[k] = a[k] BY <1>1
    <3>3. a[i] \in S BY ElementType
    <3>4. e \in Seq(S) /\ Len(e) = 1 /\ e[1] = a[i] BY <3>3
    <3> HIDE DEF p, q, e
    <3> DEFINE z == q \o e
    <3>5. z \in Seq(S) /\ Len(z) = i
          /\ \A k \in 1..i : z[k] = IF k <= i - 1 THEN q[k] ELSE e[k - (i - 1)]
      <4>1. Follows(S, q, e, z) BY <3>2, <3>4, ConcatFollows
      <4> HIDE DEF z
      <4>2. (i - 1) + 1 = i OBVIOUS
      <4> QED BY <3>2, <3>4, <4>1, <4>2 DEF Follows
    <3> HIDE DEF z
    <3>6. ASSUME NEW k \in 1..i PROVE p[k] = z[k]
      <4>1. k <= i - 1 => k \in 1..(i - 1) OBVIOUS
      <4>2. ~ (k <= i - 1) => k = i /\ k - (i - 1) = 1 OBVIOUS
      <4> QED BY <3>1, <3>2, <3>4, <3>5, <4>1, <4>2
    <3>7. p = z BY <3>1, <3>5, <3>6, EqualSeqs
    <3> QED BY <3>7 DEF p, q, e, z
  <2> QED BY <1>2, <2>1, <2>2
<1> HIDE DEF ss, f
<1>5. Parts(ss, f) BY <1>2, <1>3, <1>4 DEF Parts
<1>6. FlattenSeq(ss) = f[Len(ss)] BY <1>2, <1>3, <1>5, FlatParts
<1> QED BY <1>2, <1>3, <1>6 DEF ss
-----------------------------------------------------------------------------
(* Extensions without a type, and the order of the others *)

(* What writes nothing for an extension without a type writes the same     *)
(* with and without them.                                                  *)
LEMMA SpreadNulls ==
  ASSUME NEW T, NEW G \in [Ext -> Seq(T)], \A x \in Ext : x.type = "NULL" => G[x] = <<>>,
         NEW s \in Seq(Ext)
  PROVE  Spread(G, WithExtra(s)) = Spread(G, s)
<1> DEFINE Same(a) == Spread(G, WithExtra(a)) = Spread(G, a)
           N == {n \in Nat : \A a \in Seq(Ext) : Len(a) = n => Same(a)}
<1>1. ASSUME NEW a \in Seq(Ext), Len(a) = 0 PROVE Same(a)
  <2>1. a = <<>> BY <1>1
  <2>2. WithExtra(<<>>) = <<>>
    <3>1. [i \in DOMAIN <<>> |-> IF <<>>[i].type = "NULL" THEN <<>> ELSE <<(<<>>)[i]>>] = <<>>
      OBVIOUS
    <3> QED BY <3>1, FlatEmpty DEF WithExtra
  <2> QED BY <2>1, <2>2
<1>2. ASSUME NEW a \in Seq(Ext), a # <<>>, Same(Tail(a)) PROVE Same(a)
  <2> DEFINE h == Head(a)  t == Tail(a)  o == <<h>>  w == WithExtra(t)
  <2>1. h \in Ext /\ t \in Seq(Ext) /\ o \in Seq(Ext) /\ a = o \o t BY <1>2
  <2>2. w \in Seq(Ext) BY <2>1, WithExtraSet
  <2>3. Spread(G, o) = G[h] BY <2>1, SpreadOne
  <2>4. WithExtra(a) = IF h.type = "NULL" THEN <<>> \o w ELSE o \o w
    <3>1. WithExtra(a) = (IF h.type = "NULL" THEN <<>> ELSE o) \o w BY <1>2, WithExtraHead
    <3> QED BY <3>1
  <2>5. h.type = "NULL" => G[h] = <<>> BY <2>1
  <2>6. Spread(G, w) = Spread(G, t) BY <1>2
  <2> HIDE DEF h, t, o, w
  <2>7. Spread(G, t) \in Seq(T) BY <2>1, SpreadType
  <2>8. Spread(G, a) = Spread(G, o) \o Spread(G, t)
    <3>1. Distributed(G, o, t) BY <2>1, SpreadConcat
    <3> QED BY <2>1, <3>1 DEF Distributed
  <2>9. CASE h.type = "NULL"
    <3>1. WithExtra(a) = w BY <2>2, <2>4, <2>9
    <3>2. Spread(G, a) = Spread(G, t) BY <2>3, <2>5, <2>7, <2>8, <2>9
    <3> QED BY <2>6, <3>1, <3>2
  <2>10. CASE h.type # "NULL"
    <3>1. Distributed(G, o, w) BY <2>1, <2>2, SpreadConcat
    <3>2. Spread(G, WithExtra(a)) = Spread(G, o) \o Spread(G, w)
      BY <2>4, <2>10, <3>1 DEF Distributed
    <3> QED BY <2>6, <2>8, <3>2
  <2> QED BY <2>9, <2>10
<1>3. Len(s) \in N
  <2> HIDE DEF Same
  <2>1. 0 \in N BY <1>1
  <2>2. ASSUME NEW n \in Nat, n \in N PROVE n + 1 \in N
    <3>1. ASSUME NEW a \in Seq(Ext), Len(a) = n + 1 PROVE Same(a)
      <4>1. a # <<>> /\ Tail(a) \in Seq(Ext) /\ Len(Tail(a)) = n BY <3>1
      <4>2. Same(Tail(a)) BY <2>2, <4>1
      <4> QED BY <1>2, <4>1, <4>2
    <3> QED BY <3>1
  <2> HIDE DEF N
  <2>3. Nat \subseteq N BY <2>1, <2>2, SetInduction
  <2>4. Len(s) \in Nat OBVIOUS
  <2> QED BY <2>3, <2>4
<1>4. Same(s)
  <2> HIDE DEF Same
  <2> QED BY <1>3
<1> QED BY <1>4

Distinct(s) ==
  \A i, j \in DOMAIN s : s[i].identifier = s[j].identifier => i = j

LEMMA DistinctTail ==
  ASSUME NEW s \in Seq(Ext), s # <<>>, Distinct(s)
  PROVE  /\ Distinct(Tail(s))
         /\ \A x \in ToSet(Tail(s)) : x.identifier # Head(s).identifier
<1> DEFINE t == Tail(s)
<1>1. /\ t \in Seq(Ext) /\ DOMAIN s = 1..Len(s) /\ DOMAIN t = 1..(Len(s) - 1) /\ Len(s) \in Nat
      /\ Len(s) # 0 /\ Head(s) = s[1] /\ \A i \in 1..(Len(s) - 1) : t[i] = s[i + 1]
  OBVIOUS
<1> HIDE DEF t
<1>2. ASSUME NEW i \in DOMAIN t, NEW j \in DOMAIN t, t[i].identifier = t[j].identifier
      PROVE  i = j
  <2>1. i + 1 \in DOMAIN s /\ j + 1 \in DOMAIN s /\ t[i] = s[i + 1] /\ t[j] = s[j + 1]
    BY <1>1
  <2>2. i + 1 = j + 1 BY <1>2, <2>1 DEF Distinct
  <2> QED BY <1>1, <2>2
<1>3. ASSUME NEW x \in ToSet(t) PROVE x.identifier # Head(s).identifier
  <2>1. PICK i \in DOMAIN t : t[i] = x BY <1>1, InRange
  <2>2. i + 1 \in DOMAIN s /\ 1 \in DOMAIN s /\ x = s[i + 1] /\ i + 1 # 1 BY <1>1, <2>1
  <2> QED BY <1>1, <2>2 DEF Distinct
<1> QED BY <1>2, <1>3 DEF t, Distinct

LEMMA DistinctHead ==
  ASSUME NEW x \in Ext, NEW s \in Seq(Ext), Distinct(s),
         \A y \in ToSet(s) : y.identifier # x.identifier
  PROVE  Distinct(<<x>> \o s)
<1> DEFINE o == <<x>>  c == o \o s
<1>1. o \in Seq(Ext) /\ Len(o) = 1 /\ o[1] = x OBVIOUS
<1>2. Follows(Ext, o, s, c) BY <1>1, ConcatFollows
<1> HIDE DEF o, c
<1>3. DOMAIN c = 1..(1 + Len(s)) /\ DOMAIN s = 1..Len(s) /\ Len(s) \in Nat
  BY <1>1, <1>2 DEF Follows
<1>4. c[1] = x /\ \A i \in 2..(1 + Len(s)) : i - 1 \in DOMAIN s /\ c[i] = s[i - 1]
  BY <1>1, <1>2, <1>3 DEF Follows
<1>5. ASSUME NEW i \in DOMAIN c, NEW j \in DOMAIN c, c[i].identifier = c[j].identifier
      PROVE  i = j
  <2>1. \A k \in DOMAIN c : k # 1 => k \in 2..(1 + Len(s)) BY <1>3
  <2>2. \A k \in 2..(1 + Len(s)) : c[k].identifier # x.identifier
    <3>1. \A k \in DOMAIN s : s[k] \in ToSet(s) BY InRange
    <3> QED BY <1>4, <3>1
  <2>3. ASSUME i # 1, j # 1 PROVE i = j
    <3>1. i - 1 = j - 1 BY <1>4, <1>5, <2>1, <2>3 DEF Distinct
    <3> QED BY <1>3, <3>1
  <2> QED BY <1>4, <1>5, <2>1, <2>2, <2>3
<1> QED BY <1>5 DEF Distinct, c, o

LEMMA WithExtraDistinct ==
  ASSUME NEW s \in Seq(Ext), Distinct(s)
  PROVE  Distinct(WithExtra(s))
<1> DEFINE Same(a) == Distinct(a) => Distinct(WithExtra(a))
           N == {n \in Nat : \A a \in Seq(Ext) : Len(a) = n => Same(a)}
<1>1. ASSUME NEW a \in Seq(Ext), Len(a) = 0 PROVE Same(a)
  <2>1. a = <<>> BY <1>1
  <2>2. [i \in DOMAIN <<>> |-> IF <<>>[i].type = "NULL" THEN <<>> ELSE <<(<<>>)[i]>>] = <<>>
    OBVIOUS
  <2>3. WithExtra(<<>>) = <<>> BY <2>2, FlatEmpty DEF WithExtra
  <2> QED BY <2>1, <2>3
<1>2. ASSUME NEW a \in Seq(Ext), a # <<>>, Same(Tail(a)), Distinct(a)
      PROVE  Distinct(WithExtra(a))
  <2> DEFINE h == Head(a)  w == WithExtra(Tail(a))
  <2>1. h \in Ext /\ Tail(a) \in Seq(Ext) BY <1>2
  <2>2. w \in Seq(Ext) /\ \A x \in ToSet(w) : x \in ToSet(Tail(a)) BY <2>1, WithExtraSet
  <2>3. Distinct(w) /\ \A x \in ToSet(w) : x.identifier # h.identifier
    BY <1>2, <2>2, DistinctTail
  <2>4. WithExtra(a) = (IF h.type = "NULL" THEN <<>> ELSE <<h>>) \o w BY <1>2, WithExtraHead
  <2> HIDE DEF h, w
  <2>5. <<>> \o w = w BY <2>2
  <2>6. Distinct(<<h>> \o w) BY <2>1, <2>2, <2>3, DistinctHead
  <2> QED BY <2>3, <2>4, <2>5, <2>6
<1>3. Len(s) \in N
  <2> HIDE DEF Same
  <2>1. 0 \in N BY <1>1
  <2>2. ASSUME NEW n \in Nat, n \in N PROVE n + 1 \in N
    <3>1. ASSUME NEW a \in Seq(Ext), Len(a) = n + 1 PROVE Same(a)
      <4>1. a # <<>> /\ Tail(a) \in Seq(Ext) /\ Len(Tail(a)) = n BY <3>1
      <4>2. Same(Tail(a)) BY <2>2, <4>1
      <4> QED BY <1>2, <4>1, <4>2 DEF Same
    <3> QED BY <3>1
  <2> HIDE DEF N
  <2>3. Nat \subseteq N BY <2>1, <2>2, SetInduction
  <2>4. Len(s) \in Nat OBVIOUS
  <2> QED BY <2>3, <2>4
<1>4. Same(s)
  <2> HIDE DEF Same
  <2> QED BY <1>3
<1> QED BY <1>4
-----------------------------------------------------------------------------
(* What is written back *)

LEMMA WriteBuiltIn ==
  ASSUME NEW t \in BuiltIn \ {"NULL"}, NEW x
  PROVE  Write(t, x) = Token(t, x)
<1>1. Kind(NoModule, t) = t BY BuiltInKind
<1> QED BY <1>1 DEF Write

LEMMA WritePlain ==
  ASSUME NEW t, Plain(t), NEW x
  PROVE  Write(t, x) = IF t = "NULL" THEN <<>> ELSE Token(t, x)
<1>1. Kind(NoModule, t) = t BY PlainKind
<1> QED BY <1>1 DEF Write

LEMMA ArgsBack ==
  ASSUME Fits(meta, tx), NEW r, r.params = [i \in DOMAIN tx.args |-> <<"arg", i>>],
         \A i \in DOMAIN tx.args : Kind(tx.module, tx.args[i]) = Kind(NoModule, tx.args[i])
  PROVE  FlattenSeq([i \in DOMAIN tx.args |-> Write(tx.args[i], r.params[i])]) = Args
<1> DEFINE a == Args
<1>1. a \in Seq(Tokens) /\ DOMAIN a = DOMAIN tx.args BY RestType
<1>2. ASSUME NEW i \in DOMAIN tx.args PROVE Write(tx.args[i], r.params[i]) = <<a[i]>>
  <2>1. tx.args[i] # "NULL" BY DEF Fits, ToSet
  <2>2. a[i] = [kind |-> Kind(tx.module, tx.args[i]), val |-> <<"arg", i>>] BY DEF Args
  <2>3. Kind(tx.module, tx.args[i]) = Kind(NoModule, tx.args[i]) /\ r.params[i] = <<"arg", i>>
    OBVIOUS
  <2> HIDE DEF a
  <2> QED BY <2>1, <2>2, <2>3 DEF Write, Token
<1> HIDE DEF a
<1>3. [i \in DOMAIN tx.args |-> Write(tx.args[i], r.params[i])] = [i \in DOMAIN a |-> <<a[i]>>]
  BY <1>1, <1>2
<1>4. FlattenSeq([i \in DOMAIN a |-> <<a[i]>>]) = a BY <1>1, FlatSingles
<1> QED BY <1>3, <1>4 DEF a

LEMMA SignerBack ==
  ASSUME NEW r, r.signer = tx.signer, r.signature = tx.signature,
         (meta.version >= 14 /\ meta.hasSigner) \/ meta.address = "AccountId"
  PROVE  WriteSigner(r) = Sign
<1> DEFINE t == SignerType("AccountId")
<1>1. t = IF meta.version >= 14 /\ meta.hasSigner THEN "ExtrinsicSigner" ELSE meta.address
  BY DEF SignerType
<1>2. t \in BuiltIn \ {"NULL"} BY DEF SignerType, BuiltIn
<1>3. Write("ExtrinsicSignature", tx.signature) = Token("ExtrinsicSignature", tx.signature)
  <2>1. "ExtrinsicSignature" \in BuiltIn \ {"NULL"} BY DEF BuiltIn
  <2> QED BY <2>1, WriteBuiltIn
<1> HIDE DEF t
<1>4. Write(t, tx.signer) = Token(t, tx.signer) BY <1>2, WriteBuiltIn
<1> QED BY <1>1, <1>3, <1>4 DEF t, WriteSigner, Sign

LEMMA EraNonceBack ==
  ASSUME NEW r, r.era = tx.era, r.nonce = tx.nonce
  PROVE  WriteEraNonce(r) = Common
<1>1. "EraExtrinsic" \in BuiltIn \ {"NULL"} /\ "Compact<U64>" \in BuiltIn \ {"NULL"} BY DEF BuiltIn
<1>2. /\ Write("EraExtrinsic", tx.era) = Token("EraExtrinsic", tx.era)
      /\ Write("Compact<U64>", tx.nonce) = Token("Compact<U64>", tx.nonce)
  BY <1>1, WriteBuiltIn
<1> QED BY <1>2 DEF WriteEraNonce, Common

(* A general extrinsic is written by its layout.                           *)
LEMMA GeneralBack ==
  ASSUME Fits(meta, tx), Agreed, tx.form = "45",
         NEW r, r.extensions = Expected, r.version = tx.version
  PROVE  Written45(r) = WrittenPreamble /\ Missing(r, Layout(r.version).extensions) = {}
<1> DEFINE l == tx.extensions  e == r.extensions
           p == [i \in DOMAIN l |-> IF l[i].identifier \in DOMAIN e
                                    THEN Write(l[i].type, e[l[i].identifier]) ELSE <<>>]
           q == [i \in DOMAIN l |-> IF l[i].type = "NULL" THEN <<>>
                                    ELSE Token(l[i].type, Shown(l[i].identifier))]
<1>1. Layout(r.version).extensions = l BY DEF Agreed
<1>2. l \in Seq(Ext) /\ \A x \in ToSet(l) : Plain(x.type) BY LayoutWritten
<1>3. e = [id \in ToSet(Identifiers(l)) |-> IF Has(id) THEN Shown(id) ELSE None]
  BY Zenon DEF Expected
<1>4. \A i \in DOMAIN l : l[i].identifier \in ToSet(Identifiers(l)) BY DEF Identifiers, ToSet
<1>5. ASSUME NEW i \in DOMAIN l PROVE p[i] = q[i]
  <2>1. l[i] \in ToSet(l) BY <1>2, InRange
  <2>2. Plain(l[i].type) BY <1>2, <2>1
  <2>3. Has(l[i].identifier) <=> l[i].type # "NULL" BY <2>1, HasType
  <2>4. Write(l[i].type, e[l[i].identifier]) =
          IF l[i].type = "NULL" THEN <<>> ELSE Token(l[i].type, e[l[i].identifier])
    BY <2>2, WritePlain
  <2>5. l[i].identifier \in DOMAIN e
        /\ (Has(l[i].identifier) => e[l[i].identifier] = Shown(l[i].identifier))
    BY <1>3, <1>4
  <2> QED BY <2>3, <2>4, <2>5
<1>6. p = q BY <1>5
<1>7. Missing(r, l) = {} BY <1>3, <1>4 DEF Missing
<1>8. Write("U8", r.version) = Token("U8", tx.version)
  <2>1. "U8" \in BuiltIn \ {"NULL"} BY DEF BuiltIn
  <2> QED BY <2>1, WriteBuiltIn
<1>9. Written45(r) = Write("U8", r.version) \o FlattenSeq(p) BY <1>1 DEF Written45
<1>10. WriteExtensions(l) = FlattenSeq(q) BY DEF WriteExtensions
<1>11. WrittenPreamble = Token("U8", tx.version) \o WriteExtensions(l)
  BY Zenon DEF WrittenPreamble
<1> HIDE DEF p, q, l, e
<1> QED BY <1>1, <1>6, <1>7, <1>8, <1>9, <1>10, <1>11

LEMMA EnabledKinds ==
  ASSUME NEW r, NEW x
  PROVE  /\ x.identifier = Payment => WriteEnabled(r, x) = Write("Compact<Balance>", r.tip)
         /\ x.identifier = Nonce => WriteEnabled(r, x) = Write("Compact<U64>", r.nonce)
         /\ x.identifier \notin {Payment, Nonce} /\ x.identifier \in DOMAIN r.extensions =>
              WriteEnabled(r, x) = Write(x.type, r.extensions[x.identifier])
<1> DEFINE first == x.identifier = Payment
           second == x.identifier = Nonce
           third == x.identifier \in DOMAIN r.extensions \ {Payment, Nonce}
           a == Write("Compact<Balance>", r.tip)
           b == Write("Compact<U64>", r.nonce)
           c == Write(x.type, r.extensions[x.identifier])
<1>1. WriteEnabled(r, x) = CASE first -> a [] second -> b [] third -> c [] OTHER -> <<>>
  BY DEF WriteEnabled
<1>2. ~ (first /\ second) /\ ~ (first /\ third) /\ ~ (second /\ third)
  <2>1. Nonce # Payment BY DEF Nonce, Payment
  <2> QED BY <2>1
<1>3. x.identifier \notin {Payment, Nonce} /\ x.identifier \in DOMAIN r.extensions => third
  OBVIOUS
<1> HIDE DEF first, second, third, a, b, c
<1>4. first => WriteEnabled(r, x) = a BY <1>1, <1>2, Zenon
<1>5. second => WriteEnabled(r, x) = b BY <1>1, <1>2, Zenon
<1>6. third => WriteEnabled(r, x) = c BY <1>1, <1>2, Zenon
<1> QED BY <1>3, <1>4, <1>5, <1>6 DEF first, second, a, b, c

(* A signed extrinsic of version 5 is written by the enabled extensions.   *)
LEMMA SignedV5Back ==
  ASSUME Fits(meta, tx), tx.form = "85", ~Nil,
         (meta.version >= 14 /\ meta.hasSigner) \/ meta.address = "AccountId",
         NEW r, r.extensions = Expected, r.version = tx.version,
         r.signer = tx.signer, r.signature = tx.signature,
         r.era = tx.era, r.nonce = tx.nonce, Paid => r.tip = tx.tip
  PROVE  Written85(r) = WrittenPreamble
<1> DEFINE l == Enabled(tx.extensions)  e == r.extensions
           p == [i \in DOMAIN l |-> WriteEnabled(r, l[i])]
           q == [i \in DOMAIN l |-> IF l[i].type = "NULL" THEN <<>>
                                    ELSE Token(l[i].type, Shown(l[i].identifier))]
<1>0. meta.extrinsic.signed = tx.extensions BY DEF Fits, Nil
<1>1. tx.extensions \in Seq(Ext) /\ \A x \in ToSet(tx.extensions) : Plain(x.type)
  BY LayoutWritten
<1>2. l \in Seq(Ext) /\ \A x \in ToSet(l) : x \in ToSet(tx.extensions) BY <1>1, EnabledSet
<1>3. e = [id \in ToSet(Identifiers(l)) \ {Nonce, Payment} |->
             IF Has(id) THEN Shown(id) ELSE None]
  BY Zenon DEF Expected
<1>4. \A i \in DOMAIN l : l[i].identifier \in ToSet(Identifiers(l)) BY DEF Identifiers, ToSet
<1>5. ASSUME NEW i \in DOMAIN l PROVE p[i] = q[i]
  <2> DEFINE x == l[i]
  <2>1. x \in ToSet(tx.extensions) /\ x.identifier \in ToSet(Identifiers(l))
    BY <1>2, <1>4, InRange
  <2>2. Plain(x.type) BY <1>1, <2>1
  <2>3. /\ Has(x.identifier) <=> x.type # "NULL"
        /\ x.identifier \in Named => x.type # "NULL"
    BY <2>1, HasType
  <2>4. p[i] = WriteEnabled(r, x)
        /\ q[i] = IF x.type = "NULL" THEN <<>> ELSE Token(x.type, Shown(x.identifier))
    OBVIOUS
  <2> HIDE DEF x, p, q
  <2>5. CASE x.identifier = Payment
    <3>1. x.type = "Compact<Balance>" BY <2>1, <2>5 DEF Fits, Nil
    <3>2. Paid BY <2>3, <2>5 DEF Paid, Named
    <3>3. Shown(x.identifier) = tx.tip BY <2>5, ShownNamed
    <3>4. WriteEnabled(r, x) = Write("Compact<Balance>", tx.tip) BY <2>5, <3>2, EnabledKinds
    <3>5. "Compact<Balance>" \in BuiltIn \ {"NULL"} BY DEF BuiltIn
    <3> QED BY <2>4, <3>1, <3>3, <3>4, <3>5, WriteBuiltIn
  <2>6. CASE x.identifier = Nonce
    <3>1. x.type = "Compact<U64>" BY <2>1, <2>6 DEF Fits, Nil
    <3>2. Shown(x.identifier) = tx.nonce BY <2>6, ShownNamed
    <3>4. WriteEnabled(r, x) = Write("Compact<U64>", tx.nonce) BY <2>6, EnabledKinds
    <3>5. "Compact<U64>" \in BuiltIn \ {"NULL"} BY DEF BuiltIn
    <3> QED BY <2>4, <3>1, <3>2, <3>4, <3>5, WriteBuiltIn
  <2>7. CASE x.identifier \notin {Payment, Nonce}
    <3>1. x.identifier \in DOMAIN e
          /\ (Has(x.identifier) => e[x.identifier] = Shown(x.identifier))
      BY <1>3, <2>1, <2>7
    <3>2. WriteEnabled(r, x) = Write(x.type, e[x.identifier])
      BY <2>7, <3>1, EnabledKinds
    <3>3. Write(x.type, e[x.identifier]) =
            IF x.type = "NULL" THEN <<>> ELSE Token(x.type, e[x.identifier])
      BY <2>2, WritePlain
    <3> QED BY <2>3, <2>4, <3>1, <3>2, <3>3
  <2> QED BY <2>5, <2>6, <2>7
<1>6. p = q BY <1>5
<1>7. Write("U8", r.version) = Token("U8", tx.version)
  <2>1. "U8" \in BuiltIn \ {"NULL"} BY DEF BuiltIn
  <2> QED BY <2>1, WriteBuiltIn
<1>8. WriteSigner(r) = Sign /\ WriteEraNonce(r) = Common BY SignerBack, EraNonceBack
<1>9. Written85(r) = WriteSigner(r) \o Write("U8", r.version) \o WriteEraNonce(r) \o FlattenSeq(p)
  BY <1>0 DEF Written85
<1>10. WriteExtensions(l) = FlattenSeq(q) BY DEF WriteExtensions
<1>11. WrittenPreamble = Sign \o Token("U8", tx.version) \o Common \o WriteExtensions(l)
  BY PreambleV5Type
<1> HIDE DEF p, q, l, e
<1> QED BY <1>6, <1>7, <1>8, <1>9, <1>10, <1>11
(* A signed extrinsic of version 4, before version 14 of the metadata, has *)
(* no extensions of its own.                                               *)
LEMMA LegacyBack ==
  ASSUME Fits(meta, tx), tx.form = "84", meta.version < 14, ~Nil, Additional = <<>>,
         meta.address = "AccountId",
         NEW r, r.extensions = Expected, r.signer = tx.signer, r.signature = tx.signature,
         r.era = tx.era, r.nonce = tx.nonce, Paid => r.tip = tx.tip
  PROVE  Written84(r) = WrittenPreamble
<1> DEFINE l == meta.extrinsic.signed  e == r.extensions  G == [x \in Ext |-> <<>>]
           p == [i \in DOMAIN l |->
                   IF l[i].identifier \in DOMAIN e
                      /\ ShouldEncode(l[i].identifier, e[l[i].identifier])
                   THEN Write(l[i].type, e[l[i].identifier]) ELSE <<>>]
           tip == IF Listed(Payment) THEN Write("Compact<Balance>", r.tip) ELSE <<>>
           told == [i \in DOMAIN Additional |-> Token(Additional[i].type, tx.value)]
<1>1. l \in Seq(Ext) BY DEF Fits, Nil
<1>2. DOMAIN e = {}
  <2>1. e = [id \in {Additional[i].id : i \in DOMAIN Additional} |-> tx.value]
    BY Zenon DEF Expected, Legacy
  <2>2. DOMAIN Additional = {} OBVIOUS
  <2> QED BY <2>1, <2>2
<1>3. FlattenSeq(p) = <<>>
  <2>1. G \in [Ext -> Seq(Items)] /\ \A x \in ToSet(l) : G[x] = <<>>
    <3>1. ToSet(l) \subseteq Ext BY <1>1, InRange
    <3> QED BY <3>1
  <2>2. p = Each(G, l)
    <3>1. \A i \in DOMAIN l : l[i] \in Ext BY <1>1, InRange
    <3>2. \A i \in DOMAIN l : p[i] = <<>> BY <1>2
    <3> HIDE DEF l, e
    <3> QED BY <3>1, <3>2 DEF Each
  <2> HIDE DEF G, p, l
  <2>3. Spread(G, l) = <<>> BY <1>1, <2>1, SpreadNothing
  <2> QED BY <2>2, <2>3 DEF Spread
<1>4. FlattenSeq(told) = <<>>
  <2>1. told = <<>> OBVIOUS
  <2> QED BY <2>1, FlatEmpty
<1>5. tip = IF Nil \/ Listed(Payment) THEN Token("Compact<Balance>", tx.tip) ELSE <<>>
  <2>1. "Compact<Balance>" \in BuiltIn \ {"NULL"} BY DEF BuiltIn
  <2>2. Write("Compact<Balance>", r.tip) = Token("Compact<Balance>", r.tip)
    BY <2>1, WriteBuiltIn
  <2>3. Listed(Payment) => Paid BY DEF Paid, Legacy
  <2> QED BY <2>2, <2>3
<1>6. WriteSigner(r) = Sign /\ WriteEraNonce(r) = Common BY SignerBack, EraNonceBack
<1>7. Written84(r) = WriteSigner(r) \o WriteEraNonce(r) \o tip \o FlattenSeq(p) BY DEF Written84
<1>8. WrittenPreamble =
        Sign \o Common
          \o (IF Nil \/ Listed(Payment) THEN Token("Compact<Balance>", tx.tip) ELSE <<>>)
          \o FlattenSeq(told)
  <2>1. meta.version \in Nat BY DEF Fits
  <2>2. ~ (meta.version >= 14) BY <2>1
  <2> QED BY <2>2, Zenon DEF WrittenPreamble
<1> HIDE DEF p, tip, told
<1> QED BY <1>3, <1>4, <1>5, <1>6, <1>7, <1>8

-----------------------------------------------------------------------------
(* The fixed order *)

LEMMA TripleConcat ==
  ASSUME NEW x, NEW y, NEW z
  PROVE  <<x, y>> \o <<z>> = <<x, y, z>>
<1> DEFINE S == {x, y, z}  a == <<x, y>>  b == <<z>>  c == <<x, y, z>>  d == a \o b
<1>1. a \in Seq(S) /\ Len(a) = 2 /\ a[1] = x /\ a[2] = y OBVIOUS
<1>2. b \in Seq(S) /\ Len(b) = 1 /\ b[1] = z OBVIOUS
<1>3. c \in Seq(S) /\ Len(c) = 3 /\ c[1] = x /\ c[2] = y /\ c[3] = z OBVIOUS
<1> HIDE DEF S, a, b, c
<1>4. Follows(S, a, b, d) BY <1>1, <1>2, ConcatFollows
<1> HIDE DEF d
<1>5. d \in Seq(S) /\ Len(d) = 3 BY <1>1, <1>2, <1>4 DEF Follows
<1>6. d[1] = x /\ d[2] = y /\ d[3] = z BY <1>1, <1>2, <1>4 DEF Follows
<1>7. \A i \in 1..3 : d[i] = c[i] BY <1>3, <1>6
<1>8. d = c BY <1>3, <1>5, <1>7, EqualSeqs
<1> QED BY <1>8 DEF a, b, c, d

Begins(S, w, h) == \E r \in Seq(S) : w = h \o r

LEMMA SplitAt ==
  ASSUME NEW S, NEW w \in Seq(S), NEW h \in Seq(S), Len(h) <= Len(w), SubSeq(w, 1, Len(h)) = h
  PROVE  Begins(S, w, h)
<1> DEFINE n == Len(h)  m == Len(w)  r == SubSeq(w, n + 1, m)
<1>1. n \in Nat /\ m \in Nat /\ n <= m OBVIOUS
<1>2. r \in Seq(S) /\ Len(r) = m - n /\ \A i \in 1..(m - n) : r[i] = w[i + n] BY <1>1
<1>3. \A i \in 1..n : w[i] = h[i]
  <2>1. \A i \in 1..n : SubSeq(w, 1, n)[i] = w[i] BY <1>1
  <2> QED BY <2>1
<1> DEFINE c == h \o r
<1> HIDE DEF r
<1>4. Follows(S, h, r, c) BY <1>2, ConcatFollows
<1> HIDE DEF c
<1>5. ASSUME NEW i \in 1..m PROVE w[i] = c[i]
  <2>1. CASE i <= n
    <3>1. i \in 1..n BY <1>1, <2>1
    <3> QED BY <1>1, <1>2, <1>3, <1>4, <2>1, <3>1 DEF Follows
  <2>2. CASE ~ (i <= n)
    <3>1. i - n \in 1..(m - n) /\ (i - n) + n = i BY <1>1, <2>2
    <3>2. r[i - n] = w[i] BY <1>2, <3>1
    <3> QED BY <1>1, <1>2, <1>4, <2>2, <3>2 DEF Follows
  <2> QED BY <2>1, <2>2
<1>6. c \in Seq(S) /\ Len(c) = m BY <1>1, <1>2, <1>4 DEF Follows
<1>7. w = c BY <1>5, <1>6, EqualSeqs
<1> QED BY <1>2, <1>7 DEF c, Begins

LEMMA DistinctParts ==
  ASSUME NEW a \in Seq(Ext), NEW b \in Seq(Ext), Distinct(a \o b),
         NEW x \in ToSet(a), NEW y \in ToSet(b)
  PROVE  x.identifier # y.identifier
<1> DEFINE c == a \o b
<1>1. Follows(Ext, a, b, c) BY ConcatFollows
<1>2. Distinct(c) OBVIOUS
<1> HIDE DEF c
<1>3. PICK i \in DOMAIN a : a[i] = x BY InRange
<1>4. PICK j \in DOMAIN b : b[j] = y BY InRange
<1>5. /\ Len(a) \in Nat /\ Len(b) \in Nat /\ DOMAIN a = 1..Len(a) /\ DOMAIN b = 1..Len(b)
      /\ DOMAIN c = 1..(Len(a) + Len(b))
  BY <1>1 DEF Follows
<1> DEFINE k == j + Len(a)
<1>6. i \in DOMAIN c /\ k \in DOMAIN c /\ i # k /\ i <= Len(a) /\ ~ (k <= Len(a))
      /\ k - Len(a) = j
  BY <1>3, <1>4, <1>5
<1> HIDE DEF k
<1>7. c[i] = x /\ c[k] = y BY <1>1, <1>3, <1>4, <1>5, <1>6 DEF Follows
<1> QED BY <1>2, <1>6, <1>7 DEF Distinct

(* The bytes of an extension, and those that Encode leaves to the list.    *)
Bytes84 == [x \in Ext |-> Pending(Field("extra", x.type, x.identifier))]
Fixed == {Mortality, Nonce, Payment}
Later == [x \in Ext |-> IF x.identifier \in Fixed THEN <<>> ELSE Bytes84[x]]

LEMMA BytesType ==
  /\ Bytes84 \in [Ext -> Seq(Items)] /\ Later \in [Ext -> Seq(Items)]
  /\ \A x \in Ext : x.type = "NULL" => Bytes84[x] = <<>> /\ Later[x] = <<>>
<1>1. ASSUME NEW x \in Ext
      PROVE  /\ Pending(Field("extra", x.type, x.identifier)) \in Seq(Items)
             /\ x.type = "NULL" => Pending(Field("extra", x.type, x.identifier)) = <<>>
  <2>1. Field("extra", x.type, x.identifier) \in FieldSet BY DEF Field, FieldSet, Ext, What
  <2> QED BY <2>1, PendingType DEF Pending, Field
<1>2. \A x \in Ext : Bytes84[x] = Pending(Field("extra", x.type, x.identifier)) BY DEF Bytes84
<1>3. \A x \in Ext : Later[x] = IF x.identifier \in Fixed THEN <<>> ELSE Bytes84[x] BY DEF Later
<1>4. Bytes84 \in [Ext -> Seq(Items)] BY <1>1 DEF Bytes84
<1>5. Later \in [Ext -> Seq(Items)]
  <2>1. \A x \in Ext : (IF x.identifier \in Fixed THEN <<>> ELSE Bytes84[x]) \in Seq(Items)
    BY <1>4
  <2> QED BY <2>1 DEF Later
<1> QED BY <1>1, <1>2, <1>3, <1>4, <1>5

LEMMA BytesWritten ==
  ASSUME NEW s \in Seq(Ext)
  PROVE  Stream(Of("extra", s)) = Spread(Bytes84, s)
<1> DEFINE t == Of("extra", s)
<1>1. DOMAIN t = DOMAIN s /\ \A i \in DOMAIN s : t[i] = Field("extra", s[i].type, s[i].identifier)
  BY DEF Of
<1>2. \A i \in DOMAIN s : s[i] \in Ext BY InRange
<1> HIDE DEF t
<1>3. \A i \in DOMAIN s : Pending(t[i]) = Bytes84[s[i]] BY <1>1, <1>2 DEF Bytes84
<1>4. Pieces(t) = Each(Bytes84, s) BY <1>1, <1>3 DEF Pieces, Each
<1> QED BY <1>4 DEF t, Stream, Spread
(* The head of the fixed order is that of the layout.                      *)
Headed ==
  /\ FixedHead \in Seq(Ext) /\ Distinct(WithExtra(tx.extensions))
  /\ WithExtra(tx.extensions) \in Seq(Ext)
  /\ Len(FixedHead) <= Len(WithExtra(tx.extensions))
  /\ SubSeq(WithExtra(tx.extensions), 1, Len(FixedHead)) = FixedHead

LEMMA HeadFits ==
  ASSUME Fits(meta, tx), tx.form = "84", meta.version >= 14, FixedOrder
  PROVE  Headed
<1> DEFINE l == tx.extensions  w == WithExtra(l)  h == FixedHead
<1>0. meta.version \in Nat BY DEF Fits
<1>1. l \in Seq(Ext) /\ Distinct(l)
  <2>1. Distinct(l) BY DEF Fits, LayoutOK, Distinct
  <2> QED BY <2>1, LayoutWritten
<1>2. w \in Seq(Ext) /\ Distinct(w) BY <1>1, WithExtraSet, WithExtraDistinct
<1>3. Len(h) <= Len(w) /\ SubSeq(w, 1, Len(h)) = h BY <1>0 DEF FixedOrder, Legacy
<1>4. h \in Seq(Ext)
  <2> DEFINE m == Entry(Mortality, "EraExtrinsic")  n == Entry(Nonce, "Compact<U64>")
             p == Entry(Payment, "Compact<Balance>")  S == {m, n, p}
  <2>0. h = <<m, n>> \o (IF Listed(Payment) THEN <<p>> ELSE <<>>) BY DEF FixedHead
  <2> HIDE DEF m, n, p, h, w
  <2>1. h \in Seq(S)
    <3>1. <<m, n>> \in Seq(S) /\ <<m, n, p>> \in Seq(S) OBVIOUS
    <3>2. <<m, n>> \o <<p>> = <<m, n, p>> BY TripleConcat
    <3>3. <<m, n>> \o <<>> = <<m, n>> OBVIOUS
    <3> HIDE DEF S
    <3> QED BY <2>0, <3>1, <3>2, <3>3
  <2> HIDE DEF S
  <2>2. Len(h) \in Nat BY <2>1
  <2>3. \A k \in Nat : k <= Len(w) => SubSeq(w, 1, k) \in Seq(Ext) BY <1>2
  <2> QED BY <1>3, <2>2, <2>3
<1> QED BY <1>2, <1>3, <1>4 DEF Headed

LEMMA HeadKnown ==
  /\ \E x \in ToSet(FixedHead) : x.identifier = Mortality
  /\ \E x \in ToSet(FixedHead) : x.identifier = Nonce
  /\ Listed(Payment) => \E x \in ToSet(FixedHead) : x.identifier = Payment
  /\ \A x \in ToSet(FixedHead) : x.identifier \in Fixed
<1> DEFINE h == FixedHead
<1>1. /\ \E x \in ToSet(h) : x.identifier = Mortality
      /\ \E x \in ToSet(h) : x.identifier = Nonce
      /\ Listed(Payment) => \E x \in ToSet(h) : x.identifier = Payment
      /\ \A x \in ToSet(h) : x.identifier \in Fixed
  <2> DEFINE m == Entry(Mortality, "EraExtrinsic")  n == Entry(Nonce, "Compact<U64>")
             p == Entry(Payment, "Compact<Balance>")
  <2>1. m.identifier = Mortality /\ n.identifier = Nonce /\ p.identifier = Payment BY DEF Entry
  <2>2. h = <<m, n>> \o (IF Listed(Payment) THEN <<p>> ELSE <<>>) BY DEF FixedHead
  <2> HIDE DEF m, n, p, h
  <2>3. CASE Listed(Payment)
    <3>1. <<m, n>> \o <<p>> = <<m, n, p>> BY TripleConcat
    <3>2. ToSet(<<m, n, p>>) = {m, n, p} BY DEF ToSet
    <3>3. ToSet(h) = {m, n, p} BY <2>2, <2>3, <3>1, <3>2
    <3> QED BY <2>1, <3>3 DEF Fixed
  <2>4. CASE ~Listed(Payment)
    <3>1. <<m, n>> \o <<>> = <<m, n>> OBVIOUS
    <3>2. ToSet(<<m, n>>) = {m, n} BY SetTwo
    <3>3. ToSet(h) = {m, n} BY <2>2, <2>4, <3>1, <3>2
    <3> QED BY <2>1, <2>4, <3>3 DEF Fixed
  <2> QED BY <2>3, <2>4
<1> QED BY <1>1 DEF h

LEMMA HeadShown ==
  ASSUME Fits(meta, tx), Headed, NEW x \in ToSet(FixedHead)
  PROVE  Has(x.identifier)
<1> DEFINE w == WithExtra(tx.extensions)  h == FixedHead
<1>1. h \in Seq(Ext) /\ w \in Seq(Ext) /\ Len(h) <= Len(w) /\ SubSeq(w, 1, Len(h)) = h
  BY DEF Headed
<1>2. tx.extensions \in Seq(Ext) BY LayoutWritten
<1> HIDE DEF w, h
<1>3. PICK r \in Seq(Ext) : w = h \o r
  <2>1. Begins(Ext, w, h) BY ONLY <1>1, SplitAt
  <2> QED BY ONLY <2>1 DEF Begins
<1>4. x \in ToSet(w) BY <1>1, <1>3, ConcatRange DEF h
<1>5. x \in ToSet(tx.extensions) /\ x.type # "NULL" BY <1>2, <1>4, WithExtraSet DEF w
<1> QED BY <1>5, HasType

(* Where the order is the encoder's, era, nonce and tip come first, and    *)
(* whatever follows is written as the list says.                           *)
LEMMA FixedFirst ==
  ASSUME Fits(meta, tx), tx.form = "84", meta.version >= 14, FixedOrder
  PROVE  WriteExtensions(tx.extensions) =
           Spread(Bytes84, FixedHead) \o Spread(Later, tx.extensions)
<1> DEFINE l == tx.extensions  w == WithExtra(l)  h == FixedHead
<1>0. meta.version \in Nat BY DEF Fits
<1>1. l \in Seq(Ext) /\ WriteExtensions(l) = Stream(Of("extra", l)) /\ Distinct(l)
  <2>1. Distinct(l) BY DEF Fits, LayoutOK, Distinct
  <2> QED BY <2>1, LayoutWritten
<1>2. w \in Seq(Ext) /\ Distinct(w) /\ \A x \in ToSet(w) : x \in ToSet(l)
  BY <1>1, WithExtraSet, WithExtraDistinct
<1>3. Len(h) <= Len(w) /\ SubSeq(w, 1, Len(h)) = h BY HeadFits DEF Headed
<1>4. h \in Seq(Ext) BY HeadFits DEF Headed
<1>5. /\ \E x \in ToSet(h) : x.identifier = Mortality
      /\ \E x \in ToSet(h) : x.identifier = Nonce
      /\ Listed(Payment) => \E x \in ToSet(h) : x.identifier = Payment
      /\ \A x \in ToSet(h) : x.identifier \in Fixed
  BY HeadKnown
<1> HIDE DEF w, h
<1>6. PICK r \in Seq(Ext) : w = h \o r
  <2>1. Begins(Ext, w, h) BY ONLY <1>2, <1>3, <1>4, SplitAt
  <2> QED BY ONLY <2>1 DEF Begins
<1>7. \A x \in ToSet(r) : x.identifier \notin Fixed
  <2> SUFFICES ASSUME NEW x \in ToSet(r) PROVE x.identifier \notin Fixed OBVIOUS
  <2>1. Distinct(h \o r) BY <1>2, <1>6
  <2>2. x.identifier # Mortality /\ x.identifier # Nonce BY <1>4, <1>5, <2>1, DistinctParts
  <2>3. CASE Listed(Payment)
    <3>1. x.identifier # Payment BY <1>4, <1>5, <2>1, <2>3, DistinctParts
    <3> QED BY <2>2, <3>1 DEF Fixed
  <2>4. CASE ~Listed(Payment)
    <3>1. x \in ToSet(l)
      <4>1. x \in ToSet(h \o r) BY <1>4, ConcatRange
      <4> QED BY <1>2, <1>6, <4>1
    <3>2. meta.extrinsic.identifiers = Identifiers(l) /\ meta.extrinsic # None
      BY <1>0 DEF Fits, Identifiers
    <3>3. Payment \notin ToSet(Identifiers(l)) BY <2>4, <3>2 DEF Listed, Nil, Contains, ToSet
    <3>4. x.identifier \in ToSet(Identifiers(l)) BY <1>1, <3>1, IdentifierSet
    <3>5. x.identifier # Payment BY <3>3, <3>4
    <3> QED BY <2>2, <3>5 DEF Fixed
  <2> QED BY <2>3, <2>4
<1>8. WriteExtensions(l) = Spread(Bytes84, w)
  BY <1>1, BytesWritten, BytesType, SpreadNulls DEF w
<1>9. Spread(Later, l) = Spread(Later, w) BY <1>1, BytesType, SpreadNulls DEF w
<1> HIDE DEF l
<1>10. /\ Distributed(Bytes84, h, r) /\ Distributed(Later, h, r)
       /\ Spread(Later, r) \in Seq(Items)
  BY <1>4, BytesType, SpreadConcat, SpreadType
<1>11. Spread(Later, h) = <<>>
  <2>1. ToSet(h) \subseteq Ext BY <1>4, InRange
  <2>2. \A x \in ToSet(h) : Later[x] = <<>> BY <1>5, <2>1 DEF Later
  <2> QED BY <1>4, <2>2, BytesType, SpreadNothing
<1>12. Spread(Later, r) = Spread(Bytes84, r)
  <2>1. ToSet(r) \subseteq Ext BY InRange
  <2>2. \A x \in ToSet(r) : Later[x] = Bytes84[x] BY <1>7, <2>1 DEF Later
  <2> QED BY <2>2, SpreadSame
<1>13. Spread(Later, l) = Spread(Bytes84, r)
  <2>1. Spread(Later, l) = <<>> \o Spread(Later, r)
    BY <1>6, <1>9, <1>10, <1>11 DEF Distributed
  <2> QED BY <1>10, <1>12, <2>1
<1>14. WriteExtensions(l) = Spread(Bytes84, h) \o Spread(Bytes84, r)
  BY <1>6, <1>8, <1>10 DEF Distributed
<1> QED BY <1>13, <1>14 DEF l, h
LEMMA BytesOne ==
  ASSUME NEW x \in Ext, Kind(NoModule, x.type) = x.type, x.type # "NULL"
  PROVE  Bytes84[x] = Token(x.type, Shown(x.identifier))
<1> DEFINE f == Field("extra", x.type, x.identifier)
<1>1. f.what = "extra" /\ f.type = x.type /\ f.id = x.identifier BY DEF Field
<1>2. Bytes84[x] = Pending(f) BY DEF Bytes84
<1> HIDE DEF f
<1>3. Due(f) = Shown(x.identifier) BY <1>1 DEF Due
<1> QED BY <1>1, <1>2, <1>3 DEF Pending, Item, Token

LEMMA HeadWritten ==
  ASSUME Headed
  PROVE  Spread(Bytes84, FixedHead) =
           Common \o (IF Listed(Payment) THEN Token("Compact<Balance>", tx.tip) ELSE <<>>)
<1> DEFINE m == Entry(Mortality, "EraExtrinsic")  n == Entry(Nonce, "Compact<U64>")
           p == Entry(Payment, "Compact<Balance>")  h == FixedHead
           era == Token("EraExtrinsic", tx.era)  nonce == Token("Compact<U64>", tx.nonce)
           tip == Token("Compact<Balance>", tx.tip)
<1>1. h \in Seq(Ext) BY DEF Headed
<1>2. h = <<m, n>> \o (IF Listed(Payment) THEN <<p>> ELSE <<>>) BY DEF FixedHead
<1>3. /\ m \in Ext => Bytes84[m] = era
      /\ n \in Ext => Bytes84[n] = nonce
      /\ p \in Ext => Bytes84[p] = tip
  <2>1. /\ Kind(NoModule, "EraExtrinsic") = "EraExtrinsic"
        /\ Kind(NoModule, "Compact<U64>") = "Compact<U64>"
        /\ Kind(NoModule, "Compact<Balance>") = "Compact<Balance>"
    BY BuiltInKind DEF BuiltIn
  <2>2. /\ m.type = "EraExtrinsic" /\ m.identifier = Mortality
        /\ n.type = "Compact<U64>" /\ n.identifier = Nonce
        /\ p.type = "Compact<Balance>" /\ p.identifier = Payment
    BY DEF Entry
  <2> HIDE DEF m, n, p
  <2>3. m \in Ext => Bytes84[m] = era BY <2>1, <2>2, BytesOne, ShownNamed
  <2>4. n \in Ext => Bytes84[n] = nonce BY <2>1, <2>2, BytesOne, ShownNamed
  <2>5. p \in Ext => Bytes84[p] = tip BY <2>1, <2>2, BytesOne, ShownNamed
  <2> QED BY <2>3, <2>4, <2>5
<1>4. Common = era \o nonce BY DEF Common
<1> HIDE DEF m, n, p, h, era, nonce, tip
<1>5. m \in Ext /\ n \in Ext /\ (Listed(Payment) => p \in Ext)
  <2>1. \A i \in 1..Len(h) : h[i] \in Ext BY <1>1, ElementType
  <2>2. CASE Listed(Payment)
    <3>1. h = <<m, n, p>> BY <1>2, <2>2, TripleConcat
    <3>2. Len(<<m, n, p>>) = 3 OBVIOUS
    <3>3. h[1] \in Ext /\ h[2] \in Ext /\ h[3] \in Ext BY <2>1, <3>1, <3>2
    <3> QED BY <3>1, <3>3
  <2>3. CASE ~Listed(Payment)
    <3>1. <<m, n>> \o <<>> = <<m, n>> OBVIOUS
    <3>2. h = <<m, n>> BY <1>2, <2>3, <3>1
    <3>3. Len(<<m, n>>) = 2 OBVIOUS
    <3>4. h[1] \in Ext /\ h[2] \in Ext BY <2>1, <3>2, <3>3
    <3> QED BY <2>3, <3>2, <3>4
  <2> QED BY <2>2, <2>3
<1>6. Spread(Bytes84, <<m, n>>) = era \o nonce
  <2> DEFINE a == <<m>>  b == <<n>>
  <2>1. a \in Seq(Ext) /\ b \in Seq(Ext) BY <1>5
  <2>2. Spread(Bytes84, a) = era /\ Spread(Bytes84, b) = nonce
    BY <1>3, <1>5, BytesType, SpreadOne
  <2>3. a \o b = <<m, n>> BY <1>5, PairConcat
  <2> HIDE DEF a, b
  <2>4. Distributed(Bytes84, a, b) BY <2>1, BytesType, SpreadConcat
  <2> QED BY <2>2, <2>3, <2>4 DEF Distributed
<1>7. CASE Listed(Payment)
  <2> DEFINE a == <<m, n>>  b == <<p>>
  <2>1. a \in Seq(Ext) /\ b \in Seq(Ext) BY <1>5, <1>7
  <2>2. Spread(Bytes84, b) = tip BY <1>3, <1>5, <1>7, BytesType, SpreadOne
  <2>3. h = a \o b BY <1>2, <1>7
  <2> HIDE DEF a, b
  <2>4. Distributed(Bytes84, a, b) BY <2>1, BytesType, SpreadConcat
  <2>5. Spread(Bytes84, h) = Spread(Bytes84, a) \o tip BY <2>2, <2>3, <2>4 DEF Distributed
  <2> QED BY <1>4, <1>6, <1>7, <2>5 DEF a, h, tip
<1>8. CASE ~Listed(Payment)
  <2>1. <<m, n>> \o <<>> = <<m, n>> OBVIOUS
  <2>2. h = <<m, n>> BY <1>2, <1>8, <2>1
  <2>3. era \o nonce \o <<>> = era \o nonce
    <3> DEFINE S == {era[1], nonce[1]}
    <3>1. era \in Seq(S) /\ nonce \in Seq(S) BY DEF era, nonce, Token
    <3> HIDE DEF S
    <3> QED BY <3>1, ConcatType, ConcatEmpty
  <2> QED BY <1>4, <1>6, <1>8, <2>2, <2>3 DEF h
<1> QED BY <1>7, <1>8
(* What the list adds is what Encode adds.                                 *)
LEMMA LaterOne ==
  ASSUME Fits(meta, tx), tx.form = "84", meta.version >= 14, FixedOrder,
         NEW e, e = Expected, NEW x \in ToSet(tx.extensions)
  PROVE  Later[x] = IF x.identifier \in DOMAIN e
                       /\ ShouldEncode(x.identifier, e[x.identifier])
                    THEN Write(x.type, e[x.identifier]) ELSE <<>>
<1> DEFINE w == WithExtra(tx.extensions)  id == x.identifier
           piece == IF id \in DOMAIN e /\ ShouldEncode(id, e[id])
                    THEN Write(x.type, e[id]) ELSE <<>>
<1>0. meta.version \in Nat BY DEF Fits
<1>1. tx.extensions \in Seq(Ext) /\ Plain(x.type) BY LayoutWritten
<1>2. x \in Ext BY <1>1, InRange
<1>3. e = [j \in {k \in ToSet(Identifiers(tx.extensions)) \ Fixed : Has(k) /\ Shown(k) # None}
             |-> Shown(j)]
  <2>1. ~Legacy BY <1>0 DEF Legacy
  <2> QED BY <2>1, Zenon DEF Expected, Fixed
<1>4. Has(id) <=> x.type # "NULL" BY HasType
<1>5. id \in ToSet(Identifiers(tx.extensions)) BY <1>1, IdentifierSet
<1>6. Later[x] = IF id \in Fixed THEN <<>> ELSE Bytes84[x] BY <1>2 DEF Later
<1>7. CASE x.type = "NULL"
  <2>1. Later[x] = <<>> BY <1>2, <1>7, BytesType
  <2>2. id \notin DOMAIN e BY <1>3, <1>4, <1>7
  <2> QED BY <2>1, <2>2
<1>8. CASE id \in Fixed
  <2>1. id \notin DOMAIN e BY <1>3, <1>8
  <2> QED BY <1>6, <1>8, <2>1
<1>9. CASE x.type # "NULL" /\ id \notin Fixed
  <2>1. w \in Seq(Ext) /\ x \in ToSet(w) BY <1>1, <1>9, WithExtraSet
  <2> HIDE DEF w
  <2>2. id # AssetPayment
    <3>1. AssetPayment \notin ToSet(Identifiers(w)) BY DEF FixedOrder, w
    <3> QED BY <2>1, <3>1, IdentifierSet
  <2>3. tx.value # None
    <3> SUFFICES ASSUME tx.value = None PROVE FALSE OBVIOUS
    <3>1. x \in ToSet(FixedHead) BY <2>1 DEF FixedOrder, w
    <3>2. \A y \in ToSet(FixedHead) : y.identifier \in Fixed BY HeadKnown
    <3> QED BY <1>9, <3>1, <3>2
  <2>4. Shown(id) # None
    <3>1. CASE id = Verify
      <4>1. [account |-> tx.signer, signature |-> tx.signature] # None BY DEF Fits
      <4>2. Shown(id) = IF tx.signer = None THEN Disabled
                        ELSE [account |-> tx.signer, signature |-> tx.signature]
        BY <3>1, ShownNamed
      <4> QED BY <4>1, <4>2, ClientAssumption
    <3>2. CASE id # Verify
      <4>1. id \notin {Mortality, Nonce, Payment, AssetPayment, Verify}
        BY <1>9, <2>2, <3>2 DEF Fixed
      <4>2. Shown(id) = tx.value BY <4>1, Zenon DEF Shown
      <4> QED BY <2>3, <4>2
    <3> QED BY <3>1, <3>2
  <2>5. id \in DOMAIN e /\ e[id] = Shown(id) BY <1>3, <1>4, <1>5, <1>9, <2>4
  <2>6. ShouldEncode(id, e[id]) BY <1>9, <2>2, <2>4, <2>5 DEF ShouldEncode, HasValue, Fixed
  <2>7. piece = Token(x.type, Shown(id))
    <3>1. Write(x.type, e[id]) = Token(x.type, e[id]) BY <1>1, <1>9, WritePlain
    <3> QED BY <2>5, <2>6, <3>1
  <2>8. Bytes84[x] = Token(x.type, Shown(id)) BY <1>1, <1>2, <1>9, PlainKind, BytesOne
  <2> QED BY <1>6, <1>9, <2>7, <2>8
<1> QED BY <1>7, <1>8, <1>9

LEMMA SignedBack ==
  ASSUME Fits(meta, tx), tx.form = "84", meta.version >= 14, ~Nil, FixedOrder,
         meta.hasSigner \/ meta.address = "AccountId",
         NEW r, r.extensions = Expected, r.signer = tx.signer, r.signature = tx.signature,
         Has(Mortality) => r.era = tx.era, Has(Nonce) => r.nonce = tx.nonce,
         Paid => r.tip = tx.tip
  PROVE  Written84(r) = WrittenPreamble
<1> DEFINE l == tx.extensions  e == r.extensions
           p == [i \in DOMAIN l |->
                   IF l[i].identifier \in DOMAIN e
                      /\ ShouldEncode(l[i].identifier, e[l[i].identifier])
                   THEN Write(l[i].type, e[l[i].identifier]) ELSE <<>>]
           written == IF Listed(Payment) THEN Write("Compact<Balance>", r.tip) ELSE <<>>
           tip == IF Listed(Payment) THEN Token("Compact<Balance>", tx.tip) ELSE <<>>
           later == Spread(Later, l)
<1>0. meta.version \in Nat /\ meta.extrinsic.signed = l BY DEF Fits
<1>1. l \in Seq(Ext) /\ Headed BY LayoutWritten, HeadFits
<1>2. Has(Mortality) /\ Has(Nonce) /\ (Listed(Payment) => Has(Payment))
  <2>1. ASSUME NEW y \in ToSet(FixedHead) PROVE Has(y.identifier) BY <1>1, <2>1, HeadShown
  <2> QED BY <2>1, HeadKnown
<1>3. written = tip
  <2>1. "Compact<Balance>" \in BuiltIn \ {"NULL"} BY DEF BuiltIn
  <2>2. Write("Compact<Balance>", r.tip) = Token("Compact<Balance>", r.tip)
    BY <2>1, WriteBuiltIn
  <2>3. Listed(Payment) => Paid BY <1>2 DEF Paid
  <2> QED BY <2>2, <2>3
<1>4. WriteSigner(r) = Sign /\ WriteEraNonce(r) = Common BY <1>2, SignerBack, EraNonceBack
<1>5. FlattenSeq(p) = later
  <2>1. \A i \in DOMAIN l : l[i] \in ToSet(l) BY <1>1, InRange
  <2>2. \A i \in DOMAIN l : p[i] = Later[l[i]] BY <2>1, LaterOne
  <2>3. p = Each(Later, l)
    <3> HIDE DEF l, e
    <3> QED BY <2>2 DEF Each
  <2> QED BY <2>3 DEF Spread
<1>6. Written84(r) = WriteSigner(r) \o WriteEraNonce(r) \o written \o FlattenSeq(p)
  BY <1>0 DEF Written84
<1>7. WrittenPreamble = Sign \o WriteExtensions(l)
  <2>1. ~ (meta.version < 14) BY <1>0
  <2> QED BY <2>1, Zenon DEF WrittenPreamble
<1>8. WriteExtensions(l) = (Common \o tip) \o later BY <1>1, FixedFirst, HeadWritten
<1>9. Sign \in Seq(Items) /\ Common \in Seq(Items) /\ tip \in Seq(Items) /\ later \in Seq(Items)
  <2>1. Sign \in Seq(Items) /\ Common \in Seq(Items) BY SignWritten, CommonWritten, StreamType
  <2>2. Token("Compact<Balance>", tx.tip) \in Seq(Items)
    <3>1. <<TipField>> \in Seq(FieldSet) BY TipWritten
    <3>2. Stream(<<TipField>>) \in Seq(Items) BY <3>1, StreamType
    <3> QED BY <3>2, TipWritten
  <2>3. tip \in Seq(Items) BY <2>2
  <2>4. later \in Seq(Items) BY <1>1, BytesType, SpreadType
  <2> QED BY <2>1, <2>3, <2>4
<1> HIDE DEF p, written, tip, later, l, e
<1>10. Sign \o ((Common \o tip) \o later) = ((Sign \o Common) \o tip) \o later
  <2> DEFINE a == Sign  b == Common
  <2>1. a \in Seq(Items) /\ b \in Seq(Items) BY <1>9
  <2> HIDE DEF a, b
  <2>2. Chained(Items, a, b, tip, later) BY ONLY <1>9, <2>1, ConcatFour
  <2>3. (b \o tip) \o later = b \o (tip \o later) BY <1>9, <2>1
  <2> QED BY ONLY <2>2, <2>3 DEF Chained, a, b
<1> QED BY <1>3, <1>4, <1>5, <1>6, <1>7, <1>8, <1>10

-----------------------------------------------------------------------------
(* Encode *)

LEMMA EncodesBack ==
  ASSUME IInv, Done, Faithful
  PROVE  Encoded(g) = [ok |-> TRUE, bytes |-> Prefixed(Body)]
<1>1. /\ Decoded /\ Known /\ Agreed /\ tx.call \in DOMAIN meta.calls /\ Whole
      /\ g.params = [i \in DOMAIN tx.args |-> <<"arg", i>>]
  BY InvDecoded DEF IInv, Progress, Read
<1>2. Fits(meta, tx) BY <1>1, Fitting DEF Whole
<1>3. /\ g.call = tx.call /\ g.extensions = Expected
      /\ Signed => g.signer = tx.signer /\ g.signature = tx.signature
      /\ (tx.form = "85" \/ (Signed /\ Legacy) \/ Has(Mortality)) => g.era = tx.era
      /\ (tx.form = "85" \/ (Signed /\ Legacy) \/ Has(Nonce)) => g.nonce = tx.nonce
      /\ Paid => g.tip = tx.tip
      /\ tx.form \in {"85", "45"} => g.version = tx.version
  BY <1>1 DEF Decoded
<1>4. version = tx.form /\ tx.form \in Forms /\ meta.version \in Nat BY <1>1, <1>2 DEF Known, Fits
<1>5. /\ Signed => ~Nil
      /\ Signed => (meta.version >= 14 /\ meta.hasSigner) \/ meta.address = "AccountId"
      /\ tx.form = "84" => FixedOrder /\ Additional = <<>>
      /\ \A i \in DOMAIN tx.args : Kind(tx.module, tx.args[i]) = Kind(NoModule, tx.args[i])
  BY DEF Faithful
<1>6. meta.calls[g.call] = [module |-> tx.module, args |-> tx.args] BY <1>1, <1>2, <1>3 DEF Fits
<1>7. Preamble(g) = WrittenPreamble
      /\ (tx.form = "45" => Layout(g.version).ok /\ Missing(g, Layout(g.version).extensions) = {})
  <2>1. CASE tx.form \in {"04", "05"}
    <3>1. Preamble(g) = <<>> BY <1>4, <2>1, Zenon DEF Preamble
    <3>2. WrittenPreamble = <<>> BY <2>1, Zenon DEF WrittenPreamble
    <3> QED BY <2>1, <3>1, <3>2
  <2>2. CASE tx.form = "84" /\ meta.version < 14
    <3>1. Preamble(g) = Written84(g) BY <1>4, <2>2, Zenon DEF Preamble
    <3>2. ~ (meta.version >= 14) /\ Legacy /\ Signed BY <1>4, <2>2 DEF Legacy, Signed
    <3>3. Written84(g) = WrittenPreamble BY <1>2, <1>3, <1>5, <2>2, <3>2, LegacyBack
    <3> QED BY <2>2, <3>1, <3>3
  <2>3. CASE tx.form = "84" /\ meta.version >= 14
    <3>1. Preamble(g) = Written84(g) BY <1>4, <2>3, Zenon DEF Preamble
    <3>2. Signed BY <2>3 DEF Signed
    <3>3. Written84(g) = WrittenPreamble BY <1>2, <1>3, <1>5, <2>3, <3>2, SignedBack
    <3> QED BY <2>3, <3>1, <3>3
  <2>4. CASE tx.form = "85"
    <3>1. Preamble(g) = Written85(g) BY <1>4, <2>4, Zenon DEF Preamble
    <3>2. Signed BY <2>4 DEF Signed
    <3>3. Written85(g) = WrittenPreamble BY <1>2, <1>3, <1>5, <2>4, <3>2, SignedV5Back
    <3> QED BY <2>4, <3>1, <3>3
  <2>5. CASE tx.form = "45"
    <3>1. Preamble(g) = Written45(g) BY <1>4, <2>5, Zenon DEF Preamble
    <3>2. Layout(g.version).ok BY <1>1, <1>3, <2>5 DEF Agreed
    <3> QED BY <1>1, <1>2, <1>3, <2>5, <3>1, <3>2, GeneralBack
  <2> QED BY <1>4, <2>1, <2>2, <2>3, <2>4, <2>5 DEF Forms
<1>8. FlattenSeq([i \in DOMAIN tx.args |-> Write(tx.args[i], g.params[i])]) = Args
  BY <1>1, <1>2, <1>5, ArgsBack
<1>9. Len(g.params) = Len(tx.args)
  <2> DEFINE p == g.params  S == {<<"arg", i>> : i \in DOMAIN tx.args}
  <2>1. tx.args \in Seq(STRING) BY <1>2 DEF Fits
  <2>2. DOMAIN tx.args = 1..Len(tx.args) /\ Len(tx.args) \in Nat BY <2>1
  <2>3. p \in [1..Len(tx.args) -> S] BY <1>1, <2>2
  <2> HIDE DEF p, S
  <2> QED BY <2>2, <2>3 DEF p
<1>10. ~ (version \in {"84", "85"} /\ Nil) BY <1>4, <1>5 DEF Signed
<1> DEFINE call == meta.calls[g.call]
           refused == \/ version = "45"
                         /\ (~Layout(g.version).ok \/ Missing(g, Layout(g.version).extensions) # {})
                      \/ g.call \notin DOMAIN meta.calls
                      \/ Len(g.params) # Len(call.args)
           params == FlattenSeq([i \in DOMAIN call.args |-> Write(call.args[i], g.params[i])])
<1>11. ~refused /\ params = Args
  <2>1. call.args = tx.args BY <1>6
  <2> QED BY <1>1, <1>3, <1>4, <1>7, <1>8, <1>9, <2>1
<1>12. Encoded(g) =
         IF version \in {"84", "85"} /\ Nil THEN Failed("panic")
         ELSE IF refused THEN Failed("error")
         ELSE [ok |-> TRUE,
               bytes |-> Prefixed(Token("version", version) \o Preamble(g)
                                    \o Token("call", g.call) \o params)]
  BY DEF Encoded
<1>13. Body = Token("version", tx.form) \o WrittenPreamble \o Token("call", tx.call) \o Args
  BY DEF Body, Args
<1> HIDE DEF refused, params
<1> QED BY <1>3, <1>4, <1>7, <1>10, <1>11, <1>12, <1>13

(* What Encode returned is what it returns for the record as decoded.      *)
Answered ==
  out # <<>> => Done /\ (out.edit = "none" => out.result = Encoded(g))

LEMMA EditNone ==
  ASSUME NEW r, NEW e \in Edits(r), e.what = "none"
  PROVE  e.r = r
<1> DEFINE none == [what |-> "none", id |-> "", r |-> r]
           call == [what |-> "call", id |-> "", r |-> [r EXCEPT !.call = None]]
           param == [what |-> "param", id |-> "", r |-> [r EXCEPT !.params = Tail(@)]]
           ext(x) == [what |-> "extension", id |-> x, r |->
                        [r EXCEPT !.extensions = [j \in DOMAIN @ \ {x} |-> @[j]]]]
<1>1. none.r = r OBVIOUS
<1>2. call.what # "none" /\ param.what # "none" OBVIOUS
<1>3. \A x : ext(x).what # "none" OBVIOUS
<1> HIDE DEF none, call, param, ext
<1>4. Edits(r) = {none, call} \cup {param : i \in {1} \cap DOMAIN r.params}
                   \cup {ext(x) : x \in DOMAIN r.extensions}
  BY Zenon DEF Edits, none, call, param, ext
<1> QED BY <1>1, <1>2, <1>3, <1>4

(* Nothing Encode reads but the record changes.                            *)
LEMMA SameEncoded ==
  ASSUME UNCHANGED <<meta, tx, version, g>>
  PROVE  Encoded(g)' = Encoded(g)
<1>0. meta' = meta /\ version' = version /\ g' = g OBVIOUS
<1>1. \A t, x : Write(t, x)' = Write(t, x) BY SameClient DEF Write, Token
<1>2. /\ WriteSigner(g)' = WriteSigner(g)
      /\ WriteEraNonce(g)' = WriteEraNonce(g)
  BY <1>0, <1>1, SameClient DEF WriteSigner, WriteEraNonce
<1>3. Written84(g)' = Written84(g)
  BY <1>0, <1>1, <1>2, SameClient, Zenon DEF Written84
<1>4. \A x : WriteEnabled(g, x)' = WriteEnabled(g, x)
  BY <1>0, <1>1, Zenon DEF WriteEnabled
<1>5. Written85(g)' = Written85(g)
  BY <1>0, <1>1, <1>2, <1>4, SameLists, Zenon DEF Written85
<1>6. Layout(g.version)' = Layout(g.version) BY <1>0, SameClient
<1>7. Written45(g)' = Written45(g)
  BY <1>0, <1>1, <1>6, Zenon DEF Written45
<1>8. Preamble(g)' = Preamble(g)
  BY <1>0, <1>3, <1>5, <1>7, Zenon DEF Preamble
<1>9. Missing(g, Layout(g.version).extensions)' = Missing(g, Layout(g.version).extensions)
  BY <1>0, <1>6, Zenon DEF Missing
<1> DEFINE args(c) == FlattenSeq([i \in DOMAIN c.args |-> Write(c.args[i], g.params[i])])
<1>10. args(meta.calls[g.call])' = args(meta.calls[g.call]) BY <1>0, <1>1, Zenon
<1> QED BY <1>0, <1>6, <1>8, <1>9, <1>10, SameClient, Zenon DEF Encoded

LEMMA AnsweredNext == IInv /\ Answered /\ [ClientNext]_<<vars, tx>> => Answered'
<1> SUFFICES ASSUME IInv, Answered, [ClientNext]_<<vars, tx>> PROVE Answered' OBVIOUS
<1>1. (out # <<>>) <=> stage = "encoded" BY DEF IInv, TypeOK
<1>2. CASE ReadLength \/ ReadVersion \/ ReadField \/ ReadCall \/ ReadArgs
  <2>1. out = <<>> /\ out' = out
    BY <1>1, <1>2 DEF ReadLength, ReadVersion, ReadField, ReadCall, ReadArgs
  <2> QED BY <2>1 DEF Answered
<1>3. CASE Encode /\ UNCHANGED tx
  <2>1. PICK e \in Edits(g) : out' = [edit |-> e.what, id |-> e.id, result |-> Encoded(e.r)]
    BY <1>3 DEF Encode
  <2>2. stage' = "encoded" /\ UNCHANGED <<meta, tx, version, g>> BY <1>3 DEF Encode
  <2>3. Encoded(g)' = Encoded(g) BY <2>2, SameEncoded
  <2>4. out'.edit = "none" => out'.result = Encoded(g) BY <2>1, EditNone
  <2> QED BY <2>2, <2>3, <2>4 DEF Answered, Done
<1>4. CASE UNCHANGED <<vars, tx>>
  <2>1. UNCHANGED <<meta, tx, version, g, out, stage>> BY <1>4 DEF vars
  <2>2. Encoded(g)' = Encoded(g) BY <2>1, SameEncoded
  <2> QED BY <2>1, <2>2 DEF Answered, Done
<1> QED BY <1>2, <1>3, <1>4 DEF ClientNext, CodecNext

(* Whatever was decoded and not changed is encoded to the bytes it was     *)
(* decoded from, with their length, wherever the encoder's order and types *)
(* are the runtime's (ReEncoded).                                          *)
THEOREM EncodesWhatWasDecoded == ClientSpec => []ReEncoded
<1>1. ClientInit => Answered BY DEF ClientInit, CodecInit, Answered
<1>2. IInv /\ Answered => ReEncoded BY EncodesBack DEF Answered, ReEncoded
<1> QED BY <1>1, <1>2, AnsweredNext, Inductive, PTL DEF ClientSpec


=============================================================================
