-------------------------- MODULE ScaleDecodeProofs --------------------------
(***************************************************************************)
(* The decoders of ScaleDecode, for any types, calls and bytes: cursors    *)
(* stay in their bytes, modules stay in their calls, fields are isolated   *)
(* from what happens inside of them, types that are grounded are not come  *)
(* back to before a byte is read, and the calls published are those of the *)
(* values handed out.                                                      *)
(***************************************************************************)
EXTENDS ScaleDecode, SequenceTheorems, SequenceLemmas, TLAPS

-----------------------------------------------------------------------------
(* Compacts *)

LEMMA ByteInt == Byte \subseteq Nat /\ Base \in Nat /\ Base >= 8
BY CompactAssumption DEF Byte

LEMMA ProductNat == \A x, y \in Nat : x * y \in Nat
OBVIOUS

LEMMA UnsignedNat ==
  ASSUME NEW bs \in Seq(Byte)
  PROVE  Unsigned(bs) \in Nat
<1>1. ASSUME NEW i \in 1..8 PROVE ByteAt(bs, i) \in Nat
  <2>1. CASE i \in 1..Len(bs)
    <3>1. bs[i] \in Nat BY <2>1, ByteInt, ElementOfSeq
    <3> QED BY <3>1 DEF ByteAt
  <2>2. CASE i \notin 1..Len(bs)
    <3>1. ~ (i <= Len(bs)) BY <2>2, <1>1
    <3> QED BY <3>1 DEF ByteAt
  <2> QED BY <2>1, <2>2
<1>2. ASSUME NEW x \in Nat, NEW y \in Nat PROVE Joined(x, y) \in Nat
  <2>1. Base * y \in Nat BY ByteInt, ProductNat
  <2> QED BY <2>1, <1>2 DEF Joined
<1> DEFINE b == [i \in 1..8 |-> ByteAt(bs, i)]
<1>3. b \in [1..8 -> Nat] BY <1>1
<1>4. Unsigned(bs) = Joined(b[1], Joined(b[2], Joined(b[3], Joined(b[4],
                       Joined(b[5], Joined(b[6], Joined(b[7], b[8])))))))
  BY DEF Unsigned
<1> HIDE DEF b
<1>5. b[1] \in Nat /\ b[2] \in Nat /\ b[3] \in Nat /\ b[4] \in Nat
      /\ b[5] \in Nat /\ b[6] \in Nat /\ b[7] \in Nat /\ b[8] \in Nat
  BY <1>3
<1>6. Joined(b[7], b[8]) \in Nat BY <1>2, <1>5
<1>7. Joined(b[5], Joined(b[6], Joined(b[7], b[8]))) \in Nat
  BY <1>2, <1>5, <1>6
<1>8. Joined(b[3], Joined(b[4], Joined(b[5], Joined(b[6],
        Joined(b[7], b[8]))))) \in Nat
  BY <1>2, <1>5, <1>7
<1> QED BY <1>2, <1>4, <1>5, <1>8

LEMMA WordSizeNat == WordSize \in Nat
<1>1. Base \in Nat BY ByteInt
<1> DEFINE four == Base * Base * Base * Base
<1>2. Base * Base \in Nat BY <1>1, ProductNat
<1>3. Base * Base * Base \in Nat BY <1>1, <1>2, ProductNat
<1>4. four \in Nat BY <1>1, <1>3, ProductNat
<1> HIDE DEF four
<1>5. Base * four \in Nat BY <1>1, <1>4, ProductNat
<1>6. Base * Base * four \in Nat BY <1>2, <1>4, ProductNat
<1>7. Base * Base * Base * four \in Nat BY <1>3, <1>4, ProductNat
<1>8. four * four \in Nat BY <1>4, ProductNat
<1> QED BY <1>4, <1>5, <1>6, <1>7, <1>8 DEF WordSize, four

(* A complete compact is inside of its bytes and has a whole number.       *)
LEMMA CompactType ==
  ASSUME NEW bs \in Seq(Byte), CompactOK(bs)
  PROVE  /\ CompactLength(bs[1]) \in 1..Len(bs)
         /\ CompactValue(bs) \in Int
<1>1. bs[1] \in Byte /\ bs[1] \in Nat /\ Len(bs) >= 1
  <2>1. Len(bs) \in Nat \ {0} BY EmptySeq DEF CompactOK
  <2>2. 1 \in 1..Len(bs) BY <2>1
  <2>3. bs[1] \in Byte BY <2>2, ElementOfSeq
  <2>4. bs[1] \in Nat BY <2>3, ByteInt
  <2> QED BY <2>1, <2>3, <2>4
<1>2. CompactLength(bs[1]) \in Nat \ {0}
  BY <1>1 DEF CompactLength
<1>3. CompactLength(bs[1]) <= Len(bs) BY DEF CompactOK
<1> DEFINE n == CompactLength(bs[1])
<1>4. SubSeq(bs, 1, n) \in Seq(Byte) /\ SubSeq(bs, 2, n) \in Seq(Byte)
  BY <1>2, <1>3
<1>5. Unsigned(SubSeq(bs, 1, n)) \in Nat /\ Unsigned(SubSeq(bs, 2, n)) \in Nat
  BY <1>4, UnsignedNat
<1>6. Signed(SubSeq(bs, 2, n)) \in Int
  BY <1>5, WordSizeNat DEF Signed
<1> QED BY <1>2, <1>3, <1>5, <1>6 DEF CompactValue

(* A complete envelope is inside of its bytes, and so is its payload.      *)
LEMMA EnvelopeType ==
  ASSUME NEW bs \in Seq(Byte), EnvelopeOK(bs)
  PROVE  EnvelopeLength(bs) \in 0..Len(bs) /\ Payload(bs) \in Seq(Byte)
<1>1. CompactLength(bs[1]) \in 1..Len(bs) /\ CompactValue(bs) \in Int
  BY CompactType DEF EnvelopeOK
<1>2. EnvelopeLength(bs) \in 0..Len(bs)
  BY <1>1 DEF EnvelopeOK, EnvelopeLength
<1> QED BY <1>1, <1>2 DEF Payload

-----------------------------------------------------------------------------
(* Frames *)

(* A frame on its own: its shape, its cursor inside of its bytes, and of an *)
(* envelope that it is complete and read past, its agenda being that of    *)
(* the payload's decoder.                                                  *)
IsFrame(f) ==
  f = [role |-> f.role, tag |-> f.tag, data |-> f.data, start |-> f.start,
       off |-> f.off, module |-> f.module, head |-> f.head,
       agenda |-> f.agenda, got |-> f.got, calls |-> f.calls]

From(f) == SubSeq(f.data, f.start + 1, Len(f.data))

Alone(f) ==
  /\ IsFrame(f) /\ FrameOK(f)
  /\ f.role \in {"caller", "codec", "inner"}
  /\ f.role # "codec" => f.tag = f.role
  /\ f.role = "codec" => f.tag \in NodeKind
  /\ f.tag = "opaque" => /\ f.agenda = <<>>
                         /\ EnvelopeOK(From(f))
                         /\ f.off = f.start + EnvelopeLength(From(f))

(* Frame f on top of frame g: a codec reads the bytes of its caller from   *)
(* where that is; a payload's decoder belongs to the envelope under it.    *)
Fits(g, f) ==
  /\ f.role # "caller"
  /\ f.role = "codec" => /\ f.data = g.data /\ f.start = g.off
                         /\ g.agenda # <<>>
                         /\ f.tag = CodecOf(g.module, Head(g.agenda)).kind
  /\ f.role = "inner" => g.role = "codec" /\ g.tag = "opaque"

IsSeq(s) == s \in Seq({s[i] : i \in DOMAIN s})

StackOK(s) ==
  /\ IsSeq(s) /\ Len(s) >= 1
  /\ \A i \in DOMAIN s : Alone(s[i])
  /\ \A i \in DOMAIN s : s[i].role = "caller" <=> i = 1
  /\ \A i \in DOMAIN s \ {1} : Fits(s[i - 1], s[i])

DecodeInv == StackOK(stack) /\ status \in {"run", "done", "panic"}

LEMMA IsSeqOf ==
  ASSUME NEW S, NEW s \in Seq(S)
  PROVE  IsSeq(s) /\ Len(s) \in Nat /\ DOMAIN s = 1..Len(s)
<1> DEFINE R == {s[i] : i \in DOMAIN s}
<1>1. Len(s) \in Nat /\ DOMAIN s = 1..Len(s) BY LenProperties
<1>2. SubSeq(s, 1, Len(s)) = s BY SubSeqFull
<1>3. \A i \in 1..Len(s) : s[i] \in R BY <1>1
<1> HIDE DEF R
<1>4. SubSeq(s, 1, Len(s)) \in Seq(R) BY <1>1, <1>3, SubSeqProperties
<1> QED BY <1>1, <1>2, <1>4 DEF IsSeq, R

(* What every step does to the stack: keep its n lowest frames and put one *)
(* on top of them.                                                         *)
Upon(s, n, f) == Append(SubSeq(s, 1, n), f)

LEMMA Cut ==
  ASSUME NEW s, IsSeq(s), NEW n \in 0..Len(s), NEW f
  PROVE  /\ IsSeq(Upon(s, n, f)) /\ Len(Upon(s, n, f)) = n + 1
         /\ DOMAIN Upon(s, n, f) = 1..(n + 1)
         /\ \A i \in 1..n : Upon(s, n, f)[i] = s[i]
         /\ Upon(s, n, f)[n + 1] = f
<1> DEFINE S == {s[i] : i \in DOMAIN s} \cup {f}
           u == SubSeq(s, 1, n)
<1>1. Len(s) \in Nat /\ DOMAIN s = 1..Len(s) BY IsSeqOf DEF IsSeq
<1>2. \A i \in 1..n : s[i] \in S BY <1>1
<1>3. f \in S OBVIOUS
<1> HIDE DEF S
<1>4. n \in Nat BY <1>1
<1>5. u \in Seq(S) /\ Len(u) = n /\ \A i \in 1..n : u[i] = s[i]
  BY <1>2, <1>4, SubSeqProperties
<1> HIDE DEF u
<1>6. /\ Append(u, f) \in Seq(S) /\ Len(Append(u, f)) = n + 1
      /\ \A i \in 1..n : Append(u, f)[i] = u[i]
      /\ Append(u, f)[n + 1] = f
  BY <1>3, <1>5, AppendProperties
<1>7. Upon(s, n, f) = Append(u, f) BY DEF u, Upon
<1> QED BY <1>4, <1>5, <1>6, <1>7, IsSeqOf

LEMMA Lowest ==
  ASSUME NEW s, IsSeq(s), NEW n \in 1..Len(s), NEW f
  PROVE  Upon(s, n, f)[1] = s[1]
<1>1. Len(s) \in Nat BY IsSeqOf DEF IsSeq
<1>2. n \in 0..Len(s) /\ 1 \in 1..n BY <1>1
<1>3. \A i \in 1..n : Upon(s, n, f)[i] = s[i] BY <1>2, Cut
<1> QED BY <1>2, <1>3

LEMMA Push ==
  ASSUME NEW s, IsSeq(s), NEW f
  PROVE  /\ Append(s, f) = Upon(s, Len(s), f)
         /\ Len(s) \in Nat /\ DOMAIN s = 1..Len(s)
BY SubSeqFull, IsSeqOf DEF IsSeq, Upon

(* Such a step keeps the invariant if the new frame is one, and fits.      *)
LEMMA StackStep ==
  ASSUME NEW s, StackOK(s), NEW n \in 0..Len(s), NEW f, Alone(f),
         f.role = "caller" <=> n = 0, n > 0 => Fits(s[n], f)
  PROVE  StackOK(Upon(s, n, f))
<1> DEFINE t == Upon(s, n, f)
<1>1. IsSeq(s) /\ DOMAIN s = 1..Len(s) /\ Len(s) \in Nat
  BY Push DEF StackOK
<1>2. /\ IsSeq(t) /\ Len(t) = n + 1 /\ DOMAIN t = 1..(n + 1)
      /\ \A i \in 1..n : t[i] = s[i]
      /\ t[n + 1] = f
  BY <1>1, Cut
<1> HIDE DEF t
<1>3. n \in Nat BY <1>1
<1>4. ASSUME NEW i \in DOMAIN t
      PROVE  /\ Alone(t[i])
             /\ t[i].role = "caller" <=> i = 1
             /\ i # 1 => Fits(t[i - 1], t[i])
  <2>1. CASE i \in 1..n
    <3>1. t[i] = s[i] /\ i \in DOMAIN s BY <1>1, <1>2, <2>1
    <3>2. i # 1 => i - 1 \in 1..n /\ t[i - 1] = s[i - 1]
      BY <1>2, <1>3, <2>1
    <3> QED BY <3>1, <3>2 DEF StackOK
  <2>2. CASE i = n + 1
    <3>1. t[i] = f BY <1>2, <2>2
    <3>2. i # 1 => i - 1 = n /\ n > 0 /\ t[n] = s[n]
      BY <1>2, <1>3, <2>2
    <3>3. i = 1 <=> n = 0 BY <1>3, <2>2
    <3> QED BY <3>1, <3>2, <3>3
  <2> QED BY <1>2, <1>3, <1>4, <2>1, <2>2
<1>5. StackOK(t) BY <1>2, <1>3, <1>4 DEF StackOK
<1> QED BY <1>5 DEF t

-----------------------------------------------------------------------------
(* One frame *)

(* The frame of the same codec, for its caller and for those it called.    *)
SameCodec(f, e) == e.tag = f.tag /\ e.head = f.head /\ e.module = f.module

(* One field of a frame set. *)
LEMMA OneField ==
  ASSUME NEW f, IsFrame(f), NEW x
  PROVE  /\ [f EXCEPT !.off = x] =
              [role |-> f.role, tag |-> f.tag, data |-> f.data,
               start |-> f.start, off |-> x, module |-> f.module,
               head |-> f.head, agenda |-> f.agenda, got |-> f.got,
               calls |-> f.calls]
         /\ [f EXCEPT !.agenda = x] =
              [role |-> f.role, tag |-> f.tag, data |-> f.data,
               start |-> f.start, off |-> f.off, module |-> f.module,
               head |-> f.head, agenda |-> x, got |-> f.got,
               calls |-> f.calls]
         /\ [f EXCEPT !.got = x] =
              [role |-> f.role, tag |-> f.tag, data |-> f.data,
               start |-> f.start, off |-> f.off, module |-> f.module,
               head |-> f.head, agenda |-> f.agenda, got |-> x,
               calls |-> f.calls]
         /\ [f EXCEPT !.calls = x] =
              [role |-> f.role, tag |-> f.tag, data |-> f.data,
               start |-> f.start, off |-> f.off, module |-> f.module,
               head |-> f.head, agenda |-> f.agenda, got |-> f.got,
               calls |-> x]
<1>1. [f EXCEPT !.off = x] =
       [role |-> f.role, tag |-> f.tag, data |-> f.data, start |-> f.start,
        off |-> x, module |-> f.module, head |-> f.head,
        agenda |-> f.agenda, got |-> f.got, calls |-> f.calls]
  BY DEF IsFrame
<1>2. [f EXCEPT !.agenda = x] =
       [role |-> f.role, tag |-> f.tag, data |-> f.data, start |-> f.start,
        off |-> f.off, module |-> f.module, head |-> f.head, agenda |-> x,
        got |-> f.got, calls |-> f.calls]
  BY DEF IsFrame
<1>3. [f EXCEPT !.got = x] =
       [role |-> f.role, tag |-> f.tag, data |-> f.data, start |-> f.start,
        off |-> f.off, module |-> f.module, head |-> f.head,
        agenda |-> f.agenda, got |-> x, calls |-> f.calls]
  BY DEF IsFrame
<1>4. [f EXCEPT !.calls = x] =
       [role |-> f.role, tag |-> f.tag, data |-> f.data, start |-> f.start,
        off |-> f.off, module |-> f.module, head |-> f.head,
        agenda |-> f.agenda, got |-> f.got, calls |-> x]
  BY DEF IsFrame
<1> QED BY <1>1, <1>2, <1>3, <1>4

(* A frame that has only got values and calls is one, and where it was.    *)
LEMMA Keeping ==
  ASSUME NEW f, Alone(f), NEW g, NEW got, NEW calls \in Seq(Seq(Byte))
  PROVE  LET e == [f EXCEPT !.got = got, !.calls = calls] IN
         Alone(e) /\ e.role = f.role /\ (Fits(g, f) => Fits(g, e)) /\ SameCodec(f, e)
<1> DEFINE d == [f EXCEPT !.got = got]
           e == [f EXCEPT !.got = got, !.calls = calls]
<1>1. /\ e = [d EXCEPT !.calls = calls]
      /\ d = [role |-> f.role, tag |-> f.tag, data |-> f.data,
                start |-> f.start, off |-> f.off, module |-> f.module,
                head |-> f.head, agenda |-> f.agenda, got |-> got,
                calls |-> f.calls]
  BY OneField DEF Alone
<1> HIDE DEF d
<1>2. IsFrame(d) BY <1>1 DEF IsFrame
<1>3. [d EXCEPT !.calls = calls] =
        [role |-> d.role, tag |-> d.tag, data |-> d.data,
         start |-> d.start, off |-> d.off, module |-> d.module,
         head |-> d.head, agenda |-> d.agenda, got |-> d.got,
         calls |-> calls]
  BY <1>2, OneField
<1>4. e = [role |-> f.role, tag |-> f.tag, data |-> f.data,
           start |-> f.start, off |-> f.off, module |-> f.module,
           head |-> f.head, agenda |-> f.agenda, got |-> got,
           calls |-> calls]
  BY <1>1, <1>3
<1> HIDE DEF e
<1>5. Alone(e) BY <1>4 DEF Alone, IsFrame, FrameOK, From
<1>6. e.role = f.role /\ (Fits(g, f) => Fits(g, e)) /\ SameCodec(f, e)
  BY <1>4 DEF Fits, SameCodec
<1> QED BY <1>5, <1>6 DEF e

LEMMA KeepingGot ==
  ASSUME NEW f, Alone(f), NEW g, NEW got
  PROVE  LET e == [f EXCEPT !.got = got] IN
         Alone(e) /\ e.role = f.role /\ (Fits(g, f) => Fits(g, e)) /\ SameCodec(f, e)
<1> DEFINE e == [f EXCEPT !.got = got]
<1>1. e = [role |-> f.role, tag |-> f.tag, data |-> f.data, start |-> f.start,
           off |-> f.off, module |-> f.module, head |-> f.head,
           agenda |-> f.agenda, got |-> got, calls |-> f.calls]
  BY OneField DEF Alone
<1> HIDE DEF e
<1>2. Alone(e) BY <1>1 DEF Alone, IsFrame, FrameOK, From
<1>3. e.role = f.role /\ (Fits(g, f) => Fits(g, e)) /\ SameCodec(f, e)
  BY <1>1 DEF Fits, SameCodec
<1> QED BY <1>2, <1>3 DEF e

(* The caller of a decoder that returned. *)
LEMMA Feeding ==
  ASSUME NEW f, Alone(f), NEW g, NEW v, f.agenda # <<>>,
         NEW off \in f.off..Len(f.data), NEW calls \in Seq(Seq(Byte))
  PROVE  LET e == Fed(f, off, v, calls) IN
         Alone(e) /\ e.role = f.role /\ (Fits(g, f) => Fits(g, e)) /\ SameCodec(f, e)
<1> DEFINE e == Fed(f, off, v, calls)
<1>1. e = [role |-> f.role, tag |-> f.tag, data |-> f.data, start |-> f.start,
           off |-> off, module |-> f.module, head |-> f.head,
           agenda |-> Tail(f.agenda), got |-> Append(f.got, v),
           calls |-> f.calls \o calls]
  <2> DEFINE a == [f EXCEPT !.off = off]
             b == [a EXCEPT !.got = Append(f.got, v)]
             c == [b EXCEPT !.calls = f.calls \o calls]
             d == [c EXCEPT !.agenda = Tail(f.agenda)]
  <2>1. e = d BY DEF Fed
  <2>2. a = [role |-> f.role, tag |-> f.tag, data |-> f.data,
             start |-> f.start, off |-> off, module |-> f.module,
             head |-> f.head, agenda |-> f.agenda, got |-> f.got,
             calls |-> f.calls]
    BY OneField DEF Alone
  <2> HIDE DEF a
  <2>3. IsFrame(a) BY <2>2 DEF IsFrame
  <2>4. b = [role |-> a.role, tag |-> a.tag, data |-> a.data,
             start |-> a.start, off |-> a.off, module |-> a.module,
             head |-> a.head, agenda |-> a.agenda,
             got |-> Append(f.got, v), calls |-> a.calls]
    BY <2>3, OneField
  <2> HIDE DEF b
  <2>5. IsFrame(b) BY <2>4 DEF IsFrame
  <2>6. c = [role |-> b.role, tag |-> b.tag, data |-> b.data,
             start |-> b.start, off |-> b.off, module |-> b.module,
             head |-> b.head, agenda |-> b.agenda, got |-> b.got,
             calls |-> f.calls \o calls]
    BY <2>5, OneField
  <2> HIDE DEF c
  <2>7. IsFrame(c) BY <2>6 DEF IsFrame
  <2>8. d = [role |-> c.role, tag |-> c.tag, data |-> c.data,
             start |-> c.start, off |-> c.off, module |-> c.module,
             head |-> c.head, agenda |-> Tail(f.agenda), got |-> c.got,
             calls |-> c.calls]
    BY <2>7, OneField
  <2> HIDE DEF d
  <2> QED BY <2>1, <2>2, <2>4, <2>6, <2>8
<1> HIDE DEF e
<1>2. Tail(f.agenda) \in Seq(TypeName) BY HeadTailProperties DEF Alone, FrameOK
<1>3. f.calls \o calls \in Seq(Seq(Byte)) BY ConcatProperties DEF Alone, FrameOK
<1>4. off \in 0..Len(f.data) /\ f.start \in 0..off
  BY DEF Alone, FrameOK
<1>5. f.tag # "opaque" BY DEF Alone
<1>6. Alone(e) BY <1>1, <1>2, <1>3, <1>4, <1>5 DEF Alone, IsFrame, FrameOK
<1>7. e.role = f.role /\ (Fits(g, f) => Fits(g, e)) /\ SameCodec(f, e)
  BY <1>1 DEF Fits, SameCodec
<1> QED BY <1>6, <1>7 DEF e

LEMMA RestType ==
  ASSUME NEW f, FrameOK(f)
  PROVE  /\ Rest(f) \in Seq(Byte) /\ Len(Rest(f)) = Len(f.data) - f.off
         /\ Len(f.data) \in Nat /\ f.off \in Nat
<1>1. Len(f.data) \in Nat /\ f.off \in 0..Len(f.data) /\ f.data \in Seq(Byte)
  BY LenProperties DEF FrameOK
<1>2. \A i \in (f.off + 1)..Len(f.data) : f.data[i] \in Byte
  BY <1>1, ElementOfSeq
<1> QED BY <1>1, <1>2, SubSeqProperties DEF Rest

(* A leaf takes no more bytes than there are.                              *)
LEMMA LeafLengthOK ==
  ASSUME NEW f, FrameOK(f), NEW c \in CodecDef, LeafOK(f, c)
  PROVE  LeafLength(f, c) \in 0..(Len(f.data) - f.off)
<1> DEFINE rest == Rest(f)
<1>1. rest \in Seq(Byte) /\ Len(rest) = Len(f.data) - f.off /\ Len(rest) \in Nat
  BY RestType
<1> HIDE DEF rest
<1>2. c.width \in Nat BY DEF CodecDef
<1>3. \A n \in Nat : Least(n, Len(rest)) \in 0..Len(rest)
  BY <1>1 DEF Least
<1>4. c.kind \in {"compact", "bytes"} =>
        CompactLength(rest[1]) \in 0..Len(rest) /\ CompactValue(rest) \in Int
  BY <1>1, CompactType DEF LeafOK, rest
<1>5. c.kind = "bytes" => CompactValue(rest) \in Nat
  BY <1>4 DEF LeafOK, rest
<1>6. c.kind = "bytes" => CompactLength(rest[1]) + CompactValue(rest) \in Nat
  BY <1>1, <1>4, <1>5
<1>7. LeafLength(f, c) \in 0..Len(rest)
  <2>1. CASE c.kind \in {"fixed", "padded", "raw", "text"}
    BY <2>1, <1>2, <1>3 DEF LeafLength, rest
  <2>2. CASE c.kind = "compact" BY <2>2, <1>4 DEF LeafLength, rest
  <2>3. CASE c.kind = "bytes" BY <2>3, <1>3, <1>6 DEF LeafLength, rest
  <2>4. CASE c.kind = "null" BY <2>4, <1>1 DEF LeafLength
  <2>5. CASE c.kind \notin {"fixed", "padded", "raw", "text", "compact", "bytes", "null"}
    BY <2>5, <1>3 DEF LeafLength, rest
  <2> QED BY <2>1, <2>2, <2>3, <2>4, <2>5
<1> QED BY <1>1, <1>7

-----------------------------------------------------------------------------
(* The actions *)

LEMMA TopFacts ==
  ASSUME StackOK(stack)
  PROVE  /\ Len(stack) \in Nat \ {0} /\ DOMAIN stack = 1..Len(stack)
         /\ IsSeq(stack) /\ Top = stack[Len(stack)] /\ Alone(Top)
         /\ Top.role = "caller" <=> Len(stack) = 1
         /\ Len(stack) > 1 => Fits(stack[Len(stack) - 1], Top)
         /\ Append(stack, Top) = Upon(stack, Len(stack), Top)
<1>1. /\ Len(stack) \in Nat /\ DOMAIN stack = 1..Len(stack) /\ Len(stack) >= 1
      /\ IsSeq(stack) /\ Append(stack, Top) = Upon(stack, Len(stack), Top)
  BY Push DEF StackOK
<1>2. Len(stack) \in DOMAIN stack BY <1>1
<1>3. Top = stack[Len(stack)] BY DEF Top
<1>4. Alone(Top) /\ (Top.role = "caller" <=> Len(stack) = 1)
  BY <1>2, <1>3 DEF StackOK
<1>5. Len(stack) > 1 => Fits(stack[Len(stack) - 1], Top)
  <2>1. Len(stack) > 1 => Len(stack) \in DOMAIN stack \ {1} BY <1>1, <1>2
  <2> QED BY <2>1, <1>3 DEF StackOK
<1> QED BY <1>1, <1>3, <1>4, <1>5

(* What a decoder is asked for next. *)
LEMMA AskedFacts ==
  ASSUME StackOK(stack), Top.agenda # <<>>
  PROVE  /\ Next1 \in TypeName /\ Asked \in CodecDef /\ CodecOK(Asked)
         /\ Top.module \in Module /\ Top.tag # "opaque"
         /\ Asked = CodecOf(Top.module, Next1)
<1>1. Alone(Top) BY TopFacts
<1>2. Top.agenda \in Seq(TypeName) /\ Top.module \in Module
  BY <1>1 DEF Alone, FrameOK
<1>3. Next1 \in TypeName BY <1>2, HeadTailProperties DEF Next1
<1>4. Override[Top.module][Next1] \in TypeName
  BY <1>2, <1>3, DecodeAssumption
<1>5. Asked \in CodecDef /\ CodecOK(Asked)
  BY <1>4, DecodeAssumption DEF Asked, CodecOf
<1> QED BY <1>1, <1>2, <1>3, <1>5 DEF Alone, Asked

(* Of a payload's decoder, the envelope is the frame under it.             *)
LEMMA InnerFacts ==
  ASSUME StackOK(stack), NEW i \in DOMAIN stack, stack[i].role = "inner"
  PROVE  /\ i - 2 \in 1..Len(stack) /\ i - 1 \in 1..Len(stack) /\ i \in Nat
         /\ Alone(stack[i - 1]) /\ stack[i - 1].role = "codec"
         /\ stack[i - 1].tag = "opaque"
         /\ Fits(stack[i - 2], stack[i - 1])
<1>1. Len(stack) \in Nat /\ DOMAIN stack = 1..Len(stack) BY TopFacts
<1>2. i # 1 BY DEF StackOK
<1>3. Fits(stack[i - 1], stack[i]) BY <1>2 DEF StackOK
<1>4. stack[i - 1].role = "codec" /\ stack[i - 1].tag = "opaque"
  BY <1>3 DEF Fits
<1>5. i - 1 \in DOMAIN stack BY <1>1, <1>2
<1>6. i - 1 # 1 BY <1>4, <1>5 DEF StackOK
<1>7. Fits(stack[i - 1 - 1], stack[i - 1]) /\ Alone(stack[i - 1])
  BY <1>5, <1>6 DEF StackOK
<1>8. i - 1 - 1 = i - 2 /\ i - 2 \in 1..Len(stack) BY <1>1, <1>5, <1>6
<1> QED BY <1>1, <1>4, <1>5, <1>7, <1>8

LEMMA PanicOK ==
  ASSUME DecodeInv, Panic, status = "run"
  PROVE  DecodeInv'
<1>1. StackOK(stack) BY DEF DecodeInv
<1>2. CASE Inner = {} /\ status' = "panic" /\ UNCHANGED stack
  BY <1>1, <1>2 DEF DecodeInv
<1>3. CASE Inner # {} /\ UNCHANGED status
  <2>1. PICK i \in Inner :
          stack' = Append(SubSeq(stack, 1, i - 2),
                     [stack[i - 1] EXCEPT !.got = <<RawValue(stack[i - 1])>>])
    BY <1>3 DEF Panic
  <2> DEFINE f == [stack[i - 1] EXCEPT !.got = <<RawValue(stack[i - 1])>>]
  <2>2. i \in DOMAIN stack /\ stack[i].role = "inner" BY DEF Inner
  <2>3. /\ i - 2 \in 1..Len(stack) /\ Alone(stack[i - 1])
        /\ stack[i - 1].role = "codec" /\ Fits(stack[i - 2], stack[i - 1])
    BY <1>1, <2>2, InnerFacts
  <2>4. Alone(f) /\ f.role = "codec" /\ Fits(stack[i - 2], f)
    BY <2>3, KeepingGot
  <2>5. stack' = Upon(stack, i - 2, f) BY <2>1 DEF Upon
  <2> HIDE DEF f
  <2>6. i - 2 \in 0..Len(stack) /\ i - 2 > 0 BY <1>1, <2>3, TopFacts
  <2>7. StackOK(stack') BY <1>1, <2>4, <2>5, <2>6, StackStep
  <2> QED BY <1>3, <2>7 DEF DecodeInv
<1> QED BY <1>2, <1>3 DEF Panic

LEMMA ReadLeafOK ==
  ASSUME DecodeInv, ReadLeaf
  PROVE  DecodeInv'
<1>1. StackOK(stack) /\ status = "run" /\ Top.agenda # <<>>
  BY DEF DecodeInv, ReadLeaf, Asking
<1>2. CASE Panic BY <1>1, <1>2, PanicOK
<1>3. CASE LeafOK(Top, Asked)
  <2> DEFINE off == Top.off + LeafLength(Top, Asked)
             v == LeafValue(Top, Asked)
             f == Fed(Top, off, v, <<>>)
             n == Len(stack) - 1
  <2>1. stack' = Upon(stack, n, f) /\ UNCHANGED status
    BY <1>3 DEF ReadLeaf, Below, Upon
  <2>2. Alone(Top) /\ FrameOK(Top) BY <1>1, TopFacts DEF Alone
  <2>3. LeafLength(Top, Asked) \in 0..(Len(Top.data) - Top.off)
    BY <1>1, <1>3, <2>2, AskedFacts, LeafLengthOK
  <2>4. off \in Top.off..Len(Top.data) BY <2>2, <2>3, RestType
  <2>5. <<>> \in Seq(Seq(Byte)) BY EmptySeq
  <2> HIDE DEF off, v
  <2>6. Alone(f) /\ f.role = Top.role
        /\ \A g : Fits(g, Top) => Fits(g, f)
    BY <1>1, <2>2, <2>4, <2>5, Feeding
  <2> HIDE DEF f
  <2>7. n \in 0..Len(stack) /\ (n = 0 <=> Len(stack) = 1)
        /\ (n > 0 <=> Len(stack) > 1)
    BY <1>1, TopFacts
  <2>8. f.role = "caller" <=> n = 0 BY <1>1, <2>6, <2>7, TopFacts
  <2>9. n > 0 => Fits(stack[n], f) BY <1>1, <2>6, <2>7, TopFacts
  <2> HIDE DEF n
  <2>10. StackOK(stack') BY <1>1, <2>1, <2>6, <2>7, <2>8, <2>9, StackStep
  <2> QED BY <2>1, <2>10 DEF DecodeInv
<1> QED BY <1>2, <1>3 DEF ReadLeaf

(* The decoder of a field, its header read up to off.                      *)
LEMMA Entered ==
  ASSUME NEW off, NEW module, NEW head, NEW agenda,
         Enter(off, module, head, agenda)
  PROVE  stack' = Append(stack,
           [role |-> "codec", tag |-> Asked.kind, data |-> Top.data,
            start |-> Top.off, off |-> off, module |-> module,
            head |-> head, agenda |-> agenda, got |-> <<>>, calls |-> <<>>])
<1> DEFINE g == Frame("codec", Asked.kind, Top.data, Top.off, module, head, agenda)
           f == [g EXCEPT !.off = off]
<1>1. g = [role |-> "codec", tag |-> Asked.kind, data |-> Top.data,
           start |-> Top.off, off |-> Top.off, module |-> module,
           head |-> head, agenda |-> agenda, got |-> <<>>, calls |-> <<>>]
  BY DEF Frame
<1>2. stack' = Append(stack, f) BY DEF Enter
<1> HIDE DEF g
<1>3. IsFrame(g) BY <1>1 DEF IsFrame
<1>4. f = [role |-> g.role, tag |-> g.tag, data |-> g.data,
           start |-> g.start, off |-> off, module |-> g.module,
           head |-> g.head, agenda |-> g.agenda, got |-> g.got,
           calls |-> g.calls]
  BY <1>3, OneField
<1> QED BY <1>1, <1>2, <1>4

LEMMA EnterOK ==
  ASSUME DecodeInv, status = "run", Top.agenda # <<>>,
         Asked.kind \in NodeKind \ {"opaque"},
         NEW off \in Top.off..Len(Top.data), NEW module \in Module, NEW head,
         NEW agenda \in Seq(TypeName), Enter(off, module, head, agenda)
  PROVE  DecodeInv'
<1>1. StackOK(stack) /\ UNCHANGED status BY DEF DecodeInv, Enter
<1> DEFINE f == [role |-> "codec", tag |-> Asked.kind, data |-> Top.data,
                 start |-> Top.off, off |-> off, module |-> module,
                 head |-> head, agenda |-> agenda, got |-> <<>>, calls |-> <<>>]
<1>2. stack' = Append(stack, f) BY Entered
<1>3. Alone(Top) /\ FrameOK(Top) BY <1>1, TopFacts DEF Alone
<1>4. off \in 0..Len(Top.data) /\ Top.off \in 0..off /\ Top.data \in Seq(Byte)
  BY <1>3, LenProperties DEF FrameOK
<1>5. <<>> \in Seq(Seq(Byte)) BY EmptySeq
<1>6. FrameOK(f) BY <1>4, <1>5 DEF FrameOK
<1>7. Alone(f) BY <1>6 DEF Alone, IsFrame
<1>8. Fits(Top, f) BY DEF Fits, Asked, Next1
<1>9. f.role # "caller" OBVIOUS
<1> HIDE DEF f
<1>10. /\ Len(stack) \in 0..Len(stack) /\ Len(stack) # 0
       /\ Top = stack[Len(stack)] /\ stack' = Upon(stack, Len(stack), f)
  BY <1>1, <1>2, TopFacts, Push
<1>11. StackOK(stack') BY <1>1, <1>7, <1>8, <1>9, <1>10, StackStep
<1> QED BY <1>1, <1>11 DEF DecodeInv

LEMMA NextBytesType ==
  ASSUME NEW f, FrameOK(f), NEW n \in Nat
  PROVE  /\ NextBytes(f, n) \in Seq(Byte)
         /\ f.off + Len(NextBytes(f, n)) = Least(f.off + n, Len(f.data))
         /\ f.off + Len(NextBytes(f, n)) \in f.off..Len(f.data)
<1>1. Len(f.data) \in Nat /\ f.off \in 0..Len(f.data) /\ f.data \in Seq(Byte)
  BY LenProperties DEF FrameOK
<1> DEFINE m == Least(f.off + n, Len(f.data))
<1>2. m \in f.off..Len(f.data) BY <1>1 DEF Least
<1> HIDE DEF m
<1>3. \A i \in (f.off + 1)..m : f.data[i] \in Byte
  BY <1>1, <1>2, ElementOfSeq
<1>4. SubSeq(f.data, f.off + 1, m) \in Seq(Byte)
      /\ Len(SubSeq(f.data, f.off + 1, m)) = m - f.off
  BY <1>1, <1>2, <1>3, SubSeqProperties
<1>5. NextBytes(f, n) = SubSeq(f.data, f.off + 1, m) BY DEF NextBytes, m
<1>6. f.off + Len(NextBytes(f, n)) = m BY <1>1, <1>2, <1>4, <1>5
<1> QED BY <1>2, <1>4, <1>5, <1>6 DEF m

LEMMA CopiesType ==
  ASSUME NEW n \in Int, NEW t \in TypeName
  PROVE  Copies(n, t) \in Seq(TypeName)
<1>1. CASE n \in Nat BY <1>1 DEF Copies
<1>2. CASE n \notin Nat
  <2>1. 1..n = 1..0 BY <1>2
  <2>2. [i \in 1..0 |-> t] \in Seq(TypeName) OBVIOUS
  <2> QED BY <2>1, <2>2 DEF Copies
<1> QED BY <1>1, <1>2

(* A compact at the front of what is left.                                 *)
LEMMA PrefixType ==
  ASSUME NEW f, FrameOK(f), CompactOK(Rest(f))
  PROVE  /\ f.off + CompactLength(Rest(f)[1]) \in f.off..Len(f.data)
         /\ CompactValue(Rest(f)) \in Int
<1>1. /\ Rest(f) \in Seq(Byte) /\ Len(Rest(f)) = Len(f.data) - f.off
      /\ Len(f.data) \in Nat /\ f.off \in Nat
  BY RestType
<1>2. CompactLength(Rest(f)[1]) \in 1..Len(Rest(f)) /\ CompactValue(Rest(f)) \in Int
  BY <1>1, CompactType
<1> QED BY <1>1, <1>2

(* The types a codec has fields of.                                        *)
LEMMA FieldsType ==
  ASSUME NEW c \in CodecDef, CodecOK(c)
  PROVE  /\ c.width \in Nat /\ c.fields \in Seq(Seq(TypeName))
         /\ c.kind \in NodeKind \ {"enum", "result", "call"} =>
               c.fields[1] \in Seq(TypeName)
         /\ c.kind \in {"box", "array", "vec", "option", "opaque"} =>
               c.fields[1][1] \in TypeName
         /\ c.kind = "map" => c.fields[1][1] \in TypeName /\ c.fields[1][2] \in TypeName
<1>1. c.width \in Nat /\ c.fields \in Seq(Seq(TypeName)) BY DEF CodecDef
<1>2. c.kind \in NodeKind \ {"enum", "result", "call"} =>
        c.fields[1] \in Seq(TypeName)
  BY <1>1, ElementOfSeq DEF CodecOK
<1>3. ASSUME c.kind \in {"box", "array", "vec", "option", "opaque"}
      PROVE  c.fields[1][1] \in TypeName
  BY <1>2, <1>3, ElementOfSeq DEF CodecOK, NodeKind
<1>4. ASSUME c.kind = "map"
      PROVE  c.fields[1][1] \in TypeName /\ c.fields[1][2] \in TypeName
  BY <1>2, <1>4, ElementOfSeq DEF CodecOK, NodeKind
<1> QED BY <1>1, <1>2, <1>3, <1>4

LEMMA EnterAllOK ==
  ASSUME DecodeInv,
         EnterStruct \/ EnterArray \/ EnterVec \/ EnterMap \/ EnterOption
           \/ EnterVariant \/ EnterCall
  PROVE  DecodeInv'
<1>1. StackOK(stack) BY DEF DecodeInv
<1>2. status = "run" /\ Top.agenda # <<>>
  BY DEF Asking, EnterStruct, EnterArray, EnterVec, EnterMap, EnterOption,
         EnterVariant, EnterCall
<1>3. /\ Asked \in CodecDef /\ CodecOK(Asked) /\ Top.module \in Module
      /\ Alone(Top) /\ FrameOK(Top)
  BY <1>1, <1>2, AskedFacts, TopFacts DEF Alone
<1>4. Top.off \in Top.off..Len(Top.data) /\ Top.off \in Nat
      /\ Len(Top.data) \in Nat /\ Top.data \in Seq(Byte)
  BY <1>3, LenProperties DEF FrameOK
<1>5. /\ Asked.width \in Nat /\ Asked.fields \in Seq(Seq(TypeName))
      /\ Asked.kind \in NodeKind \ {"enum", "result", "call"} =>
            Asked.fields[1] \in Seq(TypeName)
      /\ Asked.kind \in {"box", "array", "vec", "option", "opaque"} =>
            Asked.fields[1][1] \in TypeName
      /\ Asked.kind = "map" => /\ Asked.fields[1][1] \in TypeName
                               /\ Asked.fields[1][2] \in TypeName
  BY <1>3, FieldsType
<1>6. Top.off + Len(NextBytes(Top, 1)) \in Top.off..Len(Top.data)
  BY <1>3, NextBytesType
<1>7. CompactOK(Rest(Top)) =>
        /\ Top.off + CompactLength(Rest(Top)[1]) \in Top.off..Len(Top.data)
        /\ CompactValue(Rest(Top)) \in Int
  BY <1>3, PrefixType
<1>8. CASE Panic BY <1>2, <1>8, PanicOK
<1>9. CASE EnterStruct
  <2>1. Asked.kind \in {"struct", "box"} BY <1>9 DEF EnterStruct, Asking
  <2> QED BY <1>2, <1>3, <1>4, <1>5, <1>9, <2>1, EnterOK DEF EnterStruct, NodeKind
<1>10. CASE EnterArray
  <2>1. Asked.kind = "array" BY <1>10 DEF EnterArray, Asking
  <2>2. Copies(Asked.width, Asked.fields[1][1]) \in Seq(TypeName)
    BY <1>5, <2>1, CopiesType
  <2> QED BY <1>2, <1>3, <1>4, <1>10, <2>1, <2>2, EnterOK DEF EnterArray, NodeKind
<1>11. CASE EnterVec /\ ~ Panic
  <2>1. Asked.kind = "vec" BY <1>11 DEF EnterVec, Asking
  <2>2. CompactOK(Rest(Top)) BY <1>11 DEF EnterVec
  <2>3. Copies(CompactValue(Rest(Top)), Asked.fields[1][1]) \in Seq(TypeName)
    BY <1>5, <1>7, <2>1, <2>2, CopiesType
  <2> QED BY <1>2, <1>3, <1>7, <1>11, <2>1, <2>2, <2>3, EnterOK
          DEF EnterVec, NodeKind
<1>12. CASE EnterMap /\ ~ Panic
  <2> DEFINE n == CompactValue(Rest(Top))
             pair == Asked.fields[1]
             s == [i \in 1..(2 * n) |-> pair[IF i % 2 = 1 THEN 1 ELSE 2]]
  <2>1. Asked.kind = "map" BY <1>12 DEF EnterMap, Asking
  <2>2. CompactOK(Rest(Top)) BY <1>12 DEF EnterMap
  <2>3. n \in Int /\ pair[1] \in TypeName /\ pair[2] \in TypeName
    BY <1>5, <1>7, <2>1, <2>2
  <2>4. Enter(Top.off + CompactLength(Rest(Top)[1]), Top.module, <<>>, s)
    BY <1>12 DEF EnterMap
  <2> HIDE DEF n, pair
  <2>5. s \in Seq(TypeName)
    <3>1. CASE n \in Nat BY <2>3, <3>1
    <3>2. CASE n \notin Nat
      <4>1. 1..(2 * n) = 1..0 BY <2>3, <3>2
      <4>2. [i \in 1..0 |-> pair[IF i % 2 = 1 THEN 1 ELSE 2]] \in Seq(TypeName)
        OBVIOUS
      <4> QED BY <4>1, <4>2
    <3> QED BY <3>1, <3>2
  <2> HIDE DEF s
  <2> QED BY <1>2, <1>3, <1>7, <2>1, <2>2, <2>4, <2>5, EnterOK DEF NodeKind
<1>13. CASE EnterOption
  <2> DEFINE s == IF Flag(Top) = 0 THEN <<>> ELSE Asked.fields[1]
  <2>1. Asked.kind = "option" BY <1>13 DEF EnterOption, Asking
  <2>2. <<>> \in Seq(TypeName) BY EmptySeq
  <2>3. s \in Seq(TypeName) BY <1>5, <2>1, <2>2 DEF NodeKind
  <2>4. Enter(Top.off + Len(NextBytes(Top, 1)), Top.module, <<Flag(Top)>>, s)
    BY <1>13 DEF EnterOption
  <2> HIDE DEF s
  <2> QED BY <1>2, <1>3, <1>6, <2>1, <2>3, <2>4, EnterOK DEF NodeKind
<1>14. CASE EnterVariant /\ ~ Panic
  <2> DEFINE s == Asked.fields[Index(Top) + 1]
  <2>1. Asked.kind \in {"enum", "result"} BY <1>14 DEF EnterVariant, Asking
  <2>2. /\ Index(Top) < Len(Asked.fields)
        /\ Enter(Top.off + Len(NextBytes(Top, 1)), Top.module, <<Index(Top)>>, s)
    BY <1>14 DEF EnterVariant
  <2>3. Index(Top) \in Nat
    <3>1. /\ Rest(Top) \in Seq(Byte)
          /\ Rest(Top) # <<>> => Len(Rest(Top)) \in Nat \ {0}
      BY <1>3, RestType, EmptySeq
    <3>2. Rest(Top) # <<>> => Rest(Top)[1] \in Byte BY <3>1, ElementOfSeq
    <3>3. Rest(Top) # <<>> => Rest(Top)[1] \in Nat BY <3>2, ByteInt
    <3> QED BY <3>3 DEF Index, Flag
  <2>4. s \in Seq(TypeName)
    <3>1. Index(Top) + 1 \in 1..Len(Asked.fields)
      BY <1>5, <2>2, <2>3, LenProperties
    <3> QED BY <1>5, <3>1, ElementOfSeq
  <2> HIDE DEF s
  <2> QED BY <1>2, <1>3, <1>6, <2>1, <2>2, <2>4, EnterOK DEF NodeKind
<1>15. CASE EnterCall /\ ~ Panic
  <2> DEFINE ix == NextBytes(Top, 2)
  <2>1. Asked.kind = "call" BY <1>15 DEF EnterCall, Asking
  <2>2. ix \in CallIndex /\ Enter(Top.off + 2, Call[ix].module, ix, Call[ix].args)
    BY <1>15 DEF EnterCall
  <2>3. Len(ix) = 2 BY <2>2, DecodeAssumption
  <2>4. Call[ix].module \in Module /\ Call[ix].args \in Seq(TypeName)
    BY <2>2, DecodeAssumption
  <2>5. Top.off + Len(ix) \in Top.off..Len(Top.data) BY <1>3, NextBytesType
  <2> HIDE DEF ix
  <2>6. Top.off + 2 \in Top.off..Len(Top.data) BY <2>3, <2>5
  <2> QED BY <1>2, <2>1, <2>2, <2>4, <2>6, EnterOK DEF NodeKind
<1> QED BY <1>8, <1>9, <1>10, <1>11, <1>12, <1>13, <1>14, <1>15

(* The two decoders of an opaque field.                                    *)
EnvelopeFrame ==
  [role |-> "codec", tag |-> "opaque", data |-> Top.data, start |-> Top.off,
   off |-> Top.off + EnvelopeLength(Rest(Top)), module |-> Top.module,
   head |-> Payload(Rest(Top)), agenda |-> <<>>, got |-> <<>>, calls |-> <<>>]

PayloadFrame ==
  [role |-> "inner", tag |-> "inner", data |-> Payload(Rest(Top)), start |-> 0,
   off |-> 0, module |-> Top.module, head |-> <<>>,
   agenda |-> Asked.fields[1], got |-> <<>>, calls |-> <<>>]

LEMMA OpaqueEntered ==
  ASSUME EnterOpaque, EnvelopeOK(Rest(Top))
  PROVE  /\ UNCHANGED status
         /\ stack' = Append(Append(stack, EnvelopeFrame), PayloadFrame)
<1> DEFINE bs == Rest(Top)
           a == Frame("codec", "opaque", Top.data, Top.off, Top.module,
                      Payload(bs), <<>>)
           e == [a EXCEPT !.off = Top.off + EnvelopeLength(bs)]
           f == Frame("inner", "inner", Payload(bs), 0, Top.module, <<>>,
                      Asked.fields[1])
<1>1. stack' = Append(Append(stack, e), f) /\ UNCHANGED status
  BY DEF EnterOpaque
<1>2. f = PayloadFrame BY DEF Frame, PayloadFrame
<1>3. e = EnvelopeFrame
  <2>1. a = [role |-> "codec", tag |-> "opaque", data |-> Top.data,
             start |-> Top.off, off |-> Top.off, module |-> Top.module,
             head |-> Payload(bs), agenda |-> <<>>, got |-> <<>>,
             calls |-> <<>>]
    BY DEF Frame
  <2> HIDE DEF a
  <2>2. IsFrame(a) BY <2>1 DEF IsFrame
  <2>3. e = [role |-> a.role, tag |-> a.tag, data |-> a.data,
             start |-> a.start, off |-> Top.off + EnvelopeLength(bs),
             module |-> a.module, head |-> a.head, agenda |-> a.agenda,
             got |-> a.got, calls |-> a.calls]
    BY <2>2, OneField
  <2> QED BY <2>1, <2>3 DEF EnvelopeFrame
<1> HIDE DEF e, f
<1> QED BY <1>1, <1>2, <1>3

LEMMA EnterOpaqueOK ==
  ASSUME DecodeInv, EnterOpaque
  PROVE  DecodeInv'
<1>1. StackOK(stack) /\ status = "run" /\ Top.agenda # <<>> /\ Asked.kind = "opaque"
  BY DEF DecodeInv, EnterOpaque, Asking
<1>2. CASE Panic BY <1>1, <1>2, PanicOK
<1>3. CASE EnvelopeOK(Rest(Top))
  <2> DEFINE bs == Rest(Top)
             e == EnvelopeFrame
             f == PayloadFrame
             n == Len(stack)
  <2>1. /\ EnvelopeOK(bs) /\ stack' = Append(Append(stack, e), f)
        /\ UNCHANGED status
    BY <1>3, OpaqueEntered
  <2>2. /\ Asked \in CodecDef /\ CodecOK(Asked) /\ Top.module \in Module
        /\ Alone(Top) /\ FrameOK(Top)
    BY <1>1, AskedFacts, TopFacts DEF Alone
  <2>3. /\ bs \in Seq(Byte) /\ Len(bs) = Len(Top.data) - Top.off
        /\ Len(Top.data) \in Nat /\ Top.off \in Nat /\ Top.data \in Seq(Byte)
    BY <2>2, RestType DEF FrameOK
  <2>4. EnvelopeLength(bs) \in 0..Len(bs) /\ Payload(bs) \in Seq(Byte)
    BY <2>1, <2>3, EnvelopeType
  <2>5. Asked.fields[1] \in Seq(TypeName)
    BY <1>1, <2>2, FieldsType DEF NodeKind
  <2>6. /\ <<>> \in Seq(Seq(Byte)) /\ <<>> \in Seq(TypeName)
    BY EmptySeq
  <2>7. e = [role |-> "codec", tag |-> "opaque", data |-> Top.data,
             start |-> Top.off, off |-> Top.off + EnvelopeLength(bs),
             module |-> Top.module, head |-> Payload(bs), agenda |-> <<>>,
             got |-> <<>>, calls |-> <<>>]
    BY DEF EnvelopeFrame
  <2>8. f = [role |-> "inner", tag |-> "inner", data |-> Payload(bs),
             start |-> 0, off |-> 0, module |-> Top.module, head |-> <<>>,
             agenda |-> Asked.fields[1], got |-> <<>>, calls |-> <<>>]
    BY DEF PayloadFrame
  <2> HIDE DEF e, f
  <2>9. From(e) = bs BY <2>7 DEF From, Rest
  <2> HIDE DEF bs
  <2>10. Alone(e)
    <3>1. FrameOK(e) BY <2>2, <2>3, <2>4, <2>6, <2>7 DEF FrameOK
    <3>2. IsFrame(e) BY <2>7 DEF IsFrame
    <3> QED BY <2>1, <2>7, <2>9, <3>1, <3>2 DEF Alone, NodeKind
  <2>11. Alone(f)
    <3>1. Len(f.data) \in Nat BY <2>4, <2>8, LenProperties
    <3>2. FrameOK(f) BY <2>2, <2>4, <2>5, <2>6, <2>8, <3>1 DEF FrameOK
    <3>3. IsFrame(f) BY <2>8 DEF IsFrame
    <3> QED BY <2>8, <3>2, <3>3 DEF Alone
  <2>12. Fits(Top, e) /\ e.role # "caller"
    BY <1>1, <2>7 DEF Fits, Asked, Next1
  <2>13. Fits(e, f) /\ f.role # "caller" BY <2>7, <2>8 DEF Fits
  <2>14. /\ n \in 0..n /\ n # 0 /\ n \in Nat /\ Top = stack[n] /\ IsSeq(stack)
         /\ Append(stack, e) = Upon(stack, n, e)
    BY <1>1, TopFacts, Push
  <2> DEFINE s == Upon(stack, n, e)
  <2>15. StackOK(s) BY <1>1, <2>10, <2>12, <2>14, StackStep
  <2>16. Len(s) = n + 1 /\ s[n + 1] = e BY <2>14, Cut
  <2>17. stack' = Append(s, f) BY <2>1, <2>14
  <2> HIDE DEF s
  <2>18. Append(s, f) = Upon(s, Len(s), f) BY <2>15, Push DEF StackOK
  <2>19. Len(s) \in 0..Len(s) /\ Len(s) # 0 /\ Len(s) > 0 BY <2>14, <2>16
  <2>20. StackOK(Upon(s, Len(s), f))
    BY <2>11, <2>13, <2>15, <2>16, <2>19, StackStep
  <2> QED BY <2>1, <2>17, <2>18, <2>20 DEF DecodeInv
<1> QED BY <1>2, <1>3 DEF EnterOpaque

LEMMA LeaveInnerOK ==
  ASSUME DecodeInv, LeaveInner
  PROVE  DecodeInv'
<1>1. StackOK(stack) /\ Top.role = "inner" /\ UNCHANGED status
  BY DEF DecodeInv, LeaveInner
<1> DEFINE n == Len(stack)
           envelope == stack[n - 1]
           f == IF Top.off = Len(Top.data)
                THEN [envelope EXCEPT !.got = Top.got, !.calls = envelope.calls \o Top.calls]
                ELSE [envelope EXCEPT !.got = <<RawValue(envelope)>>]
<1>2. stack' = Upon(stack, n - 2, f) BY DEF LeaveInner, Upon
<1>3. n \in Nat \ {0} /\ n \in DOMAIN stack /\ Top = stack[n] /\ Alone(Top)
  BY <1>1, TopFacts
<1>4. /\ n - 2 \in 1..n /\ Alone(envelope) /\ envelope.role = "codec"
      /\ Fits(stack[n - 2], envelope)
  BY <1>1, <1>3, InnerFacts
<1> HIDE DEF envelope
<1>5. envelope.calls \o Top.calls \in Seq(Seq(Byte))
  BY <1>3, <1>4, ConcatProperties DEF Alone, FrameOK
<1>6. Alone(f) /\ f.role = "codec" /\ Fits(stack[n - 2], f)
  <2> DEFINE whole == [envelope EXCEPT !.got = Top.got,
                                       !.calls = envelope.calls \o Top.calls]
             raw == [envelope EXCEPT !.got = <<RawValue(envelope)>>]
  <2>1. Alone(whole) /\ whole.role = "codec" /\ Fits(stack[n - 2], whole)
    BY <1>4, <1>5, Keeping
  <2>2. Alone(raw) /\ raw.role = "codec" /\ Fits(stack[n - 2], raw)
    BY <1>4, KeepingGot
  <2>3. f = IF Top.off = Len(Top.data) THEN whole ELSE raw OBVIOUS
  <2> HIDE DEF f, whole, raw
  <2> QED BY <2>1, <2>2, <2>3
<1> HIDE DEF f
<1>7. n - 2 \in 0..n /\ n - 2 > 0 BY <1>3, <1>4
<1>8. StackOK(stack') BY <1>1, <1>2, <1>6, <1>7, StackStep
<1> QED BY <1>1, <1>8 DEF DecodeInv

LEMMA PublishedType ==
  ASSUME NEW f, FrameOK(f)
  PROVE  Published(f) \in Seq(Seq(Byte))
<1>1. /\ f.data \in Seq(Byte) /\ Len(f.data) \in Nat /\ f.off \in 0..Len(f.data)
      /\ f.start \in 0..f.off /\ f.calls \in Seq(Seq(Byte))
  BY LenProperties DEF FrameOK
<1>2. \A i \in (f.start + 1)..f.off : f.data[i] \in Byte
  BY <1>1, ElementOfSeq
<1>3. SubSeq(f.data, f.start + 1, f.off) \in Seq(Byte)
  BY <1>1, <1>2, SubSeqProperties
<1> QED BY <1>1, <1>3, AppendProperties DEF Published

LEMMA LeaveOK ==
  ASSUME DecodeInv, Leave
  PROVE  DecodeInv'
<1>1. StackOK(stack) /\ Top.role = "codec" /\ UNCHANGED status
  BY DEF DecodeInv, Leave
<1> DEFINE n == Len(stack)
           g == stack[n - 1]
           v == Result(Top)
           f == Fed(g, Top.off, v, Published(Top))
<1>2. stack' = Upon(stack, n - 2, f) BY DEF Leave, Upon
<1>3. n \in Nat /\ n > 1 /\ Alone(Top) /\ DOMAIN stack = 1..n /\ Fits(g, Top)
  BY <1>1, TopFacts
<1>4. n - 1 \in DOMAIN stack BY <1>3
<1>5. /\ Alone(g) /\ (g.role = "caller" <=> n - 1 = 1)
      /\ n - 1 # 1 => Fits(stack[n - 1 - 1], g)
  BY <1>1, <1>4 DEF StackOK
<1>6. n - 1 - 1 = n - 2 /\ n - 2 \in 0..n /\ (n - 1 = 1 <=> n - 2 = 0) BY <1>3
<1>7. Published(Top) \in Seq(Seq(Byte)) BY <1>3, PublishedType DEF Alone
<1>8. /\ g.agenda # <<>> /\ Top.data = g.data /\ Top.start = g.off
  BY <1>1, <1>3 DEF Fits
<1>9. Top.off \in g.off..Len(g.data)
  <2>1. /\ Top.off \in 0..Len(Top.data) /\ Top.start \in 0..Top.off
        /\ Len(Top.data) \in Nat
    BY <1>3, LenProperties DEF Alone, FrameOK
  <2> QED BY <1>8, <2>1
<1> HIDE DEF g, v
<1>10. Alone(f) /\ f.role = g.role
       /\ (Fits(stack[n - 2], g) => Fits(stack[n - 2], f))
  BY <1>5, <1>7, <1>8, <1>9, Feeding
<1> HIDE DEF f
<1>11. /\ f.role = "caller" <=> n - 2 = 0
       /\ n - 2 > 0 => Fits(stack[n - 2], f)
  BY <1>3, <1>5, <1>6, <1>10
<1>12. StackOK(stack') BY <1>1, <1>2, <1>6, <1>10, <1>11, StackStep
<1> QED BY <1>1, <1>12 DEF DecodeInv

LEMMA InitOK == Init => DecodeInv
<1> SUFFICES ASSUME NEW r \in Request, NEW d \in Input[r],
                    stack = <<Frame("caller", "caller", d, 0, r.module, r.types, r.types)>>,
                    status = "run"
             PROVE  DecodeInv
  BY DEF Init
<1> DEFINE f == Frame("caller", "caller", d, 0, r.module, r.types, r.types)
<1>1. d \in Seq(Byte) /\ r.module \in Module /\ r.types \in Seq(TypeName)
  BY DecodeAssumption
<1>2. f = [role |-> "caller", tag |-> "caller", data |-> d, start |-> 0,
           off |-> 0, module |-> r.module, head |-> r.types,
           agenda |-> r.types, got |-> <<>>, calls |-> <<>>]
  BY DEF Frame
<1>3. <<>> \in Seq(Seq(Byte)) /\ Len(d) \in Nat
  BY <1>1, EmptySeq, LenProperties
<1> HIDE DEF f
<1>4. FrameOK(f) BY <1>1, <1>2, <1>3 DEF FrameOK
<1>5. Alone(f) BY <1>2, <1>4 DEF Alone, IsFrame
<1>6. stack = <<f>> BY DEF f
<1>7. /\ stack \in Seq({f}) /\ Len(stack) = 1 /\ stack[1] = f BY <1>6
<1>8. IsSeq(stack) /\ DOMAIN stack = 1..1 BY <1>7, IsSeqOf
<1>9. \A i \in DOMAIN stack : i = 1 BY <1>8
<1>10. StackOK(stack) BY <1>2, <1>5, <1>7, <1>8, <1>9 DEF StackOK
<1> QED BY <1>10 DEF DecodeInv

LEMMA DecodeStep == DecodeInv /\ [Next]_vars => DecodeInv'
<1> SUFFICES ASSUME DecodeInv, [Next]_vars PROVE DecodeInv'
  OBVIOUS
<1>1. CASE ReadLeaf BY <1>1, ReadLeafOK
<1>2. CASE NoCodec BY <1>2, PanicOK DEF NoCodec, Asking
<1>3. CASE EnterStruct \/ EnterArray \/ EnterVec \/ EnterMap \/ EnterOption
             \/ EnterVariant \/ EnterCall
  BY <1>3, EnterAllOK
<1>4. CASE EnterOpaque BY <1>4, EnterOpaqueOK
<1>5. CASE LeaveInner BY <1>5, LeaveInnerOK
<1>6. CASE Leave BY <1>6, LeaveOK
<1>7. CASE Finish BY <1>7 DEF Finish, DecodeInv
<1>8. CASE UNCHANGED vars BY <1>8 DEF vars, DecodeInv
<1> QED BY <1>1, <1>2, <1>3, <1>4, <1>5, <1>6, <1>7, <1>8 DEF Next

LEMMA DecodeInvariance == Spec => []DecodeInv
BY InitOK, DecodeStep, PTL DEF Spec

(* No decoder's cursor ever leaves its bytes, for any types, nesting and   *)
(* input (ProcessAndUpdateData, GetNextBytes, processOpaque).              *)
THEOREM CursorsInBytes == Spec => []TypeOK
<1>1. DecodeInv => TypeOK BY DEF DecodeInv, StackOK, Alone, TypeOK
<1> QED BY <1>1, DecodeInvariance, PTL

-----------------------------------------------------------------------------
(* Modules.  ModuleScoped names the innermost call by CHOOSE; the invariant *)
(* names it by what it is, the last call frame up to i.                    *)

ScopedAt(s, i) ==
  \/ /\ \A k \in 1..i : s[k].tag # "call"
     /\ s[i].module = s[1].module
  \/ \E m \in 1..i : /\ s[m].tag = "call"
                     /\ \A k \in (m + 1)..i : s[k].tag # "call"
                     /\ s[i].module = Call[s[m].head].module

Scoped(s) == \A i \in DOMAIN s : ScopedAt(s, i)

LEMMA ScopedSame ==
  ASSUME NEW s, NEW t, NEW i \in Nat \ {0}, ScopedAt(s, i),
         \A k \in 1..i : SameCodec(s[k], t[k])
  PROVE  ScopedAt(t, i)
<1>1. \A k \in 1..i : t[k].tag = s[k].tag /\ t[k].head = s[k].head
                      /\ t[k].module = s[k].module
  BY DEF SameCodec
<1>2. i \in 1..i /\ 1 \in 1..i OBVIOUS
<1>3. CASE /\ \A k \in 1..i : s[k].tag # "call"
           /\ s[i].module = s[1].module
  BY <1>1, <1>2, <1>3 DEF ScopedAt
<1>4. CASE \E m \in 1..i : /\ s[m].tag = "call"
                           /\ \A k \in (m + 1)..i : s[k].tag # "call"
                           /\ s[i].module = Call[s[m].head].module
  <2>1. PICK m \in 1..i : /\ s[m].tag = "call"
                          /\ \A k \in (m + 1)..i : s[k].tag # "call"
                          /\ s[i].module = Call[s[m].head].module
    BY <1>4
  <2>2. \A k \in (m + 1)..i : k \in 1..i OBVIOUS
  <2>3. \A k \in (m + 1)..i : t[k].tag # "call" BY <1>1, <2>1, <2>2
  <2>4. t[m].tag = "call" /\ t[i].module = Call[t[m].head].module
    BY <1>1, <1>2, <2>1
  <2> QED BY <2>3, <2>4 DEF ScopedAt
<1> QED BY <1>3, <1>4 DEF ScopedAt

(* A codec goes on: the frames under it stay, its own keeps its module.    *)
LEMMA ScopedKept ==
  ASSUME NEW s, StackOK(s), Scoped(s), NEW n \in 0..(Len(s) - 1), NEW f,
         SameCodec(s[n + 1], f)
  PROVE  Scoped(Upon(s, n, f))
<1> DEFINE t == Upon(s, n, f)
<1>1. IsSeq(s) /\ DOMAIN s = 1..Len(s) /\ Len(s) \in Nat
  BY Push DEF StackOK
<1>2. n \in Nat /\ n \in 0..Len(s) BY <1>1
<1>3. /\ DOMAIN t = 1..(n + 1) /\ t[n + 1] = f
      /\ \A i \in 1..n : t[i] = s[i]
  BY <1>1, <1>2, Cut
<1> HIDE DEF t
<1>4. ASSUME NEW k \in 1..(n + 1) PROVE SameCodec(s[k], t[k])
  <2>1. CASE k \in 1..n
    <3>1. t[k] = s[k] BY <1>3, <2>1
    <3> QED BY <3>1 DEF SameCodec
  <2>2. CASE k = n + 1
    <3>1. t[k] = f /\ s[k] = s[n + 1] BY <1>3, <2>2
    <3> QED BY <3>1
  <2> QED BY <1>2, <2>1, <2>2
<1>5. ASSUME NEW i \in DOMAIN t PROVE ScopedAt(t, i)
  <2>1. i \in DOMAIN s /\ i \in Nat \ {0} BY <1>1, <1>2, <1>3
  <2>2. \A k \in 1..i : k \in 1..(n + 1) BY <1>2, <1>3
  <2>3. ScopedAt(s, i) BY <2>1 DEF Scoped
  <2> QED BY <1>4, <2>1, <2>2, <2>3, ScopedSame
<1>6. Scoped(t) BY <1>5 DEF Scoped
<1> QED BY <1>6 DEF t

(* A codec is entered: under its caller's module, or, of a call, its own.  *)
LEMMA ScopedNew ==
  ASSUME NEW s, IsSeq(s), Len(s) >= 1, Scoped(s), NEW f,
         \/ f.tag # "call" /\ f.module = s[Len(s)].module
         \/ f.tag = "call" /\ f.module = Call[f.head].module
  PROVE  Scoped(Upon(s, Len(s), f))
<1> DEFINE n == Len(s)
           t == Upon(s, n, f)
<1>1. IsSeq(s) /\ DOMAIN s = 1..n /\ n \in Nat /\ n >= 1
  BY Push
<1>2. n \in 0..n BY <1>1
<1>3. /\ DOMAIN t = 1..(n + 1) /\ t[n + 1] = f
      /\ \A i \in 1..n : t[i] = s[i]
  BY <1>1, <1>2, Cut
<1> HIDE DEF n, t
<1>4. ASSUME NEW i \in 1..n PROVE ScopedAt(t, i)
  <2>1. \A k \in 1..i : k \in 1..n /\ SameCodec(s[k], t[k])
    BY <1>1, <1>3 DEF SameCodec
  <2>2. i \in Nat \ {0} /\ ScopedAt(s, i) BY <1>1 DEF Scoped
  <2> QED BY <2>1, <2>2, ScopedSame
<1>5. ScopedAt(t, n + 1)
  <2>1. CASE f.tag = "call" /\ f.module = Call[f.head].module
    <3>1. /\ t[n + 1].tag = "call" /\ t[n + 1].module = Call[t[n + 1].head].module
          /\ n + 1 \in 1..(n + 1) /\ (n + 1 + 1)..(n + 1) = {}
      BY <1>1, <1>3, <2>1
    <3> QED BY <3>1 DEF ScopedAt
  <2>2. CASE f.tag # "call" /\ f.module = s[n].module
    <3>1. ScopedAt(t, n) /\ t[n + 1].module = t[n].module /\ t[n + 1].tag # "call"
      BY <1>1, <1>3, <1>4, <2>2
    <3>2. CASE /\ \A k \in 1..n : t[k].tag # "call"
               /\ t[n].module = t[1].module
      <4>1. \A k \in 1..(n + 1) : t[k].tag # "call" BY <1>1, <3>1, <3>2
      <4> QED BY <3>1, <3>2, <4>1 DEF ScopedAt
    <3>3. CASE \E m \in 1..n : /\ t[m].tag = "call"
                               /\ \A k \in (m + 1)..n : t[k].tag # "call"
                               /\ t[n].module = Call[t[m].head].module
      <4>1. PICK m \in 1..n : /\ t[m].tag = "call"
                              /\ \A k \in (m + 1)..n : t[k].tag # "call"
                              /\ t[n].module = Call[t[m].head].module
        BY <3>3
      <4>2. m \in 1..(n + 1) BY <1>1
      <4>3. \A k \in (m + 1)..(n + 1) : t[k].tag # "call"
        BY <1>1, <3>1, <4>1
      <4> QED BY <3>1, <4>1, <4>2, <4>3 DEF ScopedAt
    <3> QED BY <3>1, <3>2, <3>3 DEF ScopedAt
  <2> QED BY <2>1, <2>2 DEF n
<1>6. \A i \in 1..(n + 1) : i \in 1..n \/ i = n + 1 BY <1>1
<1>7. Scoped(t) BY <1>3, <1>4, <1>5, <1>6 DEF Scoped
<1> QED BY <1>7 DEF n, t

LEMMA PanicScoped ==
  ASSUME DecodeInv, Scoped(stack), Panic
  PROVE  Scoped(stack')
<1>1. StackOK(stack) BY DEF DecodeInv
<1>2. CASE UNCHANGED stack BY <1>2
<1>3. CASE Inner # {}
  <2>1. PICK i \in Inner :
          stack' = Append(SubSeq(stack, 1, i - 2),
                     [stack[i - 1] EXCEPT !.got = <<RawValue(stack[i - 1])>>])
    BY <1>3 DEF Panic
  <2> DEFINE f == [stack[i - 1] EXCEPT !.got = <<RawValue(stack[i - 1])>>]
  <2>2. i \in DOMAIN stack /\ stack[i].role = "inner" BY DEF Inner
  <2>3. i - 2 \in 1..Len(stack) /\ Alone(stack[i - 1]) /\ i - 1 \in 1..Len(stack)
    BY <1>1, <2>2, InnerFacts
  <2>4. SameCodec(stack[i - 1], f) BY <2>3, KeepingGot
  <2>5. stack' = Upon(stack, i - 2, f) BY <2>1 DEF Upon
  <2> HIDE DEF f
  <2>6. i - 2 \in 0..(Len(stack) - 1) /\ i - 2 + 1 = i - 1
    BY <1>1, <2>2, <2>3, TopFacts
  <2> QED BY <1>1, <2>4, <2>5, <2>6, ScopedKept
<1> QED BY <1>2, <1>3 DEF Panic

LEMMA ReadLeafScoped ==
  ASSUME DecodeInv, Scoped(stack), ReadLeaf
  PROVE  Scoped(stack')
<1>1. StackOK(stack) /\ Top.agenda # <<>>
  BY DEF DecodeInv, ReadLeaf, Asking
<1>2. CASE Panic BY <1>2, PanicScoped
<1>3. CASE LeafOK(Top, Asked)
  <2> DEFINE off == Top.off + LeafLength(Top, Asked)
             v == LeafValue(Top, Asked)
             f == Fed(Top, off, v, <<>>)
             n == Len(stack) - 1
  <2>1. stack' = Upon(stack, n, f) BY <1>3 DEF ReadLeaf, Below, Upon
  <2>2. Alone(Top) /\ FrameOK(Top) BY <1>1, TopFacts DEF Alone
  <2>3. LeafLength(Top, Asked) \in 0..(Len(Top.data) - Top.off)
    BY <1>1, <1>3, <2>2, AskedFacts, LeafLengthOK
  <2>4. off \in Top.off..Len(Top.data) BY <2>2, <2>3, RestType
  <2>5. <<>> \in Seq(Seq(Byte)) BY EmptySeq
  <2> HIDE DEF off, v
  <2>6. SameCodec(Top, f) BY <1>1, <2>2, <2>4, <2>5, Feeding
  <2> HIDE DEF f
  <2>7. n \in 0..(Len(stack) - 1) /\ n + 1 = Len(stack) /\ Top = stack[n + 1]
    BY <1>1, TopFacts
  <2> HIDE DEF n
  <2> QED BY <1>1, <2>1, <2>6, <2>7, ScopedKept
<1> QED BY <1>2, <1>3 DEF ReadLeaf

(* The codecs that decode their parts under their caller's module, and the *)
(* call, which decodes its arguments under its own.                        *)
LEMMA EnterScoped ==
  ASSUME DecodeInv, Scoped(stack), NEW off, NEW module, NEW head, NEW agenda,
         Enter(off, module, head, agenda),
         \/ Asked.kind # "call" /\ module = Top.module
         \/ Asked.kind = "call" /\ module = Call[head].module
  PROVE  Scoped(stack')
<1> DEFINE f == [role |-> "codec", tag |-> Asked.kind, data |-> Top.data,
                 start |-> Top.off, off |-> off, module |-> module,
                 head |-> head, agenda |-> agenda, got |-> <<>>, calls |-> <<>>]
<1>1. StackOK(stack) /\ stack' = Append(stack, f) BY Entered DEF DecodeInv
<1>2. \/ f.tag # "call" /\ f.module = stack[Len(stack)].module
      \/ f.tag = "call" /\ f.module = Call[f.head].module
  BY DEF Top
<1> HIDE DEF f
<1>3. /\ IsSeq(stack) /\ Len(stack) >= 1
      /\ stack' = Upon(stack, Len(stack), f)
  BY <1>1, Push DEF StackOK
<1> QED BY <1>2, <1>3, ScopedNew

LEMMA EnterAllScoped ==
  ASSUME DecodeInv, Scoped(stack),
         EnterStruct \/ EnterArray \/ EnterVec \/ EnterMap \/ EnterOption
           \/ EnterVariant \/ EnterCall
  PROVE  Scoped(stack')
<1>1. CASE Panic BY <1>1, PanicScoped
<1>2. CASE EnterStruct BY <1>2, EnterScoped DEF EnterStruct, Asking
<1>3. CASE EnterArray BY <1>3, EnterScoped DEF EnterArray, Asking
<1>4. CASE EnterVec /\ ~ Panic BY <1>4, EnterScoped DEF EnterVec, Asking
<1>5. CASE EnterMap /\ ~ Panic BY <1>5, EnterScoped DEF EnterMap, Asking
<1>6. CASE EnterOption BY <1>6, EnterScoped DEF EnterOption, Asking
<1>7. CASE EnterVariant /\ ~ Panic
  BY <1>7, EnterScoped DEF EnterVariant, Asking
<1>8. CASE EnterCall /\ ~ Panic BY <1>8, EnterScoped DEF EnterCall, Asking
<1> QED BY <1>1, <1>2, <1>3, <1>4, <1>5, <1>6, <1>7, <1>8

LEMMA EnterOpaqueScoped ==
  ASSUME DecodeInv, Scoped(stack), EnterOpaque
  PROVE  Scoped(stack')
<1>1. StackOK(stack) BY DEF DecodeInv
<1>2. CASE Panic BY <1>2, PanicScoped
<1>3. CASE EnvelopeOK(Rest(Top))
  <2> DEFINE n == Len(stack)
             e == EnvelopeFrame
             f == PayloadFrame
             s == Upon(stack, n, e)
  <2>1. stack' = Append(Append(stack, e), f) BY <1>3, OpaqueEntered
  <2>2. /\ e.tag = "opaque" /\ e.module = Top.module
        /\ f.tag = "inner" /\ f.module = Top.module
    BY DEF EnvelopeFrame, PayloadFrame
  <2> HIDE DEF e, f
  <2>3. /\ IsSeq(stack) /\ n \in Nat /\ n >= 1 /\ n \in 0..n
        /\ Top = stack[n] /\ Append(stack, e) = s
    BY <1>1, TopFacts, Push
  <2>4. IsSeq(s) /\ Len(s) = n + 1 /\ s[n + 1] = e BY <2>3, Cut
  <2>5. Scoped(s) BY <2>2, <2>3, ScopedNew
  <2> HIDE DEF s
  <2>6. stack' = Upon(s, Len(s), f) BY <2>1, <2>3, <2>4, Push
  <2>7. Len(s) >= 1 /\ f.module = s[Len(s)].module BY <2>2, <2>3, <2>4
  <2> QED BY <2>2, <2>4, <2>5, <2>6, <2>7, ScopedNew
<1> QED BY <1>2, <1>3 DEF EnterOpaque

LEMMA LeaveInnerScoped ==
  ASSUME DecodeInv, Scoped(stack), LeaveInner
  PROVE  Scoped(stack')
<1>1. StackOK(stack) /\ Top.role = "inner" BY DEF DecodeInv, LeaveInner
<1> DEFINE n == Len(stack)
           envelope == stack[n - 1]
           f == IF Top.off = Len(Top.data)
                THEN [envelope EXCEPT !.got = Top.got, !.calls = envelope.calls \o Top.calls]
                ELSE [envelope EXCEPT !.got = <<RawValue(envelope)>>]
<1>2. stack' = Upon(stack, n - 2, f) BY DEF LeaveInner, Upon
<1>3. n \in Nat \ {0} /\ n \in DOMAIN stack /\ Top = stack[n] /\ Alone(Top)
  BY <1>1, TopFacts
<1>4. n - 2 \in 1..n /\ Alone(envelope) BY <1>1, <1>3, InnerFacts
<1>5. envelope = stack[n - 2 + 1] /\ n - 2 \in 0..(n - 1) BY <1>3, <1>4
<1> HIDE DEF envelope
<1>6. envelope.calls \o Top.calls \in Seq(Seq(Byte))
  BY <1>3, <1>4, ConcatProperties DEF Alone, FrameOK
<1>7. SameCodec(envelope, f)
  <2> DEFINE whole == [envelope EXCEPT !.got = Top.got,
                                       !.calls = envelope.calls \o Top.calls]
             raw == [envelope EXCEPT !.got = <<RawValue(envelope)>>]
  <2>1. SameCodec(envelope, whole) BY <1>4, <1>6, Keeping
  <2>2. SameCodec(envelope, raw) BY <1>4, KeepingGot
  <2>3. f = IF Top.off = Len(Top.data) THEN whole ELSE raw OBVIOUS
  <2> HIDE DEF f, whole, raw
  <2> QED BY <2>1, <2>2, <2>3
<1> HIDE DEF f
<1> QED BY <1>1, <1>2, <1>5, <1>7, ScopedKept

(* What Leave hands back to the caller is inside of its bytes.             *)
LEMMA LeaveFacts ==
  ASSUME DecodeInv, Leave
  PROVE  LET g == stack[Len(stack) - 1] IN
         /\ Len(stack) - 1 \in DOMAIN stack /\ Alone(g) /\ g.agenda # <<>>
         /\ Len(stack) \in Nat
         /\ Top.off \in g.off..Len(g.data)
         /\ Published(Top) \in Seq(Seq(Byte))
<1>1. StackOK(stack) /\ Top.role = "codec" BY DEF DecodeInv, Leave
<1> DEFINE n == Len(stack)
           g == stack[n - 1]
<1>2. n \in Nat /\ n > 1 /\ Alone(Top) /\ DOMAIN stack = 1..n /\ Fits(g, Top)
  BY <1>1, TopFacts
<1>3. n - 1 \in DOMAIN stack BY <1>2
<1>4. Alone(g) BY <1>1, <1>3 DEF StackOK
<1>5. Published(Top) \in Seq(Seq(Byte)) BY <1>2, PublishedType DEF Alone
<1>6. g.agenda # <<>> /\ Top.data = g.data /\ Top.start = g.off
  BY <1>1, <1>2 DEF Fits
<1>7. Top.off \in g.off..Len(g.data)
  <2>1. /\ Top.off \in 0..Len(Top.data) /\ Top.start \in 0..Top.off
        /\ Len(Top.data) \in Nat
    BY <1>2, LenProperties DEF Alone, FrameOK
  <2> QED BY <1>6, <2>1
<1> QED BY <1>2, <1>3, <1>4, <1>5, <1>6, <1>7

LEMMA LeaveScoped ==
  ASSUME DecodeInv, Scoped(stack), Leave
  PROVE  Scoped(stack')
<1> DEFINE n == Len(stack)
           g == stack[n - 1]
           v == Result(Top)
           f == Fed(g, Top.off, v, Published(Top))
<1>1. StackOK(stack) /\ DOMAIN stack = 1..n BY TopFacts DEF DecodeInv
<1>2. stack' = Upon(stack, n - 2, f) BY DEF Leave, Upon
<1>3. /\ n - 1 \in 1..n /\ n \in Nat /\ Alone(g) /\ g.agenda # <<>>
      /\ Top.off \in g.off..Len(g.data)
      /\ Published(Top) \in Seq(Seq(Byte))
  BY <1>1, LeaveFacts
<1>4. g = stack[n - 2 + 1] /\ n - 2 \in 0..(n - 1) BY <1>3
<1> HIDE DEF g, v
<1>5. SameCodec(g, f) BY <1>3, Feeding
<1> HIDE DEF f
<1> QED BY <1>1, <1>2, <1>4, <1>5, ScopedKept

LEMMA InitScoped == Init => Scoped(stack)
<1> SUFFICES ASSUME NEW f, f.tag = "caller", stack = <<f>> PROVE Scoped(stack)
  BY DEF Init, Frame
<1>1. DOMAIN stack = 1..1 /\ stack[1] = f OBVIOUS
<1>2. \A i \in DOMAIN stack : i = 1 BY <1>1
<1>3. \A k \in 1..1 : k = 1 OBVIOUS
<1>4. ScopedAt(stack, 1) BY <1>1, <1>3 DEF ScopedAt
<1> QED BY <1>2, <1>4 DEF Scoped

LEMMA ScopedStep == DecodeInv /\ Scoped(stack) /\ [Next]_vars => Scoped(stack')
<1> SUFFICES ASSUME DecodeInv, Scoped(stack), [Next]_vars PROVE Scoped(stack')
  OBVIOUS
<1>1. CASE ReadLeaf BY <1>1, ReadLeafScoped
<1>2. CASE NoCodec BY <1>2, PanicScoped DEF NoCodec
<1>3. CASE EnterStruct \/ EnterArray \/ EnterVec \/ EnterMap \/ EnterOption
             \/ EnterVariant \/ EnterCall
  BY <1>3, EnterAllScoped
<1>4. CASE EnterOpaque BY <1>4, EnterOpaqueScoped
<1>5. CASE LeaveInner BY <1>5, LeaveInnerScoped
<1>6. CASE Leave BY <1>6, LeaveScoped
<1>7. CASE Finish BY <1>7 DEF Finish
<1>8. CASE UNCHANGED vars BY <1>8 DEF vars
<1> QED BY <1>1, <1>2, <1>3, <1>4, <1>5, <1>6, <1>7, <1>8 DEF Next

LEMMA ScopedIsModuleScoped ==
  ASSUME Scoped(stack)
  PROVE  ModuleScoped
<1> SUFFICES ASSUME NEW i \in DOMAIN stack
             PROVE  LET calls == {j \in 1..i : stack[j].tag = "call"}
                        innermost == CHOOSE j \in calls : \A k \in calls : k <= j
                    IN stack[i].module = IF calls = {} THEN stack[1].module
                                         ELSE Call[stack[innermost].head].module
  BY DEF ModuleScoped
<1> DEFINE calls == {j \in 1..i : stack[j].tag = "call"}
<1>1. CASE /\ \A k \in 1..i : stack[k].tag # "call"
           /\ stack[i].module = stack[1].module
  BY <1>1
<1>2. CASE \E m \in 1..i : /\ stack[m].tag = "call"
                           /\ \A k \in (m + 1)..i : stack[k].tag # "call"
                           /\ stack[i].module = Call[stack[m].head].module
  <2>1. PICK m \in 1..i : /\ stack[m].tag = "call"
                          /\ \A k \in (m + 1)..i : stack[k].tag # "call"
                          /\ stack[i].module = Call[stack[m].head].module
    BY <1>2
  <2>2. m \in calls BY <2>1
  <2>3. ASSUME NEW k \in calls PROVE k <= m
    <3>1. k \in 1..i /\ stack[k].tag = "call" OBVIOUS
    <3>2. k \notin (m + 1)..i BY <2>1, <3>1
    <3> QED BY <3>1, <3>2
  <2>4. ASSUME NEW j \in calls, \A k \in calls : k <= j PROVE j = m
    BY <2>2, <2>3, <2>4
  <2> HIDE DEF calls
  <2>5. (CHOOSE j \in calls : \A k \in calls : k <= j) = m
    BY <2>2, <2>3, <2>4
  <2> QED BY <2>1, <2>2, <2>5 DEF calls
<1> QED BY <1>1, <1>2 DEF Scoped, ScopedAt

(* Types are decoded under the module of the innermost call they are an    *)
(* argument of, whatever was decoded before them (GenericCall.Process sets *)
(* it for its arguments and puts it back).                                 *)
THEOREM ModulesScoped == Spec => []ModuleScoped
<1>1. Init => Scoped(stack) BY InitScoped
<1>2. DecodeInv /\ Scoped(stack) /\ [Next]_vars => Scoped(stack)'
  BY ScopedStep
<1>3. Scoped(stack) => ModuleScoped BY ScopedIsModuleScoped
<1> QED BY <1>1, <1>2, <1>3, DecodeInvariance, PTL DEF Spec

-----------------------------------------------------------------------------
(* Isolation.  The caller is the lowest frame; its fields are the types it  *)
(* has still to ask for.                                                   *)

Lefts(f) == [i \in DOMAIN f.agenda |->
               CodecOf(f.module, f.agenda[i]).kind = "opaque"]

LEMMA SameEnvelope ==
  ASSUME NEW bs
  PROVE  /\ Fields!EnvelopeOK(bs) <=> EnvelopeOK(bs)
         /\ Fields!EnvelopeLength(bs) = EnvelopeLength(bs)
<1>1. \A b : Fields!CompactLength(b) = CompactLength(b)
  BY DEF Fields!CompactLength, CompactLength
<1>2. \A s, i : Fields!ByteAt(s, i) = ByteAt(s, i)
  BY DEF Fields!ByteAt, ByteAt
<1>3. \A x, y : Fields!Joined(x, y) = Joined(x, y)
  BY DEF Fields!Joined, Joined
<1>4. \A s : Fields!Unsigned(s) = Unsigned(s)
  BY <1>2, <1>3 DEF Fields!Unsigned, Unsigned
<1>5. \A s : Fields!Negative(s) <=> Negative(s)
  BY DEF Fields!Negative, Negative
<1>6. Fields!WordSize = WordSize BY DEF Fields!WordSize, WordSize
<1>7. \A s : Fields!Signed(s) = Signed(s)
  BY <1>4, <1>5, <1>6 DEF Fields!Signed, Signed
<1>8. Fields!CompactValue(bs) = CompactValue(bs)
  BY <1>1, <1>4, <1>7 DEF Fields!CompactValue, CompactValue
<1>9. Fields!CompactOK(bs) <=> CompactOK(bs)
  BY <1>1 DEF Fields!CompactOK, CompactOK
<1>10. Fields!EnvelopeOK(bs) <=> EnvelopeOK(bs)
  BY <1>1, <1>8, <1>9 DEF Fields!EnvelopeOK, EnvelopeOK
<1>11. Fields!EnvelopeLength(bs) = EnvelopeLength(bs)
  BY <1>1, <1>8 DEF Fields!EnvelopeLength, EnvelopeLength
<1> QED BY <1>10, <1>11

LEMMA LeftFacts ==
  ASSUME NEW f, FrameOK(f)
  PROVE  /\ Lefts(f) \in Seq(BOOLEAN)
         /\ Lefts(f) = <<>> <=> f.agenda = <<>>
         /\ f.agenda # <<>> => (Head(Lefts(f)) <=>
              CodecOf(f.module, Head(f.agenda)).kind = "opaque")
<1> DEFINE a == f.agenda
           O(t) == CodecOf(f.module, t).kind = "opaque"
           l == [i \in DOMAIN a |-> O(a[i])]
<1>1. a \in Seq(TypeName) /\ Len(a) \in Nat /\ DOMAIN a = 1..Len(a)
  BY LenProperties DEF FrameOK
<1>2. Lefts(f) = l BY DEF Lefts
<1>3. \A t : O(t) \in BOOLEAN OBVIOUS
<1> HIDE DEF a, O
<1>4. l \in Seq(BOOLEAN) /\ Len(l) = Len(a) BY <1>1, <1>3
<1>5. l = <<>> <=> a = <<>> BY <1>1, <1>4, EmptySeq
<1>6. ASSUME a # <<>> PROVE Head(l) <=> O(Head(a))
  <2>1. 1 \in DOMAIN a BY <1>1, <1>6, EmptySeq
  <2>2. Head(l) = l[1] /\ Head(a) = a[1] BY <1>1, <1>4, <1>5, <1>6, HeadTailProperties
  <2>3. l[1] = O(a[1]) BY <2>1
  <2> QED BY <2>2, <2>3
<1> QED BY <1>2, <1>4, <1>5, <1>6 DEF a, O

LEMMA LeftTail ==
  ASSUME NEW f, FrameOK(f), f.agenda # <<>>, NEW e,
         e.agenda = Tail(f.agenda), e.module = f.module
  PROVE  Lefts(e) = Tail(Lefts(f))
<1> DEFINE a == f.agenda
           O(t) == CodecOf(f.module, t).kind = "opaque"
           l == [i \in DOMAIN a |-> O(a[i])]
           m == [i \in DOMAIN Tail(a) |-> O(Tail(a)[i])]
<1>1. a \in Seq(TypeName) /\ Len(a) \in Nat \ {0} /\ DOMAIN a = 1..Len(a)
  BY LenProperties, EmptySeq DEF FrameOK
<1>2. Lefts(f) = l /\ Lefts(e) = m BY DEF Lefts
<1>3. \A t : O(t) \in BOOLEAN OBVIOUS
<1> HIDE DEF a, O
<1>4. l \in Seq(BOOLEAN) /\ Len(l) = Len(a) BY <1>1, <1>3
<1>5. /\ DOMAIN Tail(a) = 1..(Len(a) - 1)
      /\ \A i \in 1..(Len(a) - 1) : Tail(a)[i] = a[i + 1]
  BY <1>1
<1>6. /\ DOMAIN Tail(l) = 1..(Len(a) - 1)
      /\ \A i \in 1..(Len(a) - 1) : Tail(l)[i] = l[i + 1]
  BY <1>1, <1>4
<1>7. \A i \in 1..(Len(a) - 1) : l[i + 1] = O(a[i + 1]) BY <1>1
<1>8. \A i \in 1..(Len(a) - 1) : m[i] = O(a[i + 1]) BY <1>5
<1>9. DOMAIN m = 1..(Len(a) - 1) BY <1>5
<1>10. Tail(l) \in Seq(BOOLEAN)
  BY <1>1, <1>4
<1> QED BY <1>2, <1>6, <1>7, <1>8, <1>9, <1>10

(* The three things a step can be to the caller: nothing, a field read, a  *)
(* failure.                                                                *)
LEMMA Unseen ==
  ASSUME DecodeInv, NEW n \in 1..Len(stack), NEW f,
         stack' = Upon(stack, n, f), UNCHANGED status
  PROVE  UNCHANGED Fields!vars
<1>1. IsSeq(stack) BY TopFacts DEF DecodeInv
<1>2. stack'[1] = stack[1] BY <1>1, Lowest
<1> QED BY <1>2 DEF Fields!vars

LEMMA FieldRead ==
  ASSUME DecodeInv, status = "run", UNCHANGED status, stack[1].agenda # <<>>,
         NEW off \in stack[1].off..Len(stack[1].data), NEW v, NEW calls,
         stack' = Upon(stack, 0, Fed(stack[1], off, v, calls)),
         CodecOf(stack[1].module, Head(stack[1].agenda)).kind = "opaque" =>
           /\ EnvelopeOK(Rest(stack[1]))
           /\ off = stack[1].off + EnvelopeLength(Rest(stack[1]))
  PROVE  Fields!ReadField
<1> DEFINE f == stack[1]
           e == Fed(f, off, v, calls)
<1>1. IsSeq(stack) /\ Len(stack) \in Nat \ {0} /\ 1 \in DOMAIN stack
  BY TopFacts DEF DecodeInv
<1>2. Alone(f) /\ FrameOK(f) BY <1>1 DEF DecodeInv, StackOK, Alone
<1>3. stack'[1] = e BY <1>1, Cut
<1>4. /\ e.data = f.data /\ e.off = off /\ e.module = f.module
      /\ e.agenda = Tail(f.agenda)
  BY <1>2 DEF Fed, Alone, IsFrame
<1>5. /\ Lefts(f) # <<>> /\ Lefts(e) = Tail(Lefts(f))
      /\ Head(Lefts(f)) =>
           /\ EnvelopeOK(Rest(f)) /\ off = f.off + EnvelopeLength(Rest(f))
  BY <1>2, <1>4, LeftFacts, LeftTail
<1> HIDE DEF f, e
<1>6. Head(Lefts(f)) =>
        /\ Fields!EnvelopeOK(Rest(f))
        /\ off = f.off + Fields!EnvelopeLength(Rest(f))
  BY <1>5, SameEnvelope
<1>7. Fields!Ahead = Rest(f) BY DEF Fields!Ahead, Rest, f
<1>8. off \in f.off..Len(f.data) BY DEF f
<1> QED BY <1>3, <1>4, <1>5, <1>6, <1>7, <1>8 DEF Fields!ReadField, Lefts, f

(* A panic reaches the caller from a field that is not opaque, or from an  *)
(* envelope that is cut short.                                             *)
LEMMA FieldFailed ==
  ASSUME DecodeInv, status = "run", Top.agenda # <<>>, Panic,
         Asked.kind = "opaque" => ~ EnvelopeOK(Rest(Top))
  PROVE  Fields!Fail \/ UNCHANGED Fields!vars
<1>1. /\ StackOK(stack) /\ Len(stack) \in Nat \ {0}
      /\ DOMAIN stack = 1..Len(stack) /\ Top = stack[Len(stack)]
  BY TopFacts DEF DecodeInv
<1>2. CASE Inner # {} /\ UNCHANGED status
  <2>1. PICK i \in Inner :
          stack' = Append(SubSeq(stack, 1, i - 2),
                     [stack[i - 1] EXCEPT !.got = <<RawValue(stack[i - 1])>>])
    BY <1>2 DEF Panic
  <2>2. i \in DOMAIN stack /\ stack[i].role = "inner" BY DEF Inner
  <2>3. i - 2 \in 1..Len(stack) BY <1>1, <2>2, InnerFacts
  <2> DEFINE f == [stack[i - 1] EXCEPT !.got = <<RawValue(stack[i - 1])>>]
  <2>4. stack' = Upon(stack, i - 2, f) BY <2>1 DEF Upon
  <2> HIDE DEF f
  <2> QED BY <1>2, <2>3, <2>4, Unseen
<1>3. CASE Inner = {} /\ status' = "panic" /\ UNCHANGED stack
  <2> DEFINE f == stack[1]
  <2>1. Alone(f) /\ FrameOK(f) /\ f.role = "caller"
    BY <1>1 DEF StackOK, Alone
  <2>2. /\ f.agenda # <<>>
        /\ CodecOf(f.module, Head(f.agenda)).kind = "opaque" =>
             ~ EnvelopeOK(Rest(f))
    <3>1. CASE Len(stack) = 1
      <4>1. Top = f BY <1>1, <3>1
      <4>2. Asked = CodecOf(f.module, Head(f.agenda)) BY <4>1 DEF Asked, Next1
      <4> HIDE DEF f
      <4> QED BY <4>1, <4>2
    <3>2. CASE Len(stack) # 1
      <4>1. 2 \in DOMAIN stack \ {1} BY <1>1, <3>2
      <4>2. Fits(f, stack[2]) /\ Alone(stack[2])
        <5>1. StackOK(stack) /\ 2 \in DOMAIN stack BY <1>1, <4>1
        <5>2. Alone(stack[2]) BY <5>1 DEF StackOK
        <5>3. Fits(stack[2 - 1], stack[2]) BY <4>1, <5>1 DEF StackOK
        <5> QED BY <5>2, <5>3
      <4>3. stack[2].role = "codec" BY <2>1, <4>2 DEF Fits, Alone
      <4>4. /\ f.agenda # <<>>
            /\ stack[2].tag = CodecOf(f.module, Head(f.agenda)).kind
        BY <4>2, <4>3 DEF Fits
      <4>5. ASSUME stack[2].tag = "opaque" PROVE FALSE
        <5>1. stack[2].agenda = <<>> BY <4>2, <4>5 DEF Alone
        <5>2. Len(stack) # 2 BY <1>1, <5>1
        <5>3. 3 \in DOMAIN stack \ {1} BY <1>1, <3>2, <5>2
        <5>4. Fits(stack[3 - 1], stack[3]) /\ Alone(stack[3])
          BY <1>1, <5>3 DEF StackOK
        <5>5. stack[3].role = "inner" BY <5>1, <5>4 DEF Fits, Alone
        <5> QED BY <1>3, <5>3, <5>5 DEF Inner
      <4> QED BY <4>4, <4>5
    <3> QED BY <3>1, <3>2
  <2>3. Lefts(f) # <<>> /\ (Head(Lefts(f)) => ~ EnvelopeOK(Rest(f)))
    BY <2>1, <2>2, LeftFacts
  <2> HIDE DEF f
  <2>4. Head(Lefts(f)) => ~ Fields!EnvelopeOK(Rest(f)) BY <2>3, SameEnvelope
  <2>5. Fields!Ahead = Rest(f) BY DEF Fields!Ahead, Rest, f
  <2>6. Fields!Fail
    BY <1>3, <2>3, <2>4, <2>5 DEF Fields!Fail, Lefts, f
  <2> QED BY <2>6
<1> QED BY <1>2, <1>3 DEF Panic

LEMMA EnterUnseen ==
  ASSUME DecodeInv, NEW off, NEW module, NEW head, NEW agenda,
         Enter(off, module, head, agenda)
  PROVE  UNCHANGED Fields!vars
<1> DEFINE f == [role |-> "codec", tag |-> Asked.kind, data |-> Top.data,
                 start |-> Top.off, off |-> off, module |-> module,
                 head |-> head, agenda |-> agenda, got |-> <<>>, calls |-> <<>>]
<1>1. stack' = Append(stack, f) /\ UNCHANGED status BY Entered DEF Enter
<1> HIDE DEF f
<1>2. /\ stack' = Upon(stack, Len(stack), f)
      /\ Len(stack) \in 1..Len(stack)
  BY <1>1, TopFacts, Push DEF DecodeInv
<1> QED BY <1>1, <1>2, Unseen

LEMMA EnterAllIsolated ==
  ASSUME DecodeInv,
         EnterStruct \/ EnterArray \/ EnterVec \/ EnterMap \/ EnterOption
           \/ EnterVariant \/ EnterCall
  PROVE  Fields!Fail \/ UNCHANGED Fields!vars
<1>1. /\ status = "run" /\ Top.agenda # <<>> /\ Asked.kind # "opaque"
  BY DEF Asking, EnterStruct, EnterArray, EnterVec, EnterMap, EnterOption,
         EnterVariant, EnterCall
<1>2. CASE Panic BY <1>1, <1>2, FieldFailed
<1>3. CASE EnterStruct BY <1>3, EnterUnseen DEF EnterStruct
<1>4. CASE EnterArray BY <1>4, EnterUnseen DEF EnterArray
<1>5. CASE EnterVec /\ ~ Panic BY <1>5, EnterUnseen DEF EnterVec
<1>6. CASE EnterMap /\ ~ Panic BY <1>6, EnterUnseen DEF EnterMap
<1>7. CASE EnterOption BY <1>7, EnterUnseen DEF EnterOption
<1>8. CASE EnterVariant /\ ~ Panic BY <1>8, EnterUnseen DEF EnterVariant
<1>9. CASE EnterCall /\ ~ Panic BY <1>9, EnterUnseen DEF EnterCall
<1> QED BY <1>2, <1>3, <1>4, <1>5, <1>6, <1>7, <1>8, <1>9

LEMMA ReadLeafIsolated ==
  ASSUME DecodeInv, ReadLeaf
  PROVE  Fields!Next \/ UNCHANGED Fields!vars
<1>1. /\ StackOK(stack) /\ status = "run" /\ Top.agenda # <<>>
      /\ Asked.kind \in LeafKind /\ Asked.kind # "opaque"
  BY DEF DecodeInv, ReadLeaf, Asking, LeafKind
<1>2. CASE Panic BY <1>1, <1>2, FieldFailed DEF Fields!Next
<1>3. CASE LeafOK(Top, Asked)
  <2> DEFINE off == Top.off + LeafLength(Top, Asked)
             v == LeafValue(Top, Asked)
             n == Len(stack) - 1
  <2>1. stack' = Upon(stack, n, Fed(Top, off, v, <<>>)) /\ UNCHANGED status
    BY <1>3 DEF ReadLeaf, Below, Upon
  <2>2. FrameOK(Top) BY <1>1, TopFacts DEF Alone
  <2>3. LeafLength(Top, Asked) \in 0..(Len(Top.data) - Top.off)
    BY <1>1, <1>3, <2>2, AskedFacts, LeafLengthOK
  <2>4. off \in Top.off..Len(Top.data) BY <2>2, <2>3, RestType
  <2> HIDE DEF off, v
  <2>5. Len(stack) \in Nat \ {0} /\ Top = stack[Len(stack)] BY <1>1, TopFacts
  <2>6. CASE Len(stack) = 1
    <3>1. Top = stack[1] /\ n = 0 BY <2>5, <2>6
    <3>2. CodecOf(stack[1].module, Head(stack[1].agenda)).kind # "opaque"
      BY <1>1, <3>1 DEF Asked, Next1
    <3>3. Fields!ReadField
      BY <1>1, <2>1, <2>4, <3>1, <3>2, FieldRead
    <3> QED BY <3>3 DEF Fields!Next
  <2>7. CASE Len(stack) # 1
    <3>1. n \in 1..Len(stack) BY <2>5, <2>7
    <3> HIDE DEF n
    <3> QED BY <2>1, <3>1, Unseen
  <2> QED BY <2>6, <2>7
<1> QED BY <1>2, <1>3 DEF ReadLeaf

LEMMA EnterOpaqueIsolated ==
  ASSUME DecodeInv, EnterOpaque
  PROVE  Fields!Fail \/ UNCHANGED Fields!vars
<1>1. StackOK(stack) /\ status = "run" /\ Top.agenda # <<>>
  BY DEF DecodeInv, EnterOpaque, Asking
<1>2. CASE ~ EnvelopeOK(Rest(Top))
  BY <1>1, <1>2, FieldFailed DEF EnterOpaque
<1>3. CASE EnvelopeOK(Rest(Top))
  <2> DEFINE n == Len(stack)
             e == EnvelopeFrame
             f == PayloadFrame
             s == Upon(stack, n, e)
  <2>1. stack' = Append(Append(stack, e), f) /\ UNCHANGED status
    BY <1>3, OpaqueEntered
  <2> HIDE DEF e, f
  <2>2. /\ IsSeq(stack) /\ n \in Nat /\ n >= 1 /\ n \in 0..n
        /\ 1 \in 1..n /\ Append(stack, e) = s
    BY <1>1, TopFacts, Push
  <2>3. IsSeq(s) /\ Len(s) = n + 1 /\ s[1] = stack[1] BY <2>2, Cut
  <2> HIDE DEF s
  <2>4. stack' = Upon(s, Len(s), f) BY <2>1, <2>2, <2>3, Push
  <2>5. Len(s) \in 1..Len(s) BY <2>2, <2>3
  <2>6. Upon(s, Len(s), f)[1] = s[1] BY <2>3, <2>5, Lowest
  <2>7. stack'[1] = stack[1] BY <2>3, <2>4, <2>6
  <2> QED BY <2>1, <2>7 DEF Fields!vars
<1> QED BY <1>2, <1>3

LEMMA LeaveInnerUnseen ==
  ASSUME DecodeInv, LeaveInner
  PROVE  UNCHANGED Fields!vars
<1>1. StackOK(stack) /\ Top.role = "inner" /\ UNCHANGED status
  BY DEF DecodeInv, LeaveInner
<1>2. PICK f : stack' = Upon(stack, Len(stack) - 2, f)
  BY DEF LeaveInner, Upon
<1>3. Len(stack) \in DOMAIN stack /\ Top = stack[Len(stack)]
  BY <1>1, TopFacts
<1>4. Len(stack) - 2 \in 1..Len(stack) BY <1>1, <1>3, InnerFacts
<1> QED BY <1>1, <1>2, <1>4, Unseen

(* The end of a codec under the caller is a field read; of an envelope, the *)
(* invariant has kept that it is complete and read past.                   *)
LEMMA LeaveIsolated ==
  ASSUME DecodeInv, Leave
  PROVE  Fields!Next \/ UNCHANGED Fields!vars
<1> DEFINE n == Len(stack)
           g == stack[n - 1]
           v == Result(Top)
           calls == Published(Top)
<1>1. /\ StackOK(stack) /\ status = "run" /\ Top.role = "codec"
      /\ UNCHANGED status /\ stack' = Upon(stack, n - 2, Fed(g, Top.off, v, calls))
  BY DEF DecodeInv, Leave, Upon
<1> HIDE DEF v, calls
<1>2. /\ n \in Nat /\ n - 1 \in 1..n /\ g.agenda # <<>>
      /\ Top.off \in g.off..Len(g.data)
  BY <1>1, LeaveFacts, TopFacts
<1>3. CASE n = 2
  <2>1. g = stack[1] /\ n - 2 = 0 BY <1>3
  <2>2. /\ Alone(Top) /\ Top.data = g.data /\ Top.start = g.off
        /\ Top.tag = CodecOf(g.module, Head(g.agenda)).kind
    BY <1>1, <1>3, TopFacts DEF Fits
  <2>3. From(Top) = Rest(g) BY <2>2 DEF From, Rest
  <2>4. CodecOf(g.module, Head(g.agenda)).kind = "opaque" =>
          EnvelopeOK(Rest(g)) /\ Top.off = g.off + EnvelopeLength(Rest(g))
    BY <2>2, <2>3 DEF Alone
  <2> HIDE DEF g, n
  <2>5. stack' = Upon(stack, 0, Fed(stack[1], Top.off, v, calls))
    BY <1>1, <2>1
  <2>6. /\ stack[1].agenda # <<>>
        /\ Top.off \in stack[1].off..Len(stack[1].data)
    BY <1>2, <2>1
  <2>7. CodecOf(stack[1].module, Head(stack[1].agenda)).kind = "opaque" =>
          /\ EnvelopeOK(Rest(stack[1]))
          /\ Top.off = stack[1].off + EnvelopeLength(Rest(stack[1]))
    BY <2>1, <2>4
  <2>8. Fields!ReadField
    BY <1>1, <2>5, <2>6, <2>7, FieldRead
  <2> QED BY <2>8 DEF Fields!Next
<1>4. CASE n # 2
  <2> HIDE DEF n, g
  <2>1. n - 2 \in 1..n BY <1>2, <1>4
  <2> QED BY <1>1, <2>1, Unseen DEF n
<1> QED BY <1>3, <1>4

LEMMA FinishIsolated ==
  ASSUME DecodeInv, Finish
  PROVE  Fields!Stop
<1>1. /\ StackOK(stack) /\ status = "run" /\ status' = "done"
      /\ UNCHANGED stack /\ Top.role = "caller" /\ Top.agenda = <<>>
  BY DEF DecodeInv, Finish
<1>2. Top = stack[1] /\ FrameOK(stack[1]) BY <1>1, TopFacts DEF Alone
<1>3. Lefts(stack[1]) = <<>> BY <1>1, <1>2, LeftFacts
<1> QED BY <1>1, <1>3 DEF Fields!Stop, Lefts

LEMMA InitIsolated == Init => Fields!Init
<1> SUFFICES ASSUME NEW r \in Request, NEW d \in Input[r],
                    stack = <<Frame("caller", "caller", d, 0, r.module, r.types, r.types)>>,
                    status = "run"
             PROVE  Fields!Init
  BY DEF Init
<1> DEFINE f == stack[1]
<1>1. /\ f.data = d /\ f.off = 0 /\ f.start = 0 /\ f.calls = <<>>
      /\ f.agenda = r.types /\ f.module = r.module
  BY DEF Frame
<1>2. FrameOK(f)
  <2>1. Init BY DEF Init
  <2>2. StackOK(stack) BY <2>1, InitOK DEF DecodeInv
  <2>3. 1 \in DOMAIN stack BY <2>2, TopFacts
  <2> QED BY <2>2, <2>3 DEF StackOK, Alone
<1>3. Lefts(f) \in Seq(BOOLEAN) BY <1>2, LeftFacts
<1>4. f.data \in Seq(Byte) BY <1>2 DEF FrameOK
<1>5. Fields!Byte = Byte BY DEF Fields!Byte, Byte
<1> QED BY <1>1, <1>3, <1>4, <1>5 DEF Fields!Init, Lefts

LEMMA IsolatedStep == DecodeInv /\ [Next]_vars => [Fields!Next]_(Fields!vars)
<1> SUFFICES ASSUME DecodeInv, [Next]_vars
             PROVE  Fields!Next \/ UNCHANGED Fields!vars
  OBVIOUS
<1>1. CASE ReadLeaf BY <1>1, ReadLeafIsolated
<1>2. CASE NoCodec
  <2>1. status = "run" /\ Top.agenda # <<>> /\ Asked.kind # "opaque" /\ Panic
    BY <1>2 DEF NoCodec, Asking
  <2> QED BY <2>1, FieldFailed DEF Fields!Next
<1>3. CASE EnterStruct \/ EnterArray \/ EnterVec \/ EnterMap \/ EnterOption
             \/ EnterVariant \/ EnterCall
  BY <1>3, EnterAllIsolated DEF Fields!Next
<1>4. CASE EnterOpaque BY <1>4, EnterOpaqueIsolated DEF Fields!Next
<1>5. CASE LeaveInner BY <1>5, LeaveInnerUnseen
<1>6. CASE Leave BY <1>6, LeaveIsolated
<1>7. CASE Finish BY <1>7, FinishIsolated DEF Fields!Next
<1>8. CASE UNCHANGED vars BY <1>8 DEF vars, Fields!vars
<1> QED BY <1>1, <1>2, <1>3, <1>4, <1>5, <1>6, <1>7, <1>8 DEF Next

(* Seen from the caller every field is read in one step, and an opaque one *)
(* takes exactly its envelope, which alone can make it fail: no payload,    *)
(* whatever it holds and however its decoding ends, moves or stops what    *)
(* follows it (processOpaque).                                             *)
THEOREM IsolatedFields == Spec => FieldsIsolated
<1>1. Init => Fields!Init BY InitIsolated
<1>2. DecodeInv /\ [Next]_vars => [Fields!Next]_(Fields!vars)
  BY IsolatedStep
<1> QED BY <1>1, <1>2, DecodeInvariance, PTL DEF Spec, FieldsIsolated, Fields!Spec

-----------------------------------------------------------------------------
(* Re-entry.  The invariant: of a codec that has read nothing yet, what it *)
(* still asks for ranks below its type until a byte has to come, and so,   *)
(* along a run of codecs, does every one that started where those under it *)
(* did.                                                                    *)

Paced(idle, rank, g, f) ==
  f.role = "codec" /\ f.off = f.start =>
    /\ f.module = g.module
    /\ Descending(idle, rank, g.module, Head(g.agenda), f.agenda)

Codecs(s, i, j) == \A k \in i..j : s[k].role = "codec"

AboveIn(rank, s, i, j) ==
  /\ s[i].off <= s[j].start
  /\ s[i].start = s[j].start =>
       /\ s[i - 1].module = s[j - 1].module
       /\ rank[s[j - 1].module][Head(s[j - 1].agenda)]
            < rank[s[j - 1].module][Head(s[i - 1].agenda)]

Falling(idle, rank, s) ==
  /\ \A i \in DOMAIN s \ {1} : Paced(idle, rank, s[i - 1], s[i])
  /\ \A j \in DOMAIN s : \A i \in 2..(j - 1) :
       Codecs(s, i, j) => AboveIn(rank, s, i, j)

LEMMA DescendingHead ==
  ASSUME NEW idle, NEW rank, NEW m, NEW t, NEW a \in Seq(TypeName), a # <<>>,
         Descending(idle, rank, m, t, a)
  PROVE  rank[m][Head(a)] < rank[m][t]
<1>1. Len(a) \in Nat \ {0} /\ DOMAIN a = 1..Len(a) /\ Head(a) = a[1]
  BY EmptySeq, LenProperties, HeadTailProperties
<1>2. 1 \in DOMAIN a /\ \A l \in 1..(1 - 1) : a[l] \in idle[m] BY <1>1
<1> QED BY <1>1, <1>2 DEF Descending

(* A field that was read from no bytes is idle: what comes after it still  *)
(* is before the first byte.                                               *)
LEMMA DescendingTail ==
  ASSUME NEW idle, NEW rank, NEW m, NEW t, NEW a \in Seq(TypeName), a # <<>>,
         Descending(idle, rank, m, t, a), Head(a) \in idle[m]
  PROVE  Descending(idle, rank, m, t, Tail(a))
<1> DEFINE n == Len(a)
           b == Tail(a)
<1>1. n \in Nat \ {0} /\ DOMAIN a = 1..n /\ a[1] \in idle[m]
  BY EmptySeq, LenProperties, HeadTailProperties
<1>2. DOMAIN b = 1..(n - 1) /\ \A k \in 1..(n - 1) : b[k] = a[k + 1]
  BY HeadTailProperties, LenProperties
<1> HIDE DEF n, b
<1>3. ASSUME NEW k \in DOMAIN b, \A l \in 1..(k - 1) : b[l] \in idle[m]
      PROVE  rank[m][b[k]] < rank[m][t]
  <2>1. k \in 1..(n - 1) /\ k + 1 \in DOMAIN a BY <1>1, <1>2
  <2>2. ASSUME NEW l \in 1..(k + 1 - 1) PROVE a[l] \in idle[m]
    <3>1. CASE l = 1 BY <1>1, <3>1
    <3>2. CASE l # 1
      <4>1. l - 1 \in 1..(k - 1) /\ l - 1 \in 1..(n - 1) BY <1>1, <2>1, <3>2
      <4>2. b[l - 1] = a[l - 1 + 1] BY <1>2, <4>1
      <4>3. l - 1 + 1 = l BY <2>1
      <4> QED BY <1>3, <4>1, <4>2, <4>3
    <3> QED BY <3>1, <3>2
  <2>3. rank[m][a[k + 1]] < rank[m][t] BY <2>1, <2>2 DEF Descending
  <2> QED BY <1>2, <2>1, <2>3
<1>4. ASSUME t \notin idle[m] PROVE \E k \in DOMAIN b : b[k] \notin idle[m]
  <2>1. PICK k \in DOMAIN a : a[k] \notin idle[m] BY <1>4 DEF Descending
  <2>2. k \in 1..n /\ k # 1 BY <1>1, <2>1
  <2>3. k - 1 \in 1..(n - 1) /\ k - 1 + 1 = k BY <1>1, <2>2
  <2>4. b[k - 1] = a[k] BY <1>2, <2>3
  <2> QED BY <1>2, <2>1, <2>3, <2>4
<1>5. Descending(idle, rank, m, t, b) BY <1>3, <1>4 DEF Descending
<1> QED BY <1>5 DEF b

LEMMA DescendingEnd ==
  ASSUME NEW idle, NEW rank, NEW m, NEW t, Descending(idle, rank, m, t, <<>>)
  PROVE  t \in idle[m]
<1>1. DOMAIN <<>> = {} OBVIOUS
<1> QED BY <1>1 DEF Descending

(* The frames under the new one stay, and it is the one that was there,    *)
(* further on.                                                             *)
LEMMA FallingKept ==
  ASSUME NEW idle, NEW rank, NEW s, StackOK(s), Falling(idle, rank, s),
         NEW n \in 0..(Len(s) - 1), NEW f,
         f.role = s[n + 1].role, f.start = s[n + 1].start,
         n > 0 => Paced(idle, rank, s[n], f)
  PROVE  Falling(idle, rank, Upon(s, n, f))
<1> DEFINE t == Upon(s, n, f)
<1>1. IsSeq(s) /\ DOMAIN s = 1..Len(s) /\ Len(s) \in Nat
  BY Push DEF StackOK
<1>2. n \in Nat /\ n \in 0..Len(s) BY <1>1
<1>3. /\ DOMAIN t = 1..(n + 1) /\ t[n + 1] = f
      /\ \A i \in 1..n : t[i] = s[i]
  BY <1>1, <1>2, Cut
<1> HIDE DEF t
<1>4. ASSUME NEW i \in 1..(n + 1)
      PROVE  t[i].role = s[i].role /\ t[i].start = s[i].start /\ i \in DOMAIN s
  <2>1. CASE i = n + 1 BY <1>1, <1>2, <1>3, <2>1
  <2>2. CASE i # n + 1
    <3>1. i \in 1..n BY <1>2, <2>2
    <3> QED BY <1>1, <1>2, <1>3, <3>1
  <2> QED BY <2>1, <2>2
<1>5. ASSUME NEW i \in DOMAIN t \ {1} PROVE Paced(idle, rank, t[i - 1], t[i])
  <2>1. i \in 1..(n + 1) /\ i - 1 \in 1..n /\ t[i - 1] = s[i - 1]
    BY <1>2, <1>3
  <2>2. CASE i = n + 1
    <3>1. i - 1 = n /\ n > 0 BY <1>2, <2>1, <2>2
    <3> QED BY <1>3, <2>1, <2>2, <3>1
  <2>3. CASE i # n + 1
    <3>1. i \in 1..n /\ i \in DOMAIN s \ {1} BY <1>1, <1>2, <2>1, <2>3
    <3> QED BY <1>3, <2>1, <3>1 DEF Falling
  <2> QED BY <2>2, <2>3
<1>6. ASSUME NEW j \in DOMAIN t, NEW i \in 2..(j - 1), Codecs(t, i, j)
      PROVE  AboveIn(rank, t, i, j)
  <2>1. /\ j \in 1..(n + 1) /\ i \in 1..n /\ i - 1 \in 1..n /\ j - 1 \in 1..n
        /\ i \in 1..(n + 1)
    BY <1>2, <1>3
  <2>2. j \in DOMAIN s /\ t[j].start = s[j].start BY <1>4, <2>1
  <2>3. Codecs(s, i, j)
    <3>1. \A k \in i..j : k \in 1..(n + 1) BY <1>2, <2>1
    <3>2. \A k \in i..j : s[k].role = "codec" BY <1>4, <1>6, <3>1 DEF Codecs
    <3> QED BY <3>2 DEF Codecs
  <2>4. AboveIn(rank, s, i, j) BY <2>2, <2>3 DEF Falling
  <2>5. t[i] = s[i] /\ t[i - 1] = s[i - 1] /\ t[j - 1] = s[j - 1]
    BY <1>3, <2>1
  <2> QED BY <2>2, <2>4, <2>5 DEF AboveIn
<1>7. Falling(idle, rank, t) BY <1>5, <1>6 DEF Falling
<1> QED BY <1>7 DEF t

(* A new frame on top: it starts where the one under it is.                *)
LEMMA FallingNew ==
  ASSUME NEW idle, NEW rank, Grounded(idle, rank),
         NEW s, StackOK(s), Falling(idle, rank, s), NEW f,
         Fits(s[Len(s)], f), Paced(idle, rank, s[Len(s)], f)
  PROVE  Falling(idle, rank, Upon(s, Len(s), f))
<1> DEFINE n == Len(s)
           t == Upon(s, n, f)
<1>1. IsSeq(s) /\ DOMAIN s = 1..n /\ n \in Nat /\ n >= 1
  BY Push DEF StackOK
<1>2. n \in 0..n BY <1>1
<1>3. /\ DOMAIN t = 1..(n + 1) /\ t[n + 1] = f
      /\ \A i \in 1..n : t[i] = s[i]
  BY <1>1, <1>2, Cut
<1> HIDE DEF n, t
<1>4. ASSUME NEW i \in DOMAIN t \ {1} PROVE Paced(idle, rank, t[i - 1], t[i])
  <2>1. i \in 1..(n + 1) /\ i - 1 \in 1..n /\ t[i - 1] = s[i - 1]
    BY <1>1, <1>3
  <2>2. CASE i = n + 1
    <3>1. i - 1 = n BY <1>1, <2>2
    <3> QED BY <1>3, <2>1, <2>2, <3>1 DEF n
  <2>3. CASE i # n + 1
    <3>1. i \in 1..n /\ i \in DOMAIN s \ {1} BY <1>1, <2>1, <2>3
    <3> QED BY <1>3, <2>1, <3>1 DEF Falling
  <2> QED BY <2>2, <2>3
<1>5. ASSUME NEW i \in 1..n
      PROVE  /\ s[i].start \in Nat /\ s[i].off \in Nat /\ s[i].start <= s[i].off
             /\ s[i].module \in Module /\ s[i].agenda \in Seq(TypeName)
  <2>1. FrameOK(s[i]) BY <1>1, <1>5 DEF StackOK, Alone
  <2>2. Len(s[i].data) \in Nat BY <2>1, LenProperties DEF FrameOK
  <2> QED BY <2>1, <2>2 DEF FrameOK
<1>6. ASSUME NEW i \in 1..n, s[i].agenda # <<>>, NEW m \in Module
      PROVE  rank[m][Head(s[i].agenda)] \in Nat
  <2>1. Head(s[i].agenda) \in TypeName BY <1>5, <1>6, HeadTailProperties
  <2> QED BY <2>1 DEF Grounded
<1>7. ASSUME NEW j \in DOMAIN t, NEW i \in 2..(j - 1), Codecs(t, i, j)
      PROVE  AboveIn(rank, t, i, j)
  <2>1. /\ j \in 1..(n + 1) /\ i \in 1..n /\ i - 1 \in 1..n /\ j - 1 \in 1..n
        /\ j \in Int /\ i \in Int /\ i \in i..j /\ j \in i..j
    BY <1>1, <1>3
  <2>2. t[i] = s[i] /\ t[i - 1] = s[i - 1] /\ t[j - 1] = s[j - 1]
    BY <1>3, <2>1
  <2>3. CASE j # n + 1
    <3>1. j \in 1..n /\ j \in DOMAIN s BY <1>1, <2>1, <2>3
    <3>2. \A k \in i..j : k \in 1..n /\ t[k] = s[k] BY <1>1, <1>3, <2>1, <3>1
    <3>3. Codecs(s, i, j) BY <1>7, <3>2 DEF Codecs
    <3>4. AboveIn(rank, s, i, j) BY <3>1, <3>3 DEF Falling
    <3>5. t[j] = s[j] BY <1>3, <3>1
    <3> QED BY <2>2, <3>4, <3>5 DEF AboveIn
  <2>4. CASE j = n + 1
    <3>1. j - 1 = n /\ t[j] = f /\ n \in 1..n BY <1>1, <1>3, <2>4
    <3>2. f.role = "codec" BY <1>7, <2>1, <3>1 DEF Codecs
    <3>3. /\ f.start = s[n].off /\ s[n].agenda # <<>>
          /\ Paced(idle, rank, s[n], f)
      BY <3>2 DEF Fits, n
    <3>4. s[n].role = "codec"
      <4>1. n \in i..j /\ t[n] = s[n] BY <1>1, <1>3, <2>1, <2>4, <3>1
      <4> QED BY <1>7, <4>1 DEF Codecs
    <3>5. n \in DOMAIN s \ {1} /\ n - 1 \in 1..n
      <4>1. n # 1 BY <1>1, <3>4, <3>1 DEF StackOK
      <4> QED BY <1>1, <4>1
    <3>6. /\ Paced(idle, rank, s[n - 1], s[n])
          /\ s[n - 1].agenda # <<>> /\ Fits(s[n - 1], s[n])
      BY <3>4, <3>5 DEF Falling, StackOK, Fits
    (* Of the two top decoders.                                          *)
    <3>7. ASSUME s[n].off = s[n].start
          PROVE  /\ s[n].module = s[n - 1].module
                 /\ rank[s[n].module][Head(s[n].agenda)]
                      < rank[s[n].module][Head(s[n - 1].agenda)]
      <4>1. /\ s[n].module = s[n - 1].module
            /\ Descending(idle, rank, s[n - 1].module, Head(s[n - 1].agenda),
                          s[n].agenda)
        BY <3>4, <3>6, <3>7 DEF Paced
      <4>2. s[n].agenda \in Seq(TypeName) BY <1>5, <3>1
      <4> QED BY <3>3, <4>1, <4>2, DescendingHead
    <3>8. CASE i = n
      <4>1. s[i].off <= f.start BY <1>5, <3>1, <3>3, <3>8
      <4>2. s[i].start = f.start => s[n].off = s[n].start BY <3>3, <3>8
      <4> QED BY <2>2, <3>1, <3>7, <3>8, <4>1, <4>2 DEF AboveIn
    <3>9. CASE i # n
      <4>1. n \in DOMAIN s /\ i \in 2..(n - 1) BY <1>1, <2>1, <3>1, <3>9
      <4>2. \A k \in i..n : k \in i..j /\ k \in 1..n /\ t[k] = s[k]
        BY <1>1, <1>3, <2>1, <2>4
      <4>3. Codecs(s, i, n) BY <1>7, <4>2 DEF Codecs
      <4>4. AboveIn(rank, s, i, n) BY <4>1, <4>3 DEF Falling
      <4>5. /\ s[i].start \in Nat /\ s[i].off \in Nat /\ s[i].start <= s[i].off
            /\ s[n].start \in Nat /\ s[n].off \in Nat /\ s[n].start <= s[n].off
        BY <1>5, <2>1, <3>1
      <4>6. s[i].off <= s[n].start BY <4>4 DEF AboveIn
      <4>7. s[i].off <= f.start BY <3>3, <4>5, <4>6
      <4>8. ASSUME s[i].start = f.start
            PROVE  /\ s[i - 1].module = s[n].module
                   /\ rank[s[n].module][Head(s[n].agenda)]
                        < rank[s[n].module][Head(s[i - 1].agenda)]
        <5>1. s[i].start = s[n].start /\ s[n].off = s[n].start
          BY <3>3, <4>5, <4>6, <4>8
        <5>2. /\ s[i - 1].module = s[n - 1].module
              /\ rank[s[n - 1].module][Head(s[n - 1].agenda)]
                   < rank[s[n - 1].module][Head(s[i - 1].agenda)]
          BY <4>4, <5>1 DEF AboveIn
        <5>3. /\ s[n].module = s[n - 1].module
              /\ rank[s[n].module][Head(s[n].agenda)]
                   < rank[s[n].module][Head(s[n - 1].agenda)]
          BY <3>7, <5>1
        <5>4. s[n].module \in Module BY <1>5, <3>1
        <5>5. s[i - 1].agenda # <<>>
          <6>1. i \in DOMAIN s \ {1} /\ s[i].role = "codec"
            <7>1. i \in i..n /\ i # 1 BY <4>1
            <7> QED BY <1>1, <2>1, <4>3, <7>1 DEF Codecs
          <6> QED BY <6>1 DEF StackOK, Fits
        <5>6. /\ rank[s[n].module][Head(s[n].agenda)] \in Nat
              /\ rank[s[n].module][Head(s[n - 1].agenda)] \in Nat
              /\ rank[s[n].module][Head(s[i - 1].agenda)] \in Nat
          BY <1>6, <2>1, <3>1, <3>3, <3>5, <3>6, <5>4, <5>5
        <5>7. \A x, y, z \in Nat : x < y /\ y < z => x < z OBVIOUS
        <5>8. rank[s[n].module][Head(s[n - 1].agenda)]
                < rank[s[n].module][Head(s[i - 1].agenda)]
          BY <5>2, <5>3
        <5>9. rank[s[n].module][Head(s[n].agenda)]
                < rank[s[n].module][Head(s[i - 1].agenda)]
          BY <5>3, <5>6, <5>7, <5>8
        <5> QED BY <5>2, <5>3, <5>9
      <4> QED BY <2>2, <3>1, <4>7, <4>8 DEF AboveIn
    <3> QED BY <3>8, <3>9
  <2> QED BY <2>3, <2>4
<1>8. Falling(idle, rank, t) BY <1>4, <1>7 DEF Falling
<1> QED BY <1>8 DEF n, t

(* What Paced looks at. *)
AsFar(f, e) ==
  /\ e.role = f.role /\ e.start = f.start /\ e.off = f.off
  /\ e.module = f.module /\ e.agenda = f.agenda

LEMMA PacedKept ==
  ASSUME NEW idle, NEW rank, NEW f, NEW g, Paced(idle, rank, g, f),
         NEW e, AsFar(f, e)
  PROVE  e.role = f.role /\ e.start = f.start /\ Paced(idle, rank, g, e)
BY DEF Paced, AsFar

(* A decoder whose field returned: one that has read nothing still has an  *)
(* idle field less to come.                                                *)
LEMMA PacedFed ==
  ASSUME NEW idle, NEW rank, NEW f, Alone(f), NEW g, f.agenda # <<>>,
         f.role = "codec" => Paced(idle, rank, g, f),
         NEW off \in f.off..Len(f.data), NEW v, NEW calls,
         off = f.off => Head(f.agenda) \in idle[f.module]
  PROVE  LET e == Fed(f, off, v, calls) IN
         e.role = f.role /\ e.start = f.start /\ Paced(idle, rank, g, e)
<1> DEFINE e == Fed(f, off, v, calls)
<1>1. /\ e.role = f.role /\ e.start = f.start /\ e.off = off
      /\ e.module = f.module /\ e.agenda = Tail(f.agenda)
  BY DEF Fed, Alone, IsFrame
<1> HIDE DEF e
<1>2. ASSUME e.role = "codec", e.off = e.start
      PROVE  /\ e.module = g.module
             /\ Descending(idle, rank, g.module, Head(g.agenda), e.agenda)
  <2>1. /\ f.start \in 0..f.off /\ f.off \in 0..Len(f.data)
        /\ f.agenda \in Seq(TypeName)
    BY DEF Alone, FrameOK
  <2>2. f.off \in Nat /\ f.start \in Nat /\ off \in Int
    <3>1. Len(f.data) \in Nat BY LenProperties DEF Alone, FrameOK
    <3> QED BY <2>1, <3>1
  <2>3. off = f.start BY <1>1, <1>2
  <2>4. off = f.off /\ f.off = f.start BY <2>1, <2>2, <2>3
  <2>5. /\ f.module = g.module
        /\ Descending(idle, rank, g.module, Head(g.agenda), f.agenda)
    BY <1>1, <1>2, <2>4 DEF Paced
  <2> QED BY <1>1, <2>1, <2>4, <2>5, DescendingTail
<1>3. Paced(idle, rank, g, e) BY <1>2 DEF Paced
<1> QED BY <1>1, <1>3 DEF e

(* A leaf that took no bytes is idle. *)
LEMMA IdleLeaf ==
  ASSUME NEW idle, NEW rank, Grounded(idle, rank), NEW m \in Module,
         NEW t \in TypeName, NEW f, FrameOK(f), CodecOf(m, t) \in CodecDef,
         CodecOf(m, t).kind \in LeafKind, LeafOK(f, CodecOf(m, t)),
         LeafLength(f, CodecOf(m, t)) = 0
  PROVE  t \in idle[m]
<1> DEFINE c == CodecOf(m, t)
           rest == Rest(f)
<1>1. rest \in Seq(Byte) /\ Len(rest) \in Nat BY RestType, LenProperties
<1>2. c.width \in Nat BY DEF CodecDef
<1>3. ~ Takes(c)
  <2>1. CASE c.kind = "bool"
    <3>1. Len(rest) >= 1 BY <2>1 DEF LeafOK
    <3>2. Least(1, Len(rest)) = 0 BY <2>1 DEF LeafLength
    <3> QED BY <1>1, <3>1, <3>2 DEF Least
  <2>2. CASE c.kind = "compact"
    <3>1. CompactOK(rest) /\ CompactLength(rest[1]) = 0
      BY <2>2 DEF LeafOK, LeafLength
    <3>2. CompactLength(rest[1]) \in 1..Len(rest) BY <1>1, <3>1, CompactType
    <3> QED BY <3>1, <3>2
  <2>3. CASE c.kind = "bytes"
    <3>1. /\ CompactOK(rest) /\ CompactValue(rest) >= 0
          /\ Least(CompactLength(rest[1]) + CompactValue(rest), Len(rest)) = 0
      BY <2>3 DEF LeafOK, LeafLength
    <3>2. /\ CompactLength(rest[1]) \in 1..Len(rest)
          /\ CompactValue(rest) \in Int
      BY <1>1, <3>1, CompactType
    <3> QED BY <1>1, <3>1, <3>2 DEF Least
  <2>4. CASE c.kind = "fixed" /\ c.width > 0
    <3>1. c.width <= Len(rest) /\ Least(c.width, Len(rest)) = 0
      BY <2>4 DEF LeafOK, LeafLength
    <3> QED BY <1>1, <1>2, <2>4, <3>1 DEF Least
  <2> HIDE DEF c
  <2> QED BY <2>1, <2>2, <2>3, <2>4 DEF Takes, LeafKind, c
<1>4. Unread(c) = <<>>
  <2> HIDE DEF c
  <2> QED BY DEF Unread, LeafKind, c
<1>5. Descending(idle, rank, m, t, Unread(c)) BY <1>3 DEF Grounded
<1> QED BY <1>4, <1>5, DescendingEnd

LEMMA PanicFalling ==
  ASSUME NEW idle, NEW rank, DecodeInv, Falling(idle, rank, stack), Panic
  PROVE  Falling(idle, rank, stack')
<1>1. StackOK(stack) BY DEF DecodeInv
<1>2. CASE UNCHANGED stack BY <1>2
<1>3. CASE Inner # {}
  <2>1. PICK i \in Inner :
          stack' = Append(SubSeq(stack, 1, i - 2),
                     [stack[i - 1] EXCEPT !.got = <<RawValue(stack[i - 1])>>])
    BY <1>3 DEF Panic
  <2> DEFINE f == [stack[i - 1] EXCEPT !.got = <<RawValue(stack[i - 1])>>]
  <2>2. i \in DOMAIN stack /\ stack[i].role = "inner" BY DEF Inner
  <2>3. /\ i - 2 \in 1..Len(stack) /\ Alone(stack[i - 1])
        /\ i - 1 \in 1..Len(stack)
    BY <1>1, <2>2, InnerFacts
  <2>4. /\ i - 2 \in 0..(Len(stack) - 1) /\ i - 2 + 1 = i - 1
        /\ i - 1 \in DOMAIN stack \ {1} /\ i - 1 - 1 = i - 2
    BY <1>1, <2>2, <2>3, TopFacts
  <2>5. Paced(idle, rank, stack[i - 2], stack[i - 1])
    BY <2>4 DEF Falling
  <2>6. /\ f.role = stack[i - 1].role /\ f.start = stack[i - 1].start
        /\ Paced(idle, rank, stack[i - 2], f)
    <3>1. AsFar(stack[i - 1], f) BY <2>3 DEF AsFar, Alone, IsFrame
    <3> HIDE DEF f
    <3> QED BY <2>5, <3>1, PacedKept
  <2>7. stack' = Upon(stack, i - 2, f) BY <2>1 DEF Upon
  <2> HIDE DEF f
  <2> QED BY <1>1, <2>4, <2>6, <2>7, FallingKept
<1> QED BY <1>2, <1>3 DEF Panic

LEMMA ReadLeafFalling ==
  ASSUME NEW idle, NEW rank, Grounded(idle, rank), DecodeInv,
         Falling(idle, rank, stack), ReadLeaf
  PROVE  Falling(idle, rank, stack')
<1>1. StackOK(stack) /\ Top.agenda # <<>> /\ Asked.kind \in LeafKind
  BY DEF DecodeInv, ReadLeaf, Asking
<1>2. CASE Panic BY <1>2, PanicFalling
<1>3. CASE LeafOK(Top, Asked)
  <2> DEFINE k == LeafLength(Top, Asked)
             off == Top.off + k
             v == LeafValue(Top, Asked)
             f == Fed(Top, off, v, <<>>)
             n == Len(stack) - 1
  <2>1. stack' = Upon(stack, n, f) BY <1>3 DEF ReadLeaf, Below, Upon
  <2>2. Alone(Top) /\ FrameOK(Top) BY <1>1, TopFacts DEF Alone
  <2>3. /\ Next1 \in TypeName /\ Asked \in CodecDef /\ Top.module \in Module
        /\ Asked = CodecOf(Top.module, Next1) /\ Next1 = Head(Top.agenda)
    BY <1>1, AskedFacts DEF Next1
  <2>4. k \in 0..(Len(Top.data) - Top.off)
    BY <1>1, <1>3, <2>2, <2>3, LeafLengthOK
  <2>5. k = 0 => Next1 \in idle[Top.module]
    BY <1>1, <1>3, <2>2, <2>3, IdleLeaf
  <2> HIDE DEF k, v
  <2>6. Top.off \in Nat /\ Len(Top.data) \in Nat BY <2>2, RestType
  <2>7. /\ off \in Top.off..Len(Top.data)
        /\ off = Top.off => Head(Top.agenda) \in idle[Top.module]
    BY <2>3, <2>4, <2>5, <2>6
  <2>8. /\ n \in 0..(Len(stack) - 1) /\ n + 1 = Len(stack) /\ Top = stack[n + 1]
        /\ n > 0 => n + 1 \in DOMAIN stack \ {1} /\ n + 1 - 1 = n
        /\ Top.role = "codec" => n > 0
    BY <1>1, TopFacts
  <2> HIDE DEF off, n
  <2>9. Top.role = "codec" => Paced(idle, rank, stack[n], Top)
    <3>1. SUFFICES ASSUME Top.role = "codec"
                   PROVE  Paced(idle, rank, stack[n], Top)
      OBVIOUS
    <3> DEFINE i == Len(stack)
    <3>2. i \in DOMAIN stack \ {1} /\ i - 1 = n /\ Top = stack[i]
      BY <2>8, <3>1 DEF n
    <3> HIDE DEF i
    <3>3. Paced(idle, rank, stack[i - 1], stack[i]) BY <3>2 DEF Falling
    <3> QED BY <3>2, <3>3
  <2>10. /\ f.role = Top.role /\ f.start = Top.start
         /\ Paced(idle, rank, stack[n], f)
    BY <1>1, <2>2, <2>7, <2>9, PacedFed
  <2> HIDE DEF f
  <2> QED BY <1>1, <2>1, <2>8, <2>10, FallingKept
<1> QED BY <1>2, <1>3 DEF ReadLeaf

(* A codec is entered: if its header was no byte, what it asks for is what *)
(* the types are grounded in.                                              *)
LEMMA EnterFalling ==
  ASSUME NEW idle, NEW rank, Grounded(idle, rank), DecodeInv,
         Falling(idle, rank, stack), Top.agenda # <<>>,
         NEW off, NEW module, NEW head, NEW agenda,
         Enter(off, module, head, agenda),
         off = Top.off => /\ module = Top.module /\ ~ Takes(Asked)
                          /\ agenda = Unread(Asked)
  PROVE  Falling(idle, rank, stack')
<1> DEFINE f == [role |-> "codec", tag |-> Asked.kind, data |-> Top.data,
                 start |-> Top.off, off |-> off, module |-> module,
                 head |-> head, agenda |-> agenda, got |-> <<>>, calls |-> <<>>]
<1>1. StackOK(stack) /\ stack' = Append(stack, f) BY Entered DEF DecodeInv
<1>2. /\ Next1 \in TypeName /\ Top.module \in Module
      /\ Asked = CodecOf(Top.module, Next1) /\ Next1 = Head(Top.agenda)
  BY <1>1, AskedFacts DEF Next1
<1>3. Fits(Top, f) BY DEF Fits, Asked, Next1
<1>4. Paced(idle, rank, Top, f)
  <2>1. ASSUME off = Top.off
        PROVE  /\ module = Top.module
               /\ Descending(idle, rank, Top.module, Head(Top.agenda), agenda)
    BY <1>2, <2>1 DEF Grounded
  <2> QED BY <2>1 DEF Paced
<1> HIDE DEF f
<1>5. /\ Top = stack[Len(stack)]
      /\ stack' = Upon(stack, Len(stack), f)
  BY <1>1, TopFacts, Push
<1> QED BY <1>1, <1>3, <1>4, <1>5, FallingNew

LEMMA NextByteTaken ==
  ASSUME NEW f, FrameOK(f), NextBytes(f, 1) = <<>> \/ Len(NextBytes(f, 1)) = 0
  PROVE  Rest(f) = <<>> /\ Flag(f) = -1 /\ Index(f) = 0
<1>1. /\ f.off + Len(NextBytes(f, 1)) = Least(f.off + 1, Len(f.data))
      /\ NextBytes(f, 1) \in Seq(Byte)
  BY NextBytesType
<1>2. Len(NextBytes(f, 1)) = 0 BY <1>1, EmptySeq
<1>3. Len(f.data) \in Nat /\ f.off \in 0..Len(f.data)
  BY LenProperties DEF FrameOK
<1>4. f.off = Len(f.data) BY <1>1, <1>2, <1>3 DEF Least
<1>5. Rest(f) \in Seq(Byte) /\ Len(Rest(f)) = 0 BY <1>3, <1>4, RestType
<1>6. Rest(f) = <<>> BY <1>5, EmptySeq
<1> QED BY <1>6 DEF Flag, Index

LEMMA EnterAllFalling ==
  ASSUME NEW idle, NEW rank, Grounded(idle, rank), DecodeInv,
         Falling(idle, rank, stack),
         EnterStruct \/ EnterArray \/ EnterVec \/ EnterMap \/ EnterOption
           \/ EnterVariant \/ EnterCall
  PROVE  Falling(idle, rank, stack')
<1>1. /\ Top.agenda # <<>>
      /\ Asked.kind \in NodeKind /\ Asked.kind # "opaque"
  BY DEF Asking, EnterStruct, EnterArray, EnterVec, EnterMap, EnterOption,
         EnterVariant, EnterCall, NodeKind
<1>2. /\ FrameOK(Top) /\ StackOK(stack) /\ Asked \in CodecDef
  BY <1>1, AskedFacts, TopFacts DEF DecodeInv, Alone
<1>3. Top.off \in Nat /\ Rest(Top) \in Seq(Byte) BY <1>2, RestType
<1>4. CompactOK(Rest(Top)) =>
        Top.off + CompactLength(Rest(Top)[1]) # Top.off
  BY <1>3, CompactType
<1>5. Top.off + Len(NextBytes(Top, 1)) = Top.off =>
        Flag(Top) = -1 /\ Index(Top) = 0
  <2>1. Len(NextBytes(Top, 1)) \in Nat BY <1>2, NextBytesType, LenProperties
  <2> QED BY <1>2, <1>3, <2>1, NextByteTaken
<1>6. CASE Panic BY <1>6, PanicFalling
<1>7. CASE EnterStruct
  <2>1. /\ Asked.kind \in {"struct", "box"}
        /\ Enter(Top.off, Top.module, <<>>, Asked.fields[1])
    BY <1>7 DEF EnterStruct, Asking
  <2>2. ~ Takes(Asked) /\ Asked.fields[1] = Unread(Asked)
    BY <2>1 DEF Takes, Unread
  <2> QED BY <1>1, <2>1, <2>2, EnterFalling
<1>8. CASE EnterArray
  <2>1. /\ Asked.kind = "array"
        /\ Enter(Top.off, Top.module, <<>>, Copies(Asked.width, Asked.fields[1][1]))
    BY <1>8 DEF EnterArray, Asking
  <2>2. ~ Takes(Asked) /\ Copies(Asked.width, Asked.fields[1][1]) = Unread(Asked)
    BY <2>1 DEF Takes, Unread
  <2> QED BY <1>1, <2>1, <2>2, EnterFalling
<1>9. CASE EnterVec /\ ~ Panic BY <1>1, <1>4, <1>9, EnterFalling DEF EnterVec
<1>10. CASE EnterMap /\ ~ Panic BY <1>1, <1>4, <1>10, EnterFalling DEF EnterMap
<1>11. CASE EnterOption
  <2> DEFINE s == IF Flag(Top) = 0 THEN <<>> ELSE Asked.fields[1]
             off == Top.off + Len(NextBytes(Top, 1))
  <2>1. /\ Asked.kind = "option"
        /\ Enter(off, Top.module, <<Flag(Top)>>, s)
    BY <1>11 DEF EnterOption, Asking
  <2>2. ~ Takes(Asked) /\ Asked.fields[1] = Unread(Asked)
    BY <2>1 DEF Takes, Unread
  <2>3. off = Top.off => s = Asked.fields[1] BY <1>5
  <2> HIDE DEF s, off
  <2> QED BY <1>1, <2>1, <2>2, <2>3, EnterFalling
<1>12. CASE EnterVariant /\ ~ Panic
  <2> DEFINE s == Asked.fields[Index(Top) + 1]
             off == Top.off + Len(NextBytes(Top, 1))
  <2>1. /\ Asked.kind \in {"enum", "result"} /\ Index(Top) < Len(Asked.fields)
        /\ Enter(off, Top.module, <<Index(Top)>>, s)
    BY <1>12 DEF EnterVariant, Asking
  <2>2. off = Top.off => s = Unread(Asked)
    <3>1. SUFFICES ASSUME off = Top.off PROVE s = Unread(Asked)
      OBVIOUS
    <3>2. Index(Top) = 0 BY <1>5, <3>1
    <3>3. Asked.fields # <<>>
      <4>1. 0 < Len(Asked.fields) BY <2>1, <3>2
      <4> QED BY <4>1
    <3> QED BY <2>1, <3>2, <3>3 DEF Unread
  <2>3. ~ Takes(Asked) BY <2>1 DEF Takes
  <2> HIDE DEF s, off
  <2> QED BY <1>1, <2>1, <2>2, <2>3, EnterFalling
<1>13. CASE EnterCall /\ ~ Panic
  <2>1. Top.off + 2 # Top.off BY <1>3
  <2> QED BY <1>1, <1>13, <2>1, EnterFalling DEF EnterCall
<1> QED BY <1>6, <1>7, <1>8, <1>9, <1>10, <1>11, <1>12, <1>13

LEMMA Lower ==
  ASSUME NEW s, IsSeq(s), Len(s) >= 1, NEW f, StackOK(Upon(s, Len(s), f))
  PROVE  StackOK(s)
<1> DEFINE t == Upon(s, Len(s), f)
           n == Len(s)
<1>1. n \in Nat /\ DOMAIN s = 1..n /\ n \in 0..n BY Push
<1>2. DOMAIN t = 1..(n + 1) /\ \A i \in 1..n : t[i] = s[i]
  BY <1>1, Cut
<1> HIDE DEF t, n
<1>3. ASSUME NEW i \in DOMAIN s
      PROVE  /\ Alone(s[i]) /\ (s[i].role = "caller" <=> i = 1)
             /\ i # 1 => Fits(s[i - 1], s[i])
  <2>1. i \in DOMAIN t /\ t[i] = s[i] BY <1>1, <1>2
  <2>2. i # 1 => t[i - 1] = s[i - 1] BY <1>1, <1>2
  <2>3. i # 1 => Fits(t[i - 1], t[i])
    BY <2>1 DEF StackOK, t
  <2>4. Alone(t[i]) /\ (t[i].role = "caller" <=> i = 1)
    BY <2>1 DEF StackOK, t
  <2> QED BY <2>1, <2>2, <2>3, <2>4
<1> QED BY <1>3 DEF StackOK

LEMMA EnterOpaqueFalling ==
  ASSUME NEW idle, NEW rank, Grounded(idle, rank), DecodeInv,
         Falling(idle, rank, stack), EnterOpaque
  PROVE  Falling(idle, rank, stack')
<1>1. /\ StackOK(stack) /\ status = "run" /\ Top.agenda # <<>>
      /\ Asked.kind = "opaque"
  BY DEF DecodeInv, EnterOpaque, Asking
<1>2. CASE Panic BY <1>2, PanicFalling
<1>3. CASE EnvelopeOK(Rest(Top))
  <2> DEFINE n == Len(stack)
             e == EnvelopeFrame
             f == PayloadFrame
             s == Upon(stack, n, e)
  <2>1. stack' = Append(Append(stack, e), f) BY <1>3, OpaqueEntered
  <2>2. FrameOK(Top) BY <1>1, TopFacts DEF Alone
  <2>3. Rest(Top) \in Seq(Byte) /\ Top.off \in Nat BY <2>2, RestType
  <2>4. EnvelopeLength(Rest(Top)) \in Nat \ {0}
    <3>1. /\ CompactLength(Rest(Top)[1]) \in 1..Len(Rest(Top))
          /\ CompactValue(Rest(Top)) \in Int
      BY <1>3, <2>3, CompactType DEF EnvelopeOK
    <3>2. CompactValue(Rest(Top)) >= 0 BY <1>3 DEF EnvelopeOK
    <3> QED BY <3>1, <3>2 DEF EnvelopeLength
  <2>5. Fits(Top, e) /\ Paced(idle, rank, Top, e)
    <3>1. Fits(Top, e) BY <1>1 DEF Fits, Asked, Next1, EnvelopeFrame
    <3>2. e.off # e.start
      <4>1. e.off = Top.off + EnvelopeLength(Rest(Top)) /\ e.start = Top.off
        BY DEF EnvelopeFrame
      <4> HIDE DEF e
      <4> QED BY <2>3, <2>4, <4>1
    <3> QED BY <3>1, <3>2 DEF Paced
  <2>6. Fits(e, f) /\ Paced(idle, rank, e, f)
    BY DEF Fits, Paced, EnvelopeFrame, PayloadFrame
  <2> HIDE DEF e, f
  <2>7. /\ IsSeq(stack) /\ n \in Nat /\ n >= 1 /\ n \in 0..n
        /\ Top = stack[n] /\ Append(stack, e) = s
    BY <1>1, TopFacts, Push
  <2>8. IsSeq(s) /\ Len(s) = n + 1 /\ s[n + 1] = e BY <2>7, Cut
  <2>9. Falling(idle, rank, s) BY <1>1, <2>5, <2>7, FallingNew
  <2> HIDE DEF s
  <2>10. stack' = Upon(s, Len(s), f) BY <2>1, <2>7, <2>8, Push
  <2>11. StackOK(stack') BY EnterOpaqueOK DEF DecodeInv
  <2>12. StackOK(s) BY <2>7, <2>8, <2>10, <2>11, Lower
  <2>13. Fits(s[Len(s)], f) /\ Paced(idle, rank, s[Len(s)], f)
    BY <2>6, <2>8
  <2> QED BY <2>9, <2>10, <2>12, <2>13, FallingNew
<1> QED BY <1>2, <1>3 DEF EnterOpaque

LEMMA LeaveInnerFalling ==
  ASSUME NEW idle, NEW rank, DecodeInv, Falling(idle, rank, stack), LeaveInner
  PROVE  Falling(idle, rank, stack')
<1>1. StackOK(stack) /\ Top.role = "inner" BY DEF DecodeInv, LeaveInner
<1> DEFINE n == Len(stack)
           envelope == stack[n - 1]
           f == IF Top.off = Len(Top.data)
                THEN [envelope EXCEPT !.got = Top.got, !.calls = envelope.calls \o Top.calls]
                ELSE [envelope EXCEPT !.got = <<RawValue(envelope)>>]
<1>2. stack' = Upon(stack, n - 2, f) BY DEF LeaveInner, Upon
<1>3. n \in Nat \ {0} /\ n \in DOMAIN stack /\ Top = stack[n]
  BY <1>1, TopFacts
<1>4. n - 2 \in 1..n /\ Alone(envelope) BY <1>1, <1>3, InnerFacts
<1>5. /\ envelope = stack[n - 2 + 1] /\ n - 2 \in 0..(n - 1)
      /\ n - 1 \in DOMAIN stack \ {1} /\ n - 1 - 1 = n - 2
  BY <1>1, <1>3, <1>4, TopFacts
<1>6. Paced(idle, rank, stack[n - 2], envelope)
  <2>1. Paced(idle, rank, stack[n - 1 - 1], stack[n - 1]) BY <1>5 DEF Falling
  <2> QED BY <1>5, <2>1
<1>7. \/ f = [envelope EXCEPT !.got = Top.got, !.calls = envelope.calls \o Top.calls]
      \/ f = [envelope EXCEPT !.got = <<RawValue(envelope)>>]
  OBVIOUS
<1> HIDE DEF envelope, f
<1>8. /\ f.role = envelope.role /\ f.start = envelope.start
      /\ Paced(idle, rank, stack[n - 2], f)
  <2>1. AsFar(envelope, f)
    <3>1. CASE f = [envelope EXCEPT !.got = Top.got,
                                    !.calls = envelope.calls \o Top.calls]
      BY <1>4, <3>1 DEF AsFar, Alone, IsFrame
    <3>2. CASE f = [envelope EXCEPT !.got = <<RawValue(envelope)>>]
      BY <1>4, <3>2 DEF AsFar, Alone, IsFrame
    <3> QED BY <1>7, <3>1, <3>2
  <2> QED BY <1>6, <2>1, PacedKept
<1> QED BY <1>1, <1>2, <1>5, <1>8, FallingKept

(* A codec that returns without having read a byte has only asked for idle *)
(* types, and so its own is.                                               *)
LEMMA LeaveFalling ==
  ASSUME NEW idle, NEW rank, Grounded(idle, rank), DecodeInv,
         Falling(idle, rank, stack), Leave
  PROVE  Falling(idle, rank, stack')
<1> DEFINE n == Len(stack)
           g == stack[n - 1]
           v == Result(Top)
           calls == Published(Top)
           f == Fed(g, Top.off, v, calls)
<1>1. /\ StackOK(stack) /\ DOMAIN stack = 1..n /\ Top.role = "codec"
      /\ Top.agenda = <<>>
  BY TopFacts DEF DecodeInv, Leave
<1>2. stack' = Upon(stack, n - 2, f) BY DEF Leave, Upon
<1>3. /\ n - 1 \in 1..n /\ n \in Nat /\ Alone(g) /\ g.agenda # <<>>
      /\ Top.off \in g.off..Len(g.data)
  BY <1>1, LeaveFacts
<1>4. g = stack[n - 2 + 1] /\ n - 2 \in 0..(n - 1) /\ n - 2 + 1 = n - 1
  BY <1>3
<1>5. Top = stack[n] /\ Fits(g, Top) BY <1>1, <1>3, TopFacts
<1>6. Paced(idle, rank, g, Top)
  <2>1. n \in DOMAIN stack \ {1} BY <1>1, <1>3
  <2> QED BY <1>5, <2>1 DEF Falling
<1>7. ASSUME Top.off = g.off PROVE Head(g.agenda) \in idle[g.module]
  <2>1. Top.off = Top.start BY <1>1, <1>5, <1>7 DEF Fits
  <2>2. Descending(idle, rank, g.module, Head(g.agenda), <<>>)
    BY <1>1, <1>6, <2>1 DEF Paced
  <2> QED BY <2>2, DescendingEnd
<1>8. g.role = "codec" => Paced(idle, rank, stack[n - 2], g)
  <2>1. SUFFICES ASSUME g.role = "codec" PROVE Paced(idle, rank, stack[n - 2], g)
    OBVIOUS
  <2>2. n - 1 \in DOMAIN stack \ {1} /\ n - 1 - 1 = n - 2
    <3>1. n - 1 # 1 BY <1>1, <1>3, <2>1 DEF StackOK
    <3> QED BY <1>1, <1>3, <3>1
  <2>3. Paced(idle, rank, stack[n - 1 - 1], stack[n - 1]) BY <2>2 DEF Falling
  <2> QED BY <2>2, <2>3
<1> HIDE DEF g, v, calls
<1>9. /\ f.role = g.role /\ f.start = g.start
      /\ Paced(idle, rank, stack[n - 2], f)
  BY <1>3, <1>7, <1>8, PacedFed
<1> HIDE DEF f
<1> QED BY <1>1, <1>2, <1>4, <1>9, FallingKept

LEMMA InitFalling ==
  ASSUME NEW idle, NEW rank, Init
  PROVE  Falling(idle, rank, stack)
<1>1. PICK f : stack = <<f>> BY DEF Init
<1>2. DOMAIN stack = 1..1 BY <1>1
<1>3. \A i \in DOMAIN stack : i = 1 /\ 2..(i - 1) = {} BY <1>2
<1> QED BY <1>3 DEF Falling

LEMMA FallingStep ==
  ASSUME NEW idle, NEW rank, Grounded(idle, rank), DecodeInv,
         Falling(idle, rank, stack), [Next]_vars
  PROVE  Falling(idle, rank, stack')
<1>1. CASE ReadLeaf BY <1>1, ReadLeafFalling
<1>2. CASE NoCodec BY <1>2, PanicFalling DEF NoCodec
<1>3. CASE EnterStruct \/ EnterArray \/ EnterVec \/ EnterMap \/ EnterOption
             \/ EnterVariant \/ EnterCall
  BY <1>3, EnterAllFalling
<1>4. CASE EnterOpaque BY <1>4, EnterOpaqueFalling
<1>5. CASE LeaveInner BY <1>5, LeaveInnerFalling
<1>6. CASE Leave BY <1>6, LeaveFalling
<1>7. CASE Finish BY <1>7 DEF Finish
<1>8. CASE UNCHANGED vars BY <1>8 DEF vars
<1> QED BY <1>1, <1>2, <1>3, <1>4, <1>5, <1>6, <1>7, <1>8 DEF Next

LEMMA FallingNoReentry ==
  ASSUME NEW idle, NEW rank, Grounded(idle, rank), DecodeInv,
         Falling(idle, rank, stack)
  PROVE  NoReentry
<1>1. /\ StackOK(stack) /\ DOMAIN stack = 1..Len(stack) /\ Len(stack) \in Nat
  BY TopFacts DEF DecodeInv
<1> SUFFICES ASSUME NEW j \in DOMAIN stack, NEW i \in 2..(j - 1),
                    \A k \in i..j : stack[k].role = "codec",
                    stack[i].start = stack[j].start
             PROVE  Decoding(i) # Decoding(j)
  BY DEF NoReentry
<1> DEFINE m == stack[j - 1].module
<1>2. AboveIn(rank, stack, i, j) BY DEF Falling, Codecs
<1>3. rank[m][Decoding(j)] < rank[m][Decoding(i)]
  BY <1>2 DEF AboveIn, Decoding
<1>4. rank[m][Decoding(j)] \in Nat
  <2>1. j \in DOMAIN stack \ {1} /\ j - 1 \in DOMAIN stack /\ j \in i..j
    BY <1>1
  <2>2. Fits(stack[j - 1], stack[j]) /\ FrameOK(stack[j - 1])
        /\ stack[j].role = "codec"
    BY <1>1, <2>1 DEF StackOK, Alone
  <2>3. stack[j - 1].agenda # <<>> /\ stack[j - 1].agenda \in Seq(TypeName)
        /\ m \in Module
    BY <2>2 DEF Fits, FrameOK
  <2>4. Decoding(j) \in TypeName BY <2>3, HeadTailProperties DEF Decoding
  <2> HIDE DEF m
  <2> QED BY <2>3, <2>4 DEF Grounded
<1> HIDE DEF m
<1> QED BY <1>3, <1>4

(* If no type can come back to itself before a byte is read, no decoder    *)
(* comes back, at the byte it started from, to the type it is decoding:    *)
(* every way round a recursive type passes a field that has to be there    *)
(* (requireRemainingBytes, a length prefix, the index of a call).          *)
THEOREM NoTypeReentered ==
  ASSUME NEW idle, NEW rank, Grounded(idle, rank)
  PROVE  Spec => []NoReentry
<1>1. Init => Falling(idle, rank, stack) BY InitFalling
<1>2. DecodeInv /\ Falling(idle, rank, stack) /\ [Next]_vars
        => Falling(idle, rank, stack)'
  BY FallingStep
<1>3. DecodeInv /\ Falling(idle, rank, stack) => NoReentry
  BY FallingNoReentry
<1> QED BY <1>1, <1>2, <1>3, DecodeInvariance, PTL DEF Spec

-----------------------------------------------------------------------------
(* The calls in values.  CallsTo is a recursive function for each bound on *)
(* the depth; one bound agrees with the next on the values both have.      *)
Own(v) == IF v.tag = "call" THEN <<v.head>> ELSE <<>>

Under(p, v) == FlattenSeq([k \in DOMAIN v.subs |-> p[v.subs[k]]])

Level(p, below) ==
  [v \in [tag : Tag, head : Seq(Int), subs : below] |-> Under(p, v) \o Own(v)]

Leveled(n, f) ==
  /\ DOMAIN f = 0..n /\ f = [i \in 0..n |-> f[i]] /\ f[0] = Level(<<>>, {<<>>})
  /\ \A i \in 1..n : f[i] = Level(f[i - 1], Seq(DOMAIN f[i - 1]))

LEMMA NoneUnder ==
  ASSUME NEW p, NEW v, v.subs = <<>>
  PROVE  Under(p, v) = <<>>
<1>1. DOMAIN v.subs = {} OBVIOUS
<1>2. [k \in DOMAIN v.subs |-> p[v.subs[k]]] = <<>> BY <1>1
<1> QED BY <1>2, FlatEmpty DEF Under

LEMMA LevelsExist ==
  ASSUME NEW n \in Nat
  PROVE  \E f : Leveled(n, f)
<1> DEFINE T == {k \in Nat : \E f : Leveled(k, f)}
<1>1. 0 \in T
  <2> DEFINE f == [i \in 0..0 |-> Level(<<>>, {<<>>})]
  <2>1. DOMAIN f = 0..0 /\ f = [i \in 0..0 |-> f[i]] /\ f[0] = Level(<<>>, {<<>>}) OBVIOUS
  <2> HIDE DEF f
  <2>2. Leveled(0, f) BY <2>1 DEF Leveled
  <2> QED BY <2>2
<1>2. ASSUME NEW k \in Nat, k \in T PROVE k + 1 \in T
  <2>1. PICK f : Leveled(k, f) BY <1>2
  <2> DEFINE top == Level(f[k], Seq(DOMAIN f[k]))
             h == [i \in 0..(k + 1) |-> IF i = k + 1 THEN top ELSE f[i]]
  <2> HIDE DEF top
  <2>2. DOMAIN h = 0..(k + 1) /\ h = [i \in 0..(k + 1) |-> h[i]] OBVIOUS
  <2>3. h[k + 1] = top /\ \A i \in 0..k : h[i] = f[i] OBVIOUS
  <2> HIDE DEF h
  <2>4. h[0] = Level(<<>>, {<<>>}) BY <2>1, <2>3 DEF Leveled
  <2>5. ASSUME NEW i \in 1..(k + 1) PROVE h[i] = Level(h[i - 1], Seq(DOMAIN h[i - 1]))
    <3>1. i - 1 \in 0..k /\ h[i - 1] = f[i - 1] BY <2>3
    <3>2. CASE i = k + 1
      <4>1. i - 1 = k BY <3>2
      <4>2. h[i] = top BY <2>3, <3>2
      <4> QED BY <3>1, <4>1, <4>2 DEF top
    <3>3. CASE i # k + 1
      <4>1. i \in 1..k /\ i \in 0..k BY <3>3
      <4>2. h[i] = f[i] BY <2>3, <4>1
      <4>3. f[i] = Level(f[i - 1], Seq(DOMAIN f[i - 1])) BY <2>1, <4>1 DEF Leveled
      <4> QED BY <3>1, <4>2, <4>3
    <3> QED BY <3>2, <3>3
  <2>6. Leveled(k + 1, h) BY <2>2, <2>4, <2>5 DEF Leveled
  <2> QED BY <2>6
<1>3. n \in T
  <2> HIDE DEF T
  <2> QED BY <1>1, <1>2, SetInduction
<1> QED BY <1>3

(* The functions that fit the recursion are one.                           *)
LEMMA LevelsAgree ==
  ASSUME NEW n \in Nat, NEW f, Leveled(n, f)
  PROVE  CallsTo(n) = f[n]
<1> DEFINE D(to) ==
             [i \in 0..n |->
               [v \in [tag : Tag, head : Seq(Int),
                       subs : IF i = 0 THEN {<<>>} ELSE Seq(DOMAIN to[i - 1])] |->
                  FlattenSeq([k \in DOMAIN v.subs |-> to[i - 1][v.subs[k]]])
                    \o (IF v.tag = "call" THEN <<v.head>> ELSE <<>>)]]
           g == CHOOSE to : to = D(to)
<1>1. CallsTo(n) = g[n] BY DEF CallsTo
<1>2. ASSUME NEW to
      PROVE  /\ D(to)[0] = Level(<<>>, {<<>>})
             /\ \A i \in 1..n : D(to)[i] = Level(to[i - 1], Seq(DOMAIN to[i - 1]))
  <2>1. D(to)[0] = Level(to[0 - 1], {<<>>}) BY DEF Level, Under, Own
  <2>2. Level(to[0 - 1], {<<>>}) = Level(<<>>, {<<>>})
    <3>1. \A v \in [tag : Tag, head : Seq(Int), subs : {<<>>}] :
            Under(to[0 - 1], v) = Under(<<>>, v)
      BY NoneUnder
    <3> QED BY <3>1 DEF Level
  <2>3. ASSUME NEW i \in 1..n PROVE D(to)[i] = Level(to[i - 1], Seq(DOMAIN to[i - 1]))
    <3>1. i \in 0..n /\ i # 0 OBVIOUS
    <3> QED BY <3>1 DEF Level, Under, Own
  <2> HIDE DEF D
  <2> QED BY <2>1, <2>2, <2>3
<1>3. ASSUME NEW to PROVE DOMAIN D(to) = 0..n /\ D(to) = [i \in 0..n |-> D(to)[i]] OBVIOUS
<1>4. f = D(f)
  <2>1. f = [i \in 0..n |-> f[i]] BY DEF Leveled
  <2>2. ASSUME NEW i \in 0..n PROVE f[i] = D(f)[i]
    <3> HIDE DEF D
    <3>1. i = 0 \/ i \in 1..n OBVIOUS
    <3> QED BY <1>2, <3>1 DEF Leveled
  <2> HIDE DEF D
  <2> QED BY <1>3, <2>1, <2>2
<1>5. g = D(g)
  <2> HIDE DEF D
  <2> QED BY <1>4
<1> HIDE DEF g, D
<1>6. g[0] = Level(<<>>, {<<>>}) BY <1>2, <1>5
<1>7. \A i \in 1..n : g[i] = Level(g[i - 1], Seq(DOMAIN g[i - 1])) BY <1>2, <1>5
<1> DEFINE T == {k \in Nat : k <= n => g[k] = f[k]}
<1>8. 0 \in T BY <1>6 DEF Leveled
<1>9. ASSUME NEW k \in Nat, k \in T PROVE k + 1 \in T
  <2> SUFFICES ASSUME k + 1 <= n PROVE g[k + 1] = f[k + 1] OBVIOUS
  <2> DEFINE j == k + 1
  <2>1. j \in 1..n /\ j - 1 = k OBVIOUS
  <2> HIDE DEF j
  <2>2. g[k] = f[k] BY <1>9
  <2>3. g[j] = Level(g[k], Seq(DOMAIN g[k])) BY <1>7, <2>1
  <2>4. f[j] = Level(f[k], Seq(DOMAIN f[k])) BY <2>1 DEF Leveled
  <2> QED BY <2>2, <2>3, <2>4 DEF j
<1>10. n \in T
  <2> HIDE DEF T
  <2> QED BY <1>8, <1>9, SetInduction
<1> QED BY <1>1, <1>10

LEMMA CallsStep ==
  ASSUME NEW n \in Nat
  PROVE  /\ CallsTo(0) = Level(<<>>, {<<>>})
         /\ CallsTo(n + 1) = Level(CallsTo(n), Seq(DOMAIN CallsTo(n)))
<1>1. PICK f : Leveled(n + 1, f) BY LevelsExist
<1> DEFINE h(k) == [i \in 0..k |-> f[i]]
<1>2. ASSUME NEW k \in 0..(n + 1) PROVE CallsTo(k) = f[k]
  <2>1. /\ DOMAIN h(k) = 0..k /\ h(k) = [i \in 0..k |-> h(k)[i]]
        /\ \A i \in 0..k : h(k)[i] = f[i]
    OBVIOUS
  <2> HIDE DEF h
  <2>2. h(k)[0] = Level(<<>>, {<<>>})
    <3>1. 0 \in 0..k OBVIOUS
    <3> QED BY <1>1, <2>1, <3>1 DEF Leveled
  <2>3. ASSUME NEW i \in 1..k PROVE h(k)[i] = Level(h(k)[i - 1], Seq(DOMAIN h(k)[i - 1]))
    <3>1. i \in 1..(n + 1) /\ i \in 0..k /\ i - 1 \in 0..k OBVIOUS
    <3>2. f[i] = Level(f[i - 1], Seq(DOMAIN f[i - 1])) BY <1>1, <3>1 DEF Leveled
    <3>3. h(k)[i] = f[i] /\ h(k)[i - 1] = f[i - 1] BY <2>1, <3>1
    <3> QED BY <3>2, <3>3
  <2>4. Leveled(k, h(k)) BY <2>1, <2>2, <2>3 DEF Leveled
  <2>5. k \in 0..k BY <1>2
  <2> QED BY <2>1, <2>4, <2>5, LevelsAgree
<1>3. 0 \in 0..(n + 1) /\ n \in 0..(n + 1) /\ n + 1 \in 0..(n + 1) OBVIOUS
<1>4. CallsTo(0) = f[0] /\ CallsTo(n) = f[n] /\ CallsTo(n + 1) = f[n + 1] BY <1>2, <1>3
<1>5. f[n + 1] = Level(f[n], Seq(DOMAIN f[n]))
  <2> DEFINE j == n + 1
  <2>1. j \in 1..(n + 1) /\ j - 1 = n OBVIOUS
  <2> HIDE DEF j
  <2>2. f[j] = Level(f[j - 1], Seq(DOMAIN f[j - 1])) BY <1>1, <2>1 DEF Leveled
  <2> QED BY <2>1, <2>2 DEF j
<1>6. f[0] = Level(<<>>, {<<>>}) BY <1>1 DEF Leveled
<1> QED BY <1>4, <1>5, <1>6

(* A level is of values, and gives lists of indexes.                       *)
LEMMA LevelFacts ==
  ASSUME NEW p, NEW below
  PROVE  /\ DOMAIN Level(p, below) = [tag : Tag, head : Seq(Int), subs : below]
         /\ \A v \in DOMAIN Level(p, below) :
              /\ v.tag \in Tag /\ v.head \in Seq(Int) /\ v.subs \in below
              /\ v = Value(v.tag, v.head, v.subs)
              /\ Level(p, below)[v] = Under(p, v) \o Own(v)
<1> DEFINE D == [tag : Tag, head : Seq(Int), subs : below]
<1>1. /\ DOMAIN Level(p, below) = D
      /\ \A v \in D : Level(p, below)[v] = Under(p, v) \o Own(v)
  BY DEF Level
<1>2. \A v \in D : /\ v.tag \in Tag /\ v.head \in Seq(Int) /\ v.subs \in below
                    /\ v = [tag |-> v.tag, head |-> v.head, subs |-> v.subs]
  OBVIOUS
<1> QED BY ONLY <1>1, <1>2 DEF Value

LEMMA OwnType ==
  ASSUME NEW v, v.head \in Seq(Int)
  PROVE  Own(v) \in Seq(Seq(Int))
BY DEF Own

LEMMA UnderType ==
  ASSUME NEW p, \A w \in DOMAIN p : p[w] \in Seq(Seq(Int)),
         NEW v, v.subs \in Seq(DOMAIN p)
  PROVE  /\ [k \in DOMAIN v.subs |-> p[v.subs[k]]] \in Seq(Seq(Seq(Int)))
         /\ Under(p, v) \in Seq(Seq(Int))
<1> DEFINE ss == [k \in DOMAIN v.subs |-> p[v.subs[k]]]
<1>1. DOMAIN v.subs = 1..Len(v.subs) /\ Len(v.subs) \in Nat OBVIOUS
<1>2. \A k \in 1..Len(v.subs) : v.subs[k] \in DOMAIN p BY ElementType
<1>3. \A k \in 1..Len(v.subs) : p[v.subs[k]] \in Seq(Seq(Int)) BY <1>2
<1>4. ss \in [1..Len(v.subs) -> Seq(Seq(Int))] BY <1>1, <1>3
<1>5. ss \in Seq(Seq(Seq(Int))) BY <1>1, <1>4
<1> HIDE DEF ss
<1>6. FlattenSeq(ss) \in Seq(Seq(Int)) BY <1>5, FlatType
<1> QED BY <1>5, <1>6 DEF Under, ss

LEMMA CallsType ==
  ASSUME NEW n \in Nat
  PROVE  \A v \in DOMAIN CallsTo(n) : CallsTo(n)[v] \in Seq(Seq(Int))
<1> DEFINE T == {k \in Nat : \A v \in DOMAIN CallsTo(k) : CallsTo(k)[v] \in Seq(Seq(Int))}
<1>1. 0 \in T
  <2>1. CallsTo(0) = Level(<<>>, {<<>>}) BY CallsStep
  <2>2. ASSUME NEW v \in DOMAIN Level(<<>>, {<<>>})
        PROVE  Level(<<>>, {<<>>})[v] \in Seq(Seq(Int))
    <3>1. v.subs = <<>> /\ v.head \in Seq(Int) /\ Level(<<>>, {<<>>})[v] = Under(<<>>, v) \o Own(v)
      BY LevelFacts
    <3>2. Under(<<>>, v) = <<>> BY <3>1, NoneUnder
    <3> DEFINE own == Own(v)
    <3>3. own \in Seq(Seq(Int)) BY <3>1, OwnType
    <3> HIDE DEF own
    <3>4. <<>> \o own = own BY <3>3, ConcatEmpty
    <3> QED BY <3>1, <3>2, <3>3, <3>4 DEF own
  <2> QED BY <2>1, <2>2
<1>2. ASSUME NEW k \in Nat, k \in T PROVE k + 1 \in T
  <2> DEFINE p == CallsTo(k)
  <2>1. \A w \in DOMAIN p : p[w] \in Seq(Seq(Int)) BY <1>2
  <2>2. CallsTo(k + 1) = Level(p, Seq(DOMAIN p)) BY CallsStep
  <2> HIDE DEF p
  <2>3. ASSUME NEW v \in DOMAIN Level(p, Seq(DOMAIN p))
        PROVE  Level(p, Seq(DOMAIN p))[v] \in Seq(Seq(Int))
    <3>1. /\ v.subs \in Seq(DOMAIN p) /\ v.head \in Seq(Int)
          /\ Level(p, Seq(DOMAIN p))[v] = Under(p, v) \o Own(v)
      BY LevelFacts
    <3>2. Under(p, v) \in Seq(Seq(Int)) BY <2>1, <3>1, UnderType
    <3>3. Own(v) \in Seq(Seq(Int)) BY <3>1, OwnType
    <3> QED BY <3>1, <3>2, <3>3, ConcatType
  <2> QED BY <2>2, <2>3
<1>3. n \in T
  <2> HIDE DEF T
  <2> QED BY <1>1, <1>2, SetInduction
<1> QED BY <1>3

LEMMA SeqSubset ==
  ASSUME NEW A, NEW B, A \subseteq B
  PROVE  Seq(A) \subseteq Seq(B)
<1> SUFFICES ASSUME NEW s \in Seq(A) PROVE s \in Seq(B) OBVIOUS
<1>1. s \in [1..Len(s) -> A] /\ Len(s) \in Nat OBVIOUS
<1>2. s \in [1..Len(s) -> B] BY <1>1
<1> QED BY <1>1, <1>2

(* One level deeper: no value is lost, and none has other calls.           *)
Extends(q, p) == DOMAIN p \subseteq DOMAIN q /\ \A v \in DOMAIN p : q[v] = p[v]

LEMMA UnderExtends ==
  ASSUME NEW p, NEW q, Extends(q, p), NEW v, v.subs \in Seq(DOMAIN p)
  PROVE  Under(q, v) = Under(p, v)
<1>1. \A k \in DOMAIN v.subs : v.subs[k] \in DOMAIN p
  <2>1. DOMAIN v.subs = 1..Len(v.subs) OBVIOUS
  <2> QED BY <2>1, ElementType
<1>2. \A k \in DOMAIN v.subs : q[v.subs[k]] = p[v.subs[k]] BY <1>1 DEF Extends
<1>3. [k \in DOMAIN v.subs |-> q[v.subs[k]]] = [k \in DOMAIN v.subs |-> p[v.subs[k]]] BY <1>2
<1> QED BY <1>3 DEF Under

LEMMA CallsExtend ==
  ASSUME NEW n \in Nat
  PROVE  Extends(CallsTo(n + 1), CallsTo(n))
<1> DEFINE T == {k \in Nat : Extends(CallsTo(k + 1), CallsTo(k))}
<1>1. 0 \in T
  <2> DEFINE p == CallsTo(0)
             q == CallsTo(0 + 1)
  <2>1. p = Level(<<>>, {<<>>}) /\ q = Level(p, Seq(DOMAIN p)) BY CallsStep
  <2> HIDE DEF p, q
  <2>2. <<>> \in Seq(DOMAIN p) OBVIOUS
  <2>3. ASSUME NEW v \in DOMAIN p PROVE v \in DOMAIN q /\ q[v] = p[v]
    <3>1. /\ v \in [tag : Tag, head : Seq(Int), subs : {<<>>}]
          /\ v.subs \in {<<>>} /\ p[v] = Under(<<>>, v) \o Own(v)
      BY <2>1, LevelFacts
    <3>2. v \in [tag : Tag, head : Seq(Int), subs : Seq(DOMAIN p)] BY <2>2, <3>1
    <3>3. v \in DOMAIN q BY <2>1, <3>2, LevelFacts
    <3>4. q[v] = Under(p, v) \o Own(v) BY <2>1, <3>3, LevelFacts
    <3>5. v.subs = <<>> BY <3>1
    <3>6. Under(p, v) = Under(<<>>, v) BY <3>5, NoneUnder
    <3> QED BY <3>1, <3>3, <3>4, <3>6
  <2>4. Extends(q, p) BY <2>3 DEF Extends
  <2> QED BY <2>4 DEF p, q
<1>2. ASSUME NEW k \in Nat, k \in T PROVE k + 1 \in T
  <2> DEFINE p == CallsTo(k)
             q == CallsTo(k + 1)
             r == CallsTo(k + 1 + 1)
  <2>1. Extends(q, p) BY <1>2
  <2>2. q = Level(p, Seq(DOMAIN p)) /\ r = Level(q, Seq(DOMAIN q))
    <3>1. k + 1 \in Nat OBVIOUS
    <3> QED BY <3>1, CallsStep
  <2> HIDE DEF p, q, r
  <2>3. Seq(DOMAIN p) \subseteq Seq(DOMAIN q) BY <2>1, SeqSubset DEF Extends
  <2>4. ASSUME NEW v \in DOMAIN q PROVE v \in DOMAIN r /\ r[v] = q[v]
    <3>1. /\ v \in [tag : Tag, head : Seq(Int), subs : Seq(DOMAIN p)]
          /\ v.subs \in Seq(DOMAIN p) /\ q[v] = Under(p, v) \o Own(v)
      BY <2>2, LevelFacts
    <3>2. v \in [tag : Tag, head : Seq(Int), subs : Seq(DOMAIN q)] BY <2>3, <3>1
    <3>3. v \in DOMAIN r BY <2>2, <3>2, LevelFacts
    <3>4. r[v] = Under(q, v) \o Own(v) BY <2>2, <3>3, LevelFacts
    <3>5. Under(q, v) = Under(p, v) BY <2>1, <3>1, UnderExtends
    <3> QED BY <3>1, <3>3, <3>4, <3>5
  <2>5. Extends(r, q) BY <2>4 DEF Extends
  <2> QED BY <2>5 DEF q, r
<1>3. n \in T
  <2> HIDE DEF T
  <2> QED BY <1>1, <1>2, SetInduction
<1> QED BY <1>3

LEMMA CallsFurther ==
  ASSUME NEW n \in Nat, NEW m \in Nat, n <= m
  PROVE  Extends(CallsTo(m), CallsTo(n))
<1> DEFINE T == {k \in Nat : Extends(CallsTo(n + k), CallsTo(n))}
<1>1. 0 \in T
  <2>1. n + 0 = n OBVIOUS
  <2> QED BY <2>1 DEF Extends
<1>2. ASSUME NEW k \in Nat, k \in T PROVE k + 1 \in T
  <2> DEFINE j == n + k
  <2>1. j \in Nat /\ n + (k + 1) = j + 1 OBVIOUS
  <2>2. Extends(CallsTo(j), CallsTo(n)) BY <1>2
  <2> HIDE DEF j
  <2>3. Extends(CallsTo(j + 1), CallsTo(j)) BY <2>1, CallsExtend
  <2>4. Extends(CallsTo(j + 1), CallsTo(n)) BY <2>2, <2>3 DEF Extends
  <2> QED BY <2>1, <2>4
<1>3. m - n \in T
  <2>1. m - n \in Nat OBVIOUS
  <2> HIDE DEF T
  <2> QED BY <1>1, <1>2, <2>1, SetInduction
<1>4. n + (m - n) = m OBVIOUS
<1> QED BY <1>3, <1>4

(* The values of any depth, and the calls in each.                         *)
Tree == UNION {DOMAIN CallsTo(n) : n \in Nat}
CallsOf(v) == CallsTo(CHOOSE n \in Nat : v \in DOMAIN CallsTo(n))[v]
AllCalls(vs) == FlattenSeq([k \in DOMAIN vs |-> CallsOf(vs[k])])

LEMMA CallsAgree ==
  ASSUME NEW n \in Nat, NEW v \in DOMAIN CallsTo(n)
  PROVE  v \in Tree /\ CallsOf(v) = CallsTo(n)[v] /\ CallsOf(v) \in Seq(Seq(Int))
<1> DEFINE m == CHOOSE i \in Nat : v \in DOMAIN CallsTo(i)
<1>1. m \in Nat /\ v \in DOMAIN CallsTo(m) OBVIOUS
<1>2. CallsOf(v) = CallsTo(m)[v] BY DEF CallsOf
<1> HIDE DEF m
<1>3. CASE n <= m
  <2>1. Extends(CallsTo(m), CallsTo(n)) BY <1>1, <1>3, CallsFurther
  <2> QED BY <1>1, <1>2, <2>1, CallsType DEF Extends, Tree
<1>4. CASE m <= n
  <2>1. Extends(CallsTo(n), CallsTo(m)) BY <1>1, <1>4, CallsFurther
  <2> QED BY <1>1, <1>2, <2>1, CallsType DEF Extends, Tree
<1> QED BY <1>1, <1>3, <1>4

LEMMA CallsOfType ==
  ASSUME NEW v \in Tree
  PROVE  CallsOf(v) \in Seq(Seq(Int))
<1>1. PICK n \in Nat : v \in DOMAIN CallsTo(n) BY DEF Tree
<1> QED BY <1>1, CallsAgree

(* Values in a sequence have a depth in common.                            *)
LEMMA CommonDepth ==
  ASSUME NEW vs \in Seq(Tree)
  PROVE  \E n \in Nat : vs \in Seq(DOMAIN CallsTo(n))
<1> DEFINE Good(k) == \E n \in Nat : \A i \in 1..k : vs[i] \in DOMAIN CallsTo(n)
           T == {k \in Nat : k <= Len(vs) => Good(k)}
<1>1. Good(0)
  <2>1. 0 \in Nat /\ \A i \in 1..0 : vs[i] \in DOMAIN CallsTo(0) OBVIOUS
  <2> QED BY <2>1
<1>2. ASSUME NEW k \in Nat, k + 1 <= Len(vs), Good(k) PROVE Good(k + 1)
  <2>1. PICK n \in Nat : \A i \in 1..k : vs[i] \in DOMAIN CallsTo(n) BY <1>2
  <2>2. k + 1 \in 1..Len(vs) BY <1>2
  <2>3. vs[k + 1] \in Tree BY <2>2, ElementType
  <2>4. PICK m \in Nat : vs[k + 1] \in DOMAIN CallsTo(m) BY <2>3 DEF Tree
  <2> DEFINE l == n + m
  <2>5. l \in Nat /\ n <= l /\ m <= l OBVIOUS
  <2> HIDE DEF l
  <2>6. Extends(CallsTo(l), CallsTo(n)) /\ Extends(CallsTo(l), CallsTo(m))
    BY <2>5, CallsFurther
  <2>7. ASSUME NEW i \in 1..(k + 1) PROVE vs[i] \in DOMAIN CallsTo(l)
    <3>1. i \in 1..k \/ i = k + 1 OBVIOUS
    <3> QED BY <2>1, <2>4, <2>6, <3>1 DEF Extends
  <2> QED BY <2>5, <2>7
<1>3. Len(vs) \in T
  <2> HIDE DEF Good
  <2>0. Len(vs) \in Nat OBVIOUS
  <2>1. 0 \in T BY <1>1
  <2>2. ASSUME NEW k \in Nat, k \in T PROVE k + 1 \in T
    <3>1. k + 1 <= Len(vs) => k <= Len(vs) BY <2>0
    <3> QED BY <1>2, <2>2, <3>1
  <2> HIDE DEF T
  <2> QED BY <2>0, <2>1, <2>2, SetInduction
<1>4. PICK n \in Nat : \A i \in 1..Len(vs) : vs[i] \in DOMAIN CallsTo(n)
  <2>1. Good(Len(vs))
    <3> HIDE DEF Good
    <3> QED BY <1>3
  <2> QED BY <2>1
<1>5. vs \in [1..Len(vs) -> DOMAIN CallsTo(n)] BY <1>4
<1>6. vs \in Seq(DOMAIN CallsTo(n)) BY <1>5
<1> QED BY <1>6

LEMMA CallsAt ==
  ASSUME NEW n \in Nat, NEW vs \in Seq(DOMAIN CallsTo(n))
  PROVE  /\ vs \in Seq(Tree)
         /\ AllCalls(vs) = FlattenSeq([k \in DOMAIN vs |-> CallsTo(n)[vs[k]]])
<1>1. DOMAIN CallsTo(n) \subseteq Tree BY DEF Tree
<1>2. vs \in Seq(Tree) BY <1>1, SeqSubset
<1>3. ASSUME NEW k \in DOMAIN vs PROVE CallsOf(vs[k]) = CallsTo(n)[vs[k]]
  <2>1. vs[k] \in DOMAIN CallsTo(n) BY ElementType
  <2> QED BY <2>1, CallsAgree
<1>4. [k \in DOMAIN vs |-> CallsOf(vs[k])] = [k \in DOMAIN vs |-> CallsTo(n)[vs[k]]] BY <1>3
<1> QED BY <1>2, <1>4 DEF AllCalls

(* A value of parts that are values is one, and its calls are theirs and   *)
(* then its own.                                                           *)
LEMMA NodeCalls ==
  ASSUME NEW tag \in Tag, NEW head \in Seq(Int), NEW subs \in Seq(Tree)
  PROVE  LET v == Value(tag, head, subs) IN
         v \in Tree /\ CallsOf(v) = AllCalls(subs) \o Own(v)
<1> DEFINE v == Value(tag, head, subs)
<1>1. v.tag = tag /\ v.head = head /\ v.subs = subs BY DEF Value
<1>2. PICK n \in Nat : subs \in Seq(DOMAIN CallsTo(n)) BY CommonDepth
<1> DEFINE p == CallsTo(n)
           q == CallsTo(n + 1)
<1>3. q = Level(p, Seq(DOMAIN p)) BY CallsStep
<1>4. v \in [tag : Tag, head : Seq(Int), subs : Seq(DOMAIN p)] BY <1>2 DEF Value
<1>5. AllCalls(subs) = FlattenSeq([k \in DOMAIN subs |-> p[subs[k]]]) BY <1>2, CallsAt
<1> HIDE DEF v
<1>6. AllCalls(subs) = Under(p, v) BY <1>1, <1>5 DEF Under
<1> HIDE DEF p
<1>7. v \in DOMAIN q /\ q[v] = Under(p, v) \o Own(v)
  <2> HIDE DEF q
  <2> QED BY <1>3, <1>4, LevelFacts
<1>8. v \in Tree /\ CallsOf(v) = q[v]
  <2>1. n + 1 \in Nat OBVIOUS
  <2> QED BY <1>7, <2>1, CallsAgree
<1> HIDE DEF q
<1>9. v \in Tree /\ CallsOf(v) = AllCalls(subs) \o Own(v) BY <1>6, <1>7, <1>8
<1> QED BY <1>9 DEF v

LEMMA NoCalls == AllCalls(<<>>) = <<>>
<1>1. [k \in DOMAIN <<>> |-> CallsOf(<<>>[k])] = <<>> OBVIOUS
<1> QED BY <1>1, FlatEmpty DEF AllCalls

LEMMA AllCallsType ==
  ASSUME NEW vs \in Seq(Tree)
  PROVE  /\ [k \in DOMAIN vs |-> CallsOf(vs[k])] \in Seq(Seq(Seq(Int)))
         /\ AllCalls(vs) \in Seq(Seq(Int))
<1> DEFINE ss == [k \in DOMAIN vs |-> CallsOf(vs[k])]
<1>1. DOMAIN vs = 1..Len(vs) /\ Len(vs) \in Nat OBVIOUS
<1>2. \A k \in 1..Len(vs) : vs[k] \in Tree BY ElementType
<1>3. \A k \in 1..Len(vs) : CallsOf(vs[k]) \in Seq(Seq(Int)) BY <1>2, CallsOfType
<1>4. ss \in [1..Len(vs) -> Seq(Seq(Int))] BY <1>1, <1>3
<1>5. ss \in Seq(Seq(Seq(Int))) BY <1>1, <1>4
<1> HIDE DEF ss
<1>6. FlattenSeq(ss) \in Seq(Seq(Int)) BY <1>5, FlatType
<1> QED BY <1>5, <1>6 DEF AllCalls, ss

LEMMA OneMore ==
  ASSUME NEW vs \in Seq(Tree), NEW v \in Tree
  PROVE  /\ Append(vs, v) \in Seq(Tree)
         /\ AllCalls(Append(vs, v)) = AllCalls(vs) \o CallsOf(v)
<1> DEFINE ss == [k \in DOMAIN vs |-> CallsOf(vs[k])]
           ws == Append(vs, v)
           tt == [k \in DOMAIN ws |-> CallsOf(ws[k])]
           one == <<CallsOf(v)>>
<1>1. ss \in Seq(Seq(Seq(Int))) BY AllCallsType
<1>2. CallsOf(v) \in Seq(Seq(Int)) BY CallsOfType
<1>3. one \in Seq(Seq(Seq(Int))) /\ Len(one) = 1 /\ one[1] = CallsOf(v) BY <1>2
<1>4. /\ ws \in Seq(Tree) /\ DOMAIN ws = 1..(Len(vs) + 1) /\ Len(vs) \in Nat
      /\ ws[Len(vs) + 1] = v /\ \A k \in 1..Len(vs) : ws[k] = vs[k]
  OBVIOUS
<1>5. Len(ss) = Len(vs) /\ \A k \in 1..Len(vs) : ss[k] = CallsOf(vs[k])
  <2>1. DOMAIN ss = 1..Len(vs) OBVIOUS
  <2>2. \A k \in 1..Len(vs) : ss[k] = CallsOf(vs[k]) OBVIOUS
  <2> HIDE DEF ss
  <2> QED BY <1>1, <2>1, <2>2
<1>6. tt \in Seq(Seq(Seq(Int)))
  <2> HIDE DEF ws
  <2> QED BY <1>4, AllCallsType
<1>7. DOMAIN tt = 1..(Len(vs) + 1) /\ \A k \in 1..(Len(vs) + 1) : tt[k] = CallsOf(ws[k])
  <2> HIDE DEF ws
  <2> QED BY <1>4
<1> HIDE DEF ss, tt, one, ws
<1>8. Len(tt) = Len(vs) + 1 BY <1>4, <1>6, <1>7
<1>9. /\ ss \o one \in Seq(Seq(Seq(Int))) /\ Len(ss \o one) = Len(vs) + 1
      /\ \A k \in 1..(Len(vs) + 1) :
           (ss \o one)[k] = IF k <= Len(vs) THEN ss[k] ELSE one[k - Len(vs)]
  <2> DEFINE X == Seq(Seq(Int))
  <2>1. ss \in Seq(X) /\ one \in Seq(X) /\ Len(ss) = Len(vs) /\ Len(one) = 1
    BY <1>1, <1>3, <1>5
  <2> HIDE DEF X
  <2>2. /\ ss \o one \in Seq(X) /\ Len(ss \o one) = Len(ss) + Len(one)
        /\ \A k \in 1..(Len(ss) + Len(one)) :
             (ss \o one)[k] = IF k <= Len(ss) THEN ss[k] ELSE one[k - Len(ss)]
    BY <2>1, ConcatType
  <2> QED BY ONLY <2>1, <2>2 DEF X
<1>10. ASSUME NEW k \in 1..(Len(vs) + 1) PROVE tt[k] = (ss \o one)[k]
  <2>1. CASE k <= Len(vs)
    <3>1. k \in 1..Len(vs) BY <1>4, <2>1
    <3>2. (ss \o one)[k] = ss[k] BY <1>9, <2>1
    <3> QED BY <1>4, <1>5, <1>7, <3>1, <3>2
  <2>2. CASE ~ (k <= Len(vs))
    <3>1. k = Len(vs) + 1 /\ k - Len(vs) = 1 BY <1>4, <2>2
    <3>2. (ss \o one)[k] = one[1] BY <1>9, <2>2, <3>1
    <3> QED BY <1>3, <1>4, <1>7, <3>1, <3>2
  <2> QED BY <2>1, <2>2
<1>11. tt = ss \o one BY <1>6, <1>8, <1>9, <1>10, EqualSeqs
<1>12. FlattenSeq(tt) = FlattenSeq(ss) \o FlattenSeq(one) BY <1>1, <1>3, <1>11, FlatConcat
<1>13. FlattenSeq(one) = CallsOf(v) BY <1>2, FlatOne DEF one
<1>14. AllCalls(ws) = FlattenSeq(tt) /\ AllCalls(vs) = FlattenSeq(ss)
  BY DEF AllCalls, tt, ss
<1>15. ws \in Seq(Tree) /\ AllCalls(ws) = AllCalls(vs) \o CallsOf(v)
  BY ONLY <1>4, <1>12, <1>13, <1>14
<1> QED BY <1>15 DEF ws

LEMMA OnlyOne ==
  ASSUME NEW v \in Tree
  PROVE  <<v>> \in Seq(Tree) /\ AllCalls(<<v>>) = CallsOf(v)
<1>1. <<v>> = Append(<<>>, v) /\ <<>> \in Seq(Tree) OBVIOUS
<1>2. CallsOf(v) \in Seq(Seq(Int)) BY CallsOfType
<1>3. <<>> \o CallsOf(v) = CallsOf(v) BY <1>2, ConcatEmpty
<1> QED BY <1>1, <1>3, OneMore, NoCalls

(* What a call publishes is after what the calls in it published.          *)
LEMMA IndexesJoin ==
  ASSUME NEW a \in Seq(Seq(Byte)), NEW b \in Seq(Seq(Byte))
  PROVE  Indexes(a \o b) = Indexes(a) \o Indexes(b)
<1> DEFINE S == {SubSeq(x, 1, 2) : x \in Seq(Byte)}
           m == Len(a)
           n == Len(b)
<1>1. /\ m \in Nat /\ n \in Nat /\ DOMAIN a = 1..m /\ DOMAIN b = 1..n
      /\ a \o b \in Seq(Seq(Byte)) /\ DOMAIN (a \o b) = 1..(m + n)
  OBVIOUS
<1>2. ASSUME NEW s \in Seq(Seq(Byte))
      PROVE  /\ Indexes(s) \in Seq(S) /\ Len(Indexes(s)) = Len(s)
             /\ \A k \in 1..Len(s) : Indexes(s)[k] = SubSeq(s[k], 1, 2)
  <2> DEFINE l == Len(s)
             h == Indexes(s)
  <2>1. DOMAIN s = 1..l /\ l \in Nat OBVIOUS
  <2>2. \A k \in 1..l : s[k] \in Seq(Byte) BY ElementType
  <2>3. \A k \in 1..l : SubSeq(s[k], 1, 2) \in S BY <2>2
  <2>4. h = [k \in 1..l |-> SubSeq(s[k], 1, 2)] BY <2>1 DEF Indexes
  <2> HIDE DEF S, h, l
  <2>5. /\ h = [k \in 1..l |-> h[k]]
        /\ \A k \in 1..l : h[k] \in S /\ h[k] = SubSeq(s[k], 1, 2)
    BY <2>3, <2>4
  <2>6. h \in [1..l -> S] BY ONLY <2>5
  <2>7. h \in Seq(S) /\ DOMAIN h = 1..l BY ONLY <2>1, <2>6
  <2>8. Len(h) = l BY ONLY <2>1, <2>7
  <2> QED BY <2>5, <2>7, <2>8 DEF h, l
<1> DEFINE p == Indexes(a)
           q == Indexes(b)
           c == Indexes(a \o b)
           d == p \o q
<1>20. /\ p \in Seq(S) /\ Len(p) = m /\ \A k \in 1..m : p[k] = SubSeq(a[k], 1, 2)
       /\ q \in Seq(S) /\ Len(q) = n /\ \A k \in 1..n : q[k] = SubSeq(b[k], 1, 2)
  BY <1>2
<1>21. Len(a \o b) = m + n BY ConcatType
<1> HIDE DEF S, p, q
<1>3. /\ c \in Seq(S) /\ Len(c) = m + n
      /\ \A k \in 1..(m + n) : c[k] = SubSeq((a \o b)[k], 1, 2)
  <2> DEFINE ab == a \o b
  <2>1. ab \in Seq(Seq(Byte)) /\ Len(ab) = m + n BY <1>1, <1>21
  <2> HIDE DEF ab
  <2>2. /\ Indexes(ab) \in Seq(S) /\ Len(Indexes(ab)) = m + n
        /\ \A k \in 1..(m + n) : Indexes(ab)[k] = SubSeq(ab[k], 1, 2)
    BY <1>2, <2>1
  <2> QED BY <2>2 DEF ab
<1>4. /\ d \in Seq(S) /\ Len(d) = m + n
      /\ \A k \in 1..(m + n) : d[k] = IF k <= m THEN p[k] ELSE q[k - m]
  <2>1. p \in Seq(S) /\ q \in Seq(S) /\ Len(p) = m /\ Len(q) = n BY <1>20
  <2> HIDE DEF m, n
  <2>2. /\ d \in Seq(S) /\ Len(d) = Len(p) + Len(q)
        /\ \A k \in 1..(Len(p) + Len(q)) :
             d[k] = IF k <= Len(p) THEN p[k] ELSE q[k - Len(p)]
    BY <2>1, ConcatType
  <2> QED BY ONLY <2>1, <2>2
<1> HIDE DEF c, d
<1>5. ASSUME NEW k \in 1..(m + n) PROVE c[k] = d[k]
  <2>1. CASE k <= m
    <3>1. k \in 1..m /\ (a \o b)[k] = a[k] BY <1>1, <2>1
    <3> QED BY <1>20, <1>3, <1>4, <2>1, <3>1
  <2>2. CASE ~ (k <= m)
    <3>1. k - m \in 1..n /\ (a \o b)[k] = b[k - m] BY <1>1, <2>2
    <3> QED BY <1>20, <1>3, <1>4, <2>2, <3>1
  <2> QED BY <2>1, <2>2
<1>6. c = d BY <1>3, <1>4, <1>5, EqualSeqs
<1> QED BY <1>6 DEF c, d, p, q

-----------------------------------------------------------------------------
(* What has been published.  Of every frame: its calls are those of the    *)
(* values it got; a codec that hands its only part on has got just that, or*)
(* still asks for it; a call has read the two bytes it is known by.  An    *)
(* envelope has got nothing until the decoder of its payload is done.      *)
Tallied(f) == f.got \in Seq(Tree) /\ Indexes(f.calls) = AllCalls(f.got)

Single(f) == Len(f.got) + Len(f.agenda) = 1

Counted(f) ==
  /\ f.tag \in {"box", "inner"} => Single(f)
  /\ f.tag = "option" => IF f.head = <<0>> THEN f.got = <<>> /\ f.agenda = <<>> ELSE Single(f)
  /\ f.tag = "call" => /\ f.head \in CallIndex /\ f.start + 2 <= f.off
                       /\ f.head = SubSeq(f.data, f.start + 1, f.start + 2)
  /\ f.role # "caller" => f.head \in Seq(Int)

Awaited(g, f) == f.role = "inner" => g.got = <<>>

Told(s) ==
  /\ \A i \in DOMAIN s : Counted(s[i]) /\ Tallied(s[i])
  /\ \A i \in DOMAIN s \ {1} : Awaited(s[i - 1], s[i])

Ended(s) == s[Len(s)].tag = "opaque" => Len(s[Len(s)].got) = 1

LEMMA ToldStep ==
  ASSUME NEW s, IsSeq(s), Told(s), NEW n \in 0..Len(s), NEW f, Counted(f), Tallied(f),
         n > 0 => Awaited(s[n], f)
  PROVE  /\ Told(Upon(s, n, f))
         /\ (f.tag = "opaque" => Len(f.got) = 1) => Ended(Upon(s, n, f))
<1> DEFINE t == Upon(s, n, f)
<1>1. DOMAIN s = 1..Len(s) /\ Len(s) \in Nat BY Push
<1>2. /\ Len(t) = n + 1 /\ DOMAIN t = 1..(n + 1)
      /\ \A i \in 1..n : t[i] = s[i]
      /\ t[n + 1] = f
  BY <1>1, Cut
<1> HIDE DEF t
<1>3. n \in Nat BY <1>1
<1>4. ASSUME NEW i \in DOMAIN t
      PROVE  Counted(t[i]) /\ Tallied(t[i]) /\ (i # 1 => Awaited(t[i - 1], t[i]))
  <2>1. CASE i \in 1..n
    <3>1. t[i] = s[i] /\ i \in DOMAIN s BY <1>1, <1>2, <2>1
    <3>2. i # 1 => i - 1 \in 1..n /\ t[i - 1] = s[i - 1] BY <1>2, <1>3, <2>1
    <3> QED BY <3>1, <3>2 DEF Told
  <2>2. CASE i = n + 1
    <3>1. t[i] = f BY <1>2, <2>2
    <3>2. i # 1 => i - 1 = n /\ n > 0 /\ t[n] = s[n] BY <1>2, <1>3, <2>2
    <3> QED BY <3>1, <3>2
  <2> QED BY <1>2, <1>3, <1>4, <2>1, <2>2
<1>5. Told(t) BY <1>4 DEF Told
<1>6. (f.tag = "opaque" => Len(f.got) = 1) => Ended(t) BY <1>2 DEF Ended
<1> QED BY <1>5, <1>6 DEF t

(* The caller of a decoder that returned, field by field.                  *)
LEMMA FedIs ==
  ASSUME NEW f, IsFrame(f), NEW off, NEW v, NEW calls
  PROVE  Fed(f, off, v, calls) =
          [role |-> f.role, tag |-> f.tag, data |-> f.data, start |-> f.start,
           off |-> off, module |-> f.module, head |-> f.head,
           agenda |-> Tail(f.agenda), got |-> Append(f.got, v),
           calls |-> f.calls \o calls]
<1> DEFINE a == [f EXCEPT !.off = off]
           b == [a EXCEPT !.got = Append(f.got, v)]
           c == [b EXCEPT !.calls = f.calls \o calls]
           d == [c EXCEPT !.agenda = Tail(f.agenda)]
<1>1. Fed(f, off, v, calls) = d BY DEF Fed
<1>2. a = [role |-> f.role, tag |-> f.tag, data |-> f.data,
           start |-> f.start, off |-> off, module |-> f.module,
           head |-> f.head, agenda |-> f.agenda, got |-> f.got,
           calls |-> f.calls]
  BY OneField
<1> HIDE DEF a
<1>3. IsFrame(a) BY <1>2 DEF IsFrame
<1>4. b = [role |-> a.role, tag |-> a.tag, data |-> a.data,
           start |-> a.start, off |-> a.off, module |-> a.module,
           head |-> a.head, agenda |-> a.agenda,
           got |-> Append(f.got, v), calls |-> a.calls]
  BY <1>3, OneField
<1> HIDE DEF b
<1>5. IsFrame(b) BY <1>4 DEF IsFrame
<1>6. c = [role |-> b.role, tag |-> b.tag, data |-> b.data,
           start |-> b.start, off |-> b.off, module |-> b.module,
           head |-> b.head, agenda |-> b.agenda, got |-> b.got,
           calls |-> f.calls \o calls]
  BY <1>5, OneField
<1> HIDE DEF c
<1>7. IsFrame(c) BY <1>6 DEF IsFrame
<1>8. d = [role |-> c.role, tag |-> c.tag, data |-> c.data,
           start |-> c.start, off |-> c.off, module |-> c.module,
           head |-> c.head, agenda |-> Tail(f.agenda), got |-> c.got,
           calls |-> c.calls]
  BY <1>7, OneField
<1> HIDE DEF d
<1> QED BY <1>1, <1>2, <1>4, <1>6, <1>8

(* An envelope that got its value, field by field.                         *)
LEMMA GotIs ==
  ASSUME NEW f, IsFrame(f), NEW got, NEW calls
  PROVE  /\ [f EXCEPT !.got = got] =
              [role |-> f.role, tag |-> f.tag, data |-> f.data, start |-> f.start,
               off |-> f.off, module |-> f.module, head |-> f.head,
               agenda |-> f.agenda, got |-> got, calls |-> f.calls]
         /\ [f EXCEPT !.got = got, !.calls = calls] =
              [role |-> f.role, tag |-> f.tag, data |-> f.data, start |-> f.start,
               off |-> f.off, module |-> f.module, head |-> f.head,
               agenda |-> f.agenda, got |-> got, calls |-> calls]
<1> DEFINE d == [f EXCEPT !.got = got]
           e == [f EXCEPT !.got = got, !.calls = calls]
<1>1. /\ e = [d EXCEPT !.calls = calls]
      /\ d = [role |-> f.role, tag |-> f.tag, data |-> f.data,
                start |-> f.start, off |-> f.off, module |-> f.module,
                head |-> f.head, agenda |-> f.agenda, got |-> got,
                calls |-> f.calls]
  BY OneField
<1> HIDE DEF d
<1>2. IsFrame(d) BY <1>1 DEF IsFrame
<1>3. [d EXCEPT !.calls = calls] =
        [role |-> d.role, tag |-> d.tag, data |-> d.data,
         start |-> d.start, off |-> d.off, module |-> d.module,
         head |-> d.head, agenda |-> d.agenda, got |-> d.got,
         calls |-> calls]
  BY <1>2, OneField
<1> HIDE DEF e
<1>4. e = [role |-> f.role, tag |-> f.tag, data |-> f.data,
           start |-> f.start, off |-> f.off, module |-> f.module,
           head |-> f.head, agenda |-> f.agenda, got |-> got,
           calls |-> calls]
  BY <1>1, <1>3
<1> QED BY <1>1, <1>4 DEF d, e

(* A value without parts that is no call publishes nothing.                *)
LEMMA PlainValue ==
  ASSUME NEW tag \in Tag, tag # "call", NEW head \in Seq(Int)
  PROVE  LET v == Value(tag, head, <<>>) IN v \in Tree /\ CallsOf(v) = <<>>
<1> DEFINE v == Value(tag, head, <<>>)
<1>1. <<>> \in Seq(Tree) OBVIOUS
<1>2. v \in Tree /\ CallsOf(v) = AllCalls(<<>>) \o Own(v) BY <1>1, NodeCalls
<1>3. Own(v) = <<>> BY DEF Own, Value
<1>4. <<>> \o <<>> = <<>> OBVIOUS
<1> HIDE DEF v
<1>5. v \in Tree /\ CallsOf(v) = <<>> BY <1>2, <1>3, <1>4, NoCalls
<1> QED BY <1>5 DEF v

LEMMA RawTold ==
  ASSUME NEW f, Alone(f), f.tag = "opaque", Counted(f), Tallied(f), f.got = <<>>
  PROVE  LET e == [f EXCEPT !.got = <<RawValue(f)>>] IN
         Counted(e) /\ Tallied(e) /\ e.role = "codec" /\ Len(e.got) = 1
<1> DEFINE v == RawValue(f)
           e == [f EXCEPT !.got = <<v>>]
<1>1. f.role = "codec" /\ IsFrame(f) BY DEF Alone
<1>2. f.head \in Seq(Int) BY <1>1 DEF Counted
<1>3. v \in Tree /\ CallsOf(v) = <<>>
  <2>1. "hex" \in Tag /\ "hex" # "call" BY DEF Tag
  <2>2. v = Value("hex", f.head, <<>>) BY DEF RawValue
  <2> HIDE DEF v
  <2> QED BY <1>2, <2>1, <2>2, PlainValue
<1> HIDE DEF v
<1>4. e = [role |-> f.role, tag |-> f.tag, data |-> f.data, start |-> f.start,
           off |-> f.off, module |-> f.module, head |-> f.head,
           agenda |-> f.agenda, got |-> <<v>>, calls |-> f.calls]
  BY <1>1, GotIs
<1> HIDE DEF e
<1>5. <<v>> \in Seq(Tree) /\ AllCalls(<<v>>) = <<>> BY <1>3, OnlyOne
<1>6. Indexes(f.calls) = <<>> BY NoCalls DEF Tallied
<1>7. Tallied(e) BY <1>4, <1>5, <1>6 DEF Tallied
<1>8. Counted(e) BY <1>2, <1>4 DEF Counted
<1>9. e.role = "codec" /\ Len(e.got) = 1 BY <1>1, <1>4
<1> QED BY <1>7, <1>8, <1>9 DEF e, v

LEMMA PanicTold ==
  ASSUME DecodeInv, Told(stack), Ended(stack), Panic
  PROVE  Told(stack') /\ Ended(stack')
<1>1. StackOK(stack) BY DEF DecodeInv
<1>2. CASE UNCHANGED stack BY <1>2
<1>3. CASE Inner # {}
  <2>1. PICK i \in Inner :
          stack' = Append(SubSeq(stack, 1, i - 2),
                     [stack[i - 1] EXCEPT !.got = <<RawValue(stack[i - 1])>>])
    BY <1>3 DEF Panic
  <2> DEFINE f == [stack[i - 1] EXCEPT !.got = <<RawValue(stack[i - 1])>>]
  <2>2. i \in DOMAIN stack /\ stack[i].role = "inner" BY DEF Inner
  <2>3. /\ i - 2 \in 1..Len(stack) /\ Alone(stack[i - 1]) /\ i - 1 \in 1..Len(stack)
        /\ stack[i - 1].tag = "opaque" /\ IsSeq(stack) /\ DOMAIN stack = 1..Len(stack)
        /\ Len(stack) \in Nat
    BY <1>1, <2>2, InnerFacts, TopFacts
  <2>4. Counted(stack[i - 1]) /\ Tallied(stack[i - 1]) BY <2>3 DEF Told
  <2>5. stack[i - 1].got = <<>>
    <3>1. i # 1 BY <2>3
    <3> QED BY <2>2, <3>1 DEF Told, Awaited
  <2>6. Counted(f) /\ Tallied(f) /\ f.role = "codec" /\ Len(f.got) = 1
    BY <2>3, <2>4, <2>5, RawTold
  <2>7. stack' = Upon(stack, i - 2, f) BY <2>1 DEF Upon
  <2> HIDE DEF f
  <2>8. i - 2 \in 0..Len(stack) /\ Awaited(stack[i - 2], f) BY <2>3, <2>6 DEF Awaited
  <2> QED BY <2>3, <2>6, <2>7, <2>8, ToldStep
<1> QED BY <1>2, <1>3 DEF Panic

LEMMA FedTold ==
  ASSUME NEW f, Alone(f), Counted(f), Tallied(f), f.agenda # <<>>,
         NEW off \in f.off..Len(f.data), NEW v \in Tree, NEW calls \in Seq(Seq(Byte)),
         Indexes(calls) = CallsOf(v)
  PROVE  LET e == Fed(f, off, v, calls) IN
         Counted(e) /\ Tallied(e) /\ e.role = f.role /\ e.tag # "opaque"
<1> DEFINE e == Fed(f, off, v, calls)
<1>1. /\ IsFrame(f) /\ f.calls \in Seq(Seq(Byte)) /\ f.agenda \in Seq(TypeName)
      /\ f.off \in Nat /\ f.start \in Nat /\ Len(f.data) \in Nat /\ f.tag # "opaque"
  <2>1. Len(f.data) \in Nat BY LenProperties DEF Alone, FrameOK
  <2> QED BY <2>1 DEF Alone, FrameOK
<1>2. e = [role |-> f.role, tag |-> f.tag, data |-> f.data, start |-> f.start,
           off |-> off, module |-> f.module, head |-> f.head,
           agenda |-> Tail(f.agenda), got |-> Append(f.got, v),
           calls |-> f.calls \o calls]
  BY <1>1, FedIs
<1> HIDE DEF e
<1>3. Append(f.got, v) \in Seq(Tree) /\ AllCalls(Append(f.got, v)) = AllCalls(f.got) \o CallsOf(v)
  BY OneMore DEF Tallied
<1>4. Indexes(f.calls \o calls) = Indexes(f.calls) \o Indexes(calls) BY <1>1, IndexesJoin
<1>5. Tallied(e) BY <1>2, <1>3, <1>4 DEF Tallied
<1>6. Single(f) => Single(e)
  <2>1. f.got \in Seq(Tree) BY DEF Tallied
  <2>2. Len(Append(f.got, v)) = Len(f.got) + 1 /\ Len(f.got) \in Nat BY <2>1
  <2>3. Len(Tail(f.agenda)) = Len(f.agenda) - 1 /\ Len(f.agenda) \in Nat BY <1>1
  <2>4. e.got = Append(f.got, v) /\ e.agenda = Tail(f.agenda) BY <1>2
  <2>5. Len(e.got) = Len(f.got) + 1 /\ Len(e.agenda) = Len(f.agenda) - 1
    BY <2>2, <2>3, <2>4
  <2> DEFINE a == Len(f.got)  b == Len(f.agenda)  c == Len(e.got)  d == Len(e.agenda)
  <2>6. (Single(f) <=> a + b = 1) /\ (Single(e) <=> c + d = 1) BY DEF Single
  <2>7. a \in Nat /\ b \in Nat /\ c = a + 1 /\ d = b - 1 BY <2>2, <2>3, <2>5
  <2> HIDE DEF a, b, c, d
  <2>8. a + b = 1 => c + d = 1 BY ONLY <2>7
  <2> QED BY ONLY <2>6, <2>8
<1>7. f.off <= off /\ off \in Int BY <1>1
<1>8. Counted(e)
  <2>1. /\ e.role = f.role /\ e.tag = f.tag /\ e.head = f.head /\ e.start = f.start
        /\ e.data = f.data /\ e.off = off
    BY <1>2
  <2>2. f.tag = "call" => f.start + 2 <= off BY <1>1, <1>7 DEF Counted
  <2>3. f.tag = "option" => f.head # <<0>> BY DEF Counted
  <2> QED BY <1>6, <2>1, <2>2, <2>3 DEF Counted
<1>9. e.role = f.role /\ e.tag # "opaque" BY <1>1, <1>2
<1> QED BY <1>5, <1>8, <1>9 DEF e

(* No leaf has parts or is a call.                                         *)
Plain(v) == \E tag \in Tag \ {"call"}, head \in Seq(Int) : v = Value(tag, head, <<>>)

LEMMA PlainCalls ==
  ASSUME NEW v, Plain(v)
  PROVE  v \in Tree /\ CallsOf(v) = <<>>
<1>1. PICK tag \in Tag \ {"call"}, head \in Seq(Int) : v = Value(tag, head, <<>>) BY DEF Plain
<1> QED BY <1>1, PlainValue

LEMMA ByteSeqInt == Seq(Byte) \subseteq Seq(Int)
<1>1. Byte \subseteq Int BY ByteInt
<1> QED BY <1>1, SeqSubset

LEMMA TextOrHexPlain ==
  ASSUME NEW bs \in Seq(Int)
  PROVE  Plain(TextOrHex(bs))
<1>1. "text" \in Tag \ {"call"} /\ "hex" \in Tag \ {"call"} BY DEF Tag
<1> QED BY <1>1 DEF TextOrHex, Plain

LEMMA LeafPlain ==
  ASSUME NEW f, FrameOK(f), NEW c \in CodecDef, c.kind \in LeafKind, LeafOK(f, c)
  PROVE  Plain(LeafValue(f, c))
<1> DEFINE rest == Rest(f)
           l == LeafLength(f, c)
           bs == NextBytes(f, l)
<1>1. rest \in Seq(Byte) BY RestType
<1>2. l \in Nat
  <2>1. l \in 0..(Len(f.data) - f.off) /\ f.off \in Nat /\ Len(f.data) \in Nat
    BY LeafLengthOK, RestType
  <2> QED BY <2>1
<1>3. bs \in Seq(Byte) /\ f.off + Len(bs) = Least(f.off + l, Len(f.data)) BY <1>2, NextBytesType
<1>4. bs \in Seq(Int) BY <1>3, ByteSeqInt
<1>5. <<0>> \in Seq(Int) /\ <<1>> \in Seq(Int) /\ <<>> \in Seq(Int) OBVIOUS
<1>6. {"bool", "nil", "number", "text", "hex", "name", "int"} \subseteq Tag \ {"call"} BY DEF Tag
<1>7. c.kind \in {"compact", "bytes"} => CompactValue(rest) \in Int /\ CompactLength(rest[1]) \in 1..Len(rest)
  BY <1>1, CompactType DEF LeafOK
<1> HIDE DEF rest, bs, l
<1>8. CASE c.kind \in {"bool", "laxbool"}
  <2> DEFINE v == Value("bool", IF bs = <<1>> THEN <<1>> ELSE <<0>>, <<>>)
  <2>1. LeafValue(f, c) = v BY <1>8 DEF LeafValue, bs, l
  <2>2. Plain(v) BY <1>5, <1>6 DEF Plain
  <2> HIDE DEF v
  <2> QED BY <2>1, <2>2
<1>9. CASE c.kind = "optionbool"
  <2> DEFINE v == Value("bool", IF bs = <<1>> THEN <<1>> ELSE <<0>>, <<>>)
             w == Value("nil", <<>>, <<>>)
  <2>1. LeafValue(f, c) = IF bs = <<0>> THEN w ELSE v BY <1>9 DEF LeafValue, bs, l
  <2>2. Plain(v) /\ Plain(w) BY <1>5, <1>6 DEF Plain
  <2> HIDE DEF v, w
  <2> QED BY <2>1, <2>2
<1>10. CASE c.kind = "compact"
  <2> DEFINE v == Value("number", <<CompactValue(rest)>>, <<>>)
  <2>1. LeafValue(f, c) = v BY <1>10 DEF LeafValue, rest
  <2>2. <<CompactValue(rest)>> \in Seq(Int) BY <1>7, <1>10
  <2>3. Plain(v) BY <1>6, <2>2 DEF Plain
  <2> HIDE DEF v
  <2> QED BY <2>1, <2>3
<1>11. CASE c.kind = "bytes"
  <2> DEFINE m == CompactLength(rest[1])
             tail == SubSeq(bs, m + 1, Len(bs))
  <2>1. LeafValue(f, c) = TextOrHex(tail) BY <1>11 DEF LeafValue, rest, bs, l
  <2>2. m \in Nat /\ Len(bs) \in Nat
    <3>1. m \in 1..Len(rest) /\ Len(rest) \in Nat BY <1>1, <1>7, <1>11
    <3>2. Len(bs) \in Nat BY <1>3
    <3> QED BY <3>1, <3>2
  <2>3. tail \in Seq(Int)
    <3> HIDE DEF m
    <3>1. \A k \in (m + 1)..Len(bs) : bs[k] \in Int BY <1>4, <2>2, ElementOfSeq
    <3> QED BY <2>2, <3>1, SubSeqProperties
  <2> HIDE DEF tail
  <2> QED BY <2>1, <2>3, TextOrHexPlain
<1>12. CASE c.kind = "text"
  <2>1. LeafValue(f, c) = TextOrHex(bs) BY <1>12 DEF LeafValue, bs, l
  <2> QED BY <1>4, <2>1, TextOrHexPlain
<1>13. CASE c.kind = "raw"
  <2> DEFINE v == Value("text", bs, <<>>)
             w == Value("hex", bs, <<>>)
  <2>1. LeafValue(f, c) = IF bs = <<>> THEN v ELSE w BY <1>13 DEF LeafValue, bs, l
  <2>2. Plain(v) /\ Plain(w) BY <1>4, <1>6 DEF Plain
  <2> HIDE DEF v, w
  <2> QED BY <2>1, <2>2
<1>14. CASE c.kind = "names"
  <2> DEFINE v == Value("name", IF bs = <<>> THEN <<0>> ELSE bs, <<>>)
  <2>1. LeafValue(f, c) = v BY <1>14 DEF LeafValue, bs, l
  <2>2. Plain(v) BY <1>4, <1>5, <1>6 DEF Plain
  <2> HIDE DEF v
  <2> QED BY <2>1, <2>2
<1>15. CASE c.kind \in {"null", "emptyarray"}
  <2> DEFINE v == Value("nil", <<>>, <<>>)
  <2>1. LeafValue(f, c) = v BY <1>15 DEF LeafValue
  <2>2. Plain(v) BY <1>5, <1>6 DEF Plain
  <2> HIDE DEF v
  <2> QED BY <2>1, <2>2
<1>16. CASE c.kind \in {"fixed", "padded"}
  <2> DEFINE v == Value("int", Padded(bs, c.width), <<>>)
  <2>1. LeafValue(f, c) = v BY <1>16 DEF LeafValue, bs, l
  <2>2. Padded(bs, c.width) \in Seq(Int)
    <3>1. c.width \in Nat BY DEF CodecDef
    <3>2. \A i \in 1..c.width : (IF i <= Len(bs) THEN bs[i] ELSE 0) \in Int
      <4>1. Len(bs) \in Nat BY <1>4
      <4>2. \A i \in 1..Len(bs) : bs[i] \in Int BY <1>4, ElementOfSeq
      <4> QED BY <3>1, <4>1, <4>2
    <3>3. Padded(bs, c.width) \in [1..c.width -> Int] BY <3>2 DEF Padded
    <3> QED BY <3>1, <3>3
  <2>3. Plain(v) BY <1>6, <2>2 DEF Plain
  <2> HIDE DEF v
  <2> QED BY <2>1, <2>3
<1> QED BY <1>8, <1>9, <1>10, <1>11, <1>12, <1>13, <1>14, <1>15, <1>16 DEF LeafKind

LEMMA ReadLeafTold ==
  ASSUME DecodeInv, Told(stack), Ended(stack), ReadLeaf
  PROVE  Told(stack') /\ Ended(stack')
<1>1. StackOK(stack) /\ Top.agenda # <<>> /\ Asked.kind \in LeafKind
  BY DEF DecodeInv, ReadLeaf, Asking
<1>2. CASE Panic BY <1>2, PanicTold
<1>3. CASE LeafOK(Top, Asked)
  <2> DEFINE off == Top.off + LeafLength(Top, Asked)
             v == LeafValue(Top, Asked)
             f == Fed(Top, off, v, <<>>)
             n == Len(stack) - 1
  <2>1. stack' = Upon(stack, n, f) BY <1>3 DEF ReadLeaf, Below, Upon
  <2>2. Alone(Top) /\ FrameOK(Top) BY <1>1, TopFacts DEF Alone
  <2>3. LeafLength(Top, Asked) \in 0..(Len(Top.data) - Top.off)
    BY <1>1, <1>3, <2>2, AskedFacts, LeafLengthOK
  <2>4. off \in Top.off..Len(Top.data) BY <2>2, <2>3, RestType
  <2>5. <<>> \in Seq(Seq(Byte)) /\ Indexes(<<>>) = <<>>
    <3>1. DOMAIN <<>> = {} OBVIOUS
    <3>2. Indexes(<<>>) = <<>> BY <3>1 DEF Indexes
    <3> QED BY <3>2
  <2>6. v \in Tree /\ CallsOf(v) = <<>>
    <3>1. Plain(v) BY <1>1, <1>3, <2>2, AskedFacts, LeafPlain
    <3> HIDE DEF v
    <3> QED BY <3>1, PlainCalls
  <2> HIDE DEF off, v
  <2>7. /\ IsSeq(stack) /\ n \in 0..Len(stack) /\ n + 1 = Len(stack) /\ Top = stack[n + 1]
        /\ n + 1 \in DOMAIN stack
    BY <1>1, TopFacts
  <2>8. Counted(Top) /\ Tallied(Top) BY <2>7 DEF Told
  <2>9. Counted(f) /\ Tallied(f) /\ f.role = Top.role /\ f.tag # "opaque"
    BY <1>1, <2>2, <2>4, <2>5, <2>6, <2>8, FedTold
  <2> HIDE DEF f
  <2>10. n > 0 => Awaited(stack[n], f)
    <3>1. n > 0 => n + 1 # 1 /\ n + 1 - 1 = n BY <2>7
    <3>2. n > 0 => Awaited(stack[n], Top) BY <2>7, <3>1 DEF Told
    <3> QED BY <2>9, <3>2 DEF Awaited
  <2> HIDE DEF n
  <2> QED BY <2>1, <2>7, <2>9, <2>10, ToldStep
<1> QED BY <1>2, <1>3 DEF ReadLeaf

LEMMA NothingYet ==
  ASSUME NEW f, f.got = <<>>, f.calls = <<>>
  PROVE  Tallied(f)
<1>1. DOMAIN <<>> = {} /\ <<>> \in Seq(Tree) OBVIOUS
<1>2. Indexes(<<>>) = <<>> BY <1>1 DEF Indexes
<1> QED BY <1>1, <1>2, NoCalls DEF Tallied

(* What a codec knows when it is entered, with that head and agenda.       *)
Expecting(off, head, agenda) ==
  /\ Asked.kind = "box" => Len(agenda) = 1
  /\ Asked.kind = "option" => IF head = <<0>> THEN agenda = <<>> ELSE Len(agenda) = 1
  /\ Asked.kind = "call" => /\ head \in CallIndex /\ Top.off + 2 <= off
                            /\ head = SubSeq(Top.data, Top.off + 1, Top.off + 2)

LEMMA EnterTold ==
  ASSUME DecodeInv, Told(stack), Top.agenda # <<>>, Asked.kind \in NodeKind \ {"opaque"},
         NEW off, NEW module, NEW head \in Seq(Int), NEW agenda \in Seq(TypeName),
         Enter(off, module, head, agenda), Expecting(off, head, agenda)
  PROVE  Told(stack') /\ Ended(stack')
<1> DEFINE f == [role |-> "codec", tag |-> Asked.kind, data |-> Top.data,
                 start |-> Top.off, off |-> off, module |-> module,
                 head |-> head, agenda |-> agenda, got |-> <<>>, calls |-> <<>>]
           n == Len(stack)
<1>1. stack' = Append(stack, f) BY Entered
<1>2. /\ f.role = "codec" /\ f.tag = Asked.kind /\ f.data = Top.data /\ f.start = Top.off
      /\ f.off = off /\ f.head = head /\ f.agenda = agenda /\ f.got = <<>> /\ f.calls = <<>>
  OBVIOUS
<1> HIDE DEF f
<1>3. Tallied(f) BY <1>2, NothingYet
<1>4. f.tag # "inner" /\ f.tag # "opaque" BY <1>2 DEF NodeKind
<1>5. Single(f) <=> Len(agenda) = 1
  <2>1. Len(agenda) \in Nat OBVIOUS
  <2>2. Single(f) <=> Len(<<>>) + Len(agenda) = 1 BY <1>2 DEF Single
  <2>3. Len(<<>>) = 0 OBVIOUS
  <2> QED BY <2>1, <2>2, <2>3
<1>6. Counted(f) BY <1>2, <1>4, <1>5 DEF Counted, Expecting
<1>7. Awaited(stack[n], f) BY <1>2 DEF Awaited
<1>8. /\ IsSeq(stack) /\ n \in 0..n /\ stack' = Upon(stack, n, f)
  BY <1>1, Push, TopFacts DEF DecodeInv
<1> QED BY <1>3, <1>4, <1>6, <1>7, <1>8, ToldStep

LEMMA FlagInt ==
  ASSUME NEW f, FrameOK(f)
  PROVE  Flag(f) \in Int /\ Index(f) \in Nat
<1>1. /\ Rest(f) \in Seq(Byte)
      /\ Rest(f) # <<>> => Len(Rest(f)) \in Nat \ {0}
  BY RestType, EmptySeq
<1>2. Rest(f) # <<>> => Rest(f)[1] \in Byte BY <1>1, ElementOfSeq
<1>3. Rest(f) # <<>> => Rest(f)[1] \in Nat BY <1>2, ByteInt
<1> QED BY <1>3 DEF Index, Flag

(* The index of a call that is known is the two bytes it starts with.      *)
LEMMA CallHead ==
  ASSUME NEW f, FrameOK(f), NextBytes(f, 2) \in CallIndex
  PROVE  /\ NextBytes(f, 2) = SubSeq(f.data, f.off + 1, f.off + 2)
         /\ NextBytes(f, 2) \in Seq(Int)
<1>1. Len(NextBytes(f, 2)) = 2 BY DecodeAssumption
<1>2. Len(f.data) \in Nat /\ f.off \in Nat BY RestType
<1>3. /\ NextBytes(f, 2) \in Seq(Byte)
      /\ f.off + Len(NextBytes(f, 2)) = Least(f.off + 2, Len(f.data))
  BY NextBytesType
<1>4. Least(f.off + 2, Len(f.data)) = f.off + 2 BY <1>1, <1>3
<1>5. NextBytes(f, 2) = SubSeq(f.data, f.off + 1, f.off + 2) BY <1>4 DEF NextBytes
<1> QED BY <1>3, <1>5, ByteSeqInt

LEMMA EnterAllTold ==
  ASSUME DecodeInv, Told(stack), Ended(stack),
         EnterStruct \/ EnterArray \/ EnterVec \/ EnterMap \/ EnterOption
           \/ EnterVariant \/ EnterCall
  PROVE  Told(stack') /\ Ended(stack')
<1>1. StackOK(stack) BY DEF DecodeInv
<1>2. Top.agenda # <<>>
  BY DEF Asking, EnterStruct, EnterArray, EnterVec, EnterMap, EnterOption,
         EnterVariant, EnterCall
<1>3. /\ Asked \in CodecDef /\ CodecOK(Asked) /\ FrameOK(Top)
  BY <1>1, <1>2, AskedFacts, TopFacts DEF Alone
<1>4. /\ Asked.width \in Nat /\ Asked.fields \in Seq(Seq(TypeName))
      /\ Asked.kind \in NodeKind \ {"enum", "result", "call"} =>
            Asked.fields[1] \in Seq(TypeName)
      /\ Asked.kind \in {"box", "array", "vec", "option", "opaque"} =>
            Asked.fields[1][1] \in TypeName
      /\ Asked.kind = "map" => /\ Asked.fields[1][1] \in TypeName
                               /\ Asked.fields[1][2] \in TypeName
  BY <1>3, FieldsType
<1>5. <<>> \in Seq(Int) /\ <<>> \in Seq(TypeName) OBVIOUS
<1>6. Flag(Top) \in Int /\ Index(Top) \in Nat BY <1>3, FlagInt
<1>7. CompactOK(Rest(Top)) => CompactValue(Rest(Top)) \in Int BY <1>3, PrefixType
<1>8. Top.off \in Nat BY <1>3, RestType
<1>9. CASE Panic BY <1>9, PanicTold
<1>10. CASE EnterStruct
  <2>1. Asked.kind \in {"struct", "box"} BY <1>10 DEF EnterStruct, Asking
  <2>2. Asked.kind = "box" => Len(Asked.fields[1]) = 1 BY <1>3 DEF CodecOK
  <2>3. Enter(Top.off, Top.module, <<>>, Asked.fields[1]) BY <1>10 DEF EnterStruct
  <2>4. Asked.fields[1] \in Seq(TypeName) BY <1>4, <2>1 DEF NodeKind
  <2> QED BY <1>2, <1>5, <2>1, <2>2, <2>3, <2>4, EnterTold DEF NodeKind, Expecting
<1>11. CASE EnterArray
  <2>1. Asked.kind = "array" BY <1>11 DEF EnterArray, Asking
  <2>2. Copies(Asked.width, Asked.fields[1][1]) \in Seq(TypeName) BY <1>4, <2>1, CopiesType
  <2>3. Enter(Top.off, Top.module, <<>>, Copies(Asked.width, Asked.fields[1][1]))
    BY <1>11 DEF EnterArray
  <2> QED BY <1>2, <1>5, <2>1, <2>2, <2>3, EnterTold DEF NodeKind, Expecting
<1>12. CASE EnterVec /\ ~ Panic
  <2>1. Asked.kind = "vec" BY <1>12 DEF EnterVec, Asking
  <2>2. /\ CompactOK(Rest(Top))
        /\ Enter(Top.off + CompactLength(Rest(Top)[1]), Top.module, <<>>,
                 Copies(CompactValue(Rest(Top)), Asked.fields[1][1]))
    BY <1>12 DEF EnterVec
  <2>3. Copies(CompactValue(Rest(Top)), Asked.fields[1][1]) \in Seq(TypeName)
    BY <1>4, <1>7, <2>1, <2>2, CopiesType
  <2> QED BY <1>2, <1>5, <2>1, <2>2, <2>3, EnterTold DEF NodeKind, Expecting
<1>13. CASE EnterMap /\ ~ Panic
  <2> DEFINE n == CompactValue(Rest(Top))
             pair == Asked.fields[1]
             s == [i \in 1..(2 * n) |-> pair[IF i % 2 = 1 THEN 1 ELSE 2]]
  <2>1. Asked.kind = "map" BY <1>13 DEF EnterMap, Asking
  <2>2. CompactOK(Rest(Top)) BY <1>13 DEF EnterMap
  <2>3. n \in Int /\ pair[1] \in TypeName /\ pair[2] \in TypeName BY <1>4, <1>7, <2>1, <2>2
  <2>4. Enter(Top.off + CompactLength(Rest(Top)[1]), Top.module, <<>>, s)
    BY <1>13 DEF EnterMap
  <2> HIDE DEF n, pair
  <2>5. s \in Seq(TypeName)
    <3>1. CASE n \in Nat BY <2>3, <3>1
    <3>2. CASE n \notin Nat
      <4>1. 1..(2 * n) = 1..0 BY <2>3, <3>2
      <4>2. [i \in 1..0 |-> pair[IF i % 2 = 1 THEN 1 ELSE 2]] \in Seq(TypeName) OBVIOUS
      <4> QED BY <4>1, <4>2
    <3> QED BY <3>1, <3>2
  <2> HIDE DEF s
  <2> QED BY <1>2, <1>5, <2>1, <2>4, <2>5, EnterTold DEF NodeKind, Expecting
<1>14. CASE EnterOption
  <2> DEFINE s == IF Flag(Top) = 0 THEN <<>> ELSE Asked.fields[1]
             head == <<Flag(Top)>>
  <2>1. Asked.kind = "option" BY <1>14 DEF EnterOption, Asking
  <2>2. Asked.fields[1] \in Seq(TypeName) /\ Len(Asked.fields[1]) = 1
    BY <1>3, <1>4, <2>1 DEF CodecOK, NodeKind
  <2>3. s \in Seq(TypeName) BY <1>5, <2>2
  <2>4. head \in Seq(Int) /\ (head = <<0>> <=> Flag(Top) = 0) BY <1>6
  <2>5. IF head = <<0>> THEN s = <<>> ELSE Len(s) = 1 BY <2>2, <2>4
  <2>6. Enter(Top.off + Len(NextBytes(Top, 1)), Top.module, head, s)
    BY <1>14 DEF EnterOption
  <2> HIDE DEF s, head
  <2> QED BY <1>2, <2>1, <2>3, <2>4, <2>5, <2>6, EnterTold DEF NodeKind, Expecting
<1>15. CASE EnterVariant /\ ~ Panic
  <2> DEFINE s == Asked.fields[Index(Top) + 1]
             head == <<Index(Top)>>
  <2>1. Asked.kind \in {"enum", "result"} BY <1>15 DEF EnterVariant, Asking
  <2>2. /\ Index(Top) < Len(Asked.fields)
        /\ Enter(Top.off + Len(NextBytes(Top, 1)), Top.module, head, s)
    BY <1>15 DEF EnterVariant
  <2>3. s \in Seq(TypeName)
    <3>1. Index(Top) + 1 \in 1..Len(Asked.fields) BY <1>4, <1>6, <2>2, LenProperties
    <3> QED BY <1>4, <3>1, ElementOfSeq
  <2>4. head \in Seq(Int) BY <1>6
  <2> HIDE DEF s, head
  <2> QED BY <1>2, <2>1, <2>2, <2>3, <2>4, EnterTold DEF NodeKind, Expecting
<1>16. CASE EnterCall /\ ~ Panic
  <2> DEFINE ix == NextBytes(Top, 2)
  <2>1. Asked.kind = "call" BY <1>16 DEF EnterCall, Asking
  <2>2. ix \in CallIndex /\ Enter(Top.off + 2, Call[ix].module, ix, Call[ix].args)
    BY <1>16 DEF EnterCall
  <2>3. Call[ix].args \in Seq(TypeName) BY <2>2, DecodeAssumption
  <2>4. ix \in Seq(Int) /\ ix = SubSeq(Top.data, Top.off + 1, Top.off + 2)
    BY <1>3, <2>2, CallHead
  <2> HIDE DEF ix
  <2>5. Top.off + 2 <= Top.off + 2 BY <1>8
  <2> QED BY <1>2, <2>1, <2>2, <2>3, <2>4, <2>5, EnterTold DEF NodeKind, Expecting
<1> QED BY <1>9, <1>10, <1>11, <1>12, <1>13, <1>14, <1>15, <1>16

LEMMA EnterOpaqueTold ==
  ASSUME DecodeInv, Told(stack), Ended(stack), EnterOpaque
  PROVE  Told(stack') /\ Ended(stack')
<1>1. StackOK(stack) /\ Top.agenda # <<>> /\ Asked.kind = "opaque"
  BY DEF DecodeInv, EnterOpaque, Asking
<1>2. CASE Panic BY <1>2, PanicTold
<1>3. CASE EnvelopeOK(Rest(Top))
  <2> DEFINE n == Len(stack)
             e == EnvelopeFrame
             f == PayloadFrame
             s == Upon(stack, n, e)
  <2>1. stack' = Append(Append(stack, e), f) BY <1>3, OpaqueEntered
  <2>2. CodecOK(Asked) /\ FrameOK(Top) BY <1>1, AskedFacts, TopFacts DEF Alone
  <2>3. Len(Asked.fields[1]) = 1 BY <1>1, <2>2 DEF CodecOK
  <2>4. Payload(Rest(Top)) \in Seq(Int)
    <3>1. Rest(Top) \in Seq(Byte) BY <2>2, RestType
    <3>2. Payload(Rest(Top)) \in Seq(Byte) BY <1>3, <3>1, EnvelopeType
    <3> QED BY <3>2, ByteSeqInt
  <2>5. /\ e.tag = "opaque" /\ e.role = "codec" /\ e.head = Payload(Rest(Top))
        /\ e.got = <<>> /\ e.calls = <<>>
    BY DEF EnvelopeFrame
  <2>6. /\ f.tag = "inner" /\ f.role = "inner" /\ f.head = <<>>
        /\ f.got = <<>> /\ f.calls = <<>> /\ f.agenda = Asked.fields[1]
    BY DEF PayloadFrame
  <2> HIDE DEF e, f
  <2>7. Tallied(e) /\ Tallied(f) BY <2>5, <2>6, NothingYet
  <2>8. Counted(e) BY <2>4, <2>5 DEF Counted
  <2>9. Counted(f)
    <3>1. Len(<<>>) = 0 /\ <<>> \in Seq(Int) OBVIOUS
    <3>2. Single(f) <=> Len(<<>>) + Len(Asked.fields[1]) = 1 BY <2>6 DEF Single
    <3>3. Single(f) BY <2>3, <3>1, <3>2
    <3> QED BY <2>6, <3>1, <3>3 DEF Counted
  <2>10. Awaited(stack[n], e) /\ Awaited(e, f) BY <2>5, <2>6 DEF Awaited
  <2>11. /\ IsSeq(stack) /\ n \in Nat /\ n >= 1 /\ n \in 0..n
         /\ Append(stack, e) = s
    BY <1>1, TopFacts, Push
  <2>12. IsSeq(s) /\ Len(s) = n + 1 /\ s[n + 1] = e BY <2>11, Cut
  <2>13. Told(s) BY <2>7, <2>8, <2>10, <2>11, ToldStep
  <2> HIDE DEF s
  <2>14. stack' = Upon(s, Len(s), f) BY <2>1, <2>11, <2>12, Push
  <2>15. Len(s) \in 0..Len(s) /\ s[Len(s)] = e BY <2>11, <2>12
  <2> QED BY <2>6, <2>7, <2>9, <2>10, <2>12, <2>13, <2>14, <2>15, ToldStep
<1> QED BY <1>2, <1>3 DEF EnterOpaque

(* A codec that hands its only part on hands on what that published.       *)
LEMMA OnlyPart ==
  ASSUME NEW f, Tallied(f), Len(f.got) = 1
  PROVE  f.got[1] \in Tree /\ Indexes(f.calls) = CallsOf(f.got[1])
<1>1. f.got \in Seq(Tree) BY DEF Tallied
<1>2. f.got = <<f.got[1]>> /\ f.got[1] \in Tree BY <1>1
<1>3. AllCalls(<<f.got[1]>>) = CallsOf(f.got[1]) BY <1>2, OnlyOne
<1>4. AllCalls(f.got) = CallsOf(f.got[1]) BY <1>2, <1>3
<1> QED BY <1>2, <1>4 DEF Tallied

LEMMA LastLeft ==
  ASSUME NEW f, Tallied(f), Single(f), f.agenda = <<>>
  PROVE  Len(f.got) = 1
<1>1. f.got \in Seq(Tree) BY DEF Tallied
<1>2. Len(f.got) \in Nat /\ Len(<<>>) = 0 BY <1>1
<1>3. Len(f.got) + Len(<<>>) = 1 BY DEF Single
<1> QED BY <1>2, <1>3

LEMMA LeaveInnerTold ==
  ASSUME DecodeInv, Told(stack), Ended(stack), LeaveInner
  PROVE  Told(stack') /\ Ended(stack')
<1>1. StackOK(stack) /\ Top.role = "inner" /\ Top.agenda = <<>> BY DEF DecodeInv, LeaveInner
<1> DEFINE n == Len(stack)
           envelope == stack[n - 1]
           whole == [envelope EXCEPT !.got = Top.got, !.calls = envelope.calls \o Top.calls]
           raw == [envelope EXCEPT !.got = <<RawValue(envelope)>>]
           f == IF Top.off = Len(Top.data) THEN whole ELSE raw
<1>2. stack' = Upon(stack, n - 2, f) BY DEF LeaveInner, Upon
<1>3. /\ n \in Nat \ {0} /\ n \in DOMAIN stack /\ Top = stack[n] /\ Alone(Top)
      /\ IsSeq(stack) /\ DOMAIN stack = 1..n
  BY <1>1, TopFacts
<1>4. n - 2 \in 1..n /\ n - 1 \in 1..n /\ Alone(envelope) /\ envelope.tag = "opaque"
  BY <1>1, <1>3, InnerFacts
<1>5. Counted(envelope) /\ Tallied(envelope) /\ Counted(Top) /\ Tallied(Top)
  BY <1>3, <1>4 DEF Told
<1>6. envelope.got = <<>>
  <2>1. n # 1 BY <1>3, <1>4
  <2> QED BY <1>1, <1>3, <2>1 DEF Told, Awaited
<1>7. Len(Top.got) = 1
  <2>1. Top.tag = "inner" BY <1>1, <1>3 DEF Alone
  <2>2. Single(Top) BY <1>5, <2>1 DEF Counted
  <2> QED BY <1>1, <1>5, <2>2, LastLeft
<1> HIDE DEF envelope
<1>8. Counted(whole) /\ Tallied(whole) /\ whole.role = "codec" /\ Len(whole.got) = 1
  <2>1. /\ IsFrame(envelope) /\ envelope.role = "codec"
        /\ envelope.calls \in Seq(Seq(Byte)) /\ Top.calls \in Seq(Seq(Byte))
    BY <1>3, <1>4 DEF Alone, FrameOK
  <2>2. whole = [role |-> envelope.role, tag |-> envelope.tag, data |-> envelope.data,
                 start |-> envelope.start, off |-> envelope.off,
                 module |-> envelope.module, head |-> envelope.head,
                 agenda |-> envelope.agenda, got |-> Top.got,
                 calls |-> envelope.calls \o Top.calls]
    BY <2>1, GotIs
  <2> HIDE DEF whole
  <2>3. Indexes(envelope.calls \o Top.calls) = Indexes(envelope.calls) \o Indexes(Top.calls)
    BY <2>1, IndexesJoin
  <2>4. Indexes(envelope.calls) = <<>> BY <1>5, <1>6, NoCalls DEF Tallied
  <2>5. /\ Top.got \in Seq(Tree) /\ Indexes(Top.calls) = AllCalls(Top.got)
    BY <1>5 DEF Tallied
  <2>6. <<>> \o Indexes(Top.calls) = Indexes(Top.calls)
    <3>1. Indexes(Top.calls) \in Seq(Seq(Int)) BY <2>5, AllCallsType
    <3> QED BY <3>1, ConcatEmpty
  <2>7. Tallied(whole) BY <2>2, <2>3, <2>4, <2>5, <2>6 DEF Tallied
  <2>8. Counted(whole)
    <3>1. envelope.head \in Seq(Int) BY <1>5, <2>1 DEF Counted
    <3> QED BY <1>4, <2>1, <2>2, <3>1 DEF Counted
  <2> QED BY <1>7, <2>1, <2>2, <2>7, <2>8
<1>9. Counted(raw) /\ Tallied(raw) /\ raw.role = "codec" /\ Len(raw.got) = 1
  BY <1>4, <1>5, <1>6, RawTold
<1>10. Counted(f) /\ Tallied(f) /\ f.role = "codec" /\ Len(f.got) = 1
  <2> HIDE DEF whole, raw
  <2> QED BY <1>8, <1>9
<1> HIDE DEF f
<1>11. n - 2 \in 0..n /\ Awaited(stack[n - 2], f) BY <1>3, <1>4, <1>10 DEF Awaited
<1> QED BY <1>2, <1>3, <1>10, <1>11, ToldStep

LEMMA AppendIs ==
  ASSUME NEW S, NEW a \in Seq(S), NEW x \in S
  PROVE  Append(a, x) = a \o <<x>>
OBVIOUS

(* A call publishes the bytes it was read from, which start with its index.*)
LEMMA CallPublished ==
  ASSUME NEW f, FrameOK(f), Counted(f), f.tag = "call"
  PROVE  Indexes(Published(f)) = Indexes(f.calls) \o <<f.head>>
<1> DEFINE x == SubSeq(f.data, f.start + 1, f.off)
<1>1. /\ f.data \in Seq(Byte) /\ Len(f.data) \in Nat /\ f.off \in 0..Len(f.data)
      /\ f.start \in 0..f.off /\ f.calls \in Seq(Seq(Byte))
  BY LenProperties DEF FrameOK
<1>2. /\ f.start + 2 <= f.off /\ f.head = SubSeq(f.data, f.start + 1, f.start + 2)
  BY DEF Counted
<1>3. /\ x \in Seq(Byte) /\ Len(x) = f.off - f.start
      /\ \A i \in 1..(f.off - f.start) : x[i] = f.data[f.start + i]
  <2>1. \A i \in (f.start + 1)..f.off : f.data[i] \in Byte BY <1>1, ElementOfSeq
  <2> DEFINE m == f.start + 1
  <2>2. m \in Nat /\ f.off \in Nat /\ m <= f.off + 1 BY <1>1
  <2>3. /\ x \in Seq(Byte) /\ Len(x) = f.off - m + 1
        /\ \A i \in 1..(f.off - m + 1) : x[i] = f.data[m + i - 1]
    <3>1. x = SubSeq(f.data, m, f.off) OBVIOUS
    <3>2. \A i \in m..f.off : f.data[i] \in Byte BY <2>1
    <3> HIDE DEF x, m
    <3> QED BY <1>1, <2>2, <3>1, <3>2, SubSeqProperties
  <2>4. f.off - m + 1 = f.off - f.start /\ \A i \in Nat : m + i - 1 = f.start + i BY <1>1
  <2> HIDE DEF x, m
  <2> QED BY <2>3, <2>4
<1>4. SubSeq(x, 1, 2) = f.head
  <2> DEFINE s == f.start
  <2>1. s \in Nat /\ f.off \in Nat /\ s + 2 <= f.off BY <1>1, <1>2
  <2> HIDE DEF x, s
  <2>2. f.head = <<f.data[s + 1], f.data[s + 2]>>
    <3>1. f.head = SubSeq(f.data, s + 1, s + 2) BY <1>2 DEF s
    <3>2. (s + 2) - (s + 1) + 1 = 2 /\ (s + 1) + 1 - 1 = s + 1 /\ (s + 1) + 2 - 1 = s + 2 BY <2>1
    <3>3. SubSeq(f.data, s + 1, s + 2) = [i \in 1..2 |-> f.data[s + i]]
      BY <1>1, <2>1
    <3>4. [i \in 1..2 |-> f.data[s + i]] = <<f.data[s + 1], f.data[s + 2]>> OBVIOUS
    <3> QED BY <3>1, <3>3, <3>4
  <2>3. 1 \in 1..(f.off - f.start) /\ 2 \in 1..(f.off - f.start) BY <2>1 DEF s
  <2>4. x[1] = f.data[s + 1] /\ x[2] = f.data[s + 2] BY <1>3, <2>3 DEF s
  <2>5. SubSeq(x, 1, 2) = <<x[1], x[2]>>
    <3>1. Len(x) \in Nat /\ 2 <= Len(x) BY <1>3, <2>1 DEF s
    <3>2. x \in Seq(Byte) BY <1>3
    <3>3. SubSeq(x, 1, 2) = [i \in 1..2 |-> x[i]] BY ONLY <3>1, <3>2
    <3>4. [i \in 1..2 |-> x[i]] = <<x[1], x[2]>> OBVIOUS
    <3> QED BY <3>3, <3>4
  <2> QED BY <2>2, <2>4, <2>5
<1>5. <<x>> \in Seq(Seq(Byte)) BY <1>3
<1>6. Indexes(<<x>>) = <<f.head>>
  <2>1. Indexes(<<x>>) = <<SubSeq(x, 1, 2)>>
    <3> HIDE DEF x
    <3> QED BY DEF Indexes
  <2> QED BY <1>4, <2>1
<1>7. Published(f) = f.calls \o <<x>>
  <2>1. Published(f) = Append(f.calls, x) BY DEF Published
  <2> HIDE DEF x
  <2>2. x \in Seq(Byte) /\ f.calls \in Seq(Seq(Byte)) BY <1>1, <1>3
  <2> QED BY <2>1, <2>2, AppendIs
<1> HIDE DEF x
<1> QED BY <1>1, <1>5, <1>6, <1>7, IndexesJoin

(* What a codec leaves in Value and what it publishes.                     *)
LEMMA ResultTold ==
  ASSUME NEW f, Alone(f), Counted(f), Tallied(f), f.role = "codec", f.agenda = <<>>,
         f.tag = "opaque" => Len(f.got) = 1
  PROVE  Result(f) \in Tree /\ Indexes(Published(f)) = CallsOf(Result(f))
<1>1. /\ f.tag \in NodeKind /\ FrameOK(f) /\ f.head \in Seq(Int)
      /\ f.got \in Seq(Tree) /\ Indexes(f.calls) = AllCalls(f.got)
  BY DEF Alone, Counted, Tallied
<1>2. AllCalls(f.got) \o <<>> = AllCalls(f.got)
  <2>1. AllCalls(f.got) \in Seq(Seq(Int)) BY <1>1, AllCallsType
  <2> QED BY <2>1, ConcatEmpty
<1>3. f.tag # "call" => Published(f) = f.calls BY DEF Published
<1>4. CASE f.tag \in {"box", "opaque"}
  <2>1. Result(f) = f.got[1] BY <1>4 DEF Result
  <2>2. Len(f.got) = 1 BY <1>4, LastLeft DEF Counted
  <2> QED BY <1>3, <1>4, <2>1, <2>2, OnlyPart
<1>5. CASE f.tag = "option" /\ f.head # <<0>>
  <2>1. Result(f) = f.got[1] BY <1>5 DEF Result
  <2>2. Len(f.got) = 1 BY <1>5, LastLeft DEF Counted
  <2> QED BY <1>3, <1>5, <2>1, <2>2, OnlyPart
<1>6. CASE f.tag = "option" /\ f.head = <<0>>
  <2> DEFINE v == Value("nil", <<>>, <<>>)
  <2>1. Result(f) = v BY <1>6 DEF Result
  <2>2. v \in Tree /\ CallsOf(v) = <<>>
    <3>1. <<>> \in Seq(Int) /\ "nil" \in Tag /\ "nil" # "call" BY DEF Tag
    <3> QED BY <3>1, PlainValue
  <2> HIDE DEF v
  <2>3. f.got = <<>> BY <1>6 DEF Counted
  <2> QED BY <1>1, <1>3, <1>6, <2>1, <2>2, <2>3, NoCalls
<1>7. CASE f.tag \in {"vec", "array"}
  <2> DEFINE v == Value("list", <<>>, f.got)
  <2>1. Result(f) = v BY <1>7 DEF Result
  <2>2. v \in Tree /\ CallsOf(v) = AllCalls(f.got) \o Own(v)
    <3>1. <<>> \in Seq(Int) /\ "list" \in Tag BY DEF Tag
    <3> QED BY <1>1, <3>1, NodeCalls
  <2>3. Own(v) = <<>> BY DEF Own, Value
  <2> HIDE DEF v
  <2> QED BY <1>1, <1>2, <1>3, <1>7, <2>1, <2>2, <2>3
<1>8. CASE f.tag \notin {"box", "opaque", "option", "vec", "array"}
  <2> DEFINE v == Value(f.tag, f.head, f.got)
  <2>1. Result(f) = v BY <1>8 DEF Result
  <2>2. v \in Tree /\ CallsOf(v) = AllCalls(f.got) \o Own(v)
    <3>1. f.tag \in Tag BY <1>1 DEF Tag
    <3> QED BY <1>1, <3>1, NodeCalls
  <2>3. Own(v) = IF f.tag = "call" THEN <<f.head>> ELSE <<>> BY DEF Own, Value
  <2> HIDE DEF v
  <2>4. CASE f.tag = "call"
    <3>1. Indexes(Published(f)) = Indexes(f.calls) \o <<f.head>> BY <1>1, <2>4, CallPublished
    <3> QED BY <1>1, <2>1, <2>2, <2>3, <2>4, <3>1
  <2>5. CASE f.tag # "call" BY <1>1, <1>2, <1>3, <2>1, <2>2, <2>3, <2>5
  <2> QED BY <2>4, <2>5
<1> QED BY <1>4, <1>5, <1>6, <1>7, <1>8

LEMMA LeaveTold ==
  ASSUME DecodeInv, Told(stack), Ended(stack), Leave
  PROVE  Told(stack') /\ Ended(stack')
<1> DEFINE n == Len(stack)
           g == stack[n - 1]
           v == Result(Top)
           f == Fed(g, Top.off, v, Published(Top))
<1>1. /\ StackOK(stack) /\ IsSeq(stack) /\ DOMAIN stack = 1..n /\ n \in DOMAIN stack
      /\ Top = stack[n] /\ Alone(Top) /\ Top.role = "codec" /\ Top.agenda = <<>>
  BY TopFacts DEF DecodeInv, Leave
<1>2. stack' = Upon(stack, n - 2, f) BY DEF Leave, Upon
<1>3. /\ n - 1 \in 1..n /\ n \in Nat /\ Alone(g) /\ g.agenda # <<>>
      /\ Top.off \in g.off..Len(g.data)
      /\ Published(Top) \in Seq(Seq(Byte))
  BY <1>1, LeaveFacts
<1>4. Counted(g) /\ Tallied(g) /\ Counted(Top) /\ Tallied(Top) BY <1>1, <1>3 DEF Told
<1>5. v \in Tree /\ Indexes(Published(Top)) = CallsOf(v)
  BY <1>1, <1>4, ResultTold DEF Ended
<1>6. n - 2 > 0 => Awaited(stack[n - 2], g)
  <2>1. n \in Nat /\ n - 1 \in DOMAIN stack BY <1>1, <1>3
  <2>2. ASSUME n - 2 > 0 PROVE n - 1 # 1 /\ n - 1 - 1 = n - 2
    <3> HIDE DEF n
    <3> QED BY <2>1, <2>2
  <2>3. \A i \in DOMAIN stack \ {1} : Awaited(stack[i - 1], stack[i]) BY DEF Told
  <2> QED BY <2>1, <2>2, <2>3
<1> HIDE DEF g, v
<1>7. Counted(f) /\ Tallied(f) /\ f.role = g.role /\ f.tag # "opaque"
  BY <1>3, <1>4, <1>5, FedTold
<1> HIDE DEF f
<1>8. n - 2 \in 0..n /\ (n - 2 > 0 => Awaited(stack[n - 2], f))
  BY <1>3, <1>6, <1>7 DEF Awaited
<1> QED BY <1>1, <1>2, <1>7, <1>8, ToldStep

LEMMA InitTold == Init => Told(stack) /\ Ended(stack)
<1> SUFFICES ASSUME NEW r \in Request, NEW d \in Input[r],
                    stack = <<Frame("caller", "caller", d, 0, r.module, r.types, r.types)>>
             PROVE  Told(stack) /\ Ended(stack)
  BY DEF Init
<1> DEFINE f == Frame("caller", "caller", d, 0, r.module, r.types, r.types)
<1>1. f.role = "caller" /\ f.tag = "caller" /\ f.got = <<>> /\ f.calls = <<>> BY DEF Frame
<1> HIDE DEF f
<1>2. Counted(f) /\ Tallied(f) BY <1>1, NothingYet DEF Counted
<1>3. stack = <<f>> BY DEF f
<1>4. DOMAIN stack = 1..1 /\ stack[1] = f /\ Len(stack) = 1 BY <1>3
<1>5. \A i \in DOMAIN stack : i = 1 BY <1>4
<1> QED BY <1>1, <1>2, <1>4, <1>5 DEF Told, Ended

LEMMA ToldInStep ==
  DecodeInv /\ Told(stack) /\ Ended(stack) /\ [Next]_vars => Told(stack') /\ Ended(stack')
<1> SUFFICES ASSUME DecodeInv, Told(stack), Ended(stack), [Next]_vars
             PROVE  Told(stack') /\ Ended(stack')
  OBVIOUS
<1>1. CASE ReadLeaf BY <1>1, ReadLeafTold
<1>2. CASE NoCodec BY <1>2, PanicTold DEF NoCodec
<1>3. CASE EnterStruct \/ EnterArray \/ EnterVec \/ EnterMap \/ EnterOption
             \/ EnterVariant \/ EnterCall
  BY <1>3, EnterAllTold
<1>4. CASE EnterOpaque BY <1>4, EnterOpaqueTold
<1>5. CASE LeaveInner BY <1>5, LeaveInnerTold
<1>6. CASE Leave BY <1>6, LeaveTold
<1>7. CASE Finish BY <1>7 DEF Finish
<1>8. CASE UNCHANGED vars BY <1>8 DEF vars
<1> QED BY <1>1, <1>2, <1>3, <1>4, <1>5, <1>6, <1>7, <1>8 DEF Next

(* The caller lists the calls of the values it decoded, each after the     *)
(* calls inside it, for any types, calls and bytes: none of a payload that *)
(* was given up on, and none lost or told twice (processOpaque,            *)
(* Call.Process, ProcessAndUpdateData, GetInternalCall).                   *)
THEOREM CallsPublished ==
  ASSUME Depth = Nat
  PROVE  Spec => []PublishedCalls
<1>1. Init => Told(stack) /\ Ended(stack) BY InitTold
<1>2. DecodeInv /\ Told(stack) /\ Ended(stack) /\ [Next]_vars
        => (Told(stack) /\ Ended(stack))'
  <2>1. (Told(stack) /\ Ended(stack))' <=> Told(stack') /\ Ended(stack')
    BY DEF Told, Ended
  <2> QED BY <2>1, ToldInStep
<1>3. ASSUME DecodeInv, Told(stack) PROVE PublishedCalls
  <2> DEFINE got == stack[1].got
  <2>1. 1 \in DOMAIN stack BY <1>3, TopFacts DEF DecodeInv, StackOK
  <2>2. got \in Seq(Tree) /\ Indexes(stack[1].calls) = AllCalls(got)
    BY <1>3, <2>1 DEF Told, Tallied
  <2>3. PICK n \in Nat : got \in Seq(DOMAIN CallsTo(n)) BY <2>2, CommonDepth
  <2>4. AllCalls(got) = FlattenSeq([k \in DOMAIN got |-> CallsTo(n)[got[k]]])
    BY <2>3, CallsAt
  <2> HIDE DEF got
  <2>5. /\ n \in Depth /\ got \in Seq(DOMAIN CallsTo(n))
        /\ Indexes(stack[1].calls) = FlattenSeq([k \in DOMAIN got |-> CallsTo(n)[got[k]]])
    BY <2>2, <2>3, <2>4
  <2> QED BY <2>5 DEF PublishedCalls, got
<1> QED BY <1>1, <1>2, <1>3, DecodeInvariance, PTL DEF Spec
==============================================================================
