------------------------------- MODULE FixedWidth -------------------------------
(***************************************************************************)
(* The codecs of numbers: IntFixed (types/Int.go), U8 to U256              *)
(* (types/Uint.go), Compact<T> (types/Compact.go) and Set (types/Set.go).  *)
(* A byte has Base values, the code's 256, and bytes are sequences of them.*)
(***************************************************************************)
EXTENDS CompactCodec, Powers, SequencesExt

CONSTANT Unset   \* no bytes for a value, and no value for bytes: a panic
ASSUME UnsetAssumption == Unset \notin Int \cup Seq(Int)

(* The numbers of n bytes are those below Base to the power of n.          *)
Size(n) == Power(Base, n)
LittleEndian(v, n) == [i \in 1..n |-> (v \div Size(i - 1)) % Base]
FromLittle(bs) ==
  LET low[i \in 0..Len(bs)] == IF i = 0 THEN 0 ELSE low[i - 1] + bs[i] * Size(i - 1)
  IN low[Len(bs)]
FromBig(bs) == FromLittle(Reverse(bs))
BigEndian(v, n) == Reverse(LittleEndian(v, n))

(* utiles.ReverseBytes swaps the pairs from both ends; the byte in the     *)
(* middle of an odd number is in no pair and stays zero.                   *)
ReverseBytes(bs) ==
  [i \in DOMAIN bs |-> IF 2 * i = Len(bs) + 1 THEN 0 ELSE bs[Len(bs) + 1 - i]]

-----------------------------------------------------------------------------
(* Mutant: the number after the middle is positive as well.                *)
IntDecodeBug(bs, n) ==
  LET v == FromBig(ReverseBytes(bs)) IN IF v > Size(n) \div 2 + 1 THEN v - Size(n) ELSE v

(* IntFixed.Process of n bytes: more than the middle is negative.          *)
IntDecode(bs, n) ==
  LET v == FromBig(ReverseBytes(bs)) IN IF v > Size(n) \div 2 THEN v - Size(n) ELSE v

(* IntFixed.Encode below 16 bytes: the number wraps.                       *)
IntEncode(v, n) == LittleEndian(v % Size(n), n)

(* BigIntToIntBytes, from 16 bytes on: the most significant byte first, an *)
(* error out of range.                                                     *)
BigIntToIntBytes(v, n) ==
  IF v >= 0 THEN IF v > Size(n) \div 2 - 1 THEN Unset ELSE BigEndian(v, n)
  ELSE IF -v > Size(n) \div 2 THEN Unset
  ELSE LET bs == BigEndian(-(v + 1), n) IN [i \in 1..n |-> Base - 1 - bs[i]]

-----------------------------------------------------------------------------
(* U8 to U64 wrap; U128 panics out of range; U256 writes the digits of the *)
(* number as hex, of which those of a negative one do not decode.          *)
UEncode(kind, v, n) ==
  CASE kind \in {"U", "alias"} -> LittleEndian(v % Size(n), n)
    [] kind = "U128" -> IF v < 0 \/ v >= Size(n) THEN Unset ELSE LittleEndian(v, n)
    [] kind = "U256" -> ReverseBytes(BigEndian(IF v < 0 THEN 0 ELSE v, n))

(* Under their own names U8 to U64 require their bytes (fastProcess); under*)
(* an alias they are the decoders of the registry, to which, as to U128,   *)
(* missing bytes are zero at the high end.                                 *)
UDecode(kind, bs, n) ==
  IF kind = "U256" THEN FromBig(ReverseBytes(bs))
  ELSE IF kind = "U" /\ Len(bs) < n THEN Unset
  ELSE FromLittle([i \in 1..n |-> IF i <= Len(bs) THEN bs[i] ELSE 0])

(* Mutant: the first element belongs to the second bit.                    *)
SetDecodeBug(bs, n, list) ==
  LET v == UDecode("U", bs, n)
  IN IF v = Unset THEN Unset
     ELSE IF n = 1 \/ (n = 8 /\ v >= Size(n) \div 2) THEN <<>>
     ELSE FlattenSeq([k \in DOMAIN list |-> IF (v \div 2 ^ k) % 2 = 1 THEN <<list[k]>> ELSE <<>>])

(* Set.Process: the elements of set bits, for a number U8 to U64, decoded  *)
(* by its own name, that is a sized unsigned integer: eight bits decode to *)
(* an int, and 64 bits make a negative int of the highest bit.             *)
SetDecode(bs, n, list) ==
  LET v == UDecode("U", bs, n)
  IN IF v = Unset THEN Unset
     ELSE IF n = 1 \/ (n = 8 /\ v >= Size(n) \div 2) THEN <<>>
     ELSE FlattenSeq([k \in DOMAIN list |-> IF (v \div 2 ^ (k - 1)) % 2 = 1 THEN <<list[k]>> ELSE <<>>])

-----------------------------------------------------------------------------
(* Compact.Encode: the shortest mode, no bytes for what the prefix cannot  *)
(* announce.                                                               *)
Digits(v) == CHOOSE n \in 1..(v + 1) : Size(n - 1) <= v /\ v < Size(n)

WriteCompact(v) ==
  IF v < 0 THEN Unset
  ELSE IF v < Size(4) \div 4 THEN EncodeCompact(v)
  ELSE LET n == Digits(v)
       IN IF n - 4 > Base \div 4 - 1 THEN Unset ELSE <<4 * (n - 4) + 3>> \o LittleEndian(v, n)

(* The bytes the number is read from: those of the prefix' modes, or those *)
(* after it.                                                               *)
CompactBytes(bs) ==
  LET n == CompactLength(bs[1])
  IN IF n <= 4 THEN SubSeq(bs, 1, n) ELSE SubSeq(bs, 2, n)

(* Mutant: the two mode bits are left in.                                  *)
ReadCompactBug(bs, n) ==
  LET v == FromLittle([i \in 1..n |-> IF i <= Len(CompactBytes(bs)) THEN CompactBytes(bs)[i] ELSE 0])
  IN IF CompactLength(bs[1]) < 4 THEN v \div 4 ELSE v

(* Compact.Process over a number of n bytes: the first n of those bytes,   *)
(* filled up with zeros, then divided by four.  compactBytesForSubType does*)
(* this for u16 to u128, and a u8 has its byte: the widths of T there are. *)
ReadCompact(bs, n) ==
  LET v == FromLittle([i \in 1..n |-> IF i <= Len(CompactBytes(bs)) THEN CompactBytes(bs)[i] ELSE 0])
  IN IF CompactLength(bs[1]) <= 4 THEN v \div 4 ELSE v
=============================================================================
