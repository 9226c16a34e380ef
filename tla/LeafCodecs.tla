------------------------------- MODULE LeafCodecs -------------------------------
(***************************************************************************)
(* The codecs of types/types.go that look at the bytes they read to know   *)
(* how many there are: eras, addresses, identity data, bit vectors, digest *)
(* items, C-like enums and floats, in the middle of other bytes.           *)
(***************************************************************************)
EXTENDS FixedWidth

CONSTANTS
  HashLength,     \* the code's 32
  MaxRaw,         \* the longest raw data, 32
  Utf8,           \* the byte strings utf8.Valid lets pass
  DigestParts,    \* index of a digest item -> lengths of its parts, Vector for a byte vector
  Vector,
  CLikeEnum       \* sequence of [name, index]

ASSUME LeafAssumption ==
  /\ HashLength \in Nat \ {0} /\ MaxRaw \in Nat
  /\ Vector \notin Nat /\ \A i \in DOMAIN DigestParts : DigestParts[i] \in Seq(Nat \cup {Vector})
  /\ CLikeEnum \in Seq(ToSet(CLikeEnum))

(* The prefix bytes 0xfc to 0xff.                                          *)
Fc == Base - 4
Ff == Base - 1

(* ScaleBytes.GetNextBytes, and where the cursor is after it.              *)
NextBytes(bs, at, n) ==
  SubSeq(bs, at + 1, IF at + n > Len(bs) THEN Len(bs) ELSE at + n)
Moved(bs, at, n) == IF at + n > Len(bs) THEN Len(bs) ELSE at + n
Leaf(kind, bytes) == [kind |-> kind, bytes |-> bytes]
Taken(bs, at, n, kind) == [value |-> Leaf(kind, NextBytes(bs, at, n)), at |-> Moved(bs, at, n)]

(* A zero byte is an immortal era.                                         *)
DecodeEra(bs, at) == Taken(bs, at, IF NextBytes(bs, at, 1) = <<0>> THEN 1 ELSE 2, "hex")

(* Missing bytes of an account id are zeros in front.                      *)
DecodeAccountId(bs, at) ==
  LET taken == NextBytes(bs, at, HashLength)
  IN [value |-> Leaf("hex", [i \in 1..(HashLength - Len(taken)) |-> 0] \o taken),
      at |-> Moved(bs, at, HashLength)]

(* Accounts by the first byte: after 0xff, or that byte and those after it.*)
DecodeAccount(bs, at) ==
  IF NextBytes(bs, at, 1) = <<Ff>> THEN Taken(bs, at + 1, HashLength, "hex")
  ELSE Taken(bs, at, HashLength, "hex")

(* GenericAddress passes over the long indexes.                            *)
DecodeGenericAddress(bs, at) ==
  IF NextBytes(bs, at, 1) \in {<<b>> : b \in Fc..(Ff - 1)}
  THEN [value |-> Leaf("nil", <<>>), at |-> Moved(bs, at + 1, 2 ^ (bs[at + 1] - Fc + 1))]
  ELSE DecodeAccount(bs, at)

(* GenericLookupSource is an account if there are just as many bytes in    *)
(* all; an index is read from the front of the bytes, past no cursor.      *)
DecodeLookup(bs, at) ==
  IF Len(bs) = HashLength THEN Taken(bs, at, HashLength, "hex")
  ELSE IF NextBytes(bs, at, 1) = <<Ff>> THEN Taken(bs, at + 1, HashLength, "hex")
  ELSE LET b == bs[at + 1]
           index == IF b \in Fc..(Ff - 1) THEN SubSeq(bs, 2, 1 + 2 ^ (b - Fc + 1)) ELSE <<bs[1]>>
           four == SubSeq(index, 1, IF Len(index) > 4 THEN 4 ELSE Len(index))
       IN [value |-> Leaf("index", <<FromLittle(four)>>), at |-> at + 1]

(* The bytes of a float are the first of all there are.                    *)
DecodeFloat(bs, at, n) == [value |-> Leaf("float", SubSeq(bs, 1, n)), at |-> at]

(* Data: nothing, raw bytes one fewer than the index, or one of four hashes.*)
DecodeData(bs, at) ==
  LET first == NextBytes(bs, at, 1) IN
  IF first \in {<<>>, <<0>>} THEN [value |-> Leaf("None", <<>>), at |-> Moved(bs, at, 1)]
  ELSE LET i == first[1]
           raw == NextBytes(bs, at + 1, i - 1)
       IN IF i <= MaxRaw + 1
          THEN [value |-> Leaf(IF raw \in Utf8 THEN "text" ELSE "hex", <<i>> \o raw),
                at |-> Moved(bs, at + 1, i - 1)]
          ELSE IF i <= MaxRaw + 5
          THEN [value |-> Leaf("hash", <<i - MaxRaw>> \o NextBytes(bs, at + 1, HashLength)),
                at |-> Moved(bs, at + 1, HashLength)]
          ELSE [value |-> Leaf("nil", <<>>), at |-> at + 1]

(* As many bits as the prefix says, in whole bytes of eight.               *)
Whole(bits) == (bits + 7) \div 8
DecodeBitVec(bs, at) ==
  LET rest == SubSeq(bs, at + 1, Len(bs))
  IN Taken(bs, at + CompactLength(rest[1]), Whole(CompactValue(rest)), "bits")

(* A digest item: its parts one after the other.                           *)
DecodeDigest(bs, at) ==
  LET part(c, n) ==
        LET rest == SubSeq(bs, c + 1, Len(bs)) IN
        IF n # Vector THEN Moved(bs, c, n)
        ELSE Moved(bs, c + CompactLength(rest[1]), CompactValue(rest))
      parts == DigestParts[bs[at + 1]]
      past[i \in 0..Len(parts)] == IF i = 0 THEN at + 1 ELSE part(past[i - 1], parts[i])
      end == past[Len(parts)]
  IN [value |-> Leaf("digest", SubSeq(bs, at + 1, end)), at |-> end]

(* An enum whose sub types are all numbers; the names of unknown ones are  *)
(* empty, and of two with one number the later counts.                     *)
DecodeCLike(bs, at) ==
  LET first == NextBytes(bs, at, 1)
      hits == {k \in DOMAIN CLikeEnum :
                 CLikeEnum[k].index = IF first = <<>> THEN 0 ELSE first[1]}
  IN [value |-> Leaf("name", IF hits = {} THEN <<>> ELSE <<Max(hits)>>), at |-> Moved(bs, at, 1)]

DecodeLeaf(codec, bs, at) ==
  CASE codec = "Era" -> DecodeEra(bs, at)
    [] codec = "H256" -> Taken(bs, at, HashLength, "hex")
    [] codec = "AccountId" -> DecodeAccountId(bs, at)
    [] codec = "Address" -> DecodeAccount(bs, at)
    [] codec = "GenericAddress" -> DecodeGenericAddress(bs, at)
    [] codec = "GenericLookupSource" -> DecodeLookup(bs, at)
    [] codec = "Float64" -> DecodeFloat(bs, at, 2)
    [] codec = "Data" -> DecodeData(bs, at)
    [] codec = "BitVec" -> DecodeBitVec(bs, at)
    [] codec = "LogDigest" -> DecodeDigest(bs, at)
    [] codec = "CLike" -> DecodeCLike(bs, at)

-----------------------------------------------------------------------------
(* Mutant: the index of a hash is that of its name.                        *)
EncodeDataBug(v) == IF v.kind = "None" THEN <<0>> ELSE v.bytes

(* Data.Encode.  Raw bytes that are no text come as their digits, and are  *)
(* taken for them only if those are as many as the index.                  *)
EncodeData(v) ==
  CASE v.kind = "None" -> <<0>>
    [] v.kind = "hash" -> <<v.bytes[1] + MaxRaw>> \o Tail(v.bytes)
    [] v.kind = "text" -> v.bytes
    [] v.kind = "hex" -> IF 2 * Len(Tail(v.bytes)) = v.bytes[1] THEN v.bytes
                         ELSE <<v.bytes[1]>> \o [i \in 1..(2 * Len(Tail(v.bytes))) |-> Unset]

(* What the codecs that encode write of a value; BitVec writes the number  *)
(* of bytes for that of bits, and one byte of no bits at all.              *)
EncodeLeaf(codec, v) ==
  CASE codec \in {"Era", "H256", "AccountId"} -> v.bytes
    [] codec = "Data" /\ v.kind # "nil" -> EncodeData(v)
    [] codec = "BitVec" -> LET bs == IF v.bytes = <<>> THEN <<0>> ELSE v.bytes
                           IN EncodeCompact(Len(bs)) \o bs
    [] codec = "CLike" /\ v.bytes # <<>> -> <<CLikeEnum[v.bytes[1]].index>>
    [] OTHER -> Unset
=============================================================================
