----------------------------- MODULE CompactCodec -----------------------------
(***************************************************************************)
(* Compact<u32>, the length prefix of SCALE (types/Compact.go, CompactU32),*)
(* over bytes of any width: the code's byte is Base = 256 and its int has  *)
(* Word = 8 bytes; the checks scale both down so that every mode and the   *)
(* sign of the int are within reach.  The two low bits of the first byte   *)
(* say how many bytes follow, so Base is a multiple of four.               *)
(***************************************************************************)
EXTENDS Integers, Sequences

CONSTANTS
  Base,   \* the number of values of a byte
  Word    \* bytes of the machine int a compact is read into

ASSUME CompactAssumption ==
  /\ Base \in Nat /\ Base >= 8 /\ Base % 4 = 0
  /\ Word \in 4..8

Byte == 0..(Base - 1)

(* binary.LittleEndian.Uint64 of bs copied into a zeroed buffer of Word    *)
(* bytes, read back as a signed int.                                       *)
ByteAt(bs, i) == IF i <= Len(bs) /\ i <= Word THEN bs[i] ELSE 0
Joined(low, high) == low + Base * high
Unsigned(bs) ==
  Joined(ByteAt(bs, 1), Joined(ByteAt(bs, 2), Joined(ByteAt(bs, 3),
    Joined(ByteAt(bs, 4), Joined(ByteAt(bs, 5), Joined(ByteAt(bs, 6),
      Joined(ByteAt(bs, 7), ByteAt(bs, 8))))))))

Negative(bs) == Len(bs) >= Word /\ bs[Word] >= Base \div 2

WordSize ==
  LET four == Base * Base * Base * Base IN
  IF Word = 4 THEN four ELSE IF Word = 5 THEN Base * four
  ELSE IF Word = 6 THEN Base * Base * four
  ELSE IF Word = 7 THEN Base * Base * Base * four
  ELSE four * four

Signed(bs) == IF Negative(bs) THEN Unsigned(bs) - WordSize ELSE Unsigned(bs)

(* The length of the whole compact, from its first byte.                   *)
CompactLength(b) ==
  CASE b % 4 = 0 -> 1
    [] b % 4 = 1 -> 2
    [] b % 4 = 2 -> 4
    [] b % 4 = 3 -> 5 + (b - 3) \div 4

(* CompactU32.Process at the front of bs: FALSE is the panic on a prefix   *)
(* that is cut short.                                                      *)
CompactOK(bs) == bs # <<>> /\ CompactLength(bs[1]) <= Len(bs)

CompactValue(bs) ==
  LET n == CompactLength(bs[1]) IN
  IF n <= 4 THEN Unsigned(SubSeq(bs, 1, n)) \div 4
            ELSE Signed(SubSeq(bs, 2, n))

(* CompactU32.Encode: the shortest of the four modes.                      *)
Digit(i, k) == CASE k = 1 -> i % Base
                 [] k = 2 -> (i \div Base) % Base
                 [] k = 3 -> (i \div (Base * Base)) % Base
                 [] k = 4 -> i \div (Base * Base * Base)

(* Mutant: the one-byte mode takes one number too many.                    *)
EncodeCompactBug(i) ==
  IF i <= Base \div 4 THEN <<Digit(4 * i, 1)>>
  ELSE IF i < (Base * Base) \div 4 THEN [k \in 1..2 |-> Digit(4 * i + 1, k)]
  ELSE IF i < (Base * Base * Base * Base) \div 4 THEN [k \in 1..4 |-> Digit(4 * i + 2, k)]
  ELSE <<3>> \o [k \in 1..4 |-> Digit(i, k)]

EncodeCompact(i) ==
  IF i < Base \div 4 THEN <<4 * i>>
  ELSE IF i < (Base * Base) \div 4 THEN [k \in 1..2 |-> Digit(4 * i + 1, k)]
  ELSE IF i < (Base * Base * Base * Base) \div 4 THEN [k \in 1..4 |-> Digit(4 * i + 2, k)]
  ELSE <<3>> \o [k \in 1..4 |-> Digit(i, k)]

(* processOpaque: bs starts with a complete byte vector whose length is no *)
(* more than a u32.                                                        *)
EnvelopeOK(bs) ==
  /\ bs # <<>> /\ (bs[1] % 4 = 3 => bs[1] \div 4 = 0)
  /\ CompactOK(bs)
  /\ CompactValue(bs) >= 0
  /\ CompactLength(bs[1]) + CompactValue(bs) <= Len(bs)

EnvelopeLength(bs) == CompactLength(bs[1]) + CompactValue(bs)
Payload(bs) == SubSeq(bs, CompactLength(bs[1]) + 1, EnvelopeLength(bs))
=============================================================================
