------------------------------- MODULE TextBytes -------------------------------
(***************************************************************************)
(* Byte vectors as text (types/Bytes.go): Bytes, HexBytes and String decode*)
(* to a string that is either the text or 0x and the digits, and encode    *)
(* from such a string.  A string is a sequence of characters; a byte that  *)
(* is text is its character.                                               *)
(***************************************************************************)
EXTENDS Integers, SequencesExt

CONSTANTS
  Hex(_),      \* a byte -> its two digits
  Printable    \* the bytes IsASCII lets pass

HexDigit == {"0", "1", "2", "3", "4", "5", "6", "7", "8", "9", "a", "b", "c", "d", "e", "f"}

IsASCII(bs) == ToSet(bs) \subseteq Printable
BytesToHex(bs) == FlattenSeq([i \in DOMAIN bs |-> Hex(bs[i])])
HasHexPrefix(s) == Len(s) >= 2 /\ s[1] = "0" /\ s[2] = "x"
TrimHex(s) == IF HasHexPrefix(s) THEN SubSeq(s, 3, Len(s)) ELSE s
AddHex(s) == IF s = <<>> \/ HasHexPrefix(s) THEN s ELSE <<"0", "x">> \o s

DecodeText(codec, bs) ==
  IF codec # "HexBytes" /\ IsASCII(bs) THEN bs ELSE AddHex(BytesToHex(bs))

(* HexToBytes trims once more, and two digits make a byte.                 *)
HexLength(s) == Len(TrimHex(s)) \div 2
Even(s) == IF Len(s) % 2 = 1 THEN Append(s, "0") ELSE s

(* Mutant: a string that is not text is not told by its prefix.            *)
EncodeTextBug(codec, s) == [length |-> Len(s), hex |-> BytesToHex(s)]

(* The length, by what the digits decode to, and the digits.               *)
EncodeText(codec, s) ==
  IF codec = "String" \/ (codec = "Bytes" /\ ~HasHexPrefix(s))
  THEN [length |-> Len(s), hex |-> BytesToHex(s)]
  ELSE LET digits == Even(TrimHex(s)) IN [length |-> HexLength(digits), hex |-> digits]
=============================================================================
