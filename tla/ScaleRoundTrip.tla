---------------------------- MODULE ScaleRoundTrip ----------------------------
(***************************************************************************)
(* The encoders beside the decoders of ScaleDecode: EncodeWithOpt and the  *)
(* Encode of each codec, and what decoding and encoding promise together.  *)
(* An encoder sees the decoded value and the type, and never the module:   *)
(* EncodeWithOpt starts from an empty RuntimeType.                         *)
(***************************************************************************)
EXTENDS ScaleDecode

CONSTANT
  HexText   \* the texts that start with "0x", and the bytes their digits spell

Nil == Value("nil", <<>>, <<>>)

(* A Go string written by an encoder of bytes: "0x" means hex.             *)
Spelled(v) ==
  IF v.tag = "text" /\ v.head \in DOMAIN HexText THEN HexText[v.head] ELSE v.head

(* EncodeWithOpt hands a nil on as the empty string.                       *)
Handed(v) == IF v = Nil THEN Value("text", <<>>, <<>>) ELSE v

(* What Option.Encode takes for None: nil, "" and a nil slice.             *)
LooksNone(v) == v.tag \in {"nil", "text", "list"} /\ v.head = <<>> /\ v.subs = <<>>

(* What encodeOpaque takes for the payload itself.                         *)
LooksRaw(v, sub) ==
  \/ v.tag = "hex"
  \/ v.tag = "text" /\ v.head \in DOMAIN HexText
  \/ v.tag = "text" /\ v.head = <<>> /\ Codec[sub].kind = "call"

CompactU32(n) == IF n \in 0..(Base^4 - 1) THEN EncodeCompact(n) ELSE <<>>

EncodeLeaf(c, v) ==
  CASE c.kind = "null" -> <<>>
    [] c.kind \in {"fixed", "padded"} -> Padded(v.head, c.width)
    [] c.kind = "bytes" -> EncodeCompact(Len(Spelled(v))) \o Spelled(v)
    [] c.kind = "text" -> Spelled(v)
    [] c.kind = "compact" -> CompactU32(v.head[1])
    [] c.kind = "optionbool" -> IF LooksNone(v) THEN <<0>>
                                ELSE IF v.head = <<1>> THEN <<1>> ELSE <<2>>
    [] OTHER -> v.head

RECURSIVE Encode(_, _)
EncodeAll(types, vs) == FlattenSeq([i \in DOMAIN types |-> Encode(types[i], vs[i])])

(* Box and BTreeMap have no encoder.                                       *)
Encode(t, value) ==
  LET c == Codec[t]
      v == Handed(value)
  IN CASE c.kind \in LeafKind -> EncodeLeaf(c, v)
       [] c.kind = "struct" -> EncodeAll(c.fields[1], v.subs)
       [] c.kind = "array" -> EncodeAll(Copies(c.width, c.fields[1][1]), v.subs)
       [] c.kind = "vec" ->
            EncodeCompact(Len(v.subs)) \o EncodeAll(Copies(Len(v.subs), c.fields[1][1]), v.subs)
       [] c.kind = "option" ->
            IF LooksNone(v) THEN <<0>> ELSE <<1>> \o Encode(c.fields[1][1], v)
       [] c.kind \in {"enum", "result"} ->
            v.head \o EncodeAll(c.fields[v.head[1] + 1], v.subs)
       [] c.kind = "call" -> v.head \o EncodeAll(Call[v.head].args, v.subs)
       [] c.kind = "opaque" ->
            LET payload == IF LooksRaw(v, c.fields[1][1]) THEN Spelled(v)
                           ELSE Encode(c.fields[1][1], v)
            IN EncodeCompact(Len(payload)) \o payload

-----------------------------------------------------------------------------
(* Properties *)

(* What was decoded encodes back to the bytes it was decoded from.         *)
Reencodes ==
  status = "done" =>
    EncodeAll(stack[1].head, stack[1].got) = SubSeq(stack[1].data, 1, stack[1].off)

(* Of bytes that an encoder wrote, decoding refuses none and leaves none,  *)
(* and encoding what it made of them writes them again.                    *)
ReadsBack ==
  /\ status # "panic"
  /\ status = "done" => EncodeAll(stack[1].head, stack[1].got) = stack[1].data
=============================================================================
