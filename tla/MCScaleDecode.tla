---------------------------- MODULE MCScaleDecode ----------------------------
(***************************************************************************)
(* A small runtime for ScaleDecode and ScaleRoundTrip: a type of every     *)
(* codec, three calls of two modules, bytes of sixteen values.             *)
(***************************************************************************)
EXTENDS ScaleRoundTrip

C(kind, width, fields) == [kind |-> kind, width |-> width, fields |-> fields]
Leaf(kind, width) == C(kind, width, <<>>)
Node(kind, types) == C(kind, 0, <<types>>)

MCCodec ==
  [u8 |-> Leaf("fixed", 1), u16 |-> Leaf("fixed", 2), flag |-> Leaf("bool", 1),
   index |-> Leaf("padded", 2), lax |-> Leaf("laxbool", 1),
   hash |-> Leaf("raw", 2), tag |-> Leaf("text", 2), bytes |-> Leaf("bytes", 0),
   num |-> Leaf("compact", 0), unit |-> Leaf("null", 0),
   kind |-> Leaf("names", 2), optbool |-> Leaf("optionbool", 0),
   zero |-> Leaf("emptyarray", 0), nothing |-> Leaf("unknown", 0),
   validator |-> Leaf("fixed", 1), paravalidator |-> Leaf("fixed", 2),
   call |-> Leaf("call", 0),
   pair |-> Node("struct", <<"num", "flag">>), box |-> Node("box", <<"pair">>),
   arr |-> C("array", 2, <<<<"optbool">>>>), vec |-> Node("vec", <<"tree">>),
   units |-> Node("vec", <<"unit">>), map |-> Node("map", <<"num", "flag">>),
   opt |-> Node("option", <<"bytes">>), optu8 |-> Node("option", <<"u8">>),
   tree |-> C("enum", 0, <<<<"unit">>, <<"u8">>, <<"flag", "vec">>>>),
   res |-> C("result", 0, <<<<"bytes">>, <<"nothing">>>>),
   wnum |-> Node("opaque", <<"num">>), wbytes |-> Node("opaque", <<"bytes">>),
   wcall |-> Node("opaque", <<"call">>), wvec |-> Node("opaque", <<"vec">>),
   list |-> Node("struct", <<"flag", "optlist">>),
   optlist |-> Node("option", <<"list">>),
   calls |-> Node("vec", <<"call">>)]
MCTypeName == DOMAIN MCCodec

(* The types that may take no byte, and how deep the others that can be     *)
(* come to before one is read: list and optlist are not, past the flag.    *)
MCIdle == {"index", "lax", "hash", "tag", "unit", "kind", "optbool", "zero",
           "nothing", "arr", "tree"}
MCRank(t) ==
  CASE t \in {"pair", "arr", "opt", "optu8", "tree", "res", "list"} -> 1
    [] t \in {"box", "optlist"} -> 2
    [] OTHER -> 0

MCOverride ==
  [m \in {"none", "paras", "utility"} |-> [t \in MCTypeName |->
     IF m = "paras" /\ t = "validator" THEN "paravalidator" ELSE t]]

ASSUME MCGrounded ==
  Grounded([m \in Module |-> MCIdle], [m \in Module |-> [t \in TypeName |-> MCRank(t)]])

MCCallIndex == {<<0, 0>>, <<0, 1>>, <<1, 0>>}
MCCall == [ix \in MCCallIndex |->
  CASE ix = <<0, 0>> -> [module |-> "paras", args |-> <<"validator">>]
    [] ix = <<0, 1>> -> [module |-> "utility", args |-> <<"wcall", "bytes">>]
    [] ix = <<1, 0>> -> [module |-> "utility", args |-> <<"calls", "validator">>]]

MCHexText == [bs \in {<<12, 13>>, <<12, 13, 12, 12>>} |->
                IF Len(bs) = 2 THEN <<>> ELSE <<0>>]

Req(m, types) == [module |-> m, types |-> types]
UpTo(n, bytes) == UNION {[1..k -> bytes] : k \in 0..n}

(* Any bytes, for every codec.  3 and 7 start long compacts, 12 is a count *)
(* above both limits.                                                      *)
AnyRequest == {Req("none", <<t, "u8">>) : t \in MCTypeName}
AnyInput == [r \in AnyRequest |->
  UpTo(3, {0, 1, 4, 8, 12, 13}) \cup [1..4 -> {0, 1, 4, 8}]
    \cup {<<a>> \o s : a \in {2, 3, 7, 11}, s \in [1..5 -> {0, 15}]}]

(* Calls in envelopes in calls in envelopes, cut short or drawn out at     *)
(* every level.                                                            *)
Wrap(p) == EncodeCompact(Len(p)) \o p
Damaged(S) ==
  UNION {{p, Append(p, 1)} \cup {SubSeq(p, 1, k) : k \in 0..Len(p)} : p \in S}
InnerCall == Damaged({<<0, 0, 1, 8>>, <<1, 1>>, <<1, 0, 8, 0, 0, 1, 8, 0, 0, 4, 4, 12>>})
OuterCall == Damaged({<<0, 1>> \o Wrap(p) \o <<4, 12>> : p \in InnerCall}
                       \cup {<<1, 0, 4, 0, 1>> \o Wrap(p) \o <<0, 12>> : p \in InnerCall})
CallRequest == {Req("none", <<"wcall", "validator">>), Req("paras", <<"wcall", "validator">>)}
CallInput == [r \in CallRequest |-> {Wrap(p) \o s : p \in OuterCall, s \in {<<>>, <<1, 2>>}}]

DecodeRequest == AnyRequest \cup CallRequest
DecodeInput == [r \in DecodeRequest |->
                  IF r \in CallRequest THEN CallInput[r] ELSE AnyInput[r]]

(* What the encoders write, of values of bounded depth.  No type of these  *)
(* calls is overridden in their module.                                    *)
PlainCall == [ix \in MCCallIndex |-> [MCCall[ix] EXCEPT !.module = "utility"]]
LeafValues(c) ==
  CASE c.kind \in {"fixed", "padded"} -> {Value("int", bs, <<>>) : bs \in [1..c.width -> {0, 13}]}
    [] c.kind = "raw" -> {Value("hex", bs, <<>>) : bs \in [1..c.width -> {0, 12}]}
    [] c.kind = "text" -> {TextOrHex(bs) : bs \in [1..c.width -> {0, 12, 13}] \ DOMAIN MCHexText}
    [] c.kind = "bytes" -> {TextOrHex(bs) : bs \in (UpTo(2, {0, 12, 13}) \ {<<12, 13>>})
                                                \cup {<<12, 13, 12, 12>>}}
    [] c.kind = "compact" ->
         {Value("number", <<n>>, <<>>) :
            n \in UNION {{b - 1, b, b + 1} : b \in {4, 64, 16384}} \cup {0, 65535}}
    [] c.kind \in {"bool", "laxbool"} -> {Value("bool", <<b>>, <<>>) : b \in {0, 1}}
    [] c.kind = "optionbool" -> {Nil} \cup {Value("bool", <<b>>, <<>>) : b \in {0, 1}}
    [] c.kind = "names" -> {Value("name", <<i>>, <<>>) : i \in 0..(c.width - 1)}
    [] c.kind = "null" -> {Nil}
RECURSIVE Values(_, _)
Tuples(types, d) ==
  {vs \in [DOMAIN types -> UNION {Values(t, d) : t \in Range(types)}] :
     \A i \in DOMAIN types : vs[i] \in Values(types[i], d)}
Values(t, d) ==
  LET c == MCCodec[t]
      t1 == c.fields[1][1]
  IN IF c.kind \in LeafKind THEN LeafValues(c)
     ELSE IF d = 0 THEN {}
     ELSE CASE c.kind = "struct" ->
                 {Value("struct", <<>>, vs) : vs \in Tuples(c.fields[1], d - 1)}
            [] c.kind \in {"vec", "array"} ->
                 {Value("list", <<>>, vs) :
                    vs \in UNION {Tuples(Copies(n, t1), d - 1) :
                                  n \in IF c.kind = "vec" THEN 0..2 ELSE {c.width}}}
            [] c.kind = "option" -> {Nil} \cup Values(t1, d - 1)
            [] c.kind \in {"enum", "result"} ->
                 UNION {{Value(c.kind, <<i - 1>>, vs) : vs \in Tuples(c.fields[i], d - 1)} :
                        i \in DOMAIN c.fields}
            [] c.kind = "call" ->
                 UNION {{Value("call", ix, vs) : vs \in Tuples(PlainCall[ix].args, d - 1)} :
                        ix \in MCCallIndex}
            [] c.kind = "opaque" ->
                 Values(t1, d - 1) \cup
                   (IF t1 = "call" THEN {Value("hex", <<1, 1>>, <<>>)} ELSE {})
WrittenType == {"pair", "arr", "vec", "units", "opt", "optu8", "tree", "wnum", "wvec",
                "wcall", "calls", "index", "lax", "num", "hash", "tag", "bytes", "kind", "optbool"}
WrittenRequest == {Req("none", <<t, "u8">>) : t \in WrittenType}
WrittenInput == [r \in WrittenRequest |->
  {EncodeAll(r.types, <<v, Value("int", <<13>>, <<>>)>>) : v \in Values(r.types[1], 3)}]

(* The argument of a call cut short inside its envelope.                   *)
CutRequest == {Req("none", <<"wcall">>)}
CutInput == [r \in CutRequest |-> Damaged({Wrap(<<0, 1, 0, 8, 0, 13>>),
                                           Wrap(<<0, 1, 0, 8, 0>>)})]
=============================================================================
