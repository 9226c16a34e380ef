----------------------------- MODULE ExtrinsicCodec -----------------------------
(***************************************************************************)
(* ExtrinsicDecoder.Process and GenericExtrinsic.Encode.  The decoder tells*)
(* a length prefix from a bare extrinsic, reads the version byte and by it *)
(* the signer, signature and extensions, then the call and its arguments.  *)
(* Encode writes the decoded record back.                                  *)
(*                                                                         *)
(* Bytes are tokens [kind, val], the kind being the type that was written; *)
(* Width says how many bytes a token has.                                  *)
(***************************************************************************)
EXTENDS Integers, Sequences, SequencesExt

CONSTANTS
  ModuleType(_, _),  \* override.ModuleType: module, type -> type
  NoModule, Unresolved, Misread,
  None,              \* nil, the value of an empty option
  Disabled,          \* VerifyMultiSignature without an account
  Width(_),          \* a token's number of bytes
  Byte(_),           \* a token's first byte
  SignedExts         \* the identifiers signedExts enables

VARIABLES
  meta,      \* the client's metadata and options, see ExtrinsicClient
  data,      \* e.Data.Data
  wire,      \* the tokens that are left
  stage,     \* "length", "version", "fields", "call", "args", "decoded", "encoded",
             \* "astray" (reading on at a wrong byte) or "panic"
  todo,      \* the fields of the preamble still to be read
  version,   \* VersionInfo
  g,         \* the GenericExtrinsic
  out        \* what Encode returned, <<>> before

INSTANCE ExtensionLayout

vars == <<meta, data, wire, stage, todo, version, g, out>>

Mortality == "CheckMortality"
Nonce == "CheckNonce"
Payment == "ChargeTransactionPayment"
AssetPayment == "ChargeAssetTxPayment"
Verify == "VerifyMultiSignature"

(* A type's registered meaning: Address is what the chain's types make it. *)
Kind(m, t) == IF t = "Address" THEN meta.address ELSE ModuleType(m, t)
Token(kind, x) == <<[kind |-> kind, val |-> x]>>
Value(m, t, tok) == IF tok.kind = Kind(m, t) THEN tok.val ELSE Misread
Bytes(s) ==
  LET sum[n \in 0..Len(s)] == IF n = 0 THEN 0 ELSE sum[n - 1] + Width(s[n])
  IN sum[Len(s)]
Prefixed(s) == Token("length", Bytes(s)) \o s

-----------------------------------------------------------------------------
(* The fields a version byte announces: what is read, its type and, of an  *)
(* extension, its identifier.                                              *)
Field(what, type, id) == [what |-> what, type |-> type, id |-> id]
Of(what, s) == [i \in DOMAIN s |-> Field(what, s[i].type, s[i].identifier)]
SignerType(otherwise) ==
  IF meta.version >= 14 /\ meta.hasSigner THEN "ExtrinsicSigner" ELSE otherwise
Signer == <<Field("signer", SignerType("Address"), ""),
            Field("signature", "ExtrinsicSignature", "")>>
EraNonce == <<Field("era", "EraExtrinsic", ""), Field("nonce", "Compact<U64>", "")>>
TipField == Field("tip", "Compact<Balance>", "")

Nil == meta.extrinsic = None
Listed(id) == ~Nil /\ Contains(meta.extrinsic.identifiers, id)

(* signedExtensionsWithExtra                                               *)
WithExtra(s) ==
  FlattenSeq([i \in DOMAIN s |-> IF s[i].type = "NULL" THEN <<>> ELSE <<s[i]>>])

(* decodeExtrinsicExtra, or the fields every older runtime has.            *)
Extra ==
  IF meta.version >= 14 /\ ~Nil THEN Of("extra", WithExtra(meta.extrinsic.signed)) ELSE EraNonce
LegacyTip == IF meta.version < 14 /\ (Nil \/ Listed(Payment)) THEN <<TipField>> ELSE <<>>
Additional ==
  FlattenSeq([i \in DOMAIN meta.signedExtensions |->
    IF Listed(meta.signedExtensions[i].name) THEN Of("record", meta.signedExtensions[i].additional)
    ELSE <<>>])

Enabled(s) ==
  FlattenSeq([i \in DOMAIN s |->
    IF s[i].identifier \in SignedExts \cup meta.additionalCheck THEN <<s[i]>> ELSE <<>>])
EnabledField(x) ==
  CASE x.identifier = Payment -> TipField
    [] x.identifier = Nonce -> Field("nonce", "Compact<U64>", "")
    [] OTHER -> Field("record", x.type, x.identifier)
EnabledFields ==
  LET s == Enabled(meta.extrinsic.signed) IN [i \in DOMAIN s |-> EnabledField(s[i])]

Fields(v) ==
  CASE v \in {"04", "05"} -> <<>>
    [] v = "84" -> Signer \o Extra \o LegacyTip \o Additional
    [] v = "85" -> Signer \o <<Field("version", "U8", "")>> \o EraNonce \o EnabledFields
    [] v = "45" -> <<Field("general", "U8", "")>>

(* What the preamble dereferences without metadata about extrinsics.       *)
Dangling(v) ==
  /\ Nil
  /\ v = "85" \/ (v = "84" /\ meta.signedExtensions # <<>>)

(* Mutant: only the extensions of version zero are known.                  *)
LayoutBug(n) ==
  IF Nil \/ n # 0 THEN NoLayout ELSE ExtensionsForVersion(meta.extrinsic, n)

Layout(n) == IF Nil THEN NoLayout ELSE ExtensionsForVersion(meta.extrinsic, n)

-----------------------------------------------------------------------------
(* The value of an extension in the record.                                *)
HasValue(x) == x # None
ExtractTip(id, x) == IF id = AssetPayment THEN x.tip ELSE x

(* Mutant: the list of the encoder is used for the decoder as well.        *)
ShouldRecordBug(id, x) == id \notin {Mortality, Nonce, Payment, AssetPayment} /\ HasValue(x)

ShouldRecord(id, x) == id \notin {Mortality, Nonce, Payment} /\ HasValue(x)
ShouldEncode(id, x) == id \notin {Mortality, Nonce, Payment, AssetPayment} /\ HasValue(x)

(* The fields of the record that an extension is shown in.                 *)
Expose(r, id, x) ==
  CASE id = Mortality -> [r EXCEPT !.era = x]
    [] id = Nonce -> [r EXCEPT !.nonce = x]
    [] id \in {Payment, AssetPayment} -> [r EXCEPT !.tip = ExtractTip(id, x)]
    [] OTHER -> r

(* VerifyMultiSignature: Disabled has no account.                          *)
Authorize(r, id, x) ==
  IF id = Verify /\ x # Disabled /\ x # Misread
  THEN [r EXCEPT !.signer = x.account, !.signature = x.signature] ELSE r

Record(r, id, x) ==
  [r EXCEPT !.extensions = [i \in DOMAIN @ \cup {id} |-> IF i = id THEN x ELSE @[i]]]

(* Mutant: an option without a value is forgotten in a general extrinsic.  *)
KeepBug(r, f, x) == IF HasValue(x) THEN Record(r, f.id, x) ELSE r

(* Every extension of a general extrinsic is kept.                         *)
Keep(r, f, x) == Record(r, f.id, x)

Store(r, f, x) ==
  CASE f.what = "signer" -> [r EXCEPT !.signer = x]
    [] f.what = "signature" -> [r EXCEPT !.signature = x]
    [] f.what = "era" -> [r EXCEPT !.era = x]
    [] f.what = "nonce" -> [r EXCEPT !.nonce = x]
    [] f.what = "tip" -> [r EXCEPT !.tip = x]
    [] f.what \in {"version", "general"} -> [r EXCEPT !.version = x]
    [] f.what = "record" -> Record(r, f.id, x)
    [] f.what = "extra" ->
         LET shown == Expose(r, f.id, x)
         IN IF ShouldRecord(f.id, x) THEN Record(shown, f.id, x) ELSE shown
    [] f.what = "layout" -> Authorize(Expose(Keep(r, f, x), f.id, x), f.id, x)

Blank ==
  [signer |-> None, signature |-> None, era |-> None, nonce |-> 0, tip |-> 0, version |-> 0,
   extensions |-> <<>>, hash |-> None, call |-> None, params |-> <<>>]

-----------------------------------------------------------------------------
(* The length the first bytes announce when they are read as Compact<u32>, *)
(* and how many bytes that takes.                                          *)
Announced(s) ==
  IF s[1].kind = "length" THEN [length |-> s[1].val, used |-> Width(s[1])]
  ELSE LET b == Byte(s[1])
       IN IF b % 4 = 0 THEN [length |-> b \div 4, used |-> 1]
          ELSE [length |-> (b + 256 * Byte(s[2])) \div 4, used |-> 2]

(* Mutant: an announced length the data has bytes for is believed.         *)
MatchesBug(a, s) == a.length <= Bytes(s) - a.used

Matches(a, s) == a.length = Bytes(s) - a.used

(* A bare extrinsic is told from the mismatch alone.                       *)
ReadLength ==
  /\ stage = "length"
  /\ LET match == Matches(Announced(data), data)
     IN /\ stage' = IF ~match \/ data[1].kind = "length" THEN "version" ELSE "astray"
        /\ wire' = IF match THEN Tail(data) ELSE data
  /\ UNCHANGED <<meta, data, todo, version, g, out>>

ReadVersion ==
  /\ stage = "version"
  /\ LET v == Head(wire).val
         ok == Head(wire).kind = "version" /\ v \in {"04", "05", "84", "85", "45"} /\ ~Dangling(v)
     IN /\ version' = v
        /\ stage' = IF ok THEN "fields" ELSE "panic"
        /\ todo' = IF ok THEN Fields(v) ELSE <<>>
        /\ g' = IF v \notin {"84", "85", "45"} THEN g
                ELSE [g EXCEPT !.hash = IF wire = data THEN Prefixed(data) ELSE data]
  /\ wire' = Tail(wire)
  /\ UNCHANGED <<meta, data, out>>

ReadField ==
  /\ stage = "fields" /\ todo # <<>>
  /\ LET f == Head(todo)
         x == IF f.type = "NULL" THEN None ELSE Value(NoModule, f.type, Head(wire))
         l == IF f.what = "general" THEN Layout(x) ELSE [ok |-> TRUE, extensions |-> <<>>]
     IN /\ stage' = IF l.ok THEN stage ELSE "panic"
        /\ g' = Store(g, f, x)
        /\ todo' = Of("layout", l.extensions) \o Tail(todo)
        /\ wire' = IF f.type = "NULL" THEN wire ELSE Tail(wire)
  /\ UNCHANGED <<meta, data, version, out>>

(* e.Metadata.CallIndex[e.CallIndex]                                       *)
ReadCall ==
  /\ stage = "fields" /\ todo = <<>>
  /\ LET c == Value(NoModule, "call", Head(wire))
     IN /\ stage' = IF c \in DOMAIN meta.calls THEN "args" ELSE "panic"
        /\ g' = [g EXCEPT !.call = c]
  /\ wire' = Tail(wire)
  /\ UNCHANGED <<meta, data, todo, version, out>>

(* e.Module = call.Module.Name                                             *)
ArgModule(c) == c.module

ReadArgs ==
  /\ stage = "args"
  /\ LET c == meta.calls[g.call]
     IN g' = [g EXCEPT !.params = [i \in DOMAIN c.args |->
                                     Value(ArgModule(c), c.args[i], wire[i])]]
  /\ stage' = "decoded"
  /\ UNCHANGED <<meta, data, wire, todo, version, out>>

-----------------------------------------------------------------------------
(* Encode.                                                                 *)
Write(t, x) == IF t = "NULL" THEN <<>> ELSE Token(Kind(NoModule, t), x)
Failed(how) == [ok |-> FALSE, how |-> how]

WriteSigner(r) ==
  Write(SignerType("AccountId"), r.signer) \o Write("ExtrinsicSignature", r.signature)
WriteEraNonce(r) == Write("EraExtrinsic", r.era) \o Write("Compact<U64>", r.nonce)

Written84(r) ==
  WriteSigner(r) \o WriteEraNonce(r)
    \o (IF Listed(Payment) THEN Write("Compact<Balance>", r.tip) ELSE <<>>)
    \o FlattenSeq([i \in DOMAIN meta.extrinsic.signed |->
         LET x == meta.extrinsic.signed[i]
         IN IF x.identifier \in DOMAIN r.extensions
               /\ ShouldEncode(x.identifier, r.extensions[x.identifier])
            THEN Write(x.type, r.extensions[x.identifier]) ELSE <<>>])

WriteEnabled(r, x) ==
  CASE x.identifier = Payment -> Write("Compact<Balance>", r.tip)
    [] x.identifier = Nonce -> Write("Compact<U64>", r.nonce)
    [] x.identifier \in DOMAIN r.extensions \ {Payment, Nonce} ->
         Write(x.type, r.extensions[x.identifier])
    [] OTHER -> <<>>
Written85(r) ==
  LET s == Enabled(meta.extrinsic.signed)
  IN WriteSigner(r) \o Write("U8", r.version) \o WriteEraNonce(r)
       \o FlattenSeq([i \in DOMAIN s |-> WriteEnabled(r, s[i])])

(* Mutant: an extension that is not given is left out.                     *)
MissingBug(r, l) == {}

Missing(r, l) ==
  {i \in DOMAIN l : l[i].identifier \notin DOMAIN r.extensions /\ l[i].type # "NULL"}
Written45(r) ==
  LET l == Layout(r.version).extensions
  IN Write("U8", r.version)
       \o FlattenSeq([i \in DOMAIN l |->
            IF l[i].identifier \in DOMAIN r.extensions
            THEN Write(l[i].type, r.extensions[l[i].identifier]) ELSE <<>>])

Preamble(r) ==
  CASE version = "84" -> Written84(r)
    [] version = "85" -> Written85(r)
    [] version = "45" -> Written45(r)
    [] OTHER -> <<>>

Encoded(r) ==
  LET call == meta.calls[r.call]
      refused == \/ version = "45"
                    /\ (~Layout(r.version).ok \/ Missing(r, Layout(r.version).extensions) # {})
                 \/ r.call \notin DOMAIN meta.calls
                 \/ Len(r.params) # Len(call.args)
  IN IF version \in {"84", "85"} /\ Nil THEN Failed("panic")
     ELSE IF refused THEN Failed("error")
     ELSE [ok |-> TRUE,
           bytes |-> Prefixed(Token("version", version) \o Preamble(r) \o Token("call", r.call)
                      \o FlattenSeq([i \in DOMAIN call.args |->
                                       Write(call.args[i], r.params[i])]))]

(* What a caller may change in a decoded record before it is encoded.      *)
Edits(r) ==
  {[what |-> "none", id |-> "", r |-> r],
   [what |-> "call", id |-> "", r |-> [r EXCEPT !.call = None]]}
    \cup {[what |-> "param", id |-> "", r |-> [r EXCEPT !.params = Tail(@)]] :
            i \in {1} \cap DOMAIN r.params}
    \cup {[what |-> "extension", id |-> x, r |->
             [r EXCEPT !.extensions = [j \in DOMAIN @ \ {x} |-> @[j]]]] :
            x \in DOMAIN r.extensions}

Encode ==
  /\ stage = "decoded"
  /\ \E e \in Edits(g) : out' = [edit |-> e.what, id |-> e.id, result |-> Encoded(e.r)]
  /\ stage' = "encoded"
  /\ UNCHANGED <<meta, data, wire, todo, version, g>>

CodecInit ==
  /\ wire = <<>> /\ stage = "length" /\ todo = <<>> /\ version = "" /\ g = Blank /\ out = <<>>

CodecNext == ReadLength \/ ReadVersion \/ ReadField \/ ReadCall \/ ReadArgs \/ Encode
=============================================================================
