---------------------------- MODULE ExtrinsicClient ----------------------------
(***************************************************************************)
(* A runtime writes an extrinsic; a client that has metadata of that       *)
(* runtime, or of an older one, decodes it and encodes what it decoded,    *)
(* changed or not.                                                         *)
(*                                                                         *)
(* The client's metadata and options are a record:                         *)
(*   version           MetadataVersion                                     *)
(*   extrinsic         None (before version 12), or what ExtensionLayout   *)
(*                     takes and identifiers, the SignedIdentifier         *)
(*   calls             CallIndex: call -> [module, args]                   *)
(*   hasSigner         whether ExtrinsicSigner is registered               *)
(*   address           what Address is for this chain                      *)
(*   signedExtensions, additionalCheck    the options                      *)
(***************************************************************************)
EXTENDS ExtrinsicCodec

CONSTANTS Client   \* pairs [meta, tx] of a client and an extrinsic it is given

VARIABLE tx        \* the extrinsic as it was written

-----------------------------------------------------------------------------
(* The clients the model is about.  A runtime and its chain's types:       *)
Ext == [identifier : STRING, type : STRING]
Plain(t) == t \notin {"Address", Unresolved} /\ ModuleType(NoModule, t) = t
BuiltIn ==
  {"ExtrinsicSigner", "AccountId", "ExtrinsicSignature", "EraExtrinsic", "Compact<U64>",
   "Compact<Balance>", "U8", "call", "NULL"}

(* An extension occurs once, and those the decoder knows by name have a    *)
(* value.                                                                  *)
LayoutOK(s) ==
  /\ s \in Seq(Ext)
  /\ \A i \in DOMAIN s :
       /\ Plain(s[i].type)
       /\ s[i].identifier \in {Mortality, Nonce, Payment, AssetPayment, Verify} =>
            s[i].type # "NULL"
       /\ \A j \in DOMAIN s : s[i].identifier = s[j].identifier => i = j

(* Metadata x has a list, before version 16, or layouts of a catalog: the  *)
(* layout of t's version, if there is one, is that of t.                   *)
Unversioned(x) == x.layouts = <<>> /\ x.catalog = <<>> /\ ~x.versioned
LayoutsOK(x, t) ==
  /\ x.layouts \in Seq([version : Nat, indexes : Seq(Nat)]) /\ x.catalog \in Seq(Ext)
  /\ t.version \in 0..255
  /\ Unversioned(x) /\ t.version = 0 => x.signed = t.extensions
  /\ \A i, j \in DOMAIN x.layouts : x.layouts[i].version = x.layouts[j].version => i = j
  /\ \A i \in DOMAIN x.layouts : x.layouts[i].version = t.version =>
       LET at == x.layouts[i].indexes IN
       /\ Len(at) = Len(t.extensions)
       /\ \A k \in DOMAIN at :
            /\ at[k] < Len(x.catalog)
            /\ x.catalog[at[k] + 1].type # Unresolved =>
                 x.catalog[at[k] + 1] = t.extensions[k]

(* Metadata m fits the extrinsic t: what it says of t's calls and layouts, *)
(* if it says anything, is so.                                             *)
Fits(m, t) ==
  /\ m.version \in Nat /\ t.args \in Seq(STRING) /\ "NULL" \notin ToSet(t.args)
  /\ LayoutOK(t.extensions)
  /\ [account |-> t.signer, signature |-> t.signature] \notin {None, Disabled, Misread}
  /\ None \notin DOMAIN m.calls
  /\ t.call \in DOMAIN m.calls => m.calls[t.call] = [module |-> t.module, args |-> t.args]
  /\ m.version >= 14 => m.extrinsic # None /\ m.signedExtensions = <<>>
  /\ m.extrinsic # None => m.extrinsic.signed \in Seq(Ext)
  /\ m.signedExtensions \in Seq([name : STRING, additional : Seq(Ext)])
  /\ \A o \in ToSet(m.signedExtensions) : \A x \in ToSet(o.additional) :
       Plain(x.type) /\ x.type # "NULL"
  /\ t.form \in {"04", "05"} \/ (t.form = "84" /\ m.version < 14) => t.extensions = <<>>
  /\ t.form = "84" /\ m.version >= 14 =>
       /\ m.extrinsic.signed = t.extensions
       /\ m.extrinsic.identifiers = [i \in DOMAIN t.extensions |-> t.extensions[i].identifier]
  /\ t.form = "85" /\ m.extrinsic # None =>
       /\ m.extrinsic.signed = t.extensions
       /\ \A x \in ToSet(t.extensions) :
            /\ x.identifier = Nonce => x.type = "Compact<U64>"
            /\ x.identifier = Payment => x.type = "Compact<Balance>"
  /\ t.form = "45" /\ m.extrinsic # None =>
       LayoutsOK(m.extrinsic, t) /\ (Unversioned(m.extrinsic) <=> m.version < 16)

ASSUME ClientAssumption ==
  /\ \A t \in BuiltIn : Plain(t)
  /\ "Address" # Unresolved /\ Disabled # None /\ Payment \in SignedExts
  /\ \A c \in Client : Fits(c.meta, c.tx)

-----------------------------------------------------------------------------
(* How the runtime writes it: tx.extensions is its own layout, in order.   *)
Shown(id) ==
  CASE id = Mortality -> tx.era
    [] id = Nonce -> tx.nonce
    [] id = Payment -> tx.tip
    [] id = AssetPayment -> [tip |-> tx.tip, asset |-> "dot"]
    [] id = Verify -> IF tx.signer = None THEN Disabled
                      ELSE [account |-> tx.signer, signature |-> tx.signature]
    [] OTHER -> tx.value
WriteExtensions(s) ==
  FlattenSeq([i \in DOMAIN s |-> IF s[i].type = "NULL" THEN <<>>
                                 ELSE Token(s[i].type, Shown(s[i].identifier))])
Sign == Token(IF meta.version >= 14 /\ meta.hasSigner THEN "ExtrinsicSigner" ELSE meta.address,
              tx.signer) \o Token("ExtrinsicSignature", tx.signature)
Common == Token("EraExtrinsic", tx.era) \o Token("Compact<U64>", tx.nonce)

(* A signed extrinsic before version 14 has era, nonce, the tip if fees    *)
(* are paid, and what the client was told of the other extensions.         *)
WrittenPreamble ==
  CASE tx.form \in {"04", "05"} -> <<>>
    [] tx.form = "84" /\ meta.version < 14 ->
         Sign \o Common
           \o (IF Nil \/ Listed(Payment) THEN Token("Compact<Balance>", tx.tip) ELSE <<>>)
           \o FlattenSeq([i \in DOMAIN Additional |-> Token(Additional[i].type, tx.value)])
    [] tx.form = "84" /\ meta.version >= 14 -> Sign \o WriteExtensions(tx.extensions)
    [] tx.form = "85" ->
         Sign \o Token("U8", tx.version) \o Common
           \o WriteExtensions(Enabled(tx.extensions))
    [] tx.form = "45" -> Token("U8", tx.version) \o WriteExtensions(tx.extensions)
    [] OTHER -> <<>>
Body ==
  Token("version", tx.form) \o WrittenPreamble \o Token("call", tx.call)
    \o [i \in DOMAIN tx.args |-> [kind |-> Kind(tx.module, tx.args[i]), val |-> <<"arg", i>>]]

ClientInit ==
  /\ \E c \in Client : meta = c.meta /\ tx = c.tx
  /\ data = IF tx.prefixed THEN Prefixed(Body) ELSE Body
  /\ CodecInit

ClientNext == CodecNext /\ UNCHANGED tx

ClientSpec == ClientInit /\ [][ClientNext]_<<vars, tx>>

-----------------------------------------------------------------------------
TypeOK ==
  /\ stage \in {"length", "version", "fields", "call", "args", "decoded", "encoded", "astray",
                "panic"}
  /\ DOMAIN g = DOMAIN Blank
  /\ \A f \in ToSet(todo) : f.type # Unresolved
  /\ (out # <<>>) <=> stage = "encoded"

Done == stage \in {"decoded", "encoded"}
Identifiers(s) == [i \in DOMAIN s |-> s[i].identifier]
Has(id) ==
  \E i \in DOMAIN tx.extensions :
    tx.extensions[i].identifier = id /\ tx.extensions[i].type # "NULL"
Legacy == meta.version < 14
Signed == tx.form \in {"84", "85"}

(* The extensions the record should show, with their values.               *)
Expected ==
  CASE tx.form = "45" -> [id \in ToSet(Identifiers(tx.extensions)) |->
                            IF Has(id) THEN Shown(id) ELSE None]
    [] tx.form = "84" /\ Legacy -> [id \in {Additional[i].id : i \in DOMAIN Additional} |-> tx.value]
    [] tx.form = "84" /\ ~Legacy ->
         [id \in {j \in ToSet(Identifiers(tx.extensions)) \ {Mortality, Nonce, Payment} :
                    Has(j) /\ Shown(j) # None} |-> Shown(id)]
    [] tx.form = "85" -> [id \in ToSet(Identifiers(Enabled(tx.extensions))) \ {Nonce, Payment} |->
                            IF Has(id) THEN Shown(id) ELSE None]
    [] OTHER -> <<>>

(* Whether the extrinsic has a tip.                                        *)
Paid ==
  \/ Has(Payment) \/ (tx.form # "85" /\ Has(AssetPayment))
  \/ tx.form = "84" /\ Legacy /\ (Nil \/ Listed(Payment))

(* Whatever is decoded is what the runtime wrote: signer, signature, era,  *)
(* nonce, tip, every extension, the call and its arguments, with the hash  *)
(* of the extrinsic's bytes, also when the bytes came without their length *)
(* and when the metadata is of another runtime: that ends in a panic, and  *)
(* never in the fields of another layout.                                  *)
Decoded ==
  Done =>
    /\ g.call = tx.call /\ g.params = [i \in DOMAIN tx.args |-> <<"arg", i>>]
    /\ g.extensions = Expected
    /\ (Signed \/ (Has(Verify) /\ tx.signer # None)) =>
         g.signer = tx.signer /\ g.signature = tx.signature
    /\ (tx.form = "85" \/ (Signed /\ Legacy) \/ Has(Mortality)) => g.era = tx.era
    /\ (tx.form = "85" \/ (Signed /\ Legacy) \/ Has(Nonce)) => g.nonce = tx.nonce
    /\ Paid => g.tip = tx.tip
    /\ tx.form \in {"85", "45"} => g.version = tx.version
    /\ tx.form \in {"84", "85", "45"} => g.hash = Prefixed(Body)

(* An extrinsic the metadata describes is decoded to its end, whatever     *)
(* version of the extensions it is of.                                     *)
Describes(n) ==
  /\ ~Nil
  /\ IF meta.version < 16 THEN n = 0
     ELSE \E i \in DOMAIN meta.extrinsic.layouts :
            /\ meta.extrinsic.layouts[i].version = n
            /\ \A k \in ToSet(meta.extrinsic.layouts[i].indexes) :
                 meta.extrinsic.catalog[k + 1].type # Unresolved
Described ==
  /\ tx.call \in DOMAIN meta.calls
  /\ tx.form = "45" => Describes(tx.version)
  /\ ~Dangling(tx.form)
  /\ tx.form \in {"04", "05", "84", "85", "45"}
NoPanic == stage = "panic" => ~Described

(* Nothing that has a prefix, and no extrinsic of version 4, is ever       *)
(* mistaken for its own length, and a signed one of version 5 only if its  *)
(* signer does not begin with a zero, as the id of a MultiAddress does.    *)
OnlyV5Astray ==
  stage = "astray" =>
    /\ ~tx.prefixed /\ tx.form \notin {"04", "84"}
    /\ tx.form = "85" => Byte(Head(Sign)) # 0

(* The sizes this takes: a version byte, two bytes for a call, and a       *)
(* signature of 64 at least.                                               *)
Sizes ==
  /\ \A c \in Client :
       /\ Width([kind |-> "version", val |-> c.tx.form]) = 1
       /\ Width([kind |-> "call", val |-> c.tx.call]) = 2
       /\ c.tx.form \in {"84", "85"} =>
            Width([kind |-> "ExtrinsicSignature", val |-> c.tx.signature]) >= 64
  /\ \A v \in {<<"04", 4>>, <<"84", 132>>, <<"85", 133>>} :
       Byte([kind |-> "version", val |-> v[1]]) = v[2]

(* The bytes come back, with their length, from the decoded record.  A     *)
(* signed extrinsic of version 4 is written with era, nonce and tip first  *)
(* and without the fee paid in another asset, and an extension without a   *)
(* value is not written: there the runtime's layout must agree.            *)
Entry(id, type) == [identifier |-> id, type |-> type]
FixedHead ==
  <<Entry(Mortality, "EraExtrinsic"), Entry(Nonce, "Compact<U64>")>>
    \o (IF Listed(Payment) THEN <<Entry(Payment, "Compact<Balance>")>> ELSE <<>>)
FixedOrder ==
  LET shown == WithExtra(tx.extensions)
  IN /\ ~Legacy => Len(FixedHead) <= Len(shown) /\ SubSeq(shown, 1, Len(FixedHead)) = FixedHead
     /\ AssetPayment \notin ToSet(Identifiers(shown))
     /\ tx.value = None => ToSet(shown) \subseteq ToSet(FixedHead)
Faithful ==
  /\ \A i \in DOMAIN tx.args : Kind(tx.module, tx.args[i]) = Kind(NoModule, tx.args[i])
  /\ Signed => ~Nil /\ ((meta.version >= 14 /\ meta.hasSigner) \/ meta.address = "AccountId")
  /\ tx.form = "84" => FixedOrder /\ Additional = <<>>
ReEncoded ==
  out # <<>> /\ out.edit = "none" /\ Faithful => out.result = [ok |-> TRUE, bytes |-> Prefixed(Body)]

(* A record that lacks an argument, names no call or lacks an extension of *)
(* a general extrinsic is refused: bytes are never left out silently.      *)
Refused ==
  out # <<>> =>
    /\ out.edit \in {"call", "param"} => ~out.result.ok
    /\ tx.form = "45" /\ out.edit = "extension" /\ Has(out.id) => ~out.result.ok
=============================================================================
