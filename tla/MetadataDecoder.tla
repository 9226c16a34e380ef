---------------------------- MODULE MetadataDecoder ----------------------------
(***************************************************************************)
(* MetadataV6Decoder to MetadataV16Decoder: the pallets are read from the  *)
(* bytes one after the other by the layout of the version, indexed         *)
(* (MetadataIndex), then the rest of the metadata is read and the enum     *)
(* OriginCaller is registered from the pallets' indexes.                   *)
(*                                                                         *)
(* The portable types of version 14 and later come first in the bytes;     *)
(* reading and naming them is TypeResolver, here Portable is what came of  *)
(* it.                                                                     *)
(***************************************************************************)
EXTENDS MetadataIndex, SequencesExt

CONSTANTS
  ConvertType(_), Garbled,  \* see MetadataLayout
  Runtime,      \* version -> runtimes that describe themselves in it
  RawType,      \* a type's name -> a text ConvertType makes it of
  KnownOrigins, \* pallet name -> the type of its origin, where it has one
  Empty, Null   \* a position of OriginCaller no pallet has, and the type NULL

VARIABLES
  runtime,      \* the runtime whose metadata is decoded
  left,         \* the pallets the count still announces
  wire,         \* the tokens of the metadata
  offset,       \* ScaleBytes.Offset
  tail,         \* what follows the pallets, None until it is read
  apis,         \* the types of the runtime's interfaces
  legacy,       \* Extrinsic.SignedExtensions
  origins       \* the variants of OriginCaller, <<>> until it is registered

decoderVars == <<vars, runtime, left, wire, offset, tail, apis, legacy, origins>>

INSTANCE MetadataLayout
INSTANCE ExtensionLayout

-----------------------------------------------------------------------------
(* What a runtime writes.                                                  *)
Token(kind, x) == <<[kind |-> kind, val |-> x]>>
WriteText(x) == Token("text", x)
WriteType(x) == Token("text", RawType[x])
WriteId(x) == Token("id", x)
WriteList(W(_), s) == Token("count", Len(s)) \o FlattenSeq([i \in DOMAIN s |-> W(s[i])])
WriteOption(W(_), x) == IF x = None THEN Token("bool", FALSE) ELSE Token("bool", TRUE) \o W(x)
OrEmpty(x) == IF x = None THEN <<>> ELSE x
WriteNil(W(_), x) == WriteList(W, OrEmpty(x))
WriteDocs(s) == WriteNil(WriteText, s)
WriteTokens(kind, s) == WriteNil(LAMBDA x : Token(kind, x), s)

WriteDeprecation(d) ==
  Token("deprecation", d[1])
    \o (IF d[1] = "Deprecated" THEN WriteText(d[2]) \o WriteOption(WriteText, d[3]) ELSE <<>>)
WriteParameter(x) == WriteText(x.name) \o WriteId(x.type)

WriteItem(section, x) ==
  WriteText(x.name)
    \o (CASE section = "calls" ->
               WriteNil(LAMBDA a : WriteText(a.name) \o WriteType(a.type), x.args)
          [] section = "events" -> WriteNil(WriteText, x.args)
          [] OTHER -> <<>>)
    \o WriteDocs(x.docs)
WriteSection(v, section, x) ==
  IF v < 14 THEN WriteList(LAMBDA i : WriteItem(section, i), x)
  ELSE IF v < 16 THEN WriteId(x)
  ELSE WriteId(x.id)
         \o WriteNil(LAMBDA d : Token("u8", d.index) \o WriteDeprecation(d.info), x.deprecated)

WriteEntry(t) ==
  Token("storage", t[1])
    \o (CASE t[1] = "PlainType" -> WriteType(t[2])
          [] t[1] = "MapType" ->
               Token("hasher", t[2]) \o WriteType(t[3]) \o WriteType(t[4]) \o Token("bool", t[5])
          [] t[1] = "DoubleMapType" ->
               Token("hasher", t[2]) \o WriteType(t[3]) \o WriteType(t[4]) \o WriteType(t[5])
                 \o Token("hasher", t[6])
          [] t[1] = "NMap" ->
               WriteNil(WriteType, t[2]) \o WriteTokens("hasher", t[3]) \o WriteType(t[4]))
WriteEntry14(t) ==
  Token("storage", t[1])
    \o (IF t[1] = "PlainType" THEN WriteId(t[2])
        ELSE WriteTokens("hasher", t[2]) \o WriteId(t[3]) \o WriteId(t[4]))
WriteStorage(v, x) ==
  WriteText(x.name) \o Token("modifier", x.modifier)
    \o (IF v < 14 THEN WriteEntry(x.type) ELSE WriteEntry14(x.type))
    \o Token("bytes", x.fallback) \o WriteDocs(x.docs)
WriteConstant(v, x) ==
  WriteText(x.name) \o (IF v < 14 THEN WriteType(x.type) ELSE WriteId(x.type))
    \o Token("bytes", x.value) \o WriteDocs(x.docs)
With(v, W(_, _), x) ==
  IF v = 16 THEN W(v, x.item) \o WriteDeprecation(x.deprecation) ELSE W(v, x)

WritePallet(v, p) ==
  WriteText(p.name)
    \o (IF v = 6 THEN WriteText(p.prefix) ELSE <<>>)
    \o WriteOption(LAMBDA x : (IF v = 6 THEN <<>> ELSE WriteText(x.prefix))
                       \o WriteNil(LAMBDA i : With(v, WriteStorage, i), x.items), p.storage)
    \o WriteOption(LAMBDA x : WriteSection(v, "calls", x), p.calls)
    \o WriteOption(LAMBDA x : WriteSection(v, "events", x), p.events)
    \o WriteNil(LAMBDA i : With(v, WriteConstant, i), p.constants)
    \o (CASE v < 8 -> <<>>
          [] v \in 8..13 -> WriteNil(LAMBDA i : WriteItem("errors", i), p.errors)
          [] OTHER -> WriteOption(LAMBDA x : WriteSection(v, "errors", x), p.errors))
    \o (IF v < 16 THEN <<>>
        ELSE WriteNil(LAMBDA a : WriteParameter(a) \o WriteDocs(a.docs), p.associated)
          \o WriteNil(LAMBDA w : Token("bytes32", w.id) \o WriteText(w.name)
                        \o WriteNil(WriteParameter, w.inputs) \o WriteId(w.output)
                        \o WriteDocs(w.docs) \o WriteDeprecation(w.deprecation), p.views))
    \o (IF v < 12 THEN <<>> ELSE Token("u8", p.index))
    \o (IF v < 15 THEN <<>> ELSE WriteDocs(p.docs))
    \o (IF v < 16 THEN <<>> ELSE WriteDeprecation(p.deprecation))

WriteExtension(x) == WriteText(x.identifier) \o WriteId(x.type) \o WriteId(x.implicit)
WriteLayout(l) == Token("u8", l.version) \o WriteTokens("count", l.indexes)
WriteExtrinsic(v, x) ==
  IF v < 14 THEN Token("u8", x.version) \o WriteNil(WriteText, x.extensions)
  ELSE IF v = 14
  THEN WriteId(x.type) \o Token("u8", x.version) \o WriteNil(WriteExtension, x.extensions)
  ELSE IF v = 15
  THEN Token("u8", x.version) \o WriteId(x.address) \o WriteId(x.call) \o WriteId(x.signature)
         \o WriteId(x.extra) \o WriteNil(WriteExtension, x.extensions)
  ELSE Token("bytes", x.versions) \o WriteId(x.address) \o WriteId(x.call)
         \o WriteId(x.signature) \o WriteNil(WriteLayout, x.layouts)
         \o WriteNil(WriteExtension, x.catalog)

WriteMethod(v, x) ==
  WriteText(x.name) \o WriteNil(WriteParameter, x.inputs) \o WriteId(x.output)
    \o WriteDocs(x.docs) \o (IF v = 16 THEN WriteDeprecation(x.deprecation) ELSE <<>>)
WriteApi(v, x) ==
  WriteText(x.name) \o WriteNil(LAMBDA y : WriteMethod(v, y), x.methods) \o WriteDocs(x.docs)
    \o (IF v = 16 THEN Token("count", x.version) \o WriteDeprecation(x.deprecation) ELSE <<>>)

(* Version 14 ends with the type of the runtime, which is never read.      *)
WriteTail(v, t) ==
  (IF v < 12 THEN <<>> ELSE WriteExtrinsic(v, t.extrinsic))
    \o (IF v \in {14, 15} THEN WriteId(t.type) ELSE <<>>)
    \o (IF v < 15 THEN <<>>
        ELSE WriteNil(LAMBDA a : WriteApi(v, a), t.apis)
          \o WriteId(t.outerEnums.call) \o WriteId(t.outerEnums.event)
          \o WriteId(t.outerEnums.error)
          \o WriteNil(LAMBDA c : WriteText(c.key) \o WriteId(c.type)
                         \o Token("bytes", c.value), t.custom))

Encoded(v, r) ==
  WriteList(LAMBDA p : WritePallet(v, p), r.pallets) \o WriteTail(v, r.tail)

-----------------------------------------------------------------------------
(* What a runtime describes.  A record has these fields; a list is a       *)
(* sequence, or None where its Go slice stays nil when it is empty.        *)
IsRecord(x, names) == x = [n \in names |-> x[n]]
IsList(OK(_), s) ==
  s # None /\ s \in Seq({s[i] : i \in DOMAIN s}) /\ \A i \in DOMAIN s : OK(s[i])
IsNil(OK(_), s) == s # None => s # <<>> /\ IsList(OK, s)
IsAny(x) == TRUE
IsType(t) == t \in DOMAIN RawType

IsArgument(x) == IsRecord(x, {"name", "type"}) /\ IsType(x.type)
IsCall(x) ==
  IsRecord(x, {"name", "args", "docs"}) /\ IsNil(IsArgument, x.args) /\ IsNil(IsAny, x.docs)
IsEvent(x) ==
  IsRecord(x, {"name", "args", "docs"}) /\ IsNil(IsAny, x.args) /\ IsNil(IsAny, x.docs)
IsError(x) == IsRecord(x, {"name", "docs"}) /\ IsNil(IsAny, x.docs)

IsDeprecation(d) ==
  \/ d[1] # "Deprecated" /\ d = <<d[1]>>
  \/ d[1] = "Deprecated" /\ d = <<d[1], d[2], d[3]>>
IsDeprecated(x) == IsRecord(x, {"index", "info"}) /\ IsDeprecation(x.info)
IsEnum(x) == IsRecord(x, {"id", "deprecated"}) /\ IsNil(IsDeprecated, x.deprecated)
IsSection(v, OK(_), x) ==
  x # None => (v < 14 => IsList(OK, x)) /\ (v = 16 => IsEnum(x))

IsEntry(v, t) ==
  \/ /\ t[1] = "PlainType" /\ t = <<t[1], t[2]>> /\ (v < 14 => IsType(t[2]))
  \/ /\ v < 14 /\ t[1] = "MapType" /\ t = <<t[1], t[2], t[3], t[4], t[5]>>
     /\ IsType(t[3]) /\ IsType(t[4])
  \/ /\ v < 14 /\ t[1] = "DoubleMapType" /\ t = <<t[1], t[2], t[3], t[4], t[5], t[6]>>
     /\ IsType(t[3]) /\ IsType(t[4]) /\ IsType(t[5])
  \/ /\ v = 13 /\ t[1] = "NMap" /\ t = <<t[1], t[2], t[3], t[4]>>
     /\ IsNil(IsType, t[2]) /\ IsNil(IsAny, t[3]) /\ IsType(t[4])
  \/ v >= 14 /\ t[1] = "Map" /\ t = <<t[1], t[2], t[3], t[4]>> /\ IsNil(IsAny, t[2])
IsStorage(v, x) ==
  /\ IsRecord(x, {"name", "modifier", "type", "fallback", "docs"})
  /\ IsEntry(v, x.type) /\ IsNil(IsAny, x.docs)
IsConstant(v, x) ==
  /\ IsRecord(x, {"name", "type", "value", "docs"})
  /\ (v < 14 => IsType(x.type)) /\ IsNil(IsAny, x.docs)
IsWith(v, OK(_, _), x) ==
  IF v = 16
  THEN IsRecord(x, {"item", "deprecation"}) /\ OK(v, x.item) /\ IsDeprecation(x.deprecation)
  ELSE OK(v, x)

IsParameter(x) == IsRecord(x, {"name", "type"})
IsAssociated(x) == IsRecord(x, {"name", "type", "docs"}) /\ IsList(IsAny, x.docs)
IsView(x) ==
  /\ IsRecord(x, {"id", "name", "inputs", "output", "docs", "deprecation"})
  /\ IsNil(IsParameter, x.inputs) /\ IsList(IsAny, x.docs) /\ IsDeprecation(x.deprecation)

PalletFields(v) ==
  {"name", "storage", "calls", "events", "constants"}
    \cup (IF v = 6 THEN {"prefix"} ELSE {}) \cup (IF v >= 8 THEN {"errors"} ELSE {})
    \cup (IF v >= 12 THEN {"index"} ELSE {}) \cup (IF v >= 15 THEN {"docs"} ELSE {})
    \cup (IF v = 16 THEN {"associated", "views", "deprecation"} ELSE {})
IsPallet(v, p) ==
  /\ IsRecord(p, PalletFields(v))
  /\ p.storage # None =>
       /\ IsRecord(p.storage, IF v = 6 THEN {"items"} ELSE {"prefix", "items"})
       /\ IsNil(LAMBDA x : IsWith(v, IsStorage, x), p.storage.items)
  /\ IsSection(v, IsCall, p.calls) /\ IsSection(v, IsEvent, p.events)
  /\ IsNil(LAMBDA x : IsWith(v, IsConstant, x), p.constants)
  /\ v \in 8..13 => IsNil(IsError, p.errors)
  /\ v >= 14 => IsSection(v, IsAny, p.errors)
  /\ v = 15 => IsList(IsAny, p.docs)
  /\ v = 16 => /\ IsNil(IsAny, p.docs) /\ IsDeprecation(p.deprecation)
               /\ IsNil(IsAssociated, p.associated) /\ IsNil(IsView, p.views)

IsExtension(x) == IsRecord(x, {"identifier", "type", "implicit"})
IsLayout(x) == IsRecord(x, {"version", "indexes"}) /\ IsNil(IsAny, x.indexes)
IsExtrinsic(v, x) ==
  /\ v \in {12, 13} => IsRecord(x, {"version", "extensions"}) /\ IsNil(IsAny, x.extensions)
  /\ v = 14 => IsRecord(x, {"type", "version", "extensions"}) /\ IsNil(IsExtension, x.extensions)
  /\ v = 15 => /\ IsRecord(x, {"version", "address", "call", "signature", "extra", "extensions"})
               /\ IsNil(IsExtension, x.extensions)
  /\ v = 16 => /\ IsRecord(x, {"versions", "address", "call", "signature", "layouts", "catalog"})
               /\ IsNil(IsLayout, x.layouts)
               /\ IsNil(IsExtension, x.catalog)
IsMethod(v, x) ==
  /\ IsRecord(x, {"name", "inputs", "output", "docs"}
                    \cup IF v = 16 THEN {"deprecation"} ELSE {})
  /\ IF v = 16 THEN IsNil(IsParameter, x.inputs) /\ IsDeprecation(x.deprecation)
     ELSE IsList(IsParameter, x.inputs)
  /\ IsList(IsAny, x.docs)
IsApi(v, x) ==
  /\ IsRecord(x, {"name", "methods", "docs"}
                    \cup IF v = 16 THEN {"version", "deprecation"} ELSE {})
  /\ IF v = 16 THEN IsNil(LAMBDA m : IsMethod(v, m), x.methods) /\ IsDeprecation(x.deprecation)
     ELSE IsList(LAMBDA m : IsMethod(v, m), x.methods)
  /\ IsList(IsAny, x.docs)
IsTail(v, t) ==
  /\ v >= 12 => IsExtrinsic(v, t.extrinsic)
  /\ v >= 15 => /\ IsNil(LAMBDA a : IsApi(v, a), t.apis)
                /\ IsRecord(t.outerEnums, {"call", "event", "error"})
                /\ IsNil(LAMBDA c : IsRecord(c, {"key", "type", "value"}), t.custom)

ASSUME LayoutAssumption ==
  /\ Garbled \notin Nat
  /\ \A t \in DOMAIN RawType : ConvertType(RawType[t]) = t
  /\ \A v \in Version : \A r \in Runtime[v] :
       /\ IsList(LAMBDA p : IsPallet(v, p), r.pallets)
       /\ IsTail(v, r.tail)

-----------------------------------------------------------------------------
(* The extensions of the metadata, their types by name.                    *)
Named(s) ==
  IF s = None THEN <<>>
  ELSE [i \in DOMAIN s |-> [identifier |-> s[i].identifier, type |-> TypeString(s[i].type)]]

ExtrinsicMeta(v, t) ==
  IF v < 14 THEN [signed |-> <<>>, catalog |-> <<>>, layouts |-> <<>>, versioned |-> FALSE]
  ELSE IF v < 16
  THEN [signed |-> Named(t.extrinsic.extensions), catalog |-> <<>>, layouts |-> <<>>,
        versioned |-> FALSE]
  ELSE [signed |-> <<>>, catalog |-> Named(t.extrinsic.catalog),
        layouts |-> IF t.extrinsic.layouts = None THEN <<>>
                    ELSE [i \in DOMAIN t.extrinsic.layouts |->
                            [version |-> t.extrinsic.layouts[i].version,
                             indexes |-> OrEmpty(t.extrinsic.layouts[i].indexes)]],
        versioned |-> TRUE]

(* Extrinsic.SignedExtensions: version 16 takes the layout of version zero *)
(* from the catalog, if there is one.                                      *)
HasLayoutZero(meta) == \E i \in DOMAIN meta.layouts : meta.layouts[i].version = 0
SignedExtensions(v, t) ==
  LET meta == ExtrinsicMeta(v, t)
  IN IF v = 16 /\ ~HasLayoutZero(meta) THEN [ok |-> TRUE, extensions |-> <<>>]
     ELSE ExtensionsForVersion(meta, 0)

(* The types of the methods of version 15 and 16.                          *)
ApiTypes(v, t) ==
  IF v < 15 \/ t.apis = None THEN <<>>
  ELSE [i \in DOMAIN t.apis |->
          IF t.apis[i].methods = None THEN <<>>
          ELSE [j \in DOMAIN t.apis[i].methods |->
                  LET m == t.apis[i].methods[j]
                      inputs == OrEmpty(m.inputs)
                  IN [output |-> TypeString(m.output),
                      inputs |-> [k \in DOMAIN inputs |-> TypeString(inputs[k].type)]]]]

Origin(p) ==
  [name |-> p.name,
   type |-> IF p.name \in DOMAIN KnownOrigins THEN KnownOrigins[p.name] ELSE Null]
Gap(n) == [i \in 1..n |-> [name |-> Empty, type |-> Null]]
ByIndex(ps) ==
  LET order == CHOOSE f \in Bijection(DOMAIN ps, DOMAIN ps) :
                 \A i, j \in DOMAIN ps : i < j => ps[f[i]].index <= ps[f[j]].index
  IN [i \in DOMAIN ps |-> ps[order[i]]]

(* Mutant: the gaps between the pallets' indexes are not filled.           *)
OriginCallerBug(ps) == [i \in DOMAIN ps |-> Origin(ByIndex(ps)[i])]

(* registerOriginCaller: the variants by the pallets' indexes, positions   *)
(* without a pallet filled up.                                             *)
OriginCaller(ps) ==
  LET sorted == ByIndex(ps)
      names[n \in 0..Len(ps)] ==
        IF n = 0 THEN <<>>
        ELSE names[n - 1] \o Gap(sorted[n].index - Len(names[n - 1])) \o <<Origin(sorted[n])>>
  IN names[Len(ps)]

DecoderInit ==
  /\ Init
  /\ runtime \in Runtime[version]
  /\ wire = Encoded(version, runtime)
  /\ LET count == Take("count", 0) IN left = count.val /\ offset = count.end
  /\ tail = None /\ apis = <<>> /\ legacy = <<>> /\ origins = <<>>

(* One element of Vec<MetadataV..Module>.                                  *)
DecodeModule ==
  /\ stage = "read" /\ left > 0
  /\ LET r == ModuleLayout(version)[offset] IN
     ReadModule(r.val) /\ offset' = r.end /\ left' = left - 1
  /\ UNCHANGED <<runtime, wire, tail, apis, legacy, origins>>

EndModules ==
  /\ left = 0
  /\ StartIndex
  /\ UNCHANGED <<runtime, left, wire, offset, tail, apis, legacy, origins>>

Index ==
  /\ IndexModule \/ IndexPanic
  /\ UNCHANGED <<runtime, left, wire, offset, tail, apis, legacy, origins>>

DecodeTail ==
  /\ Finish
  /\ LET r == TailLayout(version)[offset]
         s == SignedExtensions(version, r.val)
     IN /\ stage' = IF s.ok THEN "done" ELSE "panic"
        /\ tail' = r.val
        /\ offset' = r.end
        /\ legacy' = s.extensions
        /\ apis' = IF s.ok THEN ApiTypes(version, r.val) ELSE <<>>
        /\ origins' = IF version >= 13 /\ s.ok THEN OriginCaller(pallets) ELSE <<>>
  /\ UNCHANGED <<runtime, left, wire>>

DecoderNext == DecodeModule \/ EndModules \/ Index \/ DecodeTail

-----------------------------------------------------------------------------
(* What a runtime's pallet is once it is read: the decoders of version 6,  *)
(* 7, 12 and 13 make nil of an empty list of calls or events, and version 6*)
(* keeps the last line of a storage item's documentation.                  *)
SeenSection(v, x) == IF v \in {6, 7, 12, 13} /\ x = <<>> THEN None ELSE x
LastDoc(x) == [x EXCEPT !.docs = IF @ = None THEN None ELSE <<@[Len(@)]>>]
Seen(v, p) ==
  [p EXCEPT !.calls = SeenSection(v, @), !.events = SeenSection(v, @),
     !.storage =
       IF v # 6 \/ @ = None \/ @.items = None THEN @
       ELSE [items |-> [i \in DOMAIN @.items |-> LastDoc(@.items[i])]]]

(* Pallet has every pallet a decoder may have read.                        *)
ASSUME SeenAssumption ==
  \A v \in Version : \A r \in Runtime[v] :
    \A k \in DOMAIN r.pallets : Seen(v, r.pallets[k]) \in Pallet[v]

(* The pallets and all that follows them are read as they were written, at *)
(* every version: no decoder of an item leaves or takes a token too many,  *)
(* in whatever combination optional sections are there or not.             *)
ReadBack ==
  /\ \A k \in DOMAIN pallets : pallets[k] = Seen(version, runtime.pallets[k])
  /\ tail # None => \A part \in DOMAIN tail : tail[part] = runtime.tail[part]

(* The byte the runtime itself puts first: before version 12 the position  *)
(* among the pallets that have the section, be it empty.                   *)
RuntimeNumber(k, s) ==
  IF version < 12
  THEN Cardinality({j \in 1..(k - 1) : runtime.pallets[j][s] # None})
  ELSE runtime.pallets[k].index

(* Decoded metadata finds every call and event under the bytes the runtime *)
(* dispatches it by, and finds no other item there.  Version 6 and 7 take  *)
(* an empty list for none: there it holds of the pallets up to the first   *)
(* such list.                                                              *)
DispatchedByRuntime ==
  stage = "done" =>
    \A k \in DOMAIN runtime.pallets, s \in Section :
      LET its == Items(version, runtime.pallets[k][s])
          afterEmpty == \E j \in 1..(k - 1) : runtime.pallets[j][s] = <<>>
      IN \/ version \in {6, 7} /\ afterEmpty
         \/ \A i \in DOMAIN its :
              LET l == Lookup(RuntimeNumber(k, s), its[i].index)
              IN l \in DOMAIN index[s] /\ index[s][l].module = runtime.pallets[k].name
                                       /\ index[s][l].item = its[i]

(* Every pallet's index selects an origin, its own, whatever order the     *)
(* metadata lists the pallets in and whatever indexes are unused; those    *)
(* select the empty origin.                                                *)
OriginSelected ==
  stage = "done" /\ version >= 13 =>
    /\ \A k \in DOMAIN pallets :
         LET i == pallets[k].index + 1
         IN i \in DOMAIN origins /\ origins[i] = Origin(pallets[k])
    /\ \A i \in DOMAIN origins :
         (\A k \in DOMAIN pallets : pallets[k].index # i - 1)
           => origins[i].name = Empty /\ i < Len(origins)
=============================================================================
