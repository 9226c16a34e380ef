---------------------------- MODULE MetadataLayout ----------------------------
(***************************************************************************)
(* The layouts of runtime metadata, version 6 to 16: for every decoder of  *)
(* metadata.go, v13.go, v14.go, v15.go and v16.go the fields its Process   *)
(* passes to ProcessAndUpdateData, in the order it passes them, under the  *)
(* names of the Go fields it stores them in.                               *)
(*                                                                         *)
(* The bytes are tokens [kind, val]: a leaf that finds a token of another  *)
(* kind than its own reads Garbled, as misread bytes do in the program.    *)
(* Texts, ids and numbers are opaque values.  A reader is a function of the*)
(* cursor: what is decoded there, and where the cursor is then.            *)
(***************************************************************************)
EXTENDS Integers, Sequences

CONSTANTS
  ConvertType(_),  \* convert.ConvertType on the texts that name types
  None,            \* a nil slice, pointer or map
  Garbled          \* what a reader of another kind of token makes of one

VARIABLE wire      \* ScaleBytes.Data

-----------------------------------------------------------------------------
(* The next token, if it is of that kind.                                  *)
Take(kind, offset) ==
  LET written == IF kind = "type" THEN "text" ELSE kind
      ok == offset < Len(wire) /\ wire[offset + 1].kind = written
      val == wire[offset + 1].val
  IN [val |-> IF ~ok THEN Garbled ELSE IF kind = "type" THEN ConvertType(val) ELSE val,
      end |-> IF offset < Len(wire) THEN offset + 1 ELSE offset]

(* Readers one after the other.                                            *)
ReadAll(readers, offset) ==
  LET upto[n \in 0..Len(readers)] ==
        IF n = 0 THEN [val |-> <<>>, end |-> offset]
        ELSE LET before == upto[n - 1]
                 r == readers[n][before.end]
             IN [val |-> Append(before.val, r.val), end |-> r.end]
  IN upto[Len(readers)]

(* A list keeps its elements; a slice that is only declared stays nil until*)
(* something is appended; version 6 keeps the last line of documentation.  *)
Kept(keep, s) ==
  IF keep = "empty" THEN s
  ELSE IF s = <<>> THEN None
  ELSE IF keep = "last" THEN <<s[Len(s)]>> ELSE s
Listing(of, keep) ==
  [offset \in Nat |->
     LET n == Take("count", offset)
         all == ReadAll([i \in 1..(IF n.val = Garbled THEN 0 ELSE n.val) |-> of], n.end)
     IN [val |-> Kept(keep, all.val), end |-> all.end]]

Leaf(kind) == [offset \in Nat |-> Take(kind, offset)]
List(of) == Listing(of, "empty")
Many(of) == Listing(of, "nil")
LastOf(of) == Listing(of, "last")
If(of) ==
  [offset \in Nat |->
     LET b == Take("bool", offset)
     IN IF b.val = TRUE THEN of[b.end] ELSE [val |-> None, end |-> b.end]]
Case(kind, of) ==
  [offset \in Nat |->
     LET tag == Take(kind, offset)
         body == ReadAll(IF tag.val \in DOMAIN of THEN of[tag.val] ELSE <<>>, tag.end)
     IN [val |-> <<tag.val>> \o body.val, end |-> body.end]]
Fields(of) ==
  [offset \in Nat |->
     LET all == ReadAll([i \in DOMAIN of |-> of[i][2]], offset)
     IN [val |-> [n \in {of[i][1] : i \in DOMAIN of} |->
                    all.val[CHOOSE i \in DOMAIN of : of[i][1] = n]],
         end |-> all.end]]

Text == Leaf("text")
TypeText == Leaf("type")   \* a text that is passed to ConvertType
Id == Leaf("id")
U8 == Leaf("u8")
Docs == Many(Text)

-----------------------------------------------------------------------------
(* Version 6 to 13: pallets describe their calls and events themselves.    *)
Argument == Fields(<< <<"name", Text>>, <<"type", TypeText>> >>)
CallItem == Fields(<< <<"name", Text>>, <<"args", Many(Argument)>>, <<"docs", Docs>> >>)
EventItem == Fields(<< <<"name", Text>>, <<"args", Many(Text)>>, <<"docs", Docs>> >>)
ErrorItem == Fields(<< <<"name", Text>>, <<"docs", Docs>> >>)
Constant6 == Fields(<< <<"name", Text>>, <<"type", TypeText>>, <<"value", Leaf("bytes")>>,
                       <<"docs", Docs>> >>)

(* Mutant: a map has no mark that it is linked.                            *)
Entry6Bug == [PlainType |-> <<TypeText>>, MapType |-> <<Leaf("hasher"), TypeText, TypeText>>,
              DoubleMapType |-> <<Leaf("hasher"), TypeText, TypeText, TypeText,
                                  Leaf("hasher")>>]

(* The three forms of a storage entry, and the fourth version 13 added.    *)
Entry6 == [PlainType |-> <<TypeText>>,
           MapType |-> <<Leaf("hasher"), TypeText, TypeText, Leaf("bool")>>,
           DoubleMapType |-> <<Leaf("hasher"), TypeText, TypeText, TypeText, Leaf("hasher")>>]
Entry13 ==
  [tag \in DOMAIN Entry6 \cup {"NMap"} |->
     IF tag = "NMap" THEN <<Many(TypeText), Many(Leaf("hasher")), TypeText>>
     ELSE Entry6[tag]]

StorageItem(entry, docs) ==
  Fields(<< <<"name", Text>>, <<"modifier", Leaf("modifier")>>, <<"type", entry>>,
            <<"fallback", Leaf("bytes")>>, <<"docs", docs>> >>)
StorageItem6 == StorageItem(Case("storage", Entry6), LastOf(Text))
StorageItem7 == StorageItem(Case("storage", Entry6), Docs)
StorageItem13 == StorageItem(Case("storage", Entry13), Docs)
Storage(item) == Fields(<< <<"prefix", Text>>, <<"items", Many(item)>> >>)

Items6 == Fields(<< <<"items", Many(StorageItem6)>> >>)

Module6 ==
  << <<"name", Text>>, <<"prefix", Text>>, <<"storage", If(Items6)>>,
     <<"calls", If(Many(CallItem))>>, <<"events", If(Many(EventItem))>>,
     <<"constants", Many(Constant6)>> >>
Module7 ==
  << <<"name", Text>>, <<"storage", If(Storage(StorageItem7))>>,
     <<"calls", If(Many(CallItem))>>, <<"events", If(Many(EventItem))>>,
     <<"constants", Many(Constant6)>> >>

(* Mutant: an empty list of calls is nil in version 8 to 11 too.           *)
Module8Bug ==
  << <<"name", Text>>, <<"storage", If(Storage(StorageItem7))>>,
     <<"calls", If(Many(CallItem))>>, <<"events", If(Many(EventItem))>>,
     <<"constants", Many(Constant6)>>, <<"errors", Many(ErrorItem)>> >>

Module8 ==
  << <<"name", Text>>, <<"storage", If(Storage(StorageItem7))>>,
     <<"calls", If(List(CallItem))>>, <<"events", If(List(EventItem))>>,
     <<"constants", Many(Constant6)>>, <<"errors", Many(ErrorItem)>> >>
Module12 ==
  << <<"name", Text>>, <<"storage", If(Storage(StorageItem7))>>,
     <<"calls", If(Many(CallItem))>>, <<"events", If(Many(EventItem))>>,
     <<"constants", Many(Constant6)>>, <<"errors", Many(ErrorItem)>>, <<"index", U8>> >>
Module13 ==
  << <<"name", Text>>, <<"storage", If(Storage(StorageItem13))>>,
     <<"calls", If(Many(CallItem))>>, <<"events", If(Many(EventItem))>>,
     <<"constants", Many(Constant6)>>, <<"errors", Many(ErrorItem)>>, <<"index", U8>> >>

-----------------------------------------------------------------------------
(* Version 14 to 16: pallets name types of the portable registry.          *)
Entry14 == [PlainType |-> <<Id>>, Map |-> <<Many(Leaf("hasher")), Id, Id>>]
StorageItem14 == StorageItem(Case("storage", Entry14), Docs)
Constant14 == Fields(<< <<"name", Text>>, <<"type", Id>>, <<"value", Leaf("bytes")>>,
                        <<"docs", Docs>> >>)
Module14 ==
  << <<"name", Text>>, <<"storage", If(Storage(StorageItem14))>>, <<"calls", If(Id)>>,
     <<"events", If(Id)>>, <<"constants", Many(Constant14)>>, <<"errors", If(Id)>>,
     <<"index", U8>> >>
Module15 ==
  << <<"name", Text>>, <<"storage", If(Storage(StorageItem14))>>, <<"calls", If(Id)>>,
     <<"events", If(Id)>>, <<"constants", Many(Constant14)>>, <<"errors", If(Id)>>,
     <<"index", U8>>, <<"docs", List(Text)>> >>

(* Version 16 adds to every item whether it is deprecated, and since when: *)
(* for enums one entry for each deprecated variant, under its index.       *)
OptionText == If(Text)
Deprecation == Case("deprecation", [Deprecated |-> <<Text, OptionText>>])
VariantDeprecation == Fields(<< <<"index", U8>>, <<"info", Deprecation>> >>)
Enum16 == Fields(<< <<"id", Id>>, <<"deprecated", Many(VariantDeprecation)>> >>)
With16(item) == Fields(<< <<"item", item>>, <<"deprecation", Deprecation>> >>)
Parameter == Fields(<< <<"name", Text>>, <<"type", Id>> >>)
Associated == Fields(<< <<"name", Text>>, <<"type", Id>>, <<"docs", List(Text)>> >>)
View == Fields(<< <<"id", Leaf("bytes32")>>, <<"name", Text>>, <<"inputs", Many(Parameter)>>,
                  <<"output", Id>>, <<"docs", List(Text)>>, <<"deprecation", Deprecation>> >>)
Module16 ==
  << <<"name", Text>>, <<"storage", If(Storage(With16(StorageItem14)))>>,
     <<"calls", If(Enum16)>>, <<"events", If(Enum16)>>,
     <<"constants", Many(With16(Constant14))>>, <<"errors", If(Enum16)>>,
     <<"associated", Many(Associated)>>, <<"views", Many(View)>>, <<"index", U8>>,
     <<"docs", Docs>>, <<"deprecation", Deprecation>> >>

ModuleLayout(version) ==
  Fields(CASE version = 6 -> Module6
           [] version = 7 -> Module7
           [] version \in 8..11 -> Module8
           [] version = 12 -> Module12
           [] version = 13 -> Module13
           [] version = 14 -> Module14
           [] version = 15 -> Module15
           [] version = 16 -> Module16)

(* What follows the pallets: how extrinsics are built, and from version 15 *)
(* the runtime's interfaces, its outermost enums and its custom values.    *)
Extension == Fields(<< <<"identifier", Text>>, <<"type", Id>>, <<"implicit", Id>> >>)
Extrinsic12 == << <<"version", U8>>, <<"extensions", Many(Text)>> >>
Extrinsic14 == << <<"type", Id>>, <<"version", U8>>, <<"extensions", Many(Extension)>> >>
Extrinsic15 ==
  << <<"version", U8>>, <<"address", Id>>, <<"call", Id>>, <<"signature", Id>>,
     <<"extra", Id>>, <<"extensions", Many(Extension)>> >>
Layout16 == Fields(<< <<"version", U8>>, <<"indexes", Many(Leaf("count"))>> >>)
Extrinsic16 ==
  << <<"versions", Leaf("bytes")>>, <<"address", Id>>, <<"call", Id>>, <<"signature", Id>>,
     <<"layouts", Many(Layout16)>>, <<"catalog", Many(Extension)>> >>

Method15 == << <<"name", Text>>, <<"inputs", List(Parameter)>>, <<"output", Id>>,
               <<"docs", List(Text)>> >>
Api15 == Fields(<< <<"name", Text>>, <<"methods", List(Fields(Method15))>>,
                   <<"docs", List(Text)>> >>)
Method16 ==
  << <<"name", Text>>, <<"inputs", Many(Parameter)>>, <<"output", Id>>,
     <<"docs", List(Text)>>, <<"deprecation", Deprecation>> >>
Api16 ==
  Fields(<< <<"name", Text>>, <<"methods", Many(Fields(Method16))>>, <<"docs", List(Text)>>,
            <<"version", Leaf("count")>>, <<"deprecation", Deprecation>> >>)
OuterEnums == Fields(<< <<"call", Id>>, <<"event", Id>>, <<"error", Id>> >>)
CustomValue == Fields(<< <<"key", Text>>, <<"type", Id>>, <<"value", Leaf("bytes")>> >>)
Custom == Many(CustomValue)

TailLayout(version) ==
  Fields(CASE version < 12 -> <<>>
           [] version \in {12, 13} -> << <<"extrinsic", Fields(Extrinsic12)>> >>
           [] version = 14 -> << <<"extrinsic", Fields(Extrinsic14)>> >>
           [] version = 15 ->
                << <<"extrinsic", Fields(Extrinsic15)>>, <<"type", Id>>,
                   <<"apis", Many(Api15)>>, <<"outerEnums", OuterEnums>>,
                   <<"custom", Custom>> >>
           [] version = 16 ->
                << <<"extrinsic", Fields(Extrinsic16)>>, <<"apis", Many(Api16)>>,
                   <<"outerEnums", OuterEnums>>, <<"custom", Custom>> >>)
=============================================================================
