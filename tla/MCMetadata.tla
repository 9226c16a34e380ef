----------------------------- MODULE MCMetadata ------------------------------
(* Instances of MetadataDecoder and EventReader: three pallets whose        *)
(* sections are there, empty or missing, at every version.                  *)
EXTENDS MetadataEvents

(* Types the way runtimes write them, and what ConvertType makes of them.   *)
MCRawType == [t \in {"AccountId", "Bytes"} |->
                IF t = "AccountId" THEN "T::AccountId" ELSE "Vec<u8>"]
MCConvertType(x) ==
  CASE x = "T::AccountId" -> "AccountId" [] x = "Vec<u8>" -> "Bytes" [] OTHER -> x

(* Ids: two plain types, a pair of them, three enums and one type without a *)
(* name; id 9 is not in the registry.                                       *)
Variant(n, i, fs) == [name |-> n, index |-> i, fields |-> fs]
Def(n, vs, t) == [name |-> n, variants |-> vs, tuple |-> t]
MCPortable ==
  (0 :> Def("u8", None, None)) @@ (1 :> Def("AccountId", None, None)) @@
  (2 :> Def("Tuple:u8AccountId", None, <<0, 1>>)) @@
  (3 :> Def("call", <<Variant("transfer", 3, <<0, 1>>), Variant("burn", 0, <<>>)>>, None)) @@
  (4 :> Def("event", <<Variant("Transfer", 1, <<1>>), Variant("Burn", 17, <<2>>),
                    Variant("Old", 2, <<9>>)>>, None)) @@
  (5 :> Def("error", <<Variant("Low", 0, <<2>>)>>, None)) @@
  (6 :> Def("empty", <<>>, None)) @@ (7 :> Def("", None, None))

Doc2 == <<"one line", "another line">>
MCCall(n) == [name |-> n, args |-> <<[name |-> "to", type |-> "AccountId"],
                                     [name |-> "data", type |-> "Bytes"]>>, docs |-> Doc2]
Listed(s) == IF s = "calls" THEN <<MCCall("transfer"), [MCCall("burn") EXCEPT !.args = None]>>
             ELSE <<[name |-> "Transfer", args |-> <<"AccountId", "Bytes">>, docs |-> Doc2]>>
Deprecated == <<"Deprecated", "note", "1.0">>
NotDeprecated == <<"NotDeprecated">>
Enum(v, id) ==
  IF v < 16 THEN id
  ELSE [id |-> id, deprecated |->
          <<[index |-> 3, info |-> Deprecated], [index |-> 0, info |-> <<"Deprecated", "note", None>>]>>]

Full(v, s) == IF v < 14 THEN Listed(s) ELSE Enum(v, IF s = "calls" THEN 3 ELSE 4)

(* The forms a section takes: nothing, an empty list, a full one.           *)
Sections(v, s) ==
  {None} \cup IF v < 14 THEN {<<>>, Full(v, s)} ELSE {Enum(v, 6), Full(v, s)}

Wrap(v, item) == IF v = 16 THEN [item |-> item, deprecation |-> Deprecated] ELSE item
Entries(v) ==
  IF v >= 14 THEN {<<"PlainType", 0>>, <<"Map", <<"Twox128", "Blake2_128">>, 2, 1>>,
                   <<"Map", <<"Twox128">>, 2, 0>>, <<"Map", <<"Identity">>, 1, 0>>}
  ELSE {<<"PlainType", "Bytes">>, <<"MapType", "Twox128", "AccountId", "Bytes", TRUE>>,
        <<"DoubleMapType", "Twox128", "AccountId", "Bytes", "AccountId", "Identity">>}
       \cup IF v < 13 THEN {}
            ELSE {<<"NMap", <<"AccountId", "Bytes">>, <<"Twox128", "Identity">>, "Bytes">>}
StorageOf(v) ==
  LET items == [i \in DOMAIN SetToSeq(Entries(v)) |->
                  Wrap(v, [name |-> "Item", modifier |-> "Default",
                           type |-> SetToSeq(Entries(v))[i], fallback |-> "00",
                           docs |-> Doc2])]
  IN IF v = 6 THEN [items |-> items] ELSE [prefix |-> "Prefix", items |-> items]

Pal(v, n, i, calls, events, storage) ==
  [name |-> n, storage |-> storage, calls |-> calls, events |-> events,
   constants |-> <<Wrap(v, [name |-> "Limit", type |-> IF v < 14 THEN "Bytes" ELSE 0,
                            value |-> "2a", docs |-> Doc2])>>]
  @@ (IF v = 6 THEN [prefix |-> "Prefix"] ELSE <<>>)
  @@ (IF v < 8 THEN <<>>
      ELSE [errors |-> IF v < 14 THEN <<[name |-> "Low", docs |-> Doc2]>> ELSE Enum(v, 5)])
  @@ (IF v < 12 THEN <<>> ELSE [index |-> i])
  @@ (IF v < 15 THEN <<>> ELSE [docs |-> Doc2])
  @@ (IF v < 16 THEN <<>>
      ELSE [associated |-> <<[name |-> "Hash", type |-> 1, docs |-> Doc2]>>,
            views |-> <<[id |-> "32 bytes", name |-> "balance", output |-> 0, docs |-> Doc2,
                         inputs |-> <<[name |-> "who", type |-> 1]>>,
                         deprecation |-> NotDeprecated]>>,
            deprecation |-> <<"DeprecatedWithoutNote">>])

Ext(n, t) == [identifier |-> n, type |-> t, implicit |-> 0]
TailOf(v, layouts) ==
  (CASE v < 12 -> <<>>
     [] v \in {12, 13} -> [extrinsic |-> [version |-> 4, extensions |-> <<"CheckNonce">>]]
     [] v = 14 -> [extrinsic |-> [type |-> 2, version |-> 4,
                                  extensions |-> <<Ext("CheckNonce", 0), Ext("Tip", 1)>>],
                   type |-> 7]
     [] v = 15 -> [extrinsic |-> [version |-> 4, address |-> 1, call |-> 3, signature |-> 0,
                                  extra |-> 2, extensions |-> <<Ext("CheckNonce", 0)>>],
                   type |-> 7]
     [] v = 16 -> [extrinsic |-> [versions |-> "0405", address |-> 1, call |-> 3,
                                  signature |-> 0, layouts |-> layouts,
                                  catalog |-> <<Ext("CheckNonce", 0), Ext("Tip", 1),
                                                Ext("Old", 9)>>]])
  @@ (IF v < 15 THEN <<>>
      ELSE [apis |-> <<[name |-> "Core", docs |-> Doc2,
                        methods |-> <<[name |-> "version", output |-> 0, docs |-> Doc2,
                                       inputs |-> <<[name |-> "at", type |-> 1]>>]
                                      @@ IF v = 16 THEN [deprecation |-> Deprecated]
                                         ELSE <<>> >>]
                       @@ IF v = 16 THEN [version |-> 2, deprecation |-> NotDeprecated]
                          ELSE <<>> >>,
            outerEnums |-> [call |-> 3, event |-> 4, error |-> 5],
            custom |-> <<[key |-> "k", type |-> 0, value |-> "00"]>>])

(* Layouts of version zero and one, one that names the third extension      *)
(* (its type is not registered) and one that names a fourth.                *)
Layouts(v) ==
  IF v < 16 THEN {None}
  ELSE {None} \cup {<<[version |-> 1, indexes |-> <<2, 3>>], [version |-> 0, indexes |-> s]>> :
                      s \in {None, <<1, 0>>, <<0, 2>>, <<3>>}}

Indexes(v) == IF v < 12 THEN {<<0, 0, 0>>} ELSE {<<0, 1, 2>>, <<17, 1, 3>>}

Council(v, i, c, e) == Pal(v, "Council", i, c, e, None)
Balances(v, i) == Pal(v, "Balances", i, Full(v, "calls"), Full(v, "events"), None)

MCRuntime ==
  [v \in 6..16 |->
     {[pallets |-> <<>>, tail |-> TailOf(v, l)] : l \in Layouts(v)} \cup
     {[pallets |-> <<Pal(v, "System", x[1], c1, e1, StorageOf(v)), Council(v, x[2], c2, e2),
                     Balances(v, x[3])>>,
       tail |-> TailOf(v, None)] :
        x \in Indexes(v), c1 \in Sections(v, "calls"), e1 \in Sections(v, "events"),
        c2 \in Sections(v, "calls"), e2 \in {None, Full(v, "events")}} \cup
     IF v < 14 THEN {}
     ELSE {[pallets |-> <<[Pal(v, "System", 0, None, None, None) EXCEPT ![f[1]] = f[2]]>>,
            tail |-> TailOf(v, None)] :
             f \in {<<"calls", Enum(v, 0)>>, <<"errors", Enum(v, 9)>>,
                    <<"constants", <<Wrap(v, [name |-> "Limit", type |-> 7, value |-> "2a",
                                              docs |-> Doc2])>> >>}}]

MCPallet == [v \in 6..16 |-> {Seen(v, p) : p \in UNION {ToSet(r.pallets) : r \in MCRuntime[v]}}]
MCKnownOrigins == [n \in {"Council", "System"} |-> n]

(* Only the balances pallet gives AccountId a meaning of its own.           *)
MCModuleType(m, t) == IF m = "Balances" /\ t = "AccountId" THEN "Holder" ELSE t

Event(k, i, n) ==
  [pallet |-> k, item |-> i, salt |-> n, phase |-> n % 2, extrinsic |-> n,
   topics |-> IF n = 1 THEN <<>> ELSE <<"topic">>]

(* Blocks of up to three events, where the first pallet emits some too.     *)
MCBlock ==
  [v \in 6..16 |-> [r \in MCRuntime[v] |->
     IF Len(r.pallets) < 3 THEN {<<>>}
     ELSE IF Items(v, r.pallets[1].events) = <<>> THEN {<<Event(3, 1, 0), Event(3, 1, 1)>>}
     ELSE {<<>>, <<Event(3, 1, 0), Event(1, 1, 1)>>, <<Event(1, 1, 1), Event(3, 1, 0)>>}
          \cup IF v < 14 THEN {}
               ELSE {<<Event(3, 1, 0), Event(1, 3, 1), Event(1, 1, 1)>>, <<Event(3, 2, 2)>>}]]
=============================================================================
