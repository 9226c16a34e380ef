-------------------------- MODULE MCCodecRegistry --------------------------
(***************************************************************************)
(* Small registries for CodecRegistry.  Goroutines, type strings and       *)
(* modules are strings, codecs are model values.                           *)
(***************************************************************************)
EXTENDS CodecRegistry

CONSTANTS u32, struct, vec, b1, b2, unit

MCType == {"u32", "struct", "vec", "a", "n", "vec<a>", "p::a", "(a)", "[a;2]",
           "Ov", "ov"}
MCKey == MCType \ {"Ov"}
MCLower == [t \in MCType |-> IF t = "Ov" THEN "ov" ELSE t]
MCBody == {u32, struct, vec, b1, b2, unit}
MCHead == [t \in {"vec<a>"} |-> "vec"]
MCArg == [t \in {"vec<a>"} |-> "a"]
MCLast == [t \in {"p::a"} |-> "a"]
MCLowerModule == [m \in {"none", "mod", "Mixed", "mixed"} |->
                    IF m = "Mixed" THEN "mixed" ELSE m]
MCOverrides == [m \in {"mod", "Mixed"} |-> [t \in {"a"} |-> "Ov"]]
(* b2 is a type that contains itself where "a" is registered as b2. *)
MCParts == [x \in Answer |->
              CASE x.factory = vec /\ x.sub # Missing -> <<x.sub>>
                [] x.factory = b1 -> <<"u32">>
                [] x.factory = b2 -> <<"vec<a>">>
                [] x.factory \in {"vec<a>", "(a)", "[a;2]"} -> <<"a">>
                [] OTHER -> <<>>]
MCNesting == {b1, b2, struct, "(a)"}
MCBase == [k \in MCKey |->
             CASE k = "u32" -> u32 [] k = "struct" -> struct
               [] k = "vec" -> vec [] OTHER -> Missing]
MCBooted == [MCBase EXCEPT !["ov"] = u32]

Blank == [name |-> "a", ranged |-> FALSE, lo |-> 0, hi |-> 0, v14 |-> FALSE,
          spec |-> 0, kind |-> "body", to |-> "a", body |-> b1]
Def(n, b) == [Blank EXCEPT !.name = n, !.body = b]
Alias(n, t) == [Blank EXCEPT !.name = n, !.kind = "alias", !.to = t]
Ranged(e, lo, hi) == [e EXCEPT !.ranged = TRUE, !.lo = lo, !.hi = hi]
V14(e, s) == [e EXCEPT !.v14 = TRUE, !.spec = s]

Req(t, m, s) == [type |-> t, module |-> m, spec |-> s]
MCNoRequest == Req("u32", "none", 0)
OriginCallerEntries == {Def("n", b1)}
BaseBulk == {Def("struct", struct), Alias("ov", "u32")}

(* Readers and two registrars: a plain and a versioned definition of the   *)
(* type the lookups depend on, an alias of it, OriginCaller.               *)
CacheOps == [p \in Proc |-> IF p = "r1" THEN 2 ELSE 1]
CacheBulks == {{Def("a", b2), Ranged(Def("a", b1), 1, 1)},
               {Alias("n", "vec<a>"), Def("vec<a>", b2)}}
CacheLookups == {Req("a", "none", 1), Req("p::a", "none", 1),
                 Req("vec<a>", "none", 0), Req("(a)", "none", 0),
                 Req("n", "none", 0)}

(* A Clean beside one that looks up and registers, in any order, up to     *)
(* three times: a type that contains itself, for two specs, a new type and *)
(* the type of a base entry, any of them twice, an alias explained by its  *)
(* bulk; lookups through an override and through the last path segment.    *)
CleanOps == [p \in Proc |-> IF p = "g1" THEN 3 ELSE 1]
CleanBulks == {{V14(Def("a", b2), 1)}, {V14(Def("a", b2), 2)},
               {V14(Alias("n", "vec<a>"), 1)}, {Def("u32", b1)},
               {Alias("[a;2]", "p::a"), Def("p::a", b1)}}
CleanLookups == {Req("p::a", "none", 1), Req("a", "mod", 0)}

(* One registrar: a type registered by the metadata of specs 1 and 2, V14  *)
(* aliases, and bulks whose aliases the bulk itself explains.              *)
HistoryOps == [p \in Proc |-> IF p = "g1" THEN 3 ELSE 1]
ExplainedBulks == {{Alias("[a;2]", "p::a"), Ranged(Alias("vec", "p::a"), 1, 1),
                    Def("p::a", b1)},
                   {Alias("vec<a>", "(a)"), Alias("(a)", "u32")}}
HistoryBulks == {{V14(Def("a", b1), 1)}, {V14(Def("a", b2), 2)},
                 {V14(Def("ov", b2), 0)}, {V14(Alias("n", "u32"), 1)},
                 {V14(Alias("n", "vec<a>"), 2)}} \cup ExplainedBulks
HistoryLookups == {Req("a", "none", 1), Req("a", "none", 2)}

(* A newtype of a struct that changes in spec 2. *)
AliasBulks == {{V14(Def("a", b1), 1)}, {V14(Def("a", b2), 2)},
               {V14(Alias("n", "a"), 1)}, {V14(Alias("n", "a"), 2)}}

(* What HistoryProofs asks of the callers is so here, where there is one.  *)
ASSUME MCOrderly == OneRegistrar => OrderlyHistory
=============================================================================
