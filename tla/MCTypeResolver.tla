---------------------------- MODULE MCTypeResolver -----------------------------
(* Instances of TypeResolver: all small registries of some shapes, and      *)
(* registries with the types the program treats on its own.                 *)
EXTENDS TypeBytes

T(def, path, of) == [def |-> def, path |-> path, of |-> of, params |-> of, len |-> "2",
                     variants |-> <<>>, text |-> ""]
Prim(n) == [T("primitive", <<>>, <<>>) EXCEPT !.text = n]
Struct(n, of) == T("composite", <<"m", n>>, of)
Tup(of) == T("tuple", <<>>, of)
Seq1(i) == T("sequence", <<>>, <<i>>)
Arr(i) == T("array", <<>>, <<i>>)
Opt(i) == T("variant", <<"Option">>, <<i>>)
Res(i, j) == T("variant", <<"Result">>, <<i, j>>)
EnumT(n, vs) == [T("variant", <<"m", n>>, <<>>) EXCEPT !.variants = vs]
V(n, i, of) == [name |-> n, index |-> i, of |-> of]
Wrapper(i) == T("composite", <<"traits", "WrapperOpaque">>, <<i>>)

(* The shapes a type that refers to types of r may have.                    *)
Shapes(n, r) ==
  UNION {{Struct(n, <<i>>), Seq1(i), Arr(i), Opt(i), Tup(<<0, i>>), Tup(<<i>>), Wrapper(i),
          EnumT(n, <<V("B", 2, <<i>>), V("A", 0, <<>>)>>)} : i \in r}
  \cup UNION {{Struct(n, <<i, j>>), Res(i, j), EnumT(n, <<V("A", 1, <<i, j>>)>>)} :
                i \in r, j \in r}
  \cup {EnumT(n, <<V("B", 3, <<>>), V("A", 1, <<>>)>>), Struct(n, <<>>), Tup(<<>>)}
FewShapes(n, r) ==
  UNION {{Struct(n, <<i>>), Seq1(i), Tup(<<i, 0>>), Struct(n, <<0, i>>),
          EnumT(n, <<V("A", 1, <<i>>)>>), Opt(i), Wrapper(i)} : i \in r}

(* A type has to have a size: what it holds without a vector or an enum of  *)
(* some form between must not be itself, an opaque wrapper's type included. *)
RECURSIVE Holds(_, _)
Holds(types, ids) ==
  LET more == ids \cup UNION {ToSet(types[i].of) :
                i \in {j \in ids : types[j].def \in {"composite", "tuple", "array"}}}
  IN IF more = ids THEN ids ELSE Holds(types, more)

(* And every cycle goes through a type with a path of its own.              *)
RECURSIVE Unnamed(_, _)
Unnamed(types, ids) ==
  LET more == ids \cup UNION {ToSet(types[i].of) : i \in {j \in ids : ~HasName(types[j])}}
  IN IF more = ids THEN ids ELSE Unnamed(types, more)

(* An opaque wrapper of a primitive is left to OpaqueSource.                *)
Sized(types) ==
  \A i \in DOMAIN types :
    /\ types[i].def # "variant" => i \notin Holds(types, ToSet(types[i].of))
    /\ ~HasName(types[i]) => i \notin Unnamed(types, ToSet(types[i].of))
    /\ IsOpaque(types[i]) => types[types[i].params[1]].def # "primitive"

Reg(ts) == [i \in 0..(Len(ts) - 1) |-> ts[i + 1]]
Metadata(types) == [prefix |-> <<>>, v14 |-> TRUE, portable |-> types]
Abi(p, types) == [prefix |-> <<p>>, v14 |-> FALSE, portable |-> types]

Small == {r \in {Reg(<<Prim("u8"), a, b>>) : a \in Shapes("A", {0, 1, 2}),
                                              b \in Shapes("B", {0, 1, 2})
                                                      \cup {Struct("A", <<0, 1>>)}} :
            Sized(r)}
Three == {r \in {Reg(<<Prim("u8"), a, b, c>>) : a \in FewShapes("A", {2, 3}),
                   b \in FewShapes("B", {0, 1, 3}), c \in FewShapes("A", {0, 1, 2})} :
            Sized(r)}

(* The types with a treatment of their own, met before and after their turn.*)
Account == T("composite", <<"sp_core", "crypto", "AccountId32">>, <<1>>)
Account20 == T("composite", <<"account", "AccountId20">>, <<1>>)
Extrinsic == T("composite", <<"sp_runtime", "UncheckedExtrinsic">>, <<3>>)
Special ==
  {Reg(<<Struct("Pair", <<2, 3>>), [Arr(3) EXCEPT !.len = "32"], Account, Prim("u8"), Tup(<<2, 3>>)>>),
   Reg(<<Account20, Arr(2), Prim("u8"), Struct("Pair", <<0, 2>>), Tup(<<0, 2>>)>>),
   Reg(<<T("composite", <<"primitive_types", "H256">>, <<1>>), Arr(2), Prim("u8"),
         EnumT("E", <<V("A", 0, <<0, 5>>)>>), T("bits", <<>>, <<>>),
         T("composite", <<"substrate_fixed", "FixedU64">>, <<4>>)>>),
   Reg(<<[Extrinsic EXCEPT !.params = <<2, 4>>], Prim("u8"), EnumT("Sig", <<V("Ed", 0, <<1>>)>>),
         Seq1(1), Struct("Address", <<3>>)>>),
   Reg(<<Prim("u8"), EnumT("RuntimeCall", <<V("Pallet", 0, <<2>>)>>),
         T("variant", <<"p", "pallet", "Call">>, <<>>),
         EnumT("RuntimeEvent", <<V("Pallet", 0, <<4>>)>>), T("variant", <<"p", "Event">>, <<>>),
         Struct("Task", <<1, 3>>), Wrapper(1)>>),
   Reg(<<Tup(<<1, 2>>), Tup(<<4, 4>>), Tup(<<3, 4>>), Tup(<<4, 4, 4>>), Prim("u8"),
         Tup(<<1, 1, 4>>), Tup(<<1, 3>>)>>),
   Reg(<<Prim("u8"), T("compact", <<>>, <<0>>), [Arr(0) EXCEPT !.len = "0"], Opt(2),
         Struct("Bounded", <<5>>), Seq1(6), Struct("Bounded", <<7>>), Arr(1)>>)}

(* A contract whose types have the paths of other types of the runtime.     *)
Contract == Reg(<<Prim("u8"), Struct("Pair", <<0, 0, 0>>), Seq1(1), Struct("Bounded", <<2, 1>>),
                  EnumT("E", <<V("Other", 0, <<3>>)>>), Tup(<<1, 2>>)>>)

(* The wrapper of opaque_test.go, WrapperOpaque<U32>.                        *)
OpaqueSource ==
  {<<Metadata(Reg(<<Prim("u8"), s, Wrapper(i)>>))>> : s \in FewShapes("A", {0}), i \in {0, 1}}

MCSource ==
  {<<Metadata(r)>> : r \in Small \cup Three}
  \cup {<<Metadata(r), Abi("pre", Contract), Abi("other", r)>> : r \in Special}
MCBase == {<<n>> : n \in {"u8", "NULL", "Bytes", "H256", "H160", "AccountId", "Call", "BitVec",
                          "SubstrateFixedU64"}}
=============================================================================
