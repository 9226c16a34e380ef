------------------------------- MODULE TypeBytes -------------------------------
(***************************************************************************)
(* What TypeResolver promises: to decode by the name of a type is to decode*)
(* the type.  Both sides are spelled out as the forms their bytes have, as *)
(* deep as Depth layers; structs, tuples and newtypes have no bytes of     *)
(* their own.                                                              *)
(***************************************************************************)
EXTENDS TypeResolver

RECURSIVE Wire(_, _, _), NameWire(_, _), Reached(_, _)

Concat(f(_), s) == FlattenSeq([i \in DOMAIN s |-> f(s[i])])

(* The greatest index in use, -1 if there is none.                         *)
LastIndex(vs) == Max({v.index : v \in ToSet(vs)} \cup {-1})

(* The bytes of portable type id of source k.                              *)
Wire(k, id, d) ==
  LET types == source[k].portable
      t == types[id]
      sub(i) == Wire(k, i, d - 1)
      in(i) == Wire(k, i, d)
      layer(head, ids) == IF d = 0 THEN <<"...">> ELSE <<head>> \o Concat(sub, ids) \o <<">">>
      variant(i) ==
        LET hits == {v \in ToSet(t.variants) : v.index = i}
            v == CHOOSE x \in hits : TRUE
        IN IF hits = {} THEN <<"gap">> ELSE <<v.name>> \o Concat(sub, v.of)
  IN CASE Overridden(t) # <<>> -> Overridden(t)
       [] Overridden(t) = <<>> /\ t.def = "primitive" -> <<t.text>>
       [] Overridden(t) = <<>> /\ t.def = "composite" ->
            (CASE t.path # <<>> /\ t.path[1] = "primitive_types" -> <<LastOfPath(t)>>
               [] LastOfPath(t) = "AccountId32" -> <<"AccountId">>
               [] LastOfPath(t) = "AccountId20" -> <<"H160">>
               [] IsOpaque(t) -> layer("WrapperOpaque<", <<t.params[1]>>)
               [] OTHER -> Concat(in, t.of))
       [] t.def = "tuple" -> Concat(in, t.of)
       [] t.def = "array" ->
            IF t.len = "0" THEN <<>> ELSE <<"[">> \o in(t.of[1]) \o <<";", t.len, "]">>
       [] t.def = "sequence" -> layer("Vec<", t.of)
       [] t.def = "compact" -> layer("compact<", t.of)
       [] t.def = "bits" -> <<"BitVec">>
       [] t.def = "variant" ->
            CASE t.path[1] = "Option" -> layer("option<", t.params)
              [] t.path[1] = "Result" -> layer("Result<", t.params)
              [] IsCall(t) \/ LastOfPath(t) = "RuntimeCall" -> Call
              [] OTHER ->
                   IF d = 0 THEN <<"...">>
                   ELSE <<"enum<">> \o Concat(variant, [i \in 1..(1 + LastIndex(t.variants)) |-> i - 1])
                               \o <<">">>

-----------------------------------------------------------------------------
(* What opens a bracket, and what a head encloses.                         *)
Opens == AliasForms \cup {"WrapperOpaque<"}
Inner(n) == SubSeq(n, 2, Len(n) - 1)

(* Result splits its sub type at every comma and wants two parts.          *)
Parts(n) ==
  LET at == {i \in DOMAIN n : n[i] = ","}
      c == CHOOSE i \in at : TRUE
  IN IF Cardinality(at) # 1 THEN <<>> ELSE <<SubSeq(n, 1, c - 1), SubSeq(n, c + 1, Len(n))>>

(* The bytes a decoder of that name takes: what is registered under it, or *)
(* a generic type of the part in the brackets; "?" where there is neither. *)
NameWire(n, d) ==
  LET sub(x) == NameWire(x, d - 1)
      in(x) == NameWire(x, d)
      layer(head, parts) ==
        IF d = 0 THEN <<"...">>
        ELSE IF parts = <<>> THEN <<"?">>
        ELSE <<head>> \o Concat(sub, parts) \o <<">">>
      len == Len(n)
      entry(e) == IF e.name = "empty" THEN <<"gap">> ELSE <<e.name>> \o Concat(sub, e.of)
      value(vs, i) == IF \E j \in DOMAIN vs : vs[j].index = i
                      THEN <<(CHOOSE v \in ToSet(vs) : v.index = i).name>> ELSE <<"gap">>
  IN CASE n \in DOMAIN defs ->
            (LET of == defs[n].of
             IN CASE defs[n].type \in {"string", "struct"} -> Concat(in, of)
                  [] defs[n].type = "enum" ->
                       IF d = 0 THEN <<"...">> ELSE <<"enum<">> \o Concat(entry, of) \o <<">">>
                  [] defs[n].type = "values" ->
                       IF d = 0 THEN <<"...">>
                       ELSE <<"enum<">>
                              \o Concat(LAMBDA i : value(of, i - 1),
                                        [i \in 1..(1 + LastIndex(of)) |-> i])
                              \o <<">">>)
       [] n \notin DOMAIN defs /\ n = Null -> <<>>
       [] n \notin DOMAIN defs /\ n # Null /\ n \in Base -> n
       [] n \notin DOMAIN defs \cup Base /\ n[1] = "Result<" -> layer("Result<", Parts(Inner(n)))
       [] n \notin DOMAIN defs \cup Base /\ n[1] = "[" ->
            <<"[">> \o in(SubSeq(n, 2, len - 3)) \o SubSeq(n, len - 2, len)
       [] n \notin DOMAIN defs \cup Base /\ n[1] \in Opens \ {"Result<"} ->
            layer(n[1], <<Inner(n)>>)
       [] OTHER -> <<"?">>

-----------------------------------------------------------------------------
References(k, id) ==
  LET t == source[k].portable[id]
  IN CASE t.def = "variant" ->
            IF t.path[1] \in {"Option", "Result"} THEN ToSet(t.params)
            ELSE IF IsCall(t) \/ LastOfPath(t) = "RuntimeCall" THEN {}
            ELSE UNION {ToSet(v.of) : v \in ToSet(t.variants)}
       [] IsOpaque(t) -> {t.params[1]}
       [] t.def = "array" /\ t.len = "0" -> {}
       [] t.def \in {"composite", "tuple", "array", "sequence", "compact"}
            /\ ~IsOpaque(t) /\ ~(t.def = "array" /\ t.len = "0") -> ToSet(t.of)
       [] OTHER -> {}

(* The types met in those of ids, their own included.                      *)
Reached(k, ids) ==
  LET more == ids \cup UNION {References(k, i) : i \in ids}
  IN IF more = ids THEN ids ELSE Reached(k, more)

(* What a chain of newtypes ends in.                                       *)
RECURSIVE Bottom(_, _)
Bottom(k, id) ==
  LET t == source[k].portable[id]
  IN IF t.def = "composite" /\ Len(t.of) = 1 /\ ~IsOpaque(t) /\ t.of[1] # id
     THEN Bottom(k, t.of[1]) ELSE id

(* Composites whose name is never registered: an opaque wrapper and a      *)
(* newtype of one, account ids, and a newtype of an array of arrays.       *)
Nameless(k, id) ==
  LET t == source[k].portable[id]
      b == source[k].portable[Bottom(k, id)]
  IN t.def = "composite"
       /\ \/ IsOpaque(b)
          \/ LastOfPath(b) \in {"AccountId20", "AccountId32"} /\ b.path[1] # "sp_core"
          \/ b.def = "array" /\ b.len # "0"
               /\ source[k].portable[Bottom(k, b.of[1])].def = "array"

IsResult(k, id) ==
  source[k].portable[id].def = "variant" /\ source[k].portable[id].path[1] = "Result"

(* The known limits: a reference to a type without a registered name that  *)
(* comes before it in the order of ids, and a result within a result.      *)
Decodable(k, id) ==
  LET types == source[k].portable
      inside == Reached(k, References(k, id))
      all == Reached(k, {id})
  IN /\ \A i \in inside : Nameless(k, i) =>
          \A j \in DOMAIN types : i \in Reached(k, References(k, j)) => i < j
     /\ \A r \in all : IsResult(k, r) =>
          \A i \in Reached(k, References(k, r)) : ~IsResult(k, i)

TypeOK ==
  /\ turn \in DOMAIN source
  /\ pass \in {"primitive", "primitive_types", "sp_core", "rest", "done"}
  /\ \A k \in DOMAIN names :
       /\ DOMAIN names[k] \subseteq DOMAIN source[k].portable
       /\ (k < turn \/ pass = "done") => DOMAIN names[k] = DOMAIN source[k].portable
       /\ \A id \in DOMAIN names[k] : names[k][id] # <<>>

(* To decode by the name a type got is to decode the type: through cycles  *)
(* that are cut by a name, names of equal paths, gaps in the variants of an*)
(* enum, definitions that were there before and whatever is registered     *)
(* later.                                                                  *)
NamesMeanTypes ==
  \A k \in DOMAIN source : (k < turn \/ pass = "done") =>
    \A id \in DOMAIN source[k].portable :
      Decodable(k, id) => NameWire(names[k][id], Depth) = Wire(k, id, Depth)

(* An opaque wrapper confines the decoding of the type it wraps, and that  *)
(* type is still decoded as what it is: what the program's comments and    *)
(* tests say of WrapperOpaque.  It holds unless the type is a primitive one.*)
OpaqueMeansType ==
  pass = "done" =>
    \A id \in Ids : IsOpaque(portable[id]) /\ Decodable(turn, id) =>
      LET inner == portable[id].params[1]
      IN /\ NameWire(names[turn][id], Depth) = Wire(turn, id, Depth)
         /\ NameWire(names[turn][inner], Depth) = Wire(turn, inner, Depth)

(* Names of what an opaque wrapper holds: it is dealt with a second time,  *)
(* and may then name parts of it otherwise.                                *)
HeldByOpaque(n) ==
  \E i \in Ids : IsOpaque(portable[i]) /\ HasName(SiType(portable[i].params[1]))
                 /\ IsPrefix(source[turn].prefix \o SiType(portable[i].params[1]).path, n)

(* A name that is registered keeps its definition, whatever is registered  *)
(* after it, by the runtime or by contracts: only tuples of tuples may     *)
(* share a name.                                                           *)
DefinitionKept ==
  [][\A n \in DOMAIN defs :
       /\ n \in DOMAIN defs'
       /\ \/ defs'[n] = defs[n]
          \/ n[1] = "Tuple:" \/ HeldByOpaque(n)
          \/ n \in {<<"ExtrinsicSigner">>, <<"ExtrinsicSignature">>}]_vars
=============================================================================
