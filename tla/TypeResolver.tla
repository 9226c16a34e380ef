------------------------------ MODULE TypeResolver ------------------------------
(***************************************************************************)
(* ScaleInfo.ProcessSiType: the portable types of a runtime's metadata or  *)
(* of a contract's ABI, which refer to each other by id, get names, and a  *)
(* definition is registered under every name decoders will ask for.        *)
(*                                                                         *)
(* Types may refer to themselves. A composite or an enum that is met inside*)
(* another type is therefore not expanded there: its name is handed out and*)
(* its definition is expected to be registered when its own turn comes.    *)
(*                                                                         *)
(* A name is a sequence of texts, which the program has concatenated:      *)
(* <<"Vec<", "u8", ">">>, <<"a", "A">> for the path a::A.                  *)
(***************************************************************************)
EXTENDS Integers, Sequences, FiniteSets, SequencesExt

CONSTANTS
  Source,   \* what is registered in a row: sequences of [prefix, v14, portable]
  Spec,     \* the spec versions a decoder may be given, 0 for none
  Base,     \* names that are registered from the start
  Depth     \* bound: layers of vectors, options and enums that are compared

VARIABLES
  source,   \* the chosen sequence
  spec,     \* ScaleDecoder.Spec
  turn,     \* which source is registered
  pass,     \* where ProcessSiType is: "primitive", "primitive_types", "sp_core",
            \* "rest" or "done"
  names,    \* turn -> RegisteredSiType, id -> name
  defs      \* name -> what is registered under it

vars == <<source, spec, turn, pass, names, defs>>

portable == source[turn].portable
Ids == DOMAIN portable

(* id2Portable[id]: an id that is not there reads as an empty type.        *)
SiType(id) == IF id \in Ids THEN portable[id]
              ELSE [path |-> <<>>, def |-> "none", of |-> <<>>]

Null == <<"NULL">>
Call == <<"Call">>
LastOfPath(t) == IF t.path = <<>> THEN "" ELSE t.path[Len(t.path)]
IsOpaque(t) == t.def = "composite" /\ LastOfPath(t) \in {"WrapperOpaque", "WrapperKeepOpaque"}
IsCall(t) == LastOfPath(t) \in {"Call", "Event"}

-----------------------------------------------------------------------------
(* Names.                                                                  *)
HasName(t) ==
  \/ t.def = "composite"
  \/ t.def = "variant" /\ t.path[1] \notin {"Option", "Result"} /\ ~IsCall(t)

(* DuplicateName: counted before any type is dealt with.                   *)
Duplicated(t) == Cardinality({i \in Ids : HasName(portable[i]) /\ portable[i].path = t.path}) > 1

Suffix == <<"@0", "@1", "@2", "@3", "@4", "@5", "@6", "@7">>

(* Mutant: the types of a contract have no prefix.                         *)
NameSiTypeBug(id) ==
  LET t == SiType(id)
  IN IF ~HasName(t) THEN <<>>
     ELSE t.path \o (IF Duplicated(t) THEN <<Suffix[id + 1]>> ELSE <<>>)

NameSiType(id) ==
  LET t == SiType(id)
  IN IF ~HasName(t) THEN <<>>
     ELSE source[turn].prefix \o t.path
            \o (IF Duplicated(t) THEN <<Suffix[id + 1]>> ELSE <<>>)

(* overriderTypesName                                                      *)
Overridden(t) ==
  IF t.def = "composite" /\ t.path = <<"substrate_fixed", "FixedU64">>
  THEN <<"SubstrateFixedU64">>
  ELSE IF t.def = "composite" /\ t.path = <<"substrate_fixed", "FixedI128">>
  THEN <<"SubstrateFixedI128">> ELSE <<>>

-----------------------------------------------------------------------------
(* RegCustomTypes for one name.  A type of metadata keeps its definition,  *)
(* unless it has another one at a spec version of its own; an alias of what*)
(* is not registered, and is no form it knows, is not registered either.   *)
Convert(n) == IF n = <<"Vec<", "u8", ">">> THEN <<"Bytes">> ELSE n
NestedArray(n) == Head(n) = "[" /\ Cardinality({i \in DOMAIN n : n[i] = ";"}) > 1
AliasForms == {"Vec<", "option<", "compact<", "Result<"}
CanAlias(ds, n) ==
  \/ n \in DOMAIN ds \cup Base
  \/ Head(n) \in AliasForms
  \/ Head(n) = "[" /\ ~NestedArray(n)

RegCustomTypes(ds, key, def, v14) ==
  IF \/ v14 /\ key \in DOMAIN ds /\ (spec = 0 \/ ds[key] = def)
     \/ def.type = "string" /\ ~CanAlias(ds, Convert(def.of[1]))
  THEN ds
  ELSE [n \in DOMAIN ds \cup {key} |-> IF n = key THEN def ELSE ds[n]]

Alias(n) == [type |-> "string", of |-> <<n>>]
StructOf(ns) == [type |-> "struct", of |-> ns]

-----------------------------------------------------------------------------
(* Dealing with a type: st holds RegisteredSiType and the registry while   *)
(* the recursion goes on, name is what is handed out.                      *)
Named(st, id, name) ==
  [st |-> [st EXCEPT !.names = [i \in DOMAIN @ \cup {id} |-> IF i = id THEN name ELSE @[i]]],
   name |-> name]
Register(st, key, def) ==
  [st EXCEPT !.defs = RegCustomTypes(@, key, def, source[turn].v14)]

(* Mutant: the gap before a variant is taken from its index alone.         *)
GapBeforeBug(vs, i) == vs[i].index

(* The positions no variant has, before the i-th by index.                 *)
GapBefore(vs, i) ==
  IF i = 1 THEN vs[i].index ELSE vs[i].index - vs[i - 1].index - 1

RECURSIVE DealOneSiType(_, _, _)

Sub(st, id, recursive) ==
  IF id \in DOMAIN st.names THEN [st |-> st, name |-> st.names[id]]
  ELSE DealOneSiType(st, id, recursive)

(* The fields of a type, which are met inside it.                          *)
SubAll(st, ids) ==
  FoldLeft(LAMBDA r, id : LET s == Sub(r.st, id, TRUE)
                          IN [st |-> s.st, names |-> Append(r.names, s.name)],
           [st |-> st, names |-> <<>>], ids)

NewtypeSub(st, id, sub) ==
  IF sub = id /\ sub \notin DOMAIN st.names THEN [st |-> st, name |-> Null]
  ELSE Sub(st, sub, FALSE)

(* sp_runtime::UncheckedExtrinsic also tells what signs extrinsics.        *)
Signing(st, t) ==
  IF ~(t.path # <<>> /\ t.path[1] = "sp_runtime" /\ LastOfPath(t) = "UncheckedExtrinsic")
  THEN st
  ELSE LET sig == DealOneSiType(st, t.params[1], FALSE)
           with == [sig.st EXCEPT !.defs =
                      RegCustomTypes(@, <<"ExtrinsicSignature">>, Alias(sig.name), FALSE)]
           addr == DealOneSiType(with, t.params[2], FALSE)
       IN [addr.st EXCEPT !.defs =
             RegCustomTypes(@, <<"ExtrinsicSigner">>, Alias(addr.name), FALSE)]

ExpandComposite(st0, id, t) ==
  LET st == Signing(st0, t)
  IN IF IsOpaque(t)
     THEN LET s == DealOneSiType(st, t.params[1], FALSE)
          IN Named(s.st, id, <<"WrapperOpaque<">> \o s.name \o <<">">>)
     ELSE IF Len(t.of) = 1 /\ LastOfPath(t) = "AccountId32" THEN Named(st, id, <<"AccountId">>)
     ELSE IF Len(t.of) = 1 /\ LastOfPath(t) = "AccountId20" THEN Named(st, id, <<"H160">>)
     ELSE IF Len(t.of) = 1
     THEN LET s == NewtypeSub(st, id, t.of[1])
              n == Named(s.st, id, s.name)
          IN [n EXCEPT !.st = Register(@, NameSiType(id), Alias(s.name))]
     ELSE LET s == SubAll(st, t.of)
          IN Named(Register(s.st, NameSiType(id), StructOf(s.names)), id, NameSiType(id))

ExpandTuple(st, id, t) ==
  IF t.of = <<>> THEN Named(st, id, Null)
  ELSE LET s == SubAll(st, t.of)
           name == <<"Tuple:">> \o FlattenSeq(s.names)
       IN Named(Register(s.st, name, StructOf(s.names)), id, name)

(* Array, sequence, compact and option have one part, a result has two.    *)
ExpandGeneric(st, id, head, ids, close) ==
  LET s == SubAll(st, ids)
      parts == IF Len(ids) = 1 THEN s.names[1] ELSE s.names[1] \o <<",">> \o s.names[2]
  IN Named(s.st, id, <<head>> \o parts \o close)

(* The variants by their indexes; an enum without any values becomes a list*)
(* of names and indexes, any other has an entry for each position.         *)
ExpandEnum(st, id, t) ==
  LET vs == SortSeq(t.variants, LAMBDA a, b : a.index < b.index)
      r == FoldLeft(LAMBDA acc, v :
                      LET s == SubAll(acc.st, v.of)
                      IN [st |-> s.st, of |-> Append(acc.of, s.names)],
                    [st |-> st, of |-> <<>>], vs)
      entry(i) == [j \in 1..GapBefore(vs, i) |-> [name |-> "empty", of |-> <<>>]]
                    \o <<[name |-> vs[i].name, of |-> r.of[i]]>>
      def == IF \A i \in DOMAIN vs : vs[i].of = <<>>
             THEN [type |-> "values", of |-> [i \in DOMAIN vs |->
                                                [name |-> vs[i].name, index |-> vs[i].index]]]
             ELSE [type |-> "enum", of |-> FlattenSeq([i \in DOMAIN vs |-> entry(i)])]
  IN Named(Register(r.st, NameSiType(id), def), id, NameSiType(id))

DealOneSiType(st, id, recursive) ==
  LET t == SiType(id)
  IN CASE Overridden(t) # <<>> -> Named(st, id, Overridden(t))
       [] Overridden(t) = <<>> /\ recursive /\ HasName(t) -> [st |-> st, name |-> NameSiType(id)]
       [] OTHER ->
            CASE t.def = "composite" -> ExpandComposite(st, id, t)
              [] t.def = "array" ->
                   IF t.len = "0" THEN Named(st, id, Null)
                   ELSE ExpandGeneric(st, id, "[", t.of, <<";", t.len, "]">>)
              [] t.def = "sequence" -> ExpandGeneric(st, id, "Vec<", t.of, <<">">>)
              [] t.def = "tuple" -> ExpandTuple(st, id, t)
              [] t.def = "compact" -> ExpandGeneric(st, id, "compact<", t.of, <<">">>)
              [] t.def = "bits" -> Named(st, id, <<"BitVec">>)
              [] t.def = "variant" /\ t.path[1] = "Option" ->
                   ExpandGeneric(st, id, "option<", t.params, <<">">>)
              [] t.def = "variant" /\ t.path[1] = "Result" ->
                   ExpandGeneric(st, id, "Result<", t.params, <<">">>)
              [] t.def = "variant" /\ IsCall(t) -> Named(st, id, Call)
              [] t.def = "variant" /\ LastOfPath(t) = "RuntimeCall" ->
                   LET n == Named(st, id, Call)
                   IN [n EXCEPT !.st.defs =
                         RegCustomTypes(@, NameSiType(id), Alias(Call), FALSE)]
              [] t.def = "variant" /\ t.path[1] \notin {"Option", "Result"} /\ ~IsCall(t)
                   /\ LastOfPath(t) # "RuntimeCall" -> ExpandEnum(st, id, t)
              [] OTHER -> Named(st, id, Null)

-----------------------------------------------------------------------------
Init ==
  /\ source \in Source
  /\ spec \in Spec
  /\ turn = 1 /\ pass = "primitive"
  /\ names = [k \in DOMAIN source |-> <<>>]
  /\ defs = <<>>

State == [names |-> names[turn], defs |-> defs]
Becomes(st) == names' = [names EXCEPT ![turn] = st.names] /\ defs' = st.defs

(* dealPrimitiveSiType, expandPrimitiveTypes: both also register the alias *)
(* primitive_types:<name>.                                                 *)
DealBase(st, id, text) ==
  Register(Named(st, id, <<text>>).st, <<"primitive_types", text>>, Alias(<<text>>))

Within(id, p) == portable[id].path # <<>> /\ portable[id].path[1] = p

(* Which types a pass deals with, and how.                                 *)
Included(id) ==
  IF pass = "primitive" THEN portable[id].def = "primitive" ELSE Within(id, pass)
DealInPass(st, id) ==
  CASE pass = "primitive" -> DealBase(st, id, portable[id].text)
    [] pass = "primitive_types" -> DealBase(st, id, LastOfPath(portable[id]))
    [] pass = "sp_core" -> DealOneSiType(st, id, FALSE).st

(* One of the loops that go through all types, in the order of their ids.  *)
Loop ==
  FoldLeft(LAMBDA st, id : IF Included(id) THEN DealInPass(st, id) ELSE st,
           State, [i \in 1..Cardinality(Ids) |-> i - 1])

Primitives ==
  /\ pass = "primitive" /\ pass' = "primitive_types"
  /\ Becomes(Loop)
  /\ UNCHANGED <<source, spec, turn>>

PrimitiveTypes ==
  /\ pass = "primitive_types" /\ pass' = "sp_core"
  /\ Becomes(Loop)
  /\ UNCHANGED <<source, spec, turn>>

SpCore ==
  /\ pass = "sp_core" /\ pass' = "rest"
  /\ Becomes(Loop)
  /\ UNCHANGED <<source, spec, turn>>

(* Mutant: the last type is left out.                                      *)
LeftBug == {id \in Ids \ DOMAIN names[turn] : id + 1 \in Ids}

Left == Ids \ DOMAIN names[turn]

Rest ==
  /\ pass = "rest" /\ Left # {}
  /\ LET next == CHOOSE i \in Left : \A j \in Left : i <= j
     IN Becomes(DealOneSiType(State, next, FALSE).st)
  /\ UNCHANGED <<source, spec, turn, pass>>

(* The next source is registered by a decoder of its own.                  *)
Done ==
  /\ pass = "rest" /\ Left = {}
  /\ IF turn < Len(source) THEN turn' = turn + 1 /\ pass' = "primitive"
     ELSE pass' = "done" /\ UNCHANGED turn
  /\ UNCHANGED <<source, spec, names, defs>>

Next == Primitives \/ PrimitiveTypes \/ SpCore \/ Rest \/ Done

ResolverSpec == Init /\ [][Next]_vars
=============================================================================
