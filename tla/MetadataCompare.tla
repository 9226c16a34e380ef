---------------------------- MODULE MetadataCompare ----------------------------
(***************************************************************************)
(* MetadataTag.Compare (types/compare.go): what the modules of one metadata*)
(* have that those of an older one have not, or have otherwise.  A module  *)
(* is [name, calls, events, storage]: calls and events are sequences of    *)
(* [name, args], storage is one of [name, origin, value].                  *)
(***************************************************************************)
EXTENDS Sequences, SequencesExt

CONSTANT TypeStruct(_)   \* a type -> its description, from the one registry there is

Names(s) == {x.name : x \in ToSet(s)}
ByName(name, s) == s[CHOOSE k \in DOMAIN s :
                       s[k].name = name /\ \A j \in 1..(k - 1) : s[j].name # name]

(* Mutant: only the arguments both have are looked at.                     *)
ChangesBug(x, old) ==
  FlattenSeq([k \in DOMAIN x.args |->
    IF k \in DOMAIN old.args /\ TypeStruct(x.args[k]) # TypeStruct(old.args[k]) THEN <<k>> ELSE <<>>])

(* One entry if there are more or fewer arguments, else one for each that  *)
(* is another type.                                                        *)
Changes(x, old) ==
  IF Len(x.args) # Len(old.args) THEN <<0>>
  ELSE FlattenSeq([k \in DOMAIN x.args |->
         IF TypeStruct(x.args[k]) = TypeStruct(old.args[k]) THEN <<>> ELSE <<k>>])

(* Those of a list whose names the other has, and those whose it has not.  *)
Known(items, old) ==
  FlattenSeq([k \in DOMAIN items |-> IF items[k].name \in Names(old) THEN <<items[k]>> ELSE <<>>])
New(items, old) ==
  FlattenSeq([k \in DOMAIN items |-> IF items[k].name \in Names(old) THEN <<>> ELSE <<items[k]>>])

(* What is new in a list, and what has changed, once for each change.      *)
ChangesList(items, old) ==
  [new |-> New(items, old),
   changes |-> FlattenSeq([k \in DOMAIN items |->
                 IF items[k].name \notin Names(old) THEN <<>>
                 ELSE [i \in DOMAIN Changes(items[k], ByName(items[k].name, old)) |-> items[k].name]])]

(* StorageType.TypeValue knows no map of several keys.                     *)
TypeValue(item) == IF item.origin = "NMapType" THEN "" ELSE item.value
Valued(storage) == [k \in DOMAIN storage |-> [name |-> storage[k].name, args |-> <<TypeValue(storage[k])>>]]

Nothing == [new |-> <<>>, changes |-> <<>>]
ModuleChanges(m, old) ==
  [calls |-> ChangesList(m.calls, old.calls), events |-> ChangesList(m.events, old.events),
   storage |-> ChangesList(Valued(m.storage), Valued(old.storage))]

Compare(modules, dest) ==
  LET changed(m) == ModuleChanges(m, ByName(m.name, dest))
  IN [newModules |-> New(modules, dest),
      moduleChanges |-> [m \in {x \in ToSet(Known(modules, dest)) : \E f \in DOMAIN changed(x) : changed(x)[f] # Nothing}
                           |-> changed(m)]]
=============================================================================
