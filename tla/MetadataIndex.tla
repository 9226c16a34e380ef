---------------------------- MODULE MetadataIndex -----------------------------
(***************************************************************************)
(* The second half of the metadata decoders: once the pallets are read,    *)
(* Process goes through them in order, resolves the types they name and    *)
(* enters every call and every event in CallIndex and EventIndex under the *)
(* two bytes by which extrinsics and event records refer to it.            *)
(*                                                                         *)
(* Before version 12 the first byte is counted: pallets that have calls are*)
(* numbered on their own, pallets that have events too.  From version 12   *)
(* it is the index the pallet states.  The second byte is the position in  *)
(* the list, from version 14 the index the variant states.                 *)
(***************************************************************************)
EXTENDS Integers, Sequences, FiniteSets

CONSTANTS
  Version,    \* the versions of metadata, 6 to 16
  Pallet,     \* version -> the pallets its decoder may have read
  Portable,   \* id -> [name, variants, tuple]: RegisteredSiType and Def
  None,       \* nil
  Unresolved, \* the type string of an id that is not registered
  MaxPallet   \* bound: pallets of one runtime

VARIABLES
  version,
  pallets,    \* the pallets read so far
  stage,      \* "read", "index", "tail", "done" or "panic"
  at,         \* how many of the pallets are indexed
  number,     \* section -> callModuleIndex, eventModuleIndex
  index,      \* section -> CallIndex, EventIndex
  modules     \* what becomes of the indexed pallets, result.Metadata.Modules

vars == <<version, pallets, stage, at, number, index, modules>>

Byte == 0..255
Section == {"calls", "events"}

TypeString(id) == IF id \in DOMAIN Portable THEN Portable[id].name ELSE Unresolved
Variants(id) == IF id \in DOMAIN Portable THEN Portable[id].variants ELSE None
Tuple(id) == IF id \in DOMAIN Portable THEN Portable[id].tuple ELSE None

(* Where a section is the id of an enum; version 16 keeps it together with *)
(* the deprecations of the variants.                                       *)
EnumId(v, x) == IF v = 16 THEN x.id ELSE x
Deprecations(v, x) ==
  IF v = 16 /\ x.deprecated # None THEN x.deprecated ELSE <<>>

(* A map is filled from the list: the last entry for an index stays.       *)
DeprecationOf(v, x, i) ==
  LET hits == {k \in DOMAIN Deprecations(v, x) : Deprecations(v, x)[k].index = i}
  IN IF hits = {} THEN None
     ELSE Deprecations(v, x)[CHOOSE k \in hits : \A j \in hits : j <= k].info

(* The calls, events or errors of a section, each with its second byte.    *)
Items(v, x) ==
  IF x = None THEN <<>>
  ELSE IF v < 14
  THEN [i \in DOMAIN x |-> [name |-> x[i].name, index |-> i - 1,
                            args |-> IF x[i].args = None THEN <<>> ELSE x[i].args,
                            deprecation |-> None]]
  ELSE LET id == EnumId(v, x)
           vs == IF Variants(id) = None THEN <<>> ELSE Variants(id)
       IN [i \in DOMAIN vs |->
             [name |-> vs[i].name, index |-> vs[i].index,
              args |-> [j \in DOMAIN vs[i].fields |-> TypeString(vs[i].fields[j])],
              deprecation |-> DeprecationOf(v, x, vs[i].index)]]

ASSUME MetadataAssumption == Version \subseteq 6..16 /\ MaxPallet \in 0..256

(* Every runtime gives the variants of an enum, and its pallets, one byte  *)
(* each.                                                                   *)
PalletOK(v, p) ==
  /\ v >= 12 => p.index \in Byte
  /\ \A s \in Section : \A i, j \in DOMAIN Items(v, p[s]) :
       /\ Items(v, p[s])[i].index \in Byte
       /\ Items(v, p[s])[i].index = Items(v, p[s])[j].index => i = j

-----------------------------------------------------------------------------
(* Mutant: not padded to two digits.                                       *)
HexBug(b) == IF b < 16 THEN <<b>> ELSE <<b \div 16, b % 16>>

(* xstrings.RightJustify(utiles.IntToHex(b), 2, "0") of a byte             *)
Hex(b) == <<b \div 16, b % 16>>
Lookup(m, i) == Hex(m) \o Hex(i)

(* The type names of a storage item's keys, one for each hasher; version 14*)
(* keeps a tuple together when there are fewer hashers than elements.      *)
Keys(v, hashers, id) ==
  LET t == Tuple(id)
      n == IF hashers = None THEN 0 ELSE Len(hashers)
  IN IF t # None /\ ~ (v = 14 /\ n < Len(t))
     THEN [i \in DOMAIN t |-> TypeString(t[i])]
     ELSE <<TypeString(id)>>

StorageItems(v, p) ==
  IF p.storage = None \/ p.storage.items = None THEN <<>>
  ELSE [i \in DOMAIN p.storage.items |->
          IF v = 16 THEN p.storage.items[i].item ELSE p.storage.items[i]]
ConstantItems(v, p) ==
  IF p.constants = None THEN <<>>
  ELSE [i \in DOMAIN p.constants |->
          IF v = 16 THEN p.constants[i].item ELSE p.constants[i]]

StorageType(v, type) ==
  CASE v >= 14 /\ type[1] = "PlainType" -> <<"PlainType", TypeString(type[2])>>
    [] v >= 14 /\ type[1] = "Map" ->
         <<"Map", type[2], Keys(v, type[2], type[3]), TypeString(type[4])>>
    [] OTHER -> type

(* From version 14: a section whose type is no enum, a constant whose type *)
(* has no name and a key whose type has none panic.                        *)
Resolvable(v, p) ==
  v >= 14 =>
    /\ \A s \in Section \cup {"errors"} :
         p[s] # None => Variants(EnumId(v, p[s])) # None
    /\ \A i \in DOMAIN ConstantItems(v, p) :
         TypeString(ConstantItems(v, p)[i].type) # Unresolved
    /\ \A i \in DOMAIN StorageItems(v, p) :
         LET type == StorageItems(v, p)[i].type
         IN type[1] = "Map" /\ Tuple(type[3]) = None => TypeString(type[3]) # Unresolved

Resolved(v, p) ==
  [name |-> p.name,
   calls |-> Items(v, p.calls), events |-> Items(v, p.events),
   errors |-> IF v < 8 THEN <<>>
              ELSE IF v < 14 THEN p.errors ELSE Items(v, p.errors),
   storage |-> [i \in DOMAIN StorageItems(v, p) |->
                  StorageType(v, StorageItems(v, p)[i].type)]]

-----------------------------------------------------------------------------
(* Mutant: pallets without calls are numbered too.                         *)
StepBug(v, p, s) == IF v < 12 THEN 1 ELSE 0

(* Mutant: the number is counted up in the loop over the items.            *)
StepPerItemBug(v, p, s) == IF v < 12 THEN Len(Items(v, p[s])) ELSE 0

(* Before version 12 a pallet that has the section uses up a number.       *)
Step(v, p, s) == IF v < 12 /\ p[s] # None THEN 1 ELSE 0

(* Mutant: events are entered under the number of the calls.               *)
FirstByteBug(v, p, s) == IF v < 12 THEN number["calls"] ELSE p.index

FirstByte(v, p, s) == IF v < 12 THEN number[s] ELSE p.index

(* The index with the items of a pallet's section entered.                 *)
Entered(v, p, s) ==
  LET its == Items(v, p[s])
      lookup(i) == Lookup(FirstByte(v, p, s), its[i].index)
      new == {lookup(i) : i \in DOMAIN its}
  IN [l \in DOMAIN index[s] \cup new |->
        IF l \in new
        THEN [module |-> p.name, item |-> its[CHOOSE i \in DOMAIN its : lookup(i) = l]]
        ELSE index[s][l]]

Init ==
  /\ version \in Version
  /\ pallets = <<>> /\ modules = <<>>
  /\ stage = "read"
  /\ at = 0
  /\ number = [s \in Section |-> 0]
  /\ index = [s \in Section |-> <<>>]

Distinct(p) == version >= 12 => \A i \in DOMAIN pallets : pallets[i].index # p.index

ReadModule(p) ==
  /\ stage = "read" /\ Len(pallets) < MaxPallet /\ PalletOK(version, p) /\ Distinct(p)
  /\ pallets' = Append(pallets, p)
  /\ UNCHANGED <<version, stage, at, number, index, modules>>

StartIndex ==
  /\ stage = "read"
  /\ stage' = "index"
  /\ UNCHANGED <<version, pallets, at, number, index, modules>>

IndexModule ==
  /\ stage = "index" /\ at < Len(pallets)
  /\ LET p == pallets[at + 1] IN
     /\ Resolvable(version, p)
     /\ index' = [s \in Section |-> Entered(version, p, s)]
     /\ number' = [s \in Section |-> number[s] + Step(version, p, s)]
     /\ modules' = Append(modules, Resolved(version, p))
  /\ at' = at + 1
  /\ UNCHANGED <<version, pallets, stage>>

IndexPanic ==
  /\ stage = "index" /\ at < Len(pallets)
  /\ ~ Resolvable(version, pallets[at + 1])
  /\ stage' = "panic"
  /\ UNCHANGED <<version, pallets, at, number, index, modules>>

(* What follows the pallets; it panics on a layout that names an extension *)
(* that is not there.                                                      *)
Finish ==
  /\ stage = "index" /\ at = Len(pallets)
  /\ stage' \in {"done", "panic"}
  /\ UNCHANGED <<version, pallets, at, number, index, modules>>

Next ==
  \/ \E p \in Pallet[version] : ReadModule(p)
  \/ StartIndex \/ IndexModule \/ IndexPanic \/ Finish

Spec == Init /\ [][Next]_vars

-----------------------------------------------------------------------------
TypeOK ==
  /\ version \in Version
  /\ Len(pallets) <= MaxPallet
  /\ \A k \in DOMAIN pallets : PalletOK(version, pallets[k])
  /\ stage \in {"read", "index", "done", "panic"}
  /\ at \in 0..Len(pallets) /\ Len(modules) = at
  /\ number \in [Section -> 0..at]
  /\ DOMAIN index = Section

(* The number of a pallet: how many before it have the section.            *)
Before(k, s) == {j \in 1..(k - 1) : pallets[j][s] # None}
PalletNumber(k, s) ==
  IF version < 12 THEN Cardinality(Before(k, s)) ELSE pallets[k].index

(* Every call and event of every pallet that is indexed is found, as its   *)
(* own, under its own number and index, however many pallets came after    *)
(* it: extrinsics and events are decoded by what the map has there.        *)
Found ==
  \A k \in 1..at, s \in Section :
    LET its == Items(version, pallets[k][s])
    IN \A i \in DOMAIN its :
         LET l == Lookup(PalletNumber(k, s), its[i].index)
         IN /\ l \in DOMAIN index[s]
            /\ index[s][l] = [module |-> pallets[k].name, item |-> its[i]]

(* And nothing else is found: a lookup that succeeds names an item of some *)
(* pallet.                                                                 *)
NothingElse ==
  \A s \in Section : \A l \in DOMAIN index[s] :
    \E k \in 1..at : \E i \in DOMAIN Items(version, pallets[k][s]) :
      l = Lookup(PalletNumber(k, s), Items(version, pallets[k][s])[i].index)

(* Indexing a pallet never replaces an entry of an earlier one.            *)
EntriesKept ==
  [][\A s \in Section : \A l \in DOMAIN index[s] :
       l \in DOMAIN index'[s] /\ index'[s][l] = index[s][l]]_vars
=============================================================================
