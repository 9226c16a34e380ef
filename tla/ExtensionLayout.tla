---------------------------- MODULE ExtensionLayout ----------------------------
(***************************************************************************)
(* ExtrinsicMetadata.ExtensionsForVersion: the extensions of a transaction,*)
(* in the order of its bytes, for one version of the extensions.  Metadata *)
(* before version 16 has one list; version 16 has a catalog of all of them *)
(* and, for each version, the positions in the catalog.                    *)
(***************************************************************************)
EXTENDS Integers, Sequences

(* meta: signed and catalog are sequences of [identifier, type], layouts of*)
(* [version, indexes] with indexes counted from zero, versioned is whether *)
(* the metadata states its versions.  An extension whose type is           *)
(* not registered has the type Unresolved.                                 *)
CONSTANT Unresolved

NoLayout == [ok |-> FALSE, extensions |-> <<>>]

(* Mutant: an extension whose type is not registered passes.             *)
UsableBug(meta, layout) ==
  \A i \in DOMAIN layout.indexes : layout.indexes[i] \in 0..(Len(meta.catalog) - 1)

Usable(meta, layout) ==
  \A i \in DOMAIN layout.indexes :
    /\ layout.indexes[i] \in 0..(Len(meta.catalog) - 1)
    /\ meta.catalog[layout.indexes[i] + 1].type # Unresolved

(* The first layout of that version counts.                                *)
ExtensionsForVersion(meta, v) ==
  IF meta.layouts = <<>> /\ meta.catalog = <<>> /\ ~meta.versioned
  THEN IF v = 0 THEN [ok |-> TRUE, extensions |-> meta.signed] ELSE NoLayout
  ELSE LET hits == {i \in DOMAIN meta.layouts : meta.layouts[i].version = v}
           first == meta.layouts[CHOOSE i \in hits : \A j \in hits : i <= j]
       IN IF v \notin 0..255 \/ hits = {} \/ ~Usable(meta, first) THEN NoLayout
          ELSE [ok |-> TRUE,
                extensions |-> [i \in DOMAIN first.indexes |->
                                  meta.catalog[first.indexes[i] + 1]]]
=============================================================================
