------------------------------ MODULE EventReader ------------------------------
(***************************************************************************)
(* EventsDecoder.Process: the records of Vec<EventRecord> are decoded one  *)
(* after the other by one EventRecord, which keeps the module of the last  *)
(* event until it knows the next: types are looked up in that module.      *)
(*                                                                         *)
(* Bytes are tokens [kind, val]; the kind of an argument's token is the    *)
(* type it was written as.                                                 *)
(***************************************************************************)
EXTENDS Integers, Sequences

CONSTANTS
  ModuleType(_, _),  \* override.ModuleType: module, type -> type
  NoModule,          \* the module of a record that has decoded nothing
  Unresolved,        \* the empty type string
  Misread            \* what a type makes of the bytes of another

VARIABLES
  eventIndex,  \* Metadata.EventIndex
  data,        \* the tokens that are left
  todo,        \* the records that are still announced
  module,      \* EventRecord.Module
  records,     \* the decoded events
  status       \* "run" or "panic"

readerVars == <<data, todo, module, records, status>>

(* A value of type t for the decoder that is in module m.                  *)
Decode(m, t, tok) == IF tok.kind = ModuleType(m, t) THEN tok.val ELSE Misread

Drop(s, n) == SubSeq(s, n + 1, Len(s))

(* Phase 0 is followed by the index of the extrinsic, any other by nothing.*)
HeadLen(d) == IF d[1].val = 0 THEN 2 ELSE 1
Entry(d) == eventIndex[d[HeadLen(d) + 1].val]
Args(d) == Entry(d).item.args
Known(d) ==
  /\ d[HeadLen(d) + 1].val \in DOMAIN eventIndex
  /\ \A i \in DOMAIN Args(d) : Args(d)[i] # Unresolved

(* e.Module = call.Module.Name comes before the arguments.                 *)
ArgModule(d) == Entry(d).module

(* Mutant: the topics are those of the records before as well.             *)
TopicsBug(rest) ==
  (IF records = <<>> THEN <<>> ELSE records[Len(records)].topics)
    \o [i \in 1..Head(rest).val |-> rest[i + 1].val]

(* e.Topic = []string{}, then Vec<Hash>                                    *)
Topics(rest) == [i \in 1..Head(rest).val |-> rest[i + 1].val]

Record(d) ==
  LET n == HeadLen(d)
      args == Args(d)
      rest == Drop(d, n + 1 + Len(args))
  IN [phase |-> d[1].val,
      extrinsicIdx |-> IF n = 2 THEN Decode(module, "U32", d[2]) ELSE 0,
      module |-> Entry(d).module, event |-> Entry(d).item.name,
      params |-> [i \in DOMAIN args |-> Decode(ArgModule(d), args[i], d[n + 1 + i])],
      topics |-> Topics(rest)]

(* The tokens after a record.                                              *)
After(d) ==
  LET rest == Drop(d, HeadLen(d) + 1 + Len(Args(d))) IN Drop(rest, 1 + Head(rest).val)

ReadRecord ==
  /\ status = "run" /\ todo > 0 /\ Known(data)
  /\ records' = Append(records, Record(data))
  /\ module' = Entry(data).module
  /\ data' = After(data)
  /\ todo' = todo - 1
  /\ UNCHANGED status

(* An event the metadata does not have, or a type without a name.          *)
UnknownEvent ==
  /\ status = "run" /\ todo > 0 /\ ~Known(data)
  /\ status' = "panic"
  /\ UNCHANGED <<data, todo, module, records>>

ReaderNext == ReadRecord \/ UnknownEvent
=============================================================================
