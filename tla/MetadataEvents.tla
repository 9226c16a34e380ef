---------------------------- MODULE MetadataEvents -----------------------------
(***************************************************************************)
(* A client that decodes the metadata of a runtime and then the events of a*)
(* block of that runtime with it.                                          *)
(***************************************************************************)
EXTENDS MetadataDecoder

CONSTANTS
  ModuleType(_, _), NoModule, Misread,
  Block           \* version, runtime -> what its blocks may have emitted

VARIABLES block, data, todo, module, records, status

EventIndex == index["events"]
ER == INSTANCE EventReader WITH eventIndex <- EventIndex

clientVars == <<decoderVars, block, data, todo, module, records, status>>

(* How the runtime writes an event: the pallet's number, the event's index,*)
(* the arguments by the types the pallet gives those names.                *)
WriteEvent(v, r, e) ==
  LET p == r.pallets[e.pallet]
      first == IF v < 12
               THEN Cardinality({j \in 1..(e.pallet - 1) : r.pallets[j].events # None})
               ELSE p.index
      item == Items(v, p.events)[e.item]
  IN Token("phase", e.phase) \o (IF e.phase = 0 THEN Token("U32", e.extrinsic) ELSE <<>>)
       \o Token("lookup", Lookup(first, item.index))
       \o [i \in DOMAIN item.args |->
             [kind |-> ModuleType(p.name, item.args[i]), val |-> <<e.salt, i>>]]
       \o WriteTokens("hash", e.topics)

(* What a runtime may have emitted: one of its events, with topics.        *)
IsEmitted(v, r, e) ==
  /\ e.pallet \in DOMAIN r.pallets
  /\ e.item \in DOMAIN Items(v, r.pallets[e.pallet].events)
  /\ IsList(IsAny, Items(v, r.pallets[e.pallet].events)[e.item].args)
  /\ IsList(IsAny, e.topics)

(* No module has an override for U32.                                      *)
ASSUME EventAssumption ==
  \A v \in Version : \A r \in Runtime[v] :
    /\ \A b \in Block[v][r] : IsList(LAMBDA e : IsEmitted(v, r, e), b)
    /\ \A m \in {NoModule} \cup {r.pallets[k].name : k \in DOMAIN r.pallets} :
         ModuleType(m, "U32") = "U32"

ClientInit ==
  /\ DecoderInit
  /\ block \in Block[version][runtime]
  /\ LET all == FlattenSeq([i \in DOMAIN block |-> WriteEvent(version, runtime, block[i])])
     IN data = all
  /\ todo = Len(block) /\ module = NoModule /\ records = <<>> /\ status = "run"

ClientNext ==
  \/ DecoderNext /\ UNCHANGED <<block, data, todo, module, records, status>>
  \/ stage = "done" /\ ER!ReaderNext /\ UNCHANGED <<decoderVars, block>>

ClientSpec == ClientInit /\ [][ClientNext]_clientVars

-----------------------------------------------------------------------------
(* What a client should see of an event.                                   *)
Emitted(e) ==
  LET p == runtime.pallets[e.pallet]
      item == Items(version, p.events)[e.item]
  IN [phase |-> e.phase, extrinsicIdx |-> IF e.phase = 0 THEN e.extrinsic ELSE 0,
      module |-> p.name, event |-> item.name,
      params |-> [i \in DOMAIN item.args |-> <<e.salt, i>>],
      topics |-> e.topics]

(* The decoded events are those of the block, in order: each under its own *)
(* pallet, every argument by that pallet's meaning of its type, with its   *)
(* own topics and extrinsic, though one decoder reads them all.            *)
EventsAsEmitted ==
  \A i \in DOMAIN records :
    (version \in {6, 7} => \A k \in DOMAIN runtime.pallets : runtime.pallets[k].events # <<>>)
      => records[i] = Emitted(block[i])

(* A block of the runtime that wrote the metadata is decoded to its end:   *)
(* what stops it is the event it has come to, one of whose own types has no*)
(* name, and every event before that one has been decoded.                 *)
BlockDecoded ==
  LET next == block[Len(records) + 1] IN
  status = "panic" =>
    \/ version \in {6, 7} /\ \E k \in DOMAIN runtime.pallets : runtime.pallets[k].events = <<>>
    \/ /\ Len(records) + 1 \in DOMAIN block
       /\ Unresolved \in ToSet(Items(version, runtime.pallets[next.pallet].events)[next.item].args)
=============================================================================
