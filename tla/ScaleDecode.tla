----------------------------- MODULE ScaleDecode ------------------------------
(***************************************************************************)
(* The decoders of package types: ScaleDecoder.ProcessAndUpdateData gives  *)
(* every composite field a decoder of its own, which starts from a copy of *)
(* the caller's bytes and offset and hands its offset and its inner calls  *)
(* back, and an opaque envelope decodes its payload in a decoder of its    *)
(* own whose panics it recovers.                                           *)
(*                                                                         *)
(* The Go call stack is a stack of frames, one per decoder.  A frame's     *)
(* agenda is what its Process still passes to ProcessAndUpdateData, got    *)
(* what that returned.  Types are names; Codec gives what GetCodec finds   *)
(* for them, Override what the module of the enclosing call makes of them. *)
(***************************************************************************)
EXTENDS CompactCodec, FiniteSets, SequencesExt

CONSTANTS
  TypeName,     \* type strings
  Codec,        \* TypeName -> what GetCodec finds
  Module, NoModule,
  Override,     \* Module -> TypeName -> TypeName, override.ModuleType
  CallIndex,    \* the two-byte indexes Metadata.CallIndex knows
  Call,         \* CallIndex -> its module and the types of its arguments
  Ascii,        \* the bytes utiles.IsASCII accepts
  MaxVec,       \* maxVecLength
  MaxMap,       \* the limit of BTreeMap.Process
  Request,      \* what callers decode: types, one after the other, in a module
  Input,        \* Request -> the bytes they are decoded from
  Depth         \* how deep the parts of decoded values may be nested

(* Codecs.  "fixed" and "bool" are what fastProcess reads; under any other *)
(* name the same codecs are "padded" and "laxbool" and do not ask for their*)
(* bytes to be there.  "unknown" is GetCodec's error.  width is the bytes  *)
(* of a codec that has a number of them, the length of an array and the    *)
(* number of names of an enum that has no types; fields are the types the  *)
(* codec passes on, one sequence for each variant it chooses from.         *)
LeafKind == {"fixed", "bool", "padded", "laxbool", "raw", "text", "bytes",
             "compact", "null", "names", "optionbool", "emptyarray"}
NodeKind == {"struct", "box", "array", "vec", "map", "option", "enum",
             "result", "opaque", "call"}
CodecDef == [kind : LeafKind \cup NodeKind \cup {"unknown"}, width : Nat,
             fields : Seq(Seq(TypeName))]

(* Codecs that choose nothing have one sequence of fields, with as many    *)
(* types in it as the codec needs.                                         *)
CodecOK(c) ==
  /\ c.kind \in NodeKind \ {"enum", "result", "call"} => Len(c.fields) = 1
  /\ c.kind \in {"box", "array", "vec", "option", "opaque"} => Len(c.fields[1]) = 1
  /\ c.kind = "map" => Len(c.fields[1]) = 2

ASSUME DecodeAssumption ==
  /\ Codec \in [TypeName -> CodecDef]
  /\ \A t \in TypeName : CodecOK(Codec[t])
  /\ NoModule \in Module /\ Override \in [Module -> [TypeName -> TypeName]]
  /\ CallIndex \subseteq {bs \in Seq(Byte) : Len(bs) = 2}
  /\ Call \in [CallIndex -> [module : Module, args : Seq(TypeName)]]
  /\ Ascii \subseteq Byte
  /\ MaxVec \in Nat /\ MaxMap \in Nat
  /\ Request \subseteq [module : Module, types : Seq(TypeName)]
  /\ Input \in [Request -> SUBSET Seq(Byte)]
  /\ Depth \subseteq Nat

VARIABLES
  stack,    \* the decoders that are running, the innermost last
  status    \* "run", "done", or "panic" once a panic reached the caller

vars == <<stack, status>>

(* A decoded value: what made it, its own bytes or numbers, its parts.     *)
Tag == NodeKind \cup {"bool", "nil", "number", "text", "hex", "name", "int", "list"}
Value(tag, head, subs) == [tag |-> tag, head |-> head, subs |-> subs]

(* role "caller" is the decoder the program calls ProcessAndUpdateData on, *)
(* "inner" the one processOpaque makes for a payload, "codec" any other.   *)
Frame(role, tag, data, off, module, head, agenda) ==
  [role |-> role, tag |-> tag, data |-> data, start |-> off, off |-> off,
   module |-> module, head |-> head, agenda |-> agenda, got |-> <<>>,
   calls |-> <<>>]

Top == stack[Len(stack)]
Next1 == Head(Top.agenda)
CodecOf(module, t) == Codec[Override[module][t]]
Asked == CodecOf(Top.module, Next1)

Least(a, b) == IF a < b THEN a ELSE b

Rest(f) == SubSeq(f.data, f.off + 1, Len(f.data))
NextBytes(f, n) == SubSeq(f.data, f.off + 1, Least(f.off + n, Len(f.data)))

(* A byte some codecs read as zero, and some as any non-zero, when there   *)
(* is none left.                                                           *)
Flag(f) == IF Rest(f) = <<>> THEN -1 ELSE Rest(f)[1]

(* A missing index is index 0, for Enum and for Result.                    *)
Index(f) == IF Flag(f) = -1 THEN 0 ELSE Flag(f)

Copies(n, t) == [i \in 1..n |-> t]

-----------------------------------------------------------------------------
(* Leaves: codecs that read bytes of their caller's and pass nothing on.   *)

(* A definition whose name ends in Bug is a mutated form of the one after  *)
(* it: no specification uses it, and the properties must tell them apart.  *)

(* Mutant: a bool does not ask whether its byte is there.                  *)
LeafOKBug(f, c) ==
  LET rest == Rest(f) IN
  CASE c.kind = "fixed" -> c.width <= Len(rest)
    [] c.kind = "compact" -> CompactOK(rest)
    [] c.kind = "bytes" -> CompactOK(rest) /\ CompactValue(rest) >= 0
    [] c.kind = "names" -> Index(f) < c.width
    [] OTHER -> TRUE

(* requireRemainingBytes, and GetNextBytes with a length below zero; a     *)
(* slice that is only too long is cut short without a word.                *)
LeafOK(f, c) ==
  LET rest == Rest(f) IN
  CASE c.kind = "fixed" -> c.width <= Len(rest)
    [] c.kind = "bool" -> Len(rest) >= 1
    [] c.kind = "compact" -> CompactOK(rest)
    [] c.kind = "bytes" ->
         /\ CompactOK(rest) /\ CompactValue(rest) >= 0
         /\ f.off + CompactLength(rest[1]) + CompactValue(rest) < WordSize \div 2
    [] c.kind = "names" -> Index(f) < c.width
    [] OTHER -> TRUE

(* Mutant: the offset moves by the length asked for, as if all were there. *)
LeafLengthBug(f, c) ==
  LET rest == Rest(f) IN
  CASE c.kind \in {"fixed", "padded", "raw", "text"} -> c.width
    [] c.kind = "compact" -> CompactLength(rest[1])
    [] c.kind = "bytes" -> CompactLength(rest[1]) + CompactValue(rest)
    [] c.kind = "null" -> 0
    [] OTHER -> 1

(* How many bytes it takes: of what is asked for, as many as there are.    *)
LeafLength(f, c) ==
  LET rest == Rest(f)
      up(n) == Least(n, Len(rest))
  IN CASE c.kind \in {"fixed", "padded", "raw", "text"} -> up(c.width)
       [] c.kind = "compact" -> CompactLength(rest[1])
       [] c.kind = "bytes" -> up(CompactLength(rest[1]) + CompactValue(rest))
       [] c.kind = "null" -> 0
       [] OTHER -> up(1)

Padded(bs, n) == [i \in 1..n |-> IF i <= Len(bs) THEN bs[i] ELSE 0]

(* utiles.IsASCII decides between text and hex; no bytes are an empty text.*)
TextOrHex(bs) ==
  Value(IF \A i \in DOMAIN bs : bs[i] \in Ascii THEN "text" ELSE "hex", bs, <<>>)

LeafValue(f, c) ==
  LET rest == Rest(f)
      bs == NextBytes(f, LeafLength(f, c))
  IN CASE c.kind \in {"bool", "laxbool"} -> Value("bool", IF bs = <<1>> THEN <<1>> ELSE <<0>>, <<>>)
       [] c.kind = "optionbool" ->
            IF bs = <<0>> THEN Value("nil", <<>>, <<>>)
            ELSE Value("bool", IF bs = <<1>> THEN <<1>> ELSE <<0>>, <<>>)
       [] c.kind = "compact" -> Value("number", <<CompactValue(rest)>>, <<>>)
       [] c.kind = "bytes" ->
            TextOrHex(SubSeq(bs, CompactLength(rest[1]) + 1, Len(bs)))
       [] c.kind = "text" -> TextOrHex(bs)
       [] c.kind = "raw" -> Value(IF bs = <<>> THEN "text" ELSE "hex", bs, <<>>)
       [] c.kind = "names" -> Value("name", IF bs = <<>> THEN <<0>> ELSE bs, <<>>)
       [] c.kind \in {"null", "emptyarray"} -> Value("nil", <<>>, <<>>)
       [] OTHER -> Value("int", Padded(bs, c.width), <<>>)

-----------------------------------------------------------------------------
(* Stack operations *)

Below == SubSeq(stack, 1, Len(stack) - 1)

(* The caller after its ProcessAndUpdateData returned.                     *)
Fed(f, off, v, calls) ==
  [f EXCEPT !.off = off, !.got = Append(f.got, v), !.calls = f.calls \o calls,
            !.agenda = Tail(f.agenda)]

(* A panic unwinds to the innermost envelope, whose value becomes its raw  *)
(* bytes, or else to the caller of the whole decoding.                     *)
Inner == {i \in DOMAIN stack : stack[i].role = "inner"}
RawValue(f) == Value("hex", f.head, <<>>)

(* Mutant: the calls a payload had published stay when it is given up on.  *)
PanicBug ==
  \/ Inner = {} /\ status' = "panic" /\ UNCHANGED stack
  \/ \E i \in Inner :
       /\ \A j \in Inner : j <= i
       /\ stack' = Append(SubSeq(stack, 1, i - 2),
                     [stack[i - 1] EXCEPT !.got = <<RawValue(stack[i - 1])>>,
                                          !.calls = Top.calls])
       /\ UNCHANGED status

Panic ==
  \/ /\ Inner = {}
     /\ status' = "panic"
     /\ UNCHANGED stack
  \/ \E i \in Inner :
       /\ \A j \in Inner : j <= i
       /\ stack' = Append(SubSeq(stack, 1, i - 2),
                     [stack[i - 1] EXCEPT !.got = <<RawValue(stack[i - 1])>>])
       /\ UNCHANGED status

(* A decoder of the next type, its header read up to off, its agenda known.*)
Enter(off, module, head, agenda) ==
  /\ stack' = Append(stack,
       [Frame("codec", Asked.kind, Top.data, Top.off, module, head, agenda)
          EXCEPT !.off = off])
  /\ UNCHANGED status

Asking(kinds) ==
  /\ status = "run"
  /\ Top.agenda # <<>>
  /\ Asked.kind \in kinds

-----------------------------------------------------------------------------
(* Actions: what ProcessAndUpdateData does with the next type of the       *)
(* innermost decoder.                                                      *)

Init ==
  \E r \in Request : \E d \in Input[r] :
    /\ stack = <<Frame("caller", "caller", d, 0, r.module, r.types, r.types)>>
    /\ status = "run"

ReadLeaf ==
  /\ Asking(LeafKind)
  /\ \/ ~ LeafOK(Top, Asked) /\ Panic
     \/ /\ LeafOK(Top, Asked)
        /\ stack' = Append(Below, Fed(Top, Top.off + LeafLength(Top, Asked),
                                      LeafValue(Top, Asked), <<>>))
        /\ UNCHANGED status

NoCodec == Asking({"unknown"}) /\ Panic

EnterStruct ==
  /\ Asking({"struct", "box"})
  /\ Enter(Top.off, Top.module, <<>>, Asked.fields[1])

EnterArray ==
  /\ Asking({"array"})
  /\ Enter(Top.off, Top.module, <<>>, Copies(Asked.width, Asked.fields[1][1]))

(* A count below zero makes an empty Vec. *)
EnterVec ==
  LET n == CompactValue(Rest(Top)) IN
  /\ Asking({"vec"})
  /\ \/ ~ CompactOK(Rest(Top)) /\ Panic
     \/ CompactOK(Rest(Top)) /\ n > MaxVec /\ Panic
     \/ /\ CompactOK(Rest(Top)) /\ n <= MaxVec
        /\ Enter(Top.off + CompactLength(Rest(Top)[1]), Top.module, <<>>,
                 Copies(n, Asked.fields[1][1]))

EnterMap ==
  LET n == CompactValue(Rest(Top))
      pair == Asked.fields[1]
  IN /\ Asking({"map"})
     /\ \/ ~ CompactOK(Rest(Top)) /\ Panic
        \/ CompactOK(Rest(Top)) /\ n > MaxMap /\ Panic
        \/ /\ CompactOK(Rest(Top)) /\ n <= MaxMap
           /\ Enter(Top.off + CompactLength(Rest(Top)[1]), Top.module, <<>>,
                    [i \in 1..(2 * n) |-> pair[IF i % 2 = 1 THEN 1 ELSE 2]])

(* Any flag but 0, none at all included, announces a value. *)
EnterOption ==
  /\ Asking({"option"})
  /\ Enter(Top.off + Len(NextBytes(Top, 1)), Top.module, <<Flag(Top)>>,
           IF Flag(Top) = 0 THEN <<>> ELSE Asked.fields[1])

EnterVariant ==
  /\ Asking({"enum", "result"})
  /\ \/ Index(Top) >= Len(Asked.fields) /\ Panic
     \/ /\ Index(Top) < Len(Asked.fields)
        /\ Enter(Top.off + Len(NextBytes(Top, 1)), Top.module, <<Index(Top)>>,
                 Asked.fields[Index(Top) + 1])

EnterCall ==
  LET ix == NextBytes(Top, 2) IN
  /\ Asking({"call"})
  /\ \/ ix \notin CallIndex /\ Panic
     \/ /\ ix \in CallIndex
        /\ Enter(Top.off + 2, Call[ix].module, ix, Call[ix].args)

(* processOpaque: the decoder of the envelope and, above it, that of its   *)
(* payload.                                                                *)
EnterOpaque ==
  LET bs == Rest(Top) IN
  /\ Asking({"opaque"})
  /\ \/ ~ EnvelopeOK(bs) /\ Panic
     \/ /\ EnvelopeOK(bs)
        /\ stack' = Append(Append(stack,
             [Frame("codec", "opaque", Top.data, Top.off, Top.module,
                    Payload(bs), <<>>)
                EXCEPT !.off = Top.off + EnvelopeLength(bs)]),
             Frame("inner", "inner", Payload(bs), 0, Top.module, <<>>,
                   Asked.fields[1]))
        /\ UNCHANGED status

(* Mutant: the next field follows what was decoded of the payload.         *)
LeaveInnerBug ==
  LET envelope == stack[Len(stack) - 1] IN
  /\ status = "run" /\ Top.role = "inner" /\ Top.agenda = <<>>
  /\ stack' = Append(SubSeq(stack, 1, Len(stack) - 2),
       [envelope EXCEPT !.got = Top.got, !.calls = @ \o Top.calls,
                        !.off = @ - (Len(Top.data) - Top.off)])
  /\ UNCHANGED status

(* The payload's decoder is done: its value counts if it used every byte.  *)
LeaveInner ==
  LET envelope == stack[Len(stack) - 1] IN
  /\ status = "run" /\ Top.role = "inner" /\ Top.agenda = <<>>
  /\ stack' = Append(SubSeq(stack, 1, Len(stack) - 2),
       IF Top.off = Len(Top.data)
       THEN [envelope EXCEPT !.got = Top.got, !.calls = @ \o Top.calls]
       ELSE [envelope EXCEPT !.got = <<RawValue(envelope)>>])
  /\ UNCHANGED status

(* What Process leaves in Value.  An Option's value is the value inside.   *)
Result(f) ==
  CASE f.tag \in {"box", "opaque"} -> f.got[1]
    [] f.tag = "option" -> IF f.head = <<0>> THEN Value("nil", <<>>, <<>>)
                                             ELSE f.got[1]
    [] f.tag \in {"vec", "array"} -> Value("list", <<>>, f.got)
    [] OTHER -> Value(f.tag, f.head, f.got)

(* Call.Process adds its own bytes after those of the calls in it. *)
Published(f) ==
  IF f.tag = "call" THEN Append(f.calls, SubSeq(f.data, f.start + 1, f.off))
                    ELSE f.calls

(* Mutant: the module stays what the last call in it made of it.           *)
LeaveBug ==
  /\ status = "run" /\ Top.role = "codec" /\ Top.agenda = <<>>
  /\ stack' = Append(SubSeq(stack, 1, Len(stack) - 2),
       [Fed(stack[Len(stack) - 1], Top.off, Result(Top), Published(Top))
          EXCEPT !.module = Top.module])
  /\ UNCHANGED status

(* The end of Process and of the caller's ProcessAndUpdateData. *)
Leave ==
  /\ status = "run" /\ Top.role = "codec" /\ Top.agenda = <<>>
  /\ stack' = Append(SubSeq(stack, 1, Len(stack) - 2),
       Fed(stack[Len(stack) - 1], Top.off, Result(Top), Published(Top)))
  /\ UNCHANGED status

Finish ==
  /\ status = "run" /\ Top.role = "caller" /\ Top.agenda = <<>>
  /\ status' = "done"
  /\ UNCHANGED stack

Next ==
  \/ ReadLeaf \/ NoCodec
  \/ EnterStruct \/ EnterArray \/ EnterVec \/ EnterMap \/ EnterOption
  \/ EnterVariant \/ EnterCall \/ EnterOpaque
  \/ LeaveInner \/ Leave \/ Finish

Spec == Init /\ [][Next]_vars

-----------------------------------------------------------------------------
(* Properties *)

FrameOK(f) ==
  /\ f.data \in Seq(Byte) /\ f.start \in 0..f.off /\ f.off \in 0..Len(f.data)
  /\ f.module \in Module /\ f.agenda \in Seq(TypeName)
  /\ f.calls \in Seq(Seq(Byte))

(* No decoder's cursor ever leaves its bytes.                              *)
TypeOK ==
  /\ status \in {"run", "done", "panic"}
  /\ Len(stack) >= 1
  /\ \A i \in DOMAIN stack : FrameOK(stack[i])

(* Types are asked for under the module of the innermost call they are an  *)
(* argument of, whatever was decoded before them, and outside of any call  *)
(* under the module of the caller.                                         *)
ModuleScoped ==
  \A i \in DOMAIN stack :
    LET calls == {j \in 1..i : stack[j].tag = "call"}
        innermost == CHOOSE j \in calls : \A k \in calls : k <= j
    IN stack[i].module = IF calls = {} THEN stack[1].module
                         ELSE Call[stack[innermost].head].module

(* Of every value whose parts are nested no deeper than n, the calls in    *)
(* it, each after the calls inside it.                                     *)
CallsTo(n) ==
  LET to[i \in 0..n] ==
        [v \in [tag : Tag, head : Seq(Int),
                subs : IF i = 0 THEN {<<>>} ELSE Seq(DOMAIN to[i - 1])] |->
           FlattenSeq([k \in DOMAIN v.subs |-> to[i - 1][v.subs[k]]])
             \o (IF v.tag = "call" THEN <<v.head>> ELSE <<>>)]
  IN to[n]

Indexes(calls) == [k \in DOMAIN calls |-> SubSeq(calls[k], 1, 2)]

(* GetInternalCall of the caller lists the calls of the values it decoded, *)
(* each after the calls inside it, and nothing of a payload that was given *)
(* up on (processOpaque, Call.Process, ProcessAndUpdateData).              *)
PublishedCalls ==
  status = "done" =>
    \E n \in Depth :
      LET got == stack[1].got IN
      /\ got \in Seq(DOMAIN CallsTo(n))
      /\ Indexes(stack[1].calls) = FlattenSeq([k \in DOMAIN got |-> CallsTo(n)[got[k]]])

(* Seen from the caller, a field is read at once, and an opaque one takes  *)
(* exactly its envelope and never fails once that is complete, whatever    *)
(* its payload holds.                                                      *)
Fields == INSTANCE FieldReader WITH
  input <- stack[1].data, pos <- stack[1].off, verdict <- status,
  left <- [i \in DOMAIN stack[1].agenda |->
             CodecOf(stack[1].module, stack[1].agenda[i]).kind = "opaque"]

FieldsIsolated == Fields!Spec

(* A decoder does not come back, at the byte it started from, to the type  *)
(* it is decoding: from there it could only go round for ever.  Missing    *)
(* flags count as Some and missing indexes as the first variant, so that   *)
(* what ends a recursive type at the end of the bytes is a field that has  *)
(* to be there (requireRemainingBytes, a length prefix).                   *)
Decoding(i) == Head(stack[i - 1].agenda)
NoReentry ==
  \A j \in DOMAIN stack : \A i \in 2..(j - 1) :
    (\A k \in i..j : stack[k].role = "codec") /\ stack[i].start = stack[j].start
      => Decoding(i) # Decoding(j)

(* Types are grounded if what they can come to before a byte is read has a *)
(* rank below theirs; idle are those that may be read from no bytes.       *)
Takes(c) ==
  \/ c.kind \in {"bool", "compact", "bytes", "vec", "map", "call", "opaque"}
  \/ c.kind = "fixed" /\ c.width > 0

(* The fields of a codec that has read no byte itself.                     *)
Unread(c) ==
  CASE c.kind \in {"struct", "box", "option"} -> c.fields[1]
    [] c.kind = "array" -> Copies(c.width, c.fields[1][1])
    [] c.kind \in {"enum", "result"} -> IF c.fields = <<>> THEN <<>> ELSE c.fields[1]
    [] OTHER -> <<>>

Descending(idle, rank, m, t, fields) ==
  /\ \A k \in DOMAIN fields :
       (\A l \in 1..(k - 1) : fields[l] \in idle[m]) => rank[m][fields[k]] < rank[m][t]
  /\ t \notin idle[m] => \E k \in DOMAIN fields : fields[k] \notin idle[m]

Grounded(idle, rank) ==
  /\ idle \in [Module -> SUBSET TypeName] /\ rank \in [Module -> [TypeName -> Nat]]
  /\ \A m \in Module, t \in TypeName :
       LET c == CodecOf(m, t) IN
       ~ Takes(c) => Descending(idle, rank, m, t, Unread(c))
=============================================================================
