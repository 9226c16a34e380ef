------------------------------ MODULE Conversions ------------------------------
(***************************************************************************)
(* The parts of the program that keep no state, on every input of a bounded*)
(* set: a task names a codec or an algorithm and its input, a step encodes *)
(* it or computes with it, a second step decodes what was encoded.         *)
(***************************************************************************)
EXTENDS LeafCodecs, Uint128, TextBytes, MetadataCompare

CONSTANT Task    \* a sequence of sets of records [codec, ...]

(* The names in a list of a metadata are all different: those of the       *)
(* modules of a runtime, and of the calls, events and items of a module.   *)
IsList(s) == s \in Seq(ToSet(s)) /\ \A x, y \in ToSet(s) : x.name = y.name => x = y
IsMetadata(modules) ==
  /\ IsList(modules)
  /\ \A m \in ToSet(modules) :
       /\ IsList(m.calls) /\ IsList(m.events) /\ IsList(m.storage)
       /\ \A x \in ToSet(m.calls) \cup ToSet(m.events) : x.args \in Seq(ToSet(x.args))

Number == {"int", "wide", "U", "alias", "U128", "U256", "compact", "set"}
UNumber == {"U", "alias", "U128", "U256"}
Text == {"Bytes", "HexBytes", "String"}

Account == {"Address", "GenericAddress", "GenericLookupSource"}
LeafCodec == {"Era", "H256", "AccountId", "Float64", "Data", "BitVec", "LogDigest", "CLike"} \cup Account

(* A leaf in the middle of other bytes.                                    *)
Around(t) == t.before \o t.v \o t.after

(* Length prefixes are those an int of four bytes holds.                   *)
LengthFirst(s, n, len) ==
  2 * n < Size(4) /\ IsPrefix(EncodeCompact(n), s) /\ Len(s) = Len(EncodeCompact(n)) + len
IsPart(s, p) == IF p = Vector THEN \E n \in 0..Len(s) : LengthFirst(s, n, n) ELSE Len(s) = p

(* The forms in which a runtime writes a leaf.  The parts of a digest item *)
(* end at the cuts.                                                        *)
IsForm(form, v) ==
  CASE form = "era" -> v = <<0>> \/ (Len(v) = 2 /\ v[1] # 0)
    [] form = "account" -> Len(v) = HashLength
    [] form = "prefixed" -> Len(v) = 1 + HashLength /\ v[1] = Ff
    [] form = "index" -> \/ Len(v) = 1 /\ v[1] < Fc
                         \/ v # <<>> /\ v[1] \in Fc..(Ff - 1) /\ 2 ^ (v[1] - Fc + 1) = Len(v) - 1
    [] form = "none" -> v = <<0>>
    [] form = "raw" -> Len(v) \in 1..(MaxRaw + 1) /\ v[1] = Len(v)
    [] form = "hash" -> Len(v) = 1 + HashLength /\ v[1] \in (MaxRaw + 2)..(MaxRaw + 5)
    [] form = "bits" -> \E n \in 0..(8 * Len(v)) : LengthFirst(v, n, Whole(n))
    [] form = "root" -> Len(v) = 1 + HashLength
    [] form = "item" ->
         /\ v # <<>> /\ v[1] \in DOMAIN DigestParts
         /\ LET parts == DigestParts[v[1]]
            IN \E cut \in [0..Len(parts) -> 1..Len(v)] :
                 /\ cut[0] = 1 /\ cut[Len(parts)] = Len(v)
                 /\ \A k \in DOMAIN parts :
                      cut[k - 1] <= cut[k] /\ IsPart(SubSeq(v, cut[k - 1] + 1, cut[k]), parts[k])
    [] form = "name" -> Len(v) = 1
    [] OTHER -> FALSE

(* Which forms a codec has; floats are bytes of any value.                 *)
Forms(codec) ==
  CASE codec = "Era" -> {"era"}
    [] codec \in {"H256", "AccountId"} -> {"account"}
    [] codec \in Account -> {"account", "prefixed", "index"}
    [] codec = "Data" -> {"none", "raw", "hash"}
    [] codec = "BitVec" -> {"bits"}
    [] codec = "LogDigest" -> {"root", "item"}
    [] codec = "CLike" -> {"name"}
IsLeaf(t) ==
  /\ t.before \in Seq(Byte) /\ t.v \in Seq(Byte) /\ t.after \in Seq(Byte)
  /\ t.codec # "Float64" => t.form \in Forms(t.codec) /\ IsForm(t.form, t.v)

(* What a task asks for.  There is one width of an odd number of bytes.    *)
(* Compact<U256> and sets of other widths than those of U8 to U64 are left *)
(* out, as is a 64th element: two to the 63rd is no int.                   *)
IsTask(t) ==
  /\ t.codec \in Number => t.n \in Nat \ {0}
  /\ t.codec \in {"int", "wide"} \cup UNumber => t.v \in Int /\ (t.n = 1 \/ t.n % 2 = 0)
  /\ t.codec = "U256" => t.n % 2 = 0
  /\ t.codec = "compact" => t.v \in Int /\ t.n \in {1, 2, 4, 8, 16}
  /\ t.codec = "set" =>
       t.n \in {1, 2, 4, 8} /\ t.v \in 0..(Size(t.n) - 1) /\ t.list \in Seq(ToSet(t.list)) /\ Len(t.list) < 64
  /\ t.codec \in Text =>
       t.v \in Seq(ToSet(t.v)) /\ \A b \in ToSet(t.v) : Hex(b) \in [1..2 -> HexDigit]
  /\ t.codec = "divide" => t.u \in TwoWords /\ t.v \in TwoWords \ {Zero}
  /\ t.codec = "print" => t.u \in TwoWords
  /\ t.codec \in LeafCodec => IsLeaf(t)
  /\ t.codec = "compare" => IsMetadata(t.a) /\ IsMetadata(t.b)

ASSUME TaskAssumption == \A k \in DOMAIN Task : \A t \in Task[k] : IsTask(t)

VARIABLES task, bytes, value

vars == <<task, bytes, value>>

Num(u) == u.lo + Radix * u.hi

Init == (\E k \in DOMAIN Task : task \in Task[k]) /\ bytes = Unset /\ value = Unset

(* What the encoder of a number writes, and its decoder makes of that.     *)
Encoded(t) ==
  CASE t.codec = "int" -> IntEncode(t.v, t.n)
    [] t.codec = "wide" -> BigIntToIntBytes(t.v, t.n)
    [] t.codec \in UNumber -> UEncode(t.codec, t.v, t.n)
    [] t.codec = "compact" -> WriteCompact(t.v)
    [] t.codec = "set" -> LittleEndian(t.v, t.n)
Decoded(t, bs) ==
  CASE t.codec \in {"int", "wide"} -> IntDecode(bs, t.n)
    [] t.codec \in UNumber -> UDecode(t.codec, bs, t.n)
    [] t.codec = "compact" -> ReadCompact(bs, t.n)
    [] t.codec = "set" -> SetDecode(bs, t.n, t.list)

Encode ==
  /\ task.codec \in Number /\ bytes = Unset /\ value = Unset
  /\ bytes' = Encoded(task) /\ bytes' # Unset
  /\ UNCHANGED <<task, value>>

(* An encoder that has no bytes for the value.                             *)
Refuse ==
  /\ task.codec \in Number /\ bytes = Unset /\ value = Unset
  /\ Encoded(task) = Unset /\ value' = "refused"
  /\ UNCHANGED <<task, bytes>>

Decode ==
  /\ task.codec \in Number /\ bytes # Unset /\ value = Unset
  /\ value' = Decoded(task, bytes)
  /\ UNCHANGED <<task, bytes>>

(* Bytes that are decoded first and then encoded again.                    *)
Reencode ==
  /\ task.codec \in Text /\ value = Unset
  /\ value' = DecodeText(task.codec, task.v)
  /\ bytes' = EncodeText(task.codec, value')
  /\ UNCHANGED task

Divide ==
  /\ task.codec = "divide" /\ value = Unset
  /\ value' = [quo |-> QuoRem(task.u, task.v), add |-> Add(task.u, task.v),
               sub |-> Sub(task.u, task.v), mul |-> Mul(task.u, task.v),
               cmp |-> Cmp(task.u, task.v)]
  /\ UNCHANGED <<task, bytes>>

Format ==
  /\ task.codec = "print" /\ value = Unset
  /\ value' = String(task.u)
  /\ UNCHANGED <<task, bytes>>

ReadLeaf ==
  /\ task.codec \in LeafCodec /\ value = Unset
  /\ value' = DecodeLeaf(task.codec, Around(task), Len(task.before))
  /\ bytes' = EncodeLeaf(task.codec, value'.value)
  /\ UNCHANGED task

(* Two metadata compared, both ways.                                       *)
CompareBoth ==
  /\ task.codec = "compare" /\ value = Unset
  /\ value' = [new |-> Compare(task.a, task.b), old |-> Compare(task.b, task.a)]
  /\ UNCHANGED <<task, bytes>>

Next == Encode \/ Refuse \/ Decode \/ Reencode \/ Divide \/ Format \/ ReadLeaf \/ CompareBoth

Spec == Init /\ [][Next]_vars

-----------------------------------------------------------------------------
Done(codecs) == value # Unset /\ task.codec \in codecs

(* A signed number of two bytes and more comes back as it was written, and *)
(* what wraps comes back modulo its width: all but the smallest, which is  *)
(* taken for its negation but is the same bytes again.                     *)
SignedReadsBack ==
  Done({"int"}) /\ task.n > 1 =>
    /\ value % Size(task.n) = task.v % Size(task.n)
    /\ value # Size(task.n) \div 2 => value \in (-(Size(task.n) \div 2) + 1)..(Size(task.n) \div 2 - 1)
    /\ IntEncode(value, task.n) = bytes

(* A wide signed number is its two's complement, most significant byte     *)
(* first, and is refused exactly when it has none of that width.           *)
WideTwosComplement ==
  Done({"wide"}) =>
    LET n == task.n IN
    IF task.v \in -(Size(n) \div 2)..(Size(n) \div 2 - 1)
    THEN bytes = BigEndian(task.v % Size(n), n) ELSE value = "refused"

(* An unsigned number comes back when it has that width; otherwise U128    *)
(* refuses it and the small ones wrap.  A number cut short anywhere is     *)
(* never a smaller one under the names of U8 to U64, which panic; under an *)
(* alias, and in U128, it is that of the bytes that are left.              *)
UnsignedReadsBack ==
  Done(UNumber) =>
    /\ task.v \in 0..(Size(task.n) - 1) => value = task.v
    /\ task.codec = "U128" /\ task.v \notin 0..(Size(task.n) - 1) => value = "refused"
    /\ task.codec # "U256" /\ bytes # Unset =>
         \A k \in 0..task.n : UDecode(task.codec, SubSeq(bytes, 1, k), task.n) =
           IF task.codec = "U" /\ k < task.n THEN Unset ELSE value % Size(k)

(* Integers of every codec and width.                                      *)
IntegersReadBack == SignedReadsBack /\ WideTwosComplement /\ UnsignedReadsBack

(* Compact<T> comes back if its bytes of the mode fit T: every value of a  *)
(* type of four bytes or more, those of one and two bytes only below a     *)
(* quarter of their range.                                                 *)
CompactReadsBack ==
  Done({"compact"}) /\ bytes # Unset =>
    (task.v < (IF task.n < 4 THEN Size(task.n) \div 4 ELSE Size(task.n)) => value = task.v)

(* A set of 16, 32 or 64 bits has the elements of its bits and no more, in *)
(* order, whatever bits have none, but for 64 bits with the highest set;   *)
(* cut short, at these widths and at eight bits, it is not a smaller set.  *)
Members(t) == {k \in DOMAIN t.list : (t.v \div 2 ^ (k - 1)) % 2 = 1}
SetMembers ==
  Done({"set"}) =>
    LET members == Members(task) IN
    /\ task.n > 1 /\ ~(task.n = 8 /\ task.v >= Size(8) \div 2) =>
         /\ Len(value) = Cardinality(members)
         /\ \A k \in members : value[Cardinality(members \cap 1..k)] = task.list[k]
    /\ \A k \in 0..(task.n - 1) : SetDecode(SubSeq(bytes, 1, k), task.n, task.list) = Unset

(* The number that decimal digits are.                                     *)
Decimal(ds) ==
  LET number[i \in 0..Len(ds)] == IF i = 0 THEN 0 ELSE 10 * number[i - 1] + ds[i] IN number[Len(ds)]

(* Division of two words is division: the trial quotient needs one         *)
(* correction at most, and no step of it overflows.  The decimal digits are*)
(* those of the number, zeros inside and at the end of a chunk as well,    *)
(* with none in front.                                                     *)
Uint128Exact ==
  /\ Done({"divide"}) =>
       LET u == Num(task.u)  v == Num(task.v)  all == Radix * Radix IN
       /\ Num(value.quo.q) = u \div v /\ Num(value.quo.r) = u % v
       /\ Num(value.add) = (u + v) % all /\ Num(value.sub) = (u - v) % all
       /\ Num(value.mul) = (u * v) % all
       /\ value.cmp = IF u < v THEN -1 ELSE IF u = v THEN 0 ELSE 1
  /\ Done({"print"}) =>
       /\ Decimal(value) = Num(task.u)
       /\ value[1] = 0 => value = <<0>>

(* A byte vector that was decoded encodes to itself: HexBytes always, Bytes*)
(* unless its text itself starts with 0x, String if it is text.            *)
TextReadsBack ==
  Done(Text)
    /\ (task.codec = "Bytes" => ~(IsASCII(task.v) /\ HasHexPrefix(task.v)))
    /\ (task.codec = "String" => IsASCII(task.v)) => bytes = [length |-> Len(task.v), hex |-> BytesToHex(task.v)]

(* A runtime writes addresses as an account, with or without the prefix, or*)
(* as an index; these forms the decoders take for others: indexes all but  *)
(* where they are passed over, accounts that begin like a prefix, lookup   *)
(* sources that are neither prefixed nor all there is; floats anywhere; the*)
(* root of a digest item, which has no length.                             *)
Misread(t) ==
  CASE t.codec = "Address" -> t.form = "index" \/ (t.form = "account" /\ t.v[1] = Ff)
    [] t.codec = "GenericAddress" ->
         \/ t.form = "index" /\ Len(t.v) = 1
         \/ t.form = "account" /\ t.v[1] >= Fc
    [] t.codec = "GenericLookupSource" ->
         \/ t.form = "index"
         \/ t.form = "account" /\ Len(Around(t)) # HashLength
    [] t.codec = "Float64" -> TRUE
    [] t.codec = "LogDigest" -> t.form = "root"
    [] OTHER -> FALSE

(* Values that are not written as they were read: raw bytes that are no    *)
(* text, but for a single one, and bits unless there are as many as bytes. *)
Rewritten(t) ==
  \/ t.codec = "Data" /\ t.form = "raw" /\ Tail(t.v) \notin Utf8 /\ Len(t.v) # 2
  \/ t.codec = "BitVec" /\ CompactValue(t.v) # Whole(CompactValue(t.v))
  \/ t.codec = "BitVec" /\ CompactValue(t.v) = 0

(* A codec that finds out from its bytes how many it takes ends where the  *)
(* runtime's value does, whatever is around it, and writes what it read.   *)
LeavesAligned ==
  Done(LeafCodec) /\ ~Misread(task) =>
    /\ value.at = Len(task.before) + Len(task.v)
    /\ bytes # Unset /\ ~Rewritten(task) => bytes = task.v

(* Comparing two metadata both ways finds nothing exactly if they have the *)
(* same modules with the same calls, events and storage, of types with the *)
(* same description: no length, order or number of modules hides a change. *)
(* Storage maps of several keys are the same if they are there.            *)
Shape(modules) ==
  {[name |-> m.name,
    items |-> [f \in {"calls", "events"} |->
                 {<<x.name, [k \in DOMAIN x.args |-> TypeStruct(x.args[k])]>> : x \in ToSet(m[f])}],
    storage |-> {<<x.name, TypeStruct(IF x.origin = "NMapType" THEN "" ELSE x.value)>> : x \in ToSet(m.storage)}]
   : m \in ToSet(modules)}

Silent(result) == result.newModules = <<>> /\ DOMAIN result.moduleChanges = {}

ChangesReported ==
  Done({"compare"}) =>
    (Silent(value.new) /\ Silent(value.old) <=> Shape(task.a) = Shape(task.b))
=============================================================================
