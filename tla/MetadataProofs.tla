---------------------------- MODULE MetadataProofs ----------------------------
(***************************************************************************)
(* What the decoders of metadata and of events promise: MetadataIndex,     *)
(* MetadataDecoder and MetadataEvents.                                     *)
(*                                                                         *)
(* Whatever pallets a runtime has, the indexes hold its calls and events,  *)
(* each once and nothing else.  All of it rests on two pallets never having*)
(* one first byte: before version 12 because a pallet with the section uses*)
(* up a number, from version 12 because runtimes state distinct ones.      *)
(*                                                                         *)
(* End to end, the pallets are read as they were written (LayoutProofs has *)
(* the items of every version), the index finds what the runtime itself    *)
(* dispatches, a pallet's index selects its own origin, and the events of a*)
(* block are decoded as they were emitted.                                 *)
(***************************************************************************)
EXTENDS MetadataEvents, LayoutProofs, FiniteSetTheorems, SequenceTheorems

(* Two hexadecimal digits say which byte it was.                           *)
LEMMA HexDigits ==
  ASSUME NEW a \in Byte, NEW b \in Byte, Hex(a) = Hex(b)
  PROVE  a = b
<1>1. a \div 16 = b \div 16 /\ a % 16 = b % 16  BY DEF Hex
<1>2. a = 16 * (a \div 16) + (a % 16)  BY DEF Byte
<1>3. b = 16 * (b \div 16) + (b % 16)  BY DEF Byte
<1> QED  BY <1>1, <1>2, <1>3

(* A lookup is the two bytes it was made of.                               *)
LEMMA LookupDistinct ==
  ASSUME NEW m \in Byte, NEW n \in Byte, NEW i \in Byte, NEW j \in Byte,
         Lookup(m, i) = Lookup(n, j)
  PROVE  m = n /\ i = j
<1>1. \A a, b \in Byte : /\ Lookup(a, b)[1] = Hex(a)[1] /\ Lookup(a, b)[2] = Hex(a)[2]
                         /\ Lookup(a, b)[3] = Hex(b)[1] /\ Lookup(a, b)[4] = Hex(b)[2]
  <2> SUFFICES ASSUME NEW a \in Byte, NEW b \in Byte
               PROVE  /\ Lookup(a, b)[1] = Hex(a)[1] /\ Lookup(a, b)[2] = Hex(a)[2]
                      /\ Lookup(a, b)[3] = Hex(b)[1] /\ Lookup(a, b)[4] = Hex(b)[2]
    OBVIOUS
  <2>1. Hex(a) \in Seq(Int) /\ Hex(b) \in Seq(Int) /\ Len(Hex(a)) = 2 /\ Len(Hex(b)) = 2
    BY DEF Hex, Byte
  <2>2. \A k \in 1..4 : Lookup(a, b)[k] = IF k <= 2 THEN Hex(a)[k] ELSE Hex(b)[k - 2]
    <3>1. \A s, t \in Seq(Int) : /\ Len(s \o t) = Len(s) + Len(t)
                                 /\ \A k \in 1..(Len(s) + Len(t)) :
                                      (s \o t)[k] = IF k <= Len(s) THEN s[k] ELSE t[k - Len(s)]
      BY ConcatProperties
    <3>2. Lookup(a, b) = Hex(a) \o Hex(b)  BY DEF Lookup
    <3>3. \A k \in 1..(Len(Hex(a)) + Len(Hex(b))) :
            (Hex(a) \o Hex(b))[k]
              = IF k <= Len(Hex(a)) THEN Hex(a)[k] ELSE Hex(b)[k - Len(Hex(a))]
      BY <2>1, <3>1
    <3>4. Len(Hex(a)) + Len(Hex(b)) = 4  BY <2>1
    <3> QED  BY <2>1, <3>2, <3>3, <3>4
  <2> QED  BY <2>2
<1>2. Hex(m)[1] = Hex(n)[1] /\ Hex(m)[2] = Hex(n)[2] /\ Hex(i)[1] = Hex(j)[1] /\ Hex(i)[2] = Hex(j)[2]
  BY <1>1
<1>3. Hex(m) = Hex(n) /\ Hex(i) = Hex(j)  BY <1>2 DEF Hex
<1> QED  BY <1>3, HexDigits

-----------------------------------------------------------------------------
Known == {Resolved(version, p) : p \in Pallet[version]}

(* No two pallets of a runtime state one index.                            *)
IndexesDistinct ==
  version >= 12 =>
    \A j, k \in DOMAIN pallets : pallets[j].index = pallets[k].index => j = k

(* Before version 12 the next number is that of the next pallet.           *)
NumbersCounted ==
  version < 12 => \A s \in Section : number[s] = Cardinality(Before(at + 1, s))

(* TypeOK does not say what the sequences hold.                            *)
TypeInv ==
  /\ TypeOK
  /\ pallets \in Seq(Pallet[version])
  /\ modules \in Seq(Known)
  /\ IndexesDistinct
  /\ NumbersCounted

LEMMA PalletsTyped ==
  ASSUME TypeInv
  PROVE  /\ version \in 6..16 /\ at \in Nat /\ Len(pallets) \in Nat /\ Len(pallets) <= 256
         /\ DOMAIN pallets = 1..Len(pallets)
         /\ at <= Len(pallets) /\ MaxPallet \in Nat
BY MetadataAssumption, LenProperties DEF TypeInv, TypeOK

LEMMA BeforeFinite ==
  ASSUME NEW k \in Nat, NEW s
  PROVE  /\ IsFiniteSet(Before(k, s)) /\ Cardinality(Before(k, s)) \in Nat
         /\ k >= 1 => Cardinality(Before(k, s)) <= k - 1
<1>1. IsFiniteSet(1..(k - 1)) /\ (k >= 1 => Cardinality(1..(k - 1)) = k - 1)
  BY FS_Interval
<1>2. Before(k, s) \subseteq 1..(k - 1)  BY DEF Before
<1>3. IsFiniteSet(Before(k, s)) /\ Cardinality(Before(k, s)) <= Cardinality(1..(k - 1))
  BY <1>1, <1>2, FS_Subset
<1> QED  BY <1>1, <1>3, FS_CardinalityType

(* A pallet that has the section uses up a number, others do not.          *)
LEMMA BeforeNext ==
  ASSUME NEW k \in Nat \ {0}, NEW s
  PROVE  Cardinality(Before(k + 1, s))
           = Cardinality(Before(k, s)) + IF pallets[k][s] # None THEN 1 ELSE 0
<1>1. IsFiniteSet(Before(k, s)) /\ Cardinality(Before(k, s)) \in Nat  BY BeforeFinite
<1>2. CASE pallets[k][s] # None
  <2>1. Before(k + 1, s) = Before(k, s) \cup {k}  BY <1>2 DEF Before
  <2>2. k \notin Before(k, s)  BY DEF Before
  <2>3. Cardinality(Before(k, s) \cup {k}) = Cardinality(Before(k, s)) + 1
    BY <1>1, <2>2, FS_AddElement
  <2> QED  BY <1>2, <2>1, <2>3
<1>3. CASE pallets[k][s] = None
  <2>1. Before(k + 1, s) = Before(k, s)  BY <1>3 DEF Before
  <2> QED  BY <1>3, <2>1, <1>1
<1> QED  BY <1>2, <1>3

(* A later pallet has a higher number than one that has the section.       *)
LEMMA BeforeGrows ==
  ASSUME NEW j \in Nat \ {0}, NEW k \in Nat, NEW s, j < k, pallets[j][s] # None
  PROVE  Cardinality(Before(j, s)) < Cardinality(Before(k, s))
<1>1. IsFiniteSet(Before(k, s)) /\ Cardinality(Before(k, s)) \in Nat  BY BeforeFinite
<1>2. IsFiniteSet(Before(j, s)) /\ Cardinality(Before(j, s)) \in Nat  BY BeforeFinite
<1>3. Before(j + 1, s) \subseteq Before(k, s)  BY DEF Before
<1>4. Cardinality(Before(j + 1, s)) <= Cardinality(Before(k, s))
  BY <1>1, <1>3, FS_Subset
<1>5. Cardinality(Before(j + 1, s)) = Cardinality(Before(j, s)) + 1  BY BeforeNext
<1> QED  BY <1>1, <1>2, <1>4, <1>5

-----------------------------------------------------------------------------
LEMMA TypeInit == Init => TypeInv
<1> SUFFICES ASSUME Init PROVE TypeInv  OBVIOUS
<1>1. pallets = <<>> /\ modules = <<>> /\ at = 0 /\ stage = "read"  BY DEF Init
<1>2. TypeOK
  <2>1. Len(pallets) = 0 /\ DOMAIN pallets = {} /\ Len(modules) = 0  BY <1>1
  <2> QED  BY <1>1, <2>1, MetadataAssumption DEF Init, TypeOK
<1>3. IndexesDistinct  BY <1>1 DEF IndexesDistinct
<1>4. NumbersCounted
  <2>1. \A s \in Section : Before(at + 1, s) = {}  BY <1>1 DEF Before
  <2> QED  BY <2>1, FS_EmptySet DEF Init, NumbersCounted
<1> QED  BY <1>1, <1>2, <1>3, <1>4 DEF TypeInv

LEMMA TypeReadModule ==
  ASSUME TypeInv, NEW p \in Pallet[version], ReadModule(p)
  PROVE  TypeInv'
<1>1. /\ pallets \in Seq(Pallet[version]) /\ pallets' = Append(pallets, p)
      /\ version' = version /\ stage' = stage /\ at' = at /\ number' = number
      /\ index' = index /\ modules' = modules
      /\ stage = "read" /\ Len(pallets) < MaxPallet
      /\ PalletOK(version, p) /\ Distinct(p)
  BY DEF TypeInv, ReadModule
<1>2. /\ pallets' \in Seq(Pallet[version]) /\ Len(pallets') = Len(pallets) + 1
      /\ \A k \in 1..Len(pallets) : pallets'[k] = pallets[k]
      /\ pallets'[Len(pallets) + 1] = p
  BY <1>1, AppendProperties
<1>3. DOMAIN pallets' = 1..(Len(pallets) + 1)  BY <1>2, LenProperties
<1>4. /\ DOMAIN pallets = 1..Len(pallets) /\ Len(pallets) \in Nat /\ at \in Nat
      /\ at <= Len(pallets) /\ MaxPallet \in Nat
  BY PalletsTyped
<1>5. \A k \in DOMAIN pallets' : k \in DOMAIN pallets \/ k = Len(pallets) + 1  BY <1>3, <1>4
<1>6. TypeOK'
  <2>1. \A k \in DOMAIN pallets' : PalletOK(version, pallets'[k])
    BY <1>1, <1>2, <1>4, <1>5 DEF TypeInv, TypeOK
  <2>2. Len(pallets') <= MaxPallet  BY <1>1, <1>2, <1>4
  <2>3. number' \in [Section -> 0..at'] /\ Len(modules') = at' /\ DOMAIN index' = Section
    BY <1>1 DEF TypeInv, TypeOK
  <2>4. \A k \in DOMAIN pallets' : PalletOK(version', pallets'[k])
    BY <1>1, <2>1
  <2> QED  BY <1>1, <1>2, <1>4, <2>2, <2>3, <2>4 DEF TypeInv, TypeOK
<1>7. IndexesDistinct'
  BY <1>1, <1>2, <1>4, <1>5 DEF TypeInv, IndexesDistinct, Distinct
<1>8. NumbersCounted'
  <2>1. \A s : Before(at + 1, s)' = Before(at + 1, s)
    BY <1>1, <1>2, <1>4 DEF Before
  <2> QED  BY <1>1, <2>1 DEF TypeInv, NumbersCounted
<1> QED  BY <1>1, <1>2, <1>6, <1>7, <1>8 DEF TypeInv, Known

LEMMA TypeIndexModule ==
  ASSUME TypeInv, IndexModule
  PROVE  TypeInv'
<1> DEFINE p == pallets[at + 1]
<1>1. /\ stage = "index" /\ at < Len(pallets) /\ at' = at + 1 /\ Resolvable(version, p)
      /\ version' = version /\ pallets' = pallets /\ stage' = stage
      /\ index' = [s \in Section |-> Entered(version, p, s)]
      /\ number' = [s \in Section |-> number[s] + Step(version, p, s)]
      /\ modules' = Append(modules, Resolved(version, p))
  BY DEF IndexModule
<1>2. /\ DOMAIN pallets = 1..Len(pallets) /\ Len(pallets) \in Nat /\ at \in Nat
      /\ at + 1 \in 1..Len(pallets) /\ version \in 6..16
  BY <1>1, PalletsTyped
<1>3. p \in Pallet[version]  BY <1>2, ElementOfSeq DEF TypeInv
<1>4. modules' \in Seq(Known') /\ Len(modules') = Len(modules) + 1
  <2>1. Resolved(version, p) \in Known /\ Known' = Known  BY <1>1, <1>3 DEF Known
  <2> QED  BY <1>1, <2>1, AppendProperties DEF TypeInv
<1>5. TypeOK'
  <2>1. number' \in [Section -> 0..at']
    <3> SUFFICES ASSUME NEW s \in Section PROVE number[s] + Step(version, p, s) \in 0..at'
      BY <1>1
    <3>1. number[s] \in 0..at  BY DEF TypeInv, TypeOK
    <3>2. Step(version, p, s) \in 0..1  BY DEF Step
    <3> QED  BY <1>1, <1>2, <3>1, <3>2
  <2>2. Len(modules') = at' /\ at' \in 0..Len(pallets')
    BY <1>1, <1>2, <1>4 DEF TypeInv, TypeOK
  <2>3. \A k \in DOMAIN pallets' : PalletOK(version', pallets'[k])
    BY <1>1 DEF TypeInv, TypeOK
  <2> QED  BY <1>1, <2>1, <2>2, <2>3 DEF TypeInv, TypeOK
<1>6. IndexesDistinct'  BY <1>1 DEF TypeInv, IndexesDistinct
<1>7. NumbersCounted'
  <2> SUFFICES ASSUME version < 12, NEW s \in Section
               PROVE  number'[s] = Cardinality(Before(at + 1, s)')
    BY <1>1 DEF NumbersCounted
  <2>1. Before(at + 1, s)' = Before(at + 2, s)  BY <1>1, <1>2 DEF Before
  <2>2. Cardinality(Before(at + 2, s))
          = Cardinality(Before(at + 1, s)) + IF p[s] # None THEN 1 ELSE 0
    BY <1>2, BeforeNext
  <2>3. number[s] = Cardinality(Before(at + 1, s))  BY DEF TypeInv, NumbersCounted
  <2>4. number'[s] = number[s] + Step(version, p, s)  BY <1>1
  <2>5. Step(version, p, s) = IF p[s] # None THEN 1 ELSE 0  BY DEF Step
  <2> QED  BY <2>1, <2>2, <2>3, <2>4, <2>5
<1> QED  BY <1>1, <1>4, <1>5, <1>6, <1>7 DEF TypeInv

(* The other steps leave pallets, numbers and indexes alone.               *)
LEMMA TypeUnmoved ==
  ASSUME TypeInv, UNCHANGED <<version, pallets, at, number, index, modules>>,
         stage' \in {"read", "index", "done", "panic"}
  PROVE  TypeInv'
<1>1. \A k, s : Before(k, s)' = Before(k, s)  BY DEF Before
<1>2. TypeOK'  BY DEF TypeInv, TypeOK
<1>3. IndexesDistinct'  BY DEF TypeInv, IndexesDistinct
<1>4. NumbersCounted'  BY <1>1 DEF TypeInv, NumbersCounted
<1>5. Known' = Known  BY DEF Known
<1> QED  BY <1>2, <1>3, <1>4, <1>5 DEF TypeInv

LEMMA TypeStep == TypeInv /\ [Next]_vars => TypeInv'
<1> SUFFICES ASSUME TypeInv, [Next]_vars PROVE TypeInv'  OBVIOUS
<1>1. ASSUME NEW p \in Pallet[version], ReadModule(p) PROVE TypeInv'
  BY <1>1, TypeReadModule
<1>2. CASE StartIndex  BY <1>2, TypeUnmoved DEF StartIndex
<1>3. CASE IndexModule  BY <1>3, TypeIndexModule
<1>4. CASE IndexPanic  BY <1>4, TypeUnmoved DEF IndexPanic
<1>5. CASE Finish  BY <1>5, TypeUnmoved DEF Finish
<1>6. CASE UNCHANGED vars
  <2>1. stage \in {"read", "index", "done", "panic"}  BY DEF TypeInv, TypeOK
  <2> QED  BY <1>6, <2>1, TypeUnmoved DEF vars
<1> QED  BY <1>1, <1>2, <1>3, <1>4, <1>5, <1>6 DEF Next

(* Bytes stay bytes and every pallet is entered once, in order.            *)
THEOREM IndexTyped == Spec => []TypeOK
<1>1. TypeInv => TypeOK  BY DEF TypeInv
<1> QED  BY <1>1, TypeInit, TypeStep, PTL DEF Spec

-----------------------------------------------------------------------------
Its(k, s) == Items(version, pallets[k][s])

LEMMA ItemsThere ==
  ASSUME NEW k, NEW s, NEW i \in DOMAIN Its(k, s)
  PROVE  pallets[k][s] # None
BY DEF Its, Items

(* What PalletOK says of the items of a pallet that was read.              *)
LEMMA ItemsTyped ==
  ASSUME TypeInv, NEW k \in 1..Len(pallets), NEW s \in Section
  PROVE  \A i, j \in DOMAIN Its(k, s) :
           /\ Its(k, s)[i].index \in Byte
           /\ Its(k, s)[i].index = Its(k, s)[j].index => i = j
<1>1. PalletOK(version, pallets[k])  BY PalletsTyped DEF TypeInv, TypeOK
<1> QED  BY <1>1 DEF PalletOK, Its

LEMMA NumberByte ==
  ASSUME TypeInv, NEW k \in 1..Len(pallets), NEW s \in Section
  PROVE  PalletNumber(k, s) \in Byte
<1>1. CASE version < 12
  <2>1. Cardinality(Before(k, s)) \in Nat /\ Cardinality(Before(k, s)) <= k - 1
    BY PalletsTyped, BeforeFinite
  <2>2. Len(pallets) \in Nat /\ Len(pallets) <= 256  BY PalletsTyped
  <2>3. k \in Nat /\ k >= 1 /\ k <= 256  BY <2>2
  <2>4. \A c \in Nat : c <= k - 1 => c \in 0..255  BY <2>3
  <2>5. Cardinality(Before(k, s)) \in 0..255
    <3> DEFINE c == Cardinality(Before(k, s))
    <3>1. c \in Nat /\ c <= k - 1  BY <2>1
    <3> HIDE DEF c
    <3>2. c \in 0..255  BY <2>4, <3>1
    <3> QED  BY <3>2 DEF c
  <2> QED  BY <1>1, <2>5 DEF PalletNumber, Byte
<1>2. CASE ~ (version < 12)
  <2>1. PalletOK(version, pallets[k])  BY PalletsTyped DEF TypeInv, TypeOK
  <2>2. version >= 12  BY <1>2, PalletsTyped
  <2> QED  BY <1>2, <2>1, <2>2 DEF PalletNumber, PalletOK
<1> QED  BY <1>1, <1>2

(* Two pallets with one number of a section are one pallet.                *)
LEMMA NumbersUnique ==
  ASSUME TypeInv, NEW s \in Section,
         NEW j \in 1..Len(pallets), NEW k \in 1..Len(pallets),
         pallets[j][s] # None, pallets[k][s] # None,
         PalletNumber(j, s) = PalletNumber(k, s)
  PROVE  j = k
<1>1. Len(pallets) \in Nat /\ version \in 6..16 /\ DOMAIN pallets = 1..Len(pallets)
  BY PalletsTyped
<1>2. CASE version < 12
  <2>1. /\ Cardinality(Before(j, s)) \in Nat /\ Cardinality(Before(k, s)) \in Nat
        /\ Cardinality(Before(j, s)) = Cardinality(Before(k, s))
    BY <1>1, <1>2, BeforeFinite DEF PalletNumber
  <2>2. j < k => Cardinality(Before(j, s)) < Cardinality(Before(k, s))  BY <1>1, BeforeGrows
  <2>3. k < j => Cardinality(Before(k, s)) < Cardinality(Before(j, s))  BY <1>1, BeforeGrows
  <2> QED  BY <1>1, <2>1, <2>2, <2>3
<1>3. CASE version >= 12
  <2>1. pallets[j].index = pallets[k].index  BY <1>1, <1>3 DEF PalletNumber
  <2> QED  BY <1>1, <1>3, <2>1 DEF TypeInv, IndexesDistinct
<1> QED  BY <1>1, <1>2, <1>3

Own(k, s, i) == Lookup(PalletNumber(k, s), Its(k, s)[i].index)

(* No two items of a section share a lookup.                               *)
LEMMA LookupsUnique ==
  ASSUME TypeInv, NEW s \in Section,
         NEW j \in 1..Len(pallets), NEW k \in 1..Len(pallets),
         NEW h \in DOMAIN Its(j, s), NEW i \in DOMAIN Its(k, s), Own(j, s, h) = Own(k, s, i)
  PROVE  j = k /\ h = i
<1>1. PalletNumber(j, s) = PalletNumber(k, s) /\ Its(j, s)[h].index = Its(k, s)[i].index
  BY ItemsTyped, NumberByte, LookupDistinct DEF Own
<1>2. pallets[j][s] # None /\ pallets[k][s] # None  BY ItemsThere
<1>3. j = k  BY <1>1, <1>2, NumbersUnique
<1> QED  BY <1>1, <1>3, ItemsTyped

(* The first byte used for the next pallet is its number.                  *)
LEMMA FirstByteIsNumber ==
  ASSUME TypeInv, NEW s \in Section
  PROVE  FirstByte(version, pallets[at + 1], s) = PalletNumber(at + 1, s)
BY DEF FirstByte, PalletNumber, TypeInv, NumbersCounted

-----------------------------------------------------------------------------
(* Found and NothingElse, in the terms of the lemmas.                      *)
FoundInv ==
  \A s \in Section : \A k \in 1..at : \A i \in DOMAIN Its(k, s) :
    /\ Own(k, s, i) \in DOMAIN index[s]
    /\ index[s][Own(k, s, i)] = [module |-> pallets[k].name, item |-> Its(k, s)[i]]

NothingInv ==
  \A s \in Section : \A l \in DOMAIN index[s] :
    \E k \in 1..at : \E i \in DOMAIN Its(k, s) : l = Own(k, s, i)

IndexInv == TypeInv /\ FoundInv /\ NothingInv

(* What indexing a pallet does to one section.                             *)
LEMMA EntersPallet ==
  ASSUME TypeInv, IndexModule, NEW s \in Section
  PROVE  LET n == at + 1
             new == {Own(n, s, i) : i \in DOMAIN Its(n, s)}
         IN /\ n \in 1..Len(pallets)
            /\ DOMAIN index'[s] = DOMAIN index[s] \cup new
            /\ \A i \in DOMAIN Its(n, s) :
                 index'[s][Own(n, s, i)] = [module |-> pallets[n].name, item |-> Its(n, s)[i]]
            /\ \A l \in DOMAIN index[s] \ new : index'[s][l] = index[s][l]
<1> DEFINE n == at + 1
           its == Its(n, s)
           new == {Own(n, s, i) : i \in DOMAIN its}
<1>1. index'[s] = Entered(version, pallets[n], s) /\ at < Len(pallets)  BY DEF IndexModule
<1>2. n \in 1..Len(pallets)  BY <1>1, PalletsTyped
<1>3. Entered(version, pallets[n], s)
        = [l \in DOMAIN index[s] \cup new |->
             IF l \in new
             THEN [module |-> pallets[n].name,
                   item |-> its[CHOOSE i \in DOMAIN its : Own(n, s, i) = l]]
             ELSE index[s][l]]
  BY FirstByteIsNumber DEF Entered, Own, Its
<1>4. \A i \in DOMAIN its : (CHOOSE h \in DOMAIN its : Own(n, s, h) = Own(n, s, i)) = i
  BY <1>2, LookupsUnique
<1> HIDE DEF its, new
<1>5. \A i \in DOMAIN its : Own(n, s, i) \in new  BY DEF new
<1>6. \A i \in DOMAIN its : index'[s][Own(n, s, i)] = [module |-> pallets[n].name, item |-> its[i]]
  BY <1>1, <1>3, <1>4, <1>5
<1>7. \A l \in DOMAIN index[s] \ new : index'[s][l] = index[s][l]  BY <1>1, <1>3
<1>8. DOMAIN index'[s] = DOMAIN index[s] \cup new  BY <1>1, <1>3
<1> QED  BY <1>2, <1>6, <1>7, <1>8 DEF its, new

(* The pallets that are indexed stay what they were.                       *)
LEMMA PalletsKept ==
  ASSUME TypeInv, [Next]_vars, NEW k \in 1..at, NEW s \in Section
  PROVE  /\ pallets'[k] = pallets[k] /\ Its(k, s)' = Its(k, s)
         /\ PalletNumber(k, s)' = PalletNumber(k, s)
<1>1. /\ DOMAIN pallets = 1..Len(pallets) /\ Len(pallets) \in Nat /\ at \in Nat
      /\ at <= Len(pallets)
  BY PalletsTyped
<1>2. version' = version
      /\ \/ pallets' = pallets
         \/ \E p \in Pallet[version] : pallets' = Append(pallets, p)
  BY DEF Next, vars, ReadModule, StartIndex, IndexModule, IndexPanic, Finish
<1>3. \A j \in 1..at : pallets'[j] = pallets[j]
  <2>1. CASE pallets' = pallets  BY <2>1
  <2>2. ASSUME NEW p \in Pallet[version], pallets' = Append(pallets, p)
        PROVE  \A j \in 1..at : pallets'[j] = pallets[j]
    <3>1. \A j \in 1..Len(pallets) : Append(pallets, p)[j] = pallets[j]
      BY AppendProperties DEF TypeInv
    <3> QED  BY <1>1, <2>2, <3>1
  <2> QED  BY <1>2, <2>1, <2>2
<1>4. Before(k, s)' = Before(k, s)  BY <1>1, <1>3 DEF Before
<1> QED  BY <1>2, <1>3, <1>4 DEF Its, PalletNumber

LEMMA IndexInit == Init => IndexInv
<1> SUFFICES ASSUME Init PROVE IndexInv  OBVIOUS
<1>1. TypeInv  BY TypeInit
<1>2. at = 0 /\ \A s \in Section : DOMAIN index[s] = {}  BY DEF Init
<1>3. FoundInv  BY <1>2 DEF FoundInv
<1>4. NothingInv  BY <1>2 DEF NothingInv
<1> QED  BY <1>1, <1>3, <1>4 DEF IndexInv

(* A new pallet's items replace no entry.                                  *)
LEMMA NoneReplaced ==
  ASSUME IndexInv, NEW s \in Section, at + 1 \in 1..Len(pallets),
         NEW i \in DOMAIN Its(at + 1, s)
  PROVE  Own(at + 1, s, i) \notin DOMAIN index[s]
<1> SUFFICES ASSUME Own(at + 1, s, i) \in DOMAIN index[s] PROVE FALSE  OBVIOUS
<1>1. PICK k \in 1..at : \E h \in DOMAIN Its(k, s) : Own(at + 1, s, i) = Own(k, s, h)
  BY DEF IndexInv, NothingInv
<1>2. PICK h \in DOMAIN Its(k, s) : Own(at + 1, s, i) = Own(k, s, h)  BY <1>1
<1>3. TypeInv /\ at \in Nat /\ k \in 1..Len(pallets) /\ k # at + 1
  BY PalletsTyped DEF IndexInv
<1>4. k = at + 1  BY <1>2, <1>3, LookupsUnique
<1> QED  BY <1>3, <1>4

LEMMA OwnKept ==
  ASSUME TypeInv, [Next]_vars, NEW k \in 1..at, NEW s \in Section, NEW i
  PROVE  Own(k, s, i)' = Own(k, s, i)
BY PalletsKept DEF Own

(* Indexing keeps what there was and enters the pallet, once.              *)
LEMMA IndexIndexModule ==
  ASSUME IndexInv, IndexModule
  PROVE  FoundInv' /\ NothingInv'
<1>1. TypeInv /\ [Next]_vars  BY DEF IndexInv, Next
<1>2. /\ at' = at + 1 /\ pallets' = pallets /\ version' = version
  BY DEF IndexModule
<1>3. at \in Nat /\ at + 1 \in 1..Len(pallets)
  BY <1>1, PalletsTyped DEF IndexModule
<1>4. \A k, s : Its(k, s)' = Its(k, s)  BY <1>2 DEF Its
<1>5. \A k, s : PalletNumber(k, s)' = PalletNumber(k, s)
  <2>1. \A k, s : Before(k, s)' = Before(k, s)  BY <1>2 DEF Before
  <2> QED  BY <1>2, <2>1 DEF PalletNumber
<1>6. \A k, s, i : Own(k, s, i)' = Own(k, s, i)  BY <1>4, <1>5 DEF Own
<1>7. \A k \in 1..(at + 1) : k \in 1..at \/ k = at + 1  BY <1>3
<1>8. FoundInv'
  <2> SUFFICES ASSUME NEW s \in Section, NEW k \in 1..(at + 1), NEW i \in DOMAIN Its(k, s)
               PROVE  /\ Own(k, s, i) \in DOMAIN index'[s]
                      /\ index'[s][Own(k, s, i)] = [module |-> pallets[k].name, item |-> Its(k, s)[i]]
    BY <1>2, <1>4, <1>6 DEF FoundInv
  <2>1. CASE k = at + 1  BY <1>1, <2>1, EntersPallet
  <2>2. CASE k \in 1..at
    <3>1. /\ Own(k, s, i) \in DOMAIN index[s]
          /\ index[s][Own(k, s, i)] = [module |-> pallets[k].name, item |-> Its(k, s)[i]]
      BY <2>2 DEF IndexInv, FoundInv
    <3>2. \A h \in DOMAIN Its(at + 1, s) : Own(at + 1, s, h) # Own(k, s, i)
      BY <1>3, <3>1, NoneReplaced
    <3>3. Own(k, s, i) \notin {Own(at + 1, s, h) : h \in DOMAIN Its(at + 1, s)}  BY <3>2
    <3> QED  BY <1>1, <3>1, <3>3, EntersPallet
  <2> QED  BY <1>7, <2>1, <2>2
<1>9. NothingInv'
  <2> SUFFICES ASSUME NEW s \in Section, NEW l \in DOMAIN index'[s]
               PROVE  \E k \in 1..(at + 1) : \E i \in DOMAIN Its(k, s) : l = Own(k, s, i)
    BY <1>2, <1>4, <1>6 DEF NothingInv
  <2>1. CASE l \in DOMAIN index[s]
    <3>1. PICK k \in 1..at : \E i \in DOMAIN Its(k, s) : l = Own(k, s, i)
      BY <2>1 DEF IndexInv, NothingInv
    <3> QED  BY <1>3, <3>1
  <2>2. CASE l \notin DOMAIN index[s]
    <3>1. l \in {Own(at + 1, s, i) : i \in DOMAIN Its(at + 1, s)}
      BY <1>1, <2>2, EntersPallet
    <3>2. at + 1 \in 1..(at + 1)  BY <1>3
    <3> QED  BY <3>1, <3>2
  <2> QED  BY <2>1, <2>2
<1> QED  BY <1>8, <1>9

(* No other step touches what is indexed.                                  *)
LEMMA IndexUnmoved ==
  ASSUME IndexInv, [Next]_vars, at' = at, index' = index
  PROVE  FoundInv' /\ NothingInv'
<1>1. TypeInv  BY DEF IndexInv
<1>2. \A k \in 1..at, s \in Section :
        pallets'[k] = pallets[k] /\ Its(k, s)' = Its(k, s)
  BY <1>1, PalletsKept
<1>3. \A k \in 1..at, s \in Section : \A i : Own(k, s, i)' = Own(k, s, i)
  BY <1>1, OwnKept
<1>4. FoundInv'  BY <1>2, <1>3 DEF IndexInv, FoundInv
<1>5. NothingInv'  BY <1>2, <1>3 DEF IndexInv, NothingInv
<1> QED  BY <1>4, <1>5

LEMMA IndexStep == IndexInv /\ [Next]_vars => IndexInv'
<1> SUFFICES ASSUME IndexInv, [Next]_vars PROVE IndexInv'  OBVIOUS
<1>1. TypeInv'  BY TypeStep DEF IndexInv
<1>2. CASE IndexModule  BY <1>1, <1>2, IndexIndexModule DEF IndexInv
<1>3. CASE ~ IndexModule
  <2>1. at' = at /\ index' = index
    BY <1>3 DEF Next, vars, ReadModule, StartIndex, IndexPanic, Finish
  <2> QED  BY <1>1, <2>1, IndexUnmoved DEF IndexInv
<1> QED  BY <1>2, <1>3

LEMMA IndexAlways == Spec => []IndexInv
BY IndexInit, IndexStep, PTL DEF Spec

-----------------------------------------------------------------------------
(* Every call and event of an indexed pallet is found, as its own.         *)
THEOREM AllFound == Spec => []Found
<1>1. IndexInv => Found  BY DEF IndexInv, FoundInv, Found, Own, Its
<1> QED  BY <1>1, IndexAlways, PTL

(* Nothing else is found.                                                  *)
THEOREM NothingElseFound == Spec => []NothingElse
<1>1. IndexInv => NothingElse  BY DEF IndexInv, NothingInv, NothingElse, Own, Its
<1> QED  BY <1>1, IndexAlways, PTL

(* No step replaces an entry.                                              *)
THEOREM EntriesStay == Spec => EntriesKept
<1> DEFINE Stays == \A s \in Section : \A l \in DOMAIN index[s] :
                     l \in DOMAIN index'[s] /\ index'[s][l] = index[s][l]
<1>1. ASSUME IndexInv, [Next]_vars PROVE Stays
  <2>1. CASE IndexModule
    <3> SUFFICES ASSUME NEW s \in Section, NEW l \in DOMAIN index[s]
                 PROVE  l \in DOMAIN index'[s] /\ index'[s][l] = index[s][l]
      OBVIOUS
    <3>1. TypeInv /\ at + 1 \in 1..Len(pallets)  BY <1>1, <2>1, EntersPallet DEF IndexInv
    <3>2. l \notin {Own(at + 1, s, i) : i \in DOMAIN Its(at + 1, s)}
      BY <1>1, <3>1, NoneReplaced
    <3> QED  BY <2>1, <3>1, <3>2, EntersPallet
  <2>2. CASE ~ IndexModule
    <3>1. index' = index
      BY <1>1, <2>2 DEF Next, vars, ReadModule, StartIndex, IndexPanic, Finish
    <3> QED  BY <3>1
  <2> QED  BY <2>1, <2>2
<1>2. IndexInv /\ [Next]_vars => [Stays]_vars  BY <1>1
<1> HIDE DEF Stays
<1>3. Spec => [][Stays]_vars  BY <1>2, IndexAlways, PTL DEF Spec
<1> QED  BY <1>3 DEF EntriesKept, Stays

-----------------------------------------------------------------------------
(* Pieces. *)

LEMMA OneSeq == ASSUME NEW x PROVE IsSeq(<<x>>) /\ Len(<<x>>) = 1 /\ <<x>>[1] = x
<1>1. <<x>> \in Seq({x}) OBVIOUS
<1> QED BY <1>1 DEF IsSeq

(* Pieces of bytes put together are bytes, the first one and the others.   *)
LEMMA FlatSeq == ASSUME NEW ss, Pieces(ss) PROVE IsSeq(FlattenSeq(ss))
BY FlatAppend, SeqEmpty

LEMMA FlatFirst ==
  ASSUME NEW n \in Nat, NEW ss, Pieces(ss), Len(ss) = n + 1, NEW rest, Pieces(rest),
         Len(rest) = n, \A i \in 1..n : rest[i] = ss[i + 1]
  PROVE  FlattenSeq(ss) = ss[1] \o FlattenSeq(rest)
<1>1. PICK S : ss \in Seq(Seq(S)) BY PiecesTyped
<1>2. ss # <<>> /\ Head(ss) = ss[1] /\ Tail(ss) \in Seq(Seq(S)) /\ Len(Tail(ss)) = n
      /\ \A i \in 1..n : Tail(ss)[i] = ss[i + 1]
  BY <1>1
<1>3. rest = Tail(ss)
  <2>1. IsSeq(rest) /\ IsSeq(Tail(ss)) BY <1>2 DEF Pieces, IsSeq
  <2> QED BY <1>2, <2>1, SeqSame
<1> QED BY <1>1, <1>2, <1>3, FlatHead

(* The pieces from the next one on.                                        *)
From(ss, n) == [i \in 1..(Len(ss) - n) |-> ss[n + i]]

LEMMA FromPieces ==
  ASSUME NEW ss, Pieces(ss), NEW n \in 0..Len(ss)
  PROVE  /\ Pieces(From(ss, n)) /\ Len(From(ss, n)) = Len(ss) - n
         /\ \A i \in 1..(Len(ss) - n) : From(ss, n)[i] = ss[n + i]
<1> DEFINE m == Len(ss) - n
<1>1. Len(ss) \in Nat BY SeqDomain DEF Pieces
<1>2. m \in Nat /\ \A i \in 1..m : n + i \in 1..Len(ss) BY <1>1
<1>3. /\ From(ss, n) \in [1..m -> {From(ss, n)[i] : i \in 1..m}]
      /\ \A i \in 1..m : From(ss, n)[i] = ss[n + i]
  BY DEF From
<1> HIDE DEF m
<1>4. IsSeq(From(ss, n)) /\ Len(From(ss, n)) = m BY <1>2, <1>3, SeqValues
<1>5. \A i \in 1..m : IsSeq(From(ss, n)[i]) BY <1>2, <1>3 DEF Pieces
<1> QED BY <1>3, <1>4, <1>5 DEF Pieces, m

LEMMA FromNext ==
  ASSUME NEW ss, Pieces(ss), NEW n \in Nat, n < Len(ss)
  PROVE  /\ IsSeq(ss[n + 1]) /\ IsSeq(FlattenSeq(From(ss, n + 1)))
         /\ FlattenSeq(From(ss, n)) = ss[n + 1] \o FlattenSeq(From(ss, n + 1))
<1> DEFINE m == Len(ss) - (n + 1)  a == From(ss, n)  b == From(ss, n + 1)
<1>1. Len(ss) \in Nat BY SeqDomain DEF Pieces
<1>2. /\ m \in Nat /\ Len(ss) - n = m + 1 /\ 1 \in 1..(m + 1) /\ n + 1 \in 1..Len(ss)
      /\ n \in 0..Len(ss) /\ n + 1 \in 0..Len(ss)
      /\ \A i \in 1..m : i + 1 \in 1..(m + 1) /\ n + 1 + i = n + (i + 1)
  BY <1>1
<1>3. Pieces(a) /\ Len(a) = m + 1 /\ \A i \in 1..(m + 1) : a[i] = ss[n + i]
  BY <1>2, FromPieces
<1>4. Pieces(b) /\ Len(b) = m /\ \A i \in 1..m : b[i] = ss[n + 1 + i]
  BY <1>2, FromPieces
<1> HIDE DEF m, a, b
<1>5. \A i \in 1..m : b[i] = a[i + 1] BY <1>2, <1>3, <1>4
<1>6. FlattenSeq(a) = a[1] \o FlattenSeq(b)
  <2>1. /\ m \in Nat /\ Pieces(a) /\ Len(a) = m + 1 /\ Pieces(b) /\ Len(b) = m
        /\ \A i \in 1..m : b[i] = a[i + 1]
    BY <1>2, <1>3, <1>4, <1>5
  <2> QED BY ONLY <2>1, FlatFirst
<1>7. a[1] = ss[n + 1] BY <1>2, <1>3
<1>8. IsSeq(ss[n + 1]) BY <1>2 DEF Pieces
<1>9. IsSeq(FlattenSeq(b)) BY <1>4, FlatSeq
<1> QED BY <1>6, <1>7, <1>8, <1>9 DEF a, b

LEMMA FromAll == ASSUME NEW ss, Pieces(ss) PROVE From(ss, 0) = ss
<1>1. IsSeq(ss) /\ Len(ss) \in Nat BY SeqDomain DEF Pieces
<1>2. 0 \in 0..Len(ss) /\ Len(ss) - 0 = Len(ss) /\ \A i \in 1..Len(ss) : 0 + i = i BY <1>1
<1>3. /\ IsSeq(From(ss, 0)) /\ Len(From(ss, 0)) = Len(ss)
      /\ \A i \in 1..Len(ss) : From(ss, 0)[i] = ss[i]
  BY <1>2, FromPieces DEF Pieces
<1> QED BY <1>1, <1>3, SeqSame

(* Pieces of one element each.                                             *)
LEMMA FlatSingles ==
  ASSUME NEW f, IsSeq(f)
  PROVE  FlattenSeq([i \in DOMAIN f |-> <<f[i]>>]) = f
<1> DEFINE n == Len(f)
           Ones(m) == [i \in 1..m |-> <<f[i]>>]
           First(m) == [i \in 1..m |-> f[i]]
           T == {m \in Nat : m <= n => FlattenSeq(Ones(m)) = First(m)}
<1>1. n \in Nat /\ DOMAIN f = 1..n BY SeqDomain
<1>2. ASSUME NEW m \in Nat
      PROVE  /\ IsSeq(Ones(m)) /\ Len(Ones(m)) = m /\ Pieces(Ones(m))
             /\ IsSeq(First(m)) /\ Len(First(m)) = m
             /\ \A i \in 1..m : Ones(m)[i] = <<f[i]>> /\ First(m)[i] = f[i]
  <2>1. Ones(m) \in [1..m -> {Ones(m)[i] : i \in 1..m}] OBVIOUS
  <2>2. First(m) \in [1..m -> {First(m)[i] : i \in 1..m}] OBVIOUS
  <2>3. \A i \in 1..m : Ones(m)[i] = <<f[i]>> /\ First(m)[i] = f[i] OBVIOUS
  <2> HIDE DEF Ones, First
  <2>4. IsSeq(Ones(m)) /\ Len(Ones(m)) = m BY <2>1, SeqValues
  <2>5. IsSeq(First(m)) /\ Len(First(m)) = m BY <2>2, SeqValues
  <2>6. \A i \in 1..m : IsSeq(Ones(m)[i])
    <3> TAKE i \in 1..m
    <3>1. IsSeq(<<f[i]>>) BY OneSeq
    <3> QED BY <2>3, <3>1
  <2> QED BY <2>3, <2>4, <2>5, <2>6 DEF Pieces
<1> HIDE DEF Ones, First
<1>3. 0 \in T
  <2>1. Ones(0) = <<>> /\ First(0) = <<>>
    BY <1>2, SeqEmpty, SeqSame
  <2> QED BY <2>1, FlatEmpty
<1>4. ASSUME NEW m \in Nat, m \in T PROVE m + 1 \in T
  <2>1. SUFFICES ASSUME m + 1 <= n PROVE FlattenSeq(Ones(m + 1)) = First(m + 1) OBVIOUS
  <2>2. FlattenSeq(Ones(m)) = First(m) BY <1>4, <2>1
  <2> DEFINE x == f[m + 1]  one == <<x>>
  <2>3. m + 1 \in Nat /\ \A i \in 1..(m + 1) : i = m + 1 \/ i \in 1..m OBVIOUS
  <2>4. IsSeq(one) /\ Len(one) = 1 /\ one[1] = x BY OneSeq
  <2> HIDE DEF one
  <2>5. Ones(m + 1) = Append(Ones(m), one)
    <3> DEFINE a == Ones(m)  b == Ones(m + 1)
    <3>1. /\ IsSeq(a) /\ Len(a) = m /\ IsSeq(b) /\ Len(b) = m + 1
          /\ \A i \in 1..m : a[i] = <<f[i]>>
      BY <1>2
    <3>2. \A i \in 1..(m + 1) : b[i] = <<f[i]>> BY <1>2, <2>3
    <3> HIDE DEF a, b
    <3>3. /\ IsSeq(Append(a, one)) /\ Len(Append(a, one)) = m + 1
          /\ \A i \in 1..m : Append(a, one)[i] = a[i]
          /\ Append(a, one)[m + 1] = one
      BY <3>1, SeqAppend
    <3>4. \A i \in 1..(m + 1) : b[i] = Append(a, one)[i]
      BY <2>3, <3>1, <3>2, <3>3 DEF one
    <3>5. b = Append(a, one) BY <3>1, <3>3, <3>4, SeqSame
    <3> QED BY <3>5 DEF a, b
  <2>6. FlattenSeq(Append(Ones(m), one)) = First(m) \o one
    BY <1>2, <2>2, <2>4, FlatAppend
  <2>7. First(m) \o one = First(m + 1)
    <3> DEFINE a == First(m)  b == First(m + 1)
    <3>1. /\ IsSeq(a) /\ Len(a) = m /\ IsSeq(b) /\ Len(b) = m + 1
          /\ \A i \in 1..m : a[i] = f[i]
      BY <1>2
    <3>2. \A i \in 1..(m + 1) : b[i] = f[i] BY <1>2, <2>3
    <3> HIDE DEF a, b
    <3>3. /\ IsSeq(a \o one) /\ Len(a \o one) = Len(a) + Len(one)
          /\ \A i \in 1..(Len(a) + Len(one)) :
               (a \o one)[i] = IF i <= Len(a) THEN a[i] ELSE one[i - Len(a)]
      BY <2>4, <3>1, SeqConcat
    <3>4. \A i \in 1..m : i <= m /\ i \in 1..(m + 1) OBVIOUS
    <3>5. (m + 1) - m = 1 /\ m + 1 \in 1..(m + 1) /\ ~ (m + 1 <= m) OBVIOUS
    <3>6. \A i \in 1..(m + 1) : (a \o one)[i] = b[i]
      BY <2>3, <2>4, <3>1, <3>2, <3>3, <3>4, <3>5
    <3>7. a \o one = b BY <2>4, <3>1, <3>3, <3>6, SeqSame
    <3> QED BY <3>7 DEF a, b
  <2> QED BY <2>5, <2>6, <2>7
<1>5. n \in T
  <2> HIDE DEF T
  <2> QED BY <1>1, <1>3, <1>4, SetInduction
<1>6. First(n) = f BY <1>1, <1>2, SeqSame DEF n
<1>7. [i \in DOMAIN f |-> <<f[i]>>] = Ones(n) BY <1>1 DEF Ones
<1> QED BY <1>5, <1>6, <1>7

(* What remains of a sequence behind its first part.                       *)
LEMMA RestOf ==
  ASSUME NEW a, IsSeq(a), NEW b, IsSeq(b)
  PROVE  SubSeq(a \o b, Len(a) + 1, Len(a \o b)) = b
<1>1. PICK S : a \in Seq(S) BY DEF IsSeq
<1>2. PICK T : b \in Seq(T) BY DEF IsSeq
<1> DEFINE V == S \cup T
<1>3. a \in Seq(V) /\ b \in Seq(V) BY <1>1, <1>2
<1> HIDE DEF V
<1> DEFINE c == a \o b  d == SubSeq(c, Len(a) + 1, Len(c))
<1>4. /\ c \in Seq(V) /\ Len(c) = Len(a) + Len(b) /\ Len(a) \in Nat /\ Len(b) \in Nat
      /\ \A i \in 1..Len(b) : c[Len(a) + i] = b[i]
  BY <1>3
<1> HIDE DEF c
<1>5. d \in Seq(V) /\ Len(d) = Len(b)
  BY <1>4
<1>6. \A i \in 1..Len(b) : d[i] = c[Len(a) + i]
  BY <1>4
<1> HIDE DEF d
<1>7. d = b BY <1>3, <1>4, <1>5, <1>6, EqualSeqs
<1> QED BY <1>7 DEF d, c

(* Where the parts of a sequence are: some elements, one, some and a rest. *)
PartsAt(a, b, c, u, d) ==
  /\ IsSeq(d)
  /\ \A i \in 1..Len(a) : d[i] = a[i]
  /\ d[Len(a) + 1] = b[1]
  /\ \A j \in 1..Len(c) : d[Len(a) + 1 + j] = c[j]
  /\ SubSeq(d, Len(a) + 1 + Len(c) + 1, Len(d)) = u

LEMMA FindParts ==
  ASSUME NEW a, IsSeq(a), NEW b, IsSeq(b), Len(b) = 1, NEW c, IsSeq(c), NEW u, IsSeq(u)
  PROVE  PartsAt(a, b, c, u, a \o b \o c \o u)
<1> DEFINE n == Len(a)  m == Len(c)  p == a \o b  q == p \o c  d == q \o u
<1>1. n \in Nat /\ m \in Nat /\ Len(u) \in Nat BY SeqDomain
<1>2. /\ IsSeq(p) /\ Len(p) = Len(a) + Len(b)
      /\ \A i \in 1..(Len(a) + Len(b)) : p[i] = IF i <= Len(a) THEN a[i] ELSE b[i - Len(a)]
  BY SeqConcat
<1> HIDE DEF p
<1>3. /\ IsSeq(q) /\ Len(q) = Len(p) + Len(c)
      /\ \A i \in 1..(Len(p) + Len(c)) : q[i] = IF i <= Len(p) THEN p[i] ELSE c[i - Len(p)]
  BY <1>2, SeqConcat
<1> HIDE DEF q
<1>4. /\ IsSeq(d) /\ Len(d) = Len(q) + Len(u)
      /\ \A i \in 1..(Len(q) + Len(u)) : d[i] = IF i <= Len(q) THEN q[i] ELSE u[i - Len(q)]
  BY <1>3, SeqConcat
<1>5. SubSeq(d, Len(q) + 1, Len(d)) = u BY <1>3, RestOf
<1> HIDE DEF d
<1>6. Len(p) = n + 1 /\ Len(q) = n + 1 + m BY <1>1, <1>2, <1>3
<1>7. \A i \in 1..(n + 1) : p[i] = IF i <= n THEN a[i] ELSE b[i - n] BY <1>2
<1>8. \A i \in 1..(n + 1 + m) : q[i] = IF i <= n + 1 THEN p[i] ELSE c[i - (n + 1)]
  BY <1>3, <1>6
<1>9. \A i \in 1..(n + 1 + m) : d[i] = q[i]
  <2>1. \A i \in 1..(n + 1 + m) : i \in 1..(n + 1 + m + Len(u)) /\ i <= n + 1 + m BY <1>1
  <2> QED BY <1>4, <1>6, <2>1
<1> HIDE DEF n, m
<1>10. \A i \in 1..n : d[i] = a[i]
  <2>1. \A i \in 1..n : i \in 1..(n + 1) /\ i \in 1..(n + 1 + m) /\ i <= n /\ i <= n + 1 BY <1>1
  <2> QED BY <1>7, <1>8, <1>9, <2>1
<1>11. d[n + 1] = b[1]
  <2>1. n + 1 \in 1..(n + 1) /\ n + 1 \in 1..(n + 1 + m) /\ ~ (n + 1 <= n) /\ (n + 1) - n = 1
        /\ n + 1 <= n + 1
    BY <1>1
  <2> QED BY <1>7, <1>8, <1>9, <2>1
<1>12. \A j \in 1..m : d[n + 1 + j] = c[j]
  <2> TAKE j \in 1..m
  <2>1. n + 1 + j \in 1..(n + 1 + m) /\ ~ (n + 1 + j <= n + 1) /\ (n + 1 + j) - (n + 1) = j BY <1>1
  <2> QED BY <1>8, <1>9, <2>1
<1>13. PartsAt(a, b, c, u, d) BY <1>4, <1>5, <1>6, <1>10, <1>11, <1>12 DEF PartsAt, n, m
<1> QED BY <1>13 DEF d, q, p

-----------------------------------------------------------------------------
(* Sorting.  Some order of the first numbers is by a key.                  *)
Orders(n, key, f) ==
  /\ f \in [1..n -> 1..n]
  /\ \A i, j \in 1..n : f[i] = f[j] => i = j
  /\ \A k \in 1..n : \E i \in 1..n : f[i] = k
  /\ \A i, j \in 1..n : i < j => key[f[i]] <= key[f[j]]

(* Where x goes between sorted values.                                     *)
Between(n, s, x, k) ==
  \A i \in 1..n : (i < k => s[i] <= x) /\ (i >= k => x <= s[i])

LEMMA PlaceExists ==
  ASSUME NEW n \in Nat, NEW s \in [1..n -> Nat], NEW x \in Nat,
         \A i, j \in 1..n : i < j => s[i] <= s[j]
  PROVE  \E k \in 1..(n + 1) : Between(n, s, x, k)
<1> DEFINE T == {m \in Nat : m <= n => \E k \in 1..(m + 1) : Between(m, s, x, k)}
<1>1. 0 \in T
  <2>1. Between(0, s, x, 1) BY DEF Between
  <2> QED BY <2>1
<1>2. ASSUME NEW m \in Nat, m \in T PROVE m + 1 \in T
  <2>1. SUFFICES ASSUME m + 1 <= n PROVE \E k \in 1..(m + 1 + 1) : Between(m + 1, s, x, k)
    OBVIOUS
  <2>2. PICK k \in 1..(m + 1) : Between(m, s, x, k) BY <1>2, <2>1
  <2>3. m + 1 \in 1..n /\ s[m + 1] \in Nat BY <2>1
  <2>4. \A i \in 1..(m + 1) : i = m + 1 \/ i \in 1..m OBVIOUS
  <2>5. CASE k <= m
    <3>1. k \in 1..m /\ k \in 1..n /\ k < m + 1 /\ s[k] \in Nat BY <2>1, <2>5
    <3>2. x <= s[k] /\ s[k] <= s[m + 1] BY <2>2, <2>3, <3>1 DEF Between
    <3>3. x <= s[m + 1] BY <2>3, <3>1, <3>2
    <3>4. Between(m + 1, s, x, k) BY <2>2, <2>4, <3>1, <3>3 DEF Between
    <3> QED BY <3>1, <3>4
  <2>6. CASE k = m + 1 /\ x <= s[m + 1]
    <3>1. Between(m + 1, s, x, k) BY <2>2, <2>4, <2>6 DEF Between
    <3> QED BY <3>1
  <2>7. CASE k = m + 1 /\ s[m + 1] <= x
    <3>1. \A i \in 1..(m + 1) : i < m + 1 + 1 /\ ~ (i >= m + 1 + 1) OBVIOUS
    <3>2. \A i \in 1..m : i < k BY <2>7
    <3>3. Between(m + 1, s, x, m + 1 + 1) BY <2>2, <2>4, <2>7, <3>1, <3>2 DEF Between
    <3> QED BY <3>3
  <2> QED BY <2>3, <2>5, <2>6, <2>7
<1> HIDE DEF T
<1>3. n \in T BY <1>1, <1>2, SetInduction
<1> QED BY <1>3 DEF T

LEMMA OrderInserted ==
  ASSUME NEW n \in Nat, NEW key \in [1..(n + 1) -> Nat], NEW g, Orders(n, key, g)
  PROVE  \E f : Orders(n + 1, key, f)
<1> DEFINE s == [i \in 1..n |-> key[g[i]]]  x == key[n + 1]
<1>0. /\ g \in [1..n -> 1..n]
      /\ \A i, j \in 1..n : g[i] = g[j] => i = j
      /\ \A k \in 1..n : \E i \in 1..n : g[i] = k
      /\ \A i, j \in 1..n : i < j => key[g[i]] <= key[g[j]]
  BY DEF Orders
<1>1. /\ g \in [1..n -> 1..n] /\ \A i \in 1..n : g[i] \in 1..n /\ g[i] \in 1..(n + 1)
      /\ n + 1 \in 1..(n + 1)
  <2>1. \A m \in 1..n : m \in 1..(n + 1) OBVIOUS
  <2>2. \A i \in 1..n : g[i] \in 1..n BY <1>0
  <2>3. n + 1 \in 1..(n + 1) OBVIOUS
  <2> QED BY <1>0, <2>1, <2>2, <2>3
<1>2. s \in [1..n -> Nat] /\ x \in Nat BY <1>1
<1>3. \A i, j \in 1..n : i < j => s[i] <= s[j] BY <1>0
<1>4. \A i \in 1..n : s[i] = key[g[i]] OBVIOUS
<1> HIDE DEF s, x
<1>5. PICK k \in 1..(n + 1) : Between(n, s, x, k) BY <1>2, <1>3, PlaceExists
<1> DEFINE f == [i \in 1..(n + 1) |-> IF i < k THEN g[i] ELSE IF i = k THEN n + 1 ELSE g[i - 1]]
<1>6. /\ \A i \in 1..(n + 1) : i < k => i \in 1..n /\ f[i] = g[i]
      /\ f[k] = n + 1
      /\ \A i \in 1..(n + 1) : i > k => i - 1 \in 1..n /\ f[i] = g[i - 1]
  BY <1>5
<1>7. f \in [1..(n + 1) -> 1..(n + 1)]
  <2>1. ASSUME NEW i \in 1..(n + 1) PROVE f[i] \in 1..(n + 1)
    <3>1. i < k \/ i = k \/ i > k BY <1>5
    <3> HIDE DEF f
    <3> QED BY <1>1, <1>5, <1>6, <3>1
  <2>2. f = [i \in 1..(n + 1) |-> f[i]] OBVIOUS
  <2> HIDE DEF f
  <2> QED BY <2>1, <2>2
<1> HIDE DEF f
<1>8. ASSUME NEW i \in 1..(n + 1), NEW j \in 1..(n + 1), i < j
      PROVE  f[i] # f[j] /\ key[f[i]] <= key[f[j]]
  <2>1. CASE j < k
    <3>1. i \in 1..n /\ j \in 1..n /\ f[i] = g[i] /\ f[j] = g[j] BY <1>5, <1>6, <1>8, <2>1
    <3>2. f[i] # f[j] BY <1>0, <1>8, <3>1
    <3> QED BY <1>0, <1>8, <3>1, <3>2
  <2>2. CASE j = k
    <3>1. i < k BY <1>8, <2>2
    <3>2. i \in 1..n /\ f[i] = g[i] /\ f[j] = n + 1 /\ g[i] \in 1..n BY <1>1, <1>6, <2>2, <3>1
    <3>3. s[i] <= x BY <1>5, <3>1, <3>2 DEF Between
    <3>4. f[i] # f[j] BY <3>2
    <3> QED BY <1>4, <3>2, <3>3, <3>4 DEF x
  <2>3. CASE j > k /\ i < k
    <3>1. /\ i \in 1..n /\ f[i] = g[i] /\ j - 1 \in 1..n /\ f[j] = g[j - 1]
      BY <1>6, <2>3
    <3>3. i < j - 1 BY <1>5, <2>3
    <3>2. f[i] # f[j] BY <1>0, <3>1, <3>3
    <3> QED BY <1>0, <3>1, <3>2, <3>3
  <2>4. CASE j > k /\ i = k
    <3>0. f[i] = n + 1 /\ j - 1 \in 1..n /\ f[j] = g[j - 1] BY <1>6, <2>4
    <3>1. f[i] = n + 1 /\ j - 1 \in 1..n /\ f[j] = g[j - 1] /\ g[j - 1] \in 1..n /\ j - 1 >= k
      BY <1>1, <1>5, <2>4, <3>0
    <3>2. x <= s[j - 1] BY <1>5, <3>1 DEF Between
    <3>3. f[i] # f[j] BY <3>1
    <3> QED BY <1>4, <3>1, <3>2, <3>3 DEF x
  <2>5. CASE j > k /\ i > k
    <3>1. /\ i - 1 \in 1..n /\ f[i] = g[i - 1] /\ j - 1 \in 1..n /\ f[j] = g[j - 1]
          /\ i - 1 < j - 1
      BY <1>5, <1>6, <1>8, <2>5
    <3>2. f[i] # f[j] BY <1>0, <3>1
    <3> QED BY <1>0, <3>1, <3>2
  <2> QED BY <1>5, <1>8, <2>1, <2>2, <2>3, <2>4, <2>5
<1>9. ASSUME NEW m \in 1..(n + 1) PROVE \E i \in 1..(n + 1) : f[i] = m
  <2>1. CASE m = n + 1 BY <1>5, <1>6, <2>1
  <2>2. CASE m \in 1..n
    <3>1. PICK i \in 1..n : g[i] = m BY <1>0, <2>2
    <3>2. CASE i < k
      <4>1. i \in 1..(n + 1) OBVIOUS
      <4> QED BY <1>6, <3>1, <3>2, <4>1
    <3>3. CASE ~ (i < k)
      <4>1. i + 1 \in 1..(n + 1) /\ i + 1 > k /\ (i + 1) - 1 = i BY <1>5, <3>3
      <4>2. f[i + 1] = g[i] BY <1>6, <4>1
      <4> QED BY <3>1, <4>1, <4>2
    <3> QED BY <3>2, <3>3
  <2> QED BY <2>1, <2>2
<1>10. \A i, j \in 1..(n + 1) : f[i] = f[j] => i = j
  <2> TAKE i, j \in 1..(n + 1)
  <2>1. i < j \/ i = j \/ j < i OBVIOUS
  <2> QED BY <1>8, <2>1
<1>11. \A i, j \in 1..(n + 1) : i < j => key[f[i]] <= key[f[j]] BY <1>8
<1>12. Orders(n + 1, key, f) BY <1>7, <1>9, <1>10, <1>11 DEF Orders
<1> QED BY <1>12

LEMMA OrderExists ==
  ASSUME NEW n \in Nat, NEW key \in [1..n -> Nat]
  PROVE  \E f : Orders(n, key, f)
<1> DEFINE T == {m \in Nat : m <= n => \E f : Orders(m, key, f)}
<1>1. 0 \in T
  <2>1. Orders(0, key, <<>>) BY DEF Orders
  <2> QED BY <2>1
<1>2. ASSUME NEW m \in Nat, m \in T PROVE m + 1 \in T
  <2>1. SUFFICES ASSUME m + 1 <= n PROVE \E f : Orders(m + 1, key, f) OBVIOUS
  <2>2. PICK g : Orders(m, key, g) BY <1>2, <2>1
  <2> DEFINE short == [i \in 1..(m + 1) |-> key[i]]
  <2>3. short \in [1..(m + 1) -> Nat] /\ \A i \in 1..(m + 1) : short[i] = key[i] BY <2>1
  <2>4. \A i \in 1..m : i \in 1..(m + 1) OBVIOUS
  <2> HIDE DEF short
  <2>5. Orders(m, short, g) BY <2>2, <2>3, <2>4 DEF Orders
  <2>6. PICK f : Orders(m + 1, short, f) BY <2>3, <2>5, OrderInserted
  <2>7. Orders(m + 1, key, f) BY <2>3, <2>6 DEF Orders
  <2> QED BY <2>7
<1> HIDE DEF T
<1>3. n \in T BY <1>1, <1>2, SetInduction
<1> QED BY <1>3 DEF T

(* ByIndex is by index, and has every pallet.                              *)
LEMMA Sorted ==
  ASSUME NEW ps, IsSeq(ps), \A k \in 1..Len(ps) : ps[k].index \in Nat,
         \A j, k \in 1..Len(ps) : ps[j].index = ps[k].index => j = k
  PROVE  /\ \A i \in 1..Len(ps) : \E k \in 1..Len(ps) : ByIndex(ps)[i] = ps[k]
         /\ \A k \in 1..Len(ps) : \E i \in 1..Len(ps) : ByIndex(ps)[i] = ps[k]
         /\ \A i, j \in 1..Len(ps) : i < j => ByIndex(ps)[i].index < ByIndex(ps)[j].index
<1> DEFINE n == Len(ps)
           By(f) == \A i, j \in DOMAIN ps : i < j => ps[f[i]].index <= ps[f[j]].index
           order == CHOOSE f \in Bijection(DOMAIN ps, DOMAIN ps) : By(f)
           key == [k \in 1..n |-> ps[k].index]
<1>1. n \in Nat /\ DOMAIN ps = 1..n BY SeqDomain
<1>2. key \in [1..n -> Nat] /\ \A k \in 1..n : key[k] = ps[k].index OBVIOUS
<1> HIDE DEF key, n
<1>3. PICK f : Orders(n, key, f) BY <1>1, <1>2, OrderExists
<1>4. f \in Bijection(DOMAIN ps, DOMAIN ps)
  BY <1>1, <1>3 DEF Orders, Bijection, Injection, IsInjective, Surjection
<1>5. By(f)
  <2>1. f \in [1..n -> 1..n] /\ \A i, j \in 1..n : i < j => key[f[i]] <= key[f[j]]
    BY <1>3 DEF Orders
  <2>2. \A i \in 1..n : f[i] \in 1..n /\ key[f[i]] = ps[f[i]].index BY <1>2, <2>1
  <2>3. \A i, j \in 1..n : i < j => ps[f[i]].index <= ps[f[j]].index BY <2>1, <2>2
  <2> QED BY <1>1, <2>3
<1> HIDE DEF By
<1>6. order \in Bijection(DOMAIN ps, DOMAIN ps) /\ By(order) BY <1>4, <1>5
<1>7. ByIndex(ps) = [i \in DOMAIN ps |-> ps[order[i]]] BY DEF ByIndex, By
<1> HIDE DEF order
<1>8. /\ order \in [1..n -> 1..n] /\ \A i, j \in 1..n : order[i] = order[j] => i = j
      /\ \A k \in 1..n : \E i \in 1..n : order[i] = k
  BY <1>1, <1>6 DEF Bijection, Injection, IsInjective, Surjection
<1>9. \A i \in 1..n : ByIndex(ps)[i] = ps[order[i]] /\ order[i] \in 1..n BY <1>1, <1>7, <1>8
<1>10. ASSUME NEW i \in 1..n, NEW j \in 1..n, i < j
       PROVE  ByIndex(ps)[i].index < ByIndex(ps)[j].index
  <2>1. ps[order[i]].index <= ps[order[j]].index BY <1>1, <1>6, <1>10 DEF By
  <2>2. order[i] # order[j] BY <1>8, <1>10
  <2>3. order[i] \in 1..n /\ order[j] \in 1..n BY <1>9
  <2>4. ps[order[i]].index \in Nat /\ ps[order[j]].index \in Nat BY <2>3 DEF n
  <2>5. ps[order[i]].index # ps[order[j]].index BY <2>2, <2>3 DEF n
  <2>6. ps[order[i]].index < ps[order[j]].index BY <2>1, <2>4, <2>5
  <2> QED BY <1>9, <2>6
<1>11. \A i \in 1..n : \E k \in 1..n : ByIndex(ps)[i] = ps[k] BY <1>9
<1>12. \A k \in 1..n : \E i \in 1..n : ByIndex(ps)[i] = ps[k] BY <1>8, <1>9
<1> QED BY <1>10, <1>11, <1>12 DEF n

-----------------------------------------------------------------------------
(* What the positions of OriginCaller are once n of the sorted pallets are *)
(* entered: a pallet's own origin under its index, and gaps.               *)
Rising(N, q) ==
  /\ \A k \in 1..N : q[k].index \in Nat
  /\ \A j, k \in 1..N : j < k => q[j].index < q[k].index
Filled(o, q, n) ==
  /\ IsSeq(o) /\ Len(o) = IF n = 0 THEN 0 ELSE q[n].index + 1
  /\ \A k \in 1..n : q[k].index < Len(o)
  /\ \A i \in 1..Len(o) :
       /\ \A k \in 1..n : q[k].index = i - 1 => o[i] = Origin(q[k])
       /\ (\A k \in 1..n : q[k].index # i - 1) => o[i].name = Empty

LEMMA GapSeq ==
  ASSUME NEW x \in Nat
  PROVE  IsSeq(Gap(x)) /\ Len(Gap(x)) = x /\ \A i \in 1..x : Gap(x)[i].name = Empty
<1>1. Gap(x) \in [1..x -> {[name |-> Empty, type |-> Null]}] BY DEF Gap
<1>2. IsSeq(Gap(x)) /\ Len(Gap(x)) = x BY <1>1, SeqValues
<1> QED BY <1>2 DEF Gap

LEMMA FillsNext ==
  ASSUME NEW N \in Nat, NEW q, Rising(N, q), NEW n \in 1..N, NEW a, Filled(a, q, n - 1)
  PROVE  Filled(a \o Gap(q[n].index - Len(a)) \o <<Origin(q[n])>>, q, n)
<1> DEFINE L == Len(a)  m == q[n].index  x == m - L  g == Gap(x)  b == <<Origin(q[n])>>
           ag == a \o g  o == ag \o b
<1>1. L \in Nat /\ m \in Nat /\ IsSeq(a) BY SeqDomain DEF Filled, Rising
<1>2. \A k \in 1..n : k = n \/ k \in 1..(n - 1) OBVIOUS
<1>3. \A k \in 1..(n - 1) : q[k].index \in Nat /\ q[k].index < L /\ q[k].index < m
  <2> TAKE k \in 1..(n - 1)
  <2>1. k \in 1..N /\ k < n OBVIOUS
  <2> QED BY <2>1 DEF Filled, Rising
<1>4. L <= m
  <2>1. CASE n = 1
    <3>1. n - 1 = 0 BY <2>1
    <3>2. L = 0 BY <3>1 DEF Filled
    <3> QED BY <1>1, <3>2
  <2>2. CASE n # 1
    <3>1. n - 1 # 0 /\ n - 1 \in 1..(n - 1) BY <2>2
    <3>2. L = q[n - 1].index + 1 BY <3>1 DEF Filled
    <3> QED BY <1>1, <1>3, <3>1, <3>2
  <2> QED BY <2>1, <2>2
<1>5. x \in Nat /\ L + x = m BY <1>1, <1>4
<1>6. IsSeq(g) /\ Len(g) = x /\ \A i \in 1..x : g[i].name = Empty BY <1>5, GapSeq
<1>7. IsSeq(b) /\ Len(b) = 1 /\ b[1] = Origin(q[n]) BY OneSeq
<1>8. \A i \in 1..L : /\ \A k \in 1..(n - 1) : q[k].index = i - 1 => a[i] = Origin(q[k])
                      /\ (\A k \in 1..(n - 1) : q[k].index # i - 1) => a[i].name = Empty
  BY DEF Filled
<1> HIDE DEF L, m, x, g, b
<1>9. /\ IsSeq(ag) /\ Len(ag) = m
      /\ \A i \in 1..m : ag[i] = IF i <= L THEN a[i] ELSE g[i - L]
  <2>1. /\ IsSeq(ag) /\ Len(ag) = L + x
        /\ \A i \in 1..(L + x) : ag[i] = IF i <= L THEN a[i] ELSE g[i - L]
    BY <1>1, <1>6, SeqConcat DEF L
  <2> QED BY <1>5, <2>1
<1> HIDE DEF ag
<1>10. /\ IsSeq(o) /\ Len(o) = m + 1
       /\ \A i \in 1..(m + 1) : o[i] = IF i <= m THEN ag[i] ELSE b[i - m]
  <2>1. /\ IsSeq(o) /\ Len(o) = Len(ag) + Len(b)
        /\ \A i \in 1..(Len(ag) + Len(b)) : o[i] = IF i <= Len(ag) THEN ag[i] ELSE b[i - Len(ag)]
    BY <1>7, <1>9, SeqConcat
  <2> HIDE DEF o
  <2> QED BY <1>7, <1>9, <2>1
<1> HIDE DEF o
<1>11. ASSUME NEW i \in 1..(m + 1)
       PROVE  /\ \A k \in 1..n : q[k].index = i - 1 => o[i] = Origin(q[k])
              /\ (\A k \in 1..n : q[k].index # i - 1) => o[i].name = Empty
  <2>1. CASE i <= L
    <3>1. i \in 1..L /\ i <= m /\ i \in 1..m /\ i - 1 # m BY <1>1, <1>4, <2>1
    <3>2. o[i] = a[i] BY <1>9, <1>10, <3>1
    <3>3. q[n].index # i - 1 BY <3>1 DEF m
    <3>4. \A k \in 1..(n - 1) : k \in 1..n OBVIOUS
    <3> QED BY <1>2, <1>8, <3>1, <3>2, <3>3, <3>4
  <2>2. CASE ~ (i <= L) /\ i <= m
    <3>1. i \in 1..m /\ i - L \in 1..x /\ i - 1 # m /\ i - 1 >= L BY <1>1, <1>5, <2>2
    <3>2. o[i] = g[i - L] BY <1>9, <1>10, <2>2, <3>1
    <3>3. o[i].name = Empty BY <1>6, <3>1, <3>2
    <3>4. \A k \in 1..(n - 1) : q[k].index # i - 1 BY <1>1, <1>3, <3>1
    <3>5. q[n].index # i - 1 BY <3>1 DEF m
    <3> QED BY <1>2, <3>3, <3>4, <3>5
  <2>3. CASE ~ (i <= m)
    <3>1. i - m = 1 /\ i - 1 = m BY <1>1, <2>3
    <3>2. o[i] = Origin(q[n]) BY <1>7, <1>10, <2>3, <3>1
    <3>3. \A k \in 1..(n - 1) : q[k].index # i - 1 BY <1>1, <1>3, <3>1
    <3>4. q[n].index = i - 1 /\ n \in 1..n BY <3>1 DEF m
    <3> QED BY <1>2, <3>2, <3>3, <3>4
  <2> QED BY <2>1, <2>2, <2>3
<1>12. \A k \in 1..n : q[k].index < Len(o)
  <2>1. q[n].index < m + 1 BY <1>1 DEF m
  <2>2. \A k \in 1..(n - 1) : q[k].index < m + 1 BY <1>1, <1>3
  <2> QED BY <1>2, <1>10, <2>1, <2>2
<1>13. Filled(o, q, n) BY <1>10, <1>11, <1>12 DEF Filled, m
<1> QED BY <1>13 DEF o, ag, b, g, x, m, L

(* The loop that fills the positions.                                      *)
LEMMA NamesFilled ==
  ASSUME NEW N \in Nat, NEW q, Rising(N, q)
  PROVE  LET names[n \in 0..N] ==
               IF n = 0 THEN <<>>
               ELSE names[n - 1] \o Gap(q[n].index - Len(names[n - 1])) \o <<Origin(q[n])>>
         IN Filled(names[N], q, N)
<1> DEFINE Fill(a, n) == a \o Gap(q[n].index - Len(a)) \o <<Origin(q[n])>>
           D(u) == [n \in 0..N |-> IF n = 0 THEN <<>> ELSE Fill(u[n - 1], n)]
           names == CHOOSE u : u = D(u)
           Upto(u, n) ==
             \A m \in 0..n : u[m] = IF m = 0 THEN <<>> ELSE Fill(u[m - 1], m)
           T == {n \in Nat : n <= N => \E u : Upto(u, n)}
<1> HIDE DEF Fill
<1>1. 0 \in T
  <2>1. Upto([m \in {0} |-> <<>>], 0) OBVIOUS
  <2> QED BY <2>1
<1>2. ASSUME NEW n \in Nat, n \in T PROVE n + 1 \in T
  <2>1. SUFFICES ASSUME n + 1 <= N PROVE \E u : Upto(u, n + 1) OBVIOUS
  <2>2. PICK u : Upto(u, n) BY <1>2, <2>1
  <2> DEFINE w == [m \in 0..(n + 1) |-> IF m <= n THEN u[m] ELSE Fill(u[n], n + 1)]
  <2>3. \A m \in 0..n : w[m] = u[m] OBVIOUS
  <2>4. w[n + 1] = Fill(u[n], n + 1) OBVIOUS
  <2> HIDE DEF w
  <2>5. ASSUME NEW m \in 0..(n + 1)
        PROVE  w[m] = IF m = 0 THEN <<>> ELSE Fill(w[m - 1], m)
    <3>1. CASE m = n + 1
      <4>1. m # 0 /\ m - 1 = n /\ n \in 0..n BY <3>1
      <4> QED BY <2>3, <2>4, <3>1, <4>1
    <3>2. CASE m = 0 BY <2>2, <2>3, <3>2
    <3>3. CASE m \in 1..n
      <4>1. m \in 0..n /\ m - 1 \in 0..n /\ m # 0 BY <3>3
      <4> QED BY <2>2, <2>3, <4>1
    <3> QED BY <3>1, <3>2, <3>3
  <2>6. Upto(w, n + 1) BY <2>5
  <2> QED BY <2>6
<1>3. N \in T
  <2> HIDE DEF T
  <2> QED BY <1>1, <1>2, SetInduction
<1>4. PICK u : Upto(u, N) BY <1>3
<1>5. D(u) = D(D(u))
  <2>1. \A n \in 0..N : D(u)[n] = u[n] BY <1>4
  <2>2. \A n \in 0..N : n # 0 => n - 1 \in 0..N OBVIOUS
  <2>3. \A n \in 0..N : n # 0 => D(u)[n - 1] = u[n - 1] BY <2>1, <2>2
  <2>4. \A n \in 0..N : D(D(u))[n] = D(u)[n]
    <3> TAKE n \in 0..N
    <3>1. CASE n = 0 BY <3>1
    <3>2. CASE n # 0
      <4>1. D(D(u))[n] = Fill(D(u)[n - 1], n) /\ D(u)[n] = Fill(u[n - 1], n) BY <3>2
      <4>2. D(u)[n - 1] = u[n - 1] BY <2>3, <3>2
      <4> HIDE DEF D
      <4> QED BY <4>1, <4>2
    <3> QED BY <3>1, <3>2
  <2>5. \A v : D(v) = [n \in 0..N |-> D(v)[n]] OBVIOUS
  <2> HIDE DEF D
  <2>6. D(D(u)) = [n \in 0..N |-> D(D(u))[n]] /\ D(u) = [n \in 0..N |-> D(u)[n]] BY <2>5
  <2> QED BY <2>4, <2>6
<1>6. names = D(names)
  <2> HIDE DEF D
  <2> QED BY <1>5
<1>7. Filled(names[N], q, N)
  <2> DEFINE G == {n \in Nat : n <= N => Filled(names[n], q, n)}
  <2> HIDE DEF names
  <2>1. 0 \in G
    <3>1. names[0] = <<>> BY <1>6
    <3>2. Filled(<<>>, q, 0) BY SeqEmpty DEF Filled
    <3> QED BY <3>1, <3>2
  <2>2. ASSUME NEW n \in Nat, n \in G PROVE n + 1 \in G
    <3>1. SUFFICES ASSUME n + 1 <= N PROVE Filled(names[n + 1], q, n + 1) OBVIOUS
    <3>2. Filled(names[n], q, n) BY <2>2, <3>1
    <3>3. n + 1 \in 1..N /\ (n + 1) - 1 = n /\ n + 1 \in 0..N /\ n + 1 # 0 BY <3>1
    <3>4. names[n + 1] = Fill(names[n], n + 1) BY <1>6, <3>3
    <3>5. Filled(Fill(names[n], n + 1), q, n + 1) BY <3>2, <3>3, FillsNext DEF Fill
    <3> QED BY <3>4, <3>5
  <2> HIDE DEF G
  <2>3. N \in G BY <2>1, <2>2, SetInduction
  <2> QED BY <2>3 DEF G
<1> QED BY <1>7 DEF Fill

(* Every index selects its own origin; unused ones select none.            *)
Placed(o, ps) ==
  /\ \A i \in DOMAIN o :
       /\ \A k \in 1..Len(ps) : ps[k].index = i - 1 => o[i] = Origin(ps[k])
       /\ (\A k \in 1..Len(ps) : ps[k].index # i - 1) => o[i].name = Empty /\ i < Len(o)
  /\ \A k \in 1..Len(ps) : ps[k].index + 1 \in DOMAIN o

LEMMA OriginsPlaced ==
  ASSUME NEW ps, IsSeq(ps), \A k \in 1..Len(ps) : ps[k].index \in Nat,
         \A j, k \in 1..Len(ps) : ps[j].index = ps[k].index => j = k
  PROVE  Placed(OriginCaller(ps), ps)
<1> DEFINE N == Len(ps)  q == ByIndex(ps)  o == OriginCaller(ps)
<1>1. N \in Nat BY SeqDomain
<1>2. /\ \A i \in 1..N : \E k \in 1..N : q[i] = ps[k]
      /\ \A k \in 1..N : \E i \in 1..N : q[i] = ps[k]
      /\ \A i, j \in 1..N : i < j => q[i].index < q[j].index
  BY Sorted
<1>3. Rising(N, q) BY <1>2 DEF Rising
<1>4. Filled(o, q, N)
  <2>1. LET names[n \in 0..N] ==
              IF n = 0 THEN <<>>
              ELSE names[n - 1] \o Gap(q[n].index - Len(names[n - 1])) \o <<Origin(q[n])>>
        IN Filled(names[N], q, N)
    <3> HIDE DEF N, q
    <3> QED BY <1>1, <1>3, NamesFilled
  <2> QED BY <2>1 DEF OriginCaller
<1> HIDE DEF N, q, o
<1>5. Len(o) \in Nat /\ DOMAIN o = 1..Len(o) BY <1>4, SeqDomain DEF Filled
<1>6. ASSUME NEW i \in 1..Len(o)
      PROVE  /\ \A k \in 1..N : ps[k].index = i - 1 => o[i] = Origin(ps[k])
             /\ (\A k \in 1..N : ps[k].index # i - 1) => o[i].name = Empty /\ i < Len(o)
  <2>1. ASSUME NEW k \in 1..N, ps[k].index = i - 1 PROVE o[i] = Origin(ps[k])
    <3>1. PICK j \in 1..N : q[j] = ps[k] BY <1>2
    <3> QED BY <1>4, <2>1, <3>1 DEF Filled
  <2>2. ASSUME \A k \in 1..N : ps[k].index # i - 1 PROVE o[i].name = Empty /\ i < Len(o)
    <3>1. \A j \in 1..N : q[j].index # i - 1 BY <1>2, <2>2
    <3>2. o[i].name = Empty BY <1>4, <3>1 DEF Filled
    <3>3. N # 0 BY <1>4, <1>5 DEF Filled
    <3>4. Len(o) = q[N].index + 1 /\ N \in 1..N BY <1>1, <1>4, <3>3 DEF Filled
    <3>5. q[N].index \in Nat /\ q[N].index # i - 1 BY <1>3, <3>1, <3>4 DEF Rising
    <3>6. i < Len(o) BY <3>4, <3>5
    <3> QED BY <3>2, <3>6
  <2> QED BY <2>1, <2>2
<1>8. ASSUME NEW k \in 1..N PROVE ps[k].index + 1 \in 1..Len(o)
  <2>1. PICK j \in 1..N : q[j] = ps[k] BY <1>2
  <2>2. N # 0 /\ N \in 1..N BY <1>1
  <2>3. Len(o) = q[N].index + 1 BY <1>4, <2>2 DEF Filled
  <2>4. q[j].index \in Nat /\ q[N].index \in Nat BY <1>3, <2>2 DEF Rising
  <2>5. q[j].index <= q[N].index
    <3>1. CASE j = N BY <2>4, <3>1
    <3>2. CASE j < N
      <4>1. q[j].index < q[N].index BY <1>2, <2>2, <3>2
      <4> QED BY <2>4, <4>1
    <3> QED BY <1>1, <3>1, <3>2
  <2> QED BY <2>1, <2>3, <2>4, <2>5
<1>7. Placed(o, ps) BY <1>5, <1>6, <1>8 DEF Placed, N
<1> QED BY <1>7 DEF o

-----------------------------------------------------------------------------
(* What the cursor has before it once n pallets are read.                  *)
PalletTexts(v, r) == [i \in DOMAIN r.pallets |-> WritePallet(v, r.pallets[i])]
Ahead(v, r, n) == FlattenSeq(From(PalletTexts(v, r), n)) \o WriteTail(v, r.tail)

RuntimeOK ==
  /\ version \in Version /\ version \in 6..16 /\ runtime \in Runtime[version]
  /\ IsSeq(runtime.pallets) /\ IsTail(version, runtime.tail)
  /\ \A k \in 1..Len(runtime.pallets) :
       /\ IsPallet(version, runtime.pallets[k])
       /\ Seen(version, runtime.pallets[k]) \in Pallet[version]

LEMMA RuntimeDescribed ==
  ASSUME version \in Version, runtime \in Runtime[version]
  PROVE  RuntimeOK
<1>1. version \in 6..16 BY MetadataAssumption
<1>2. /\ IsList(LAMBDA p : IsPallet(version, p), runtime.pallets)
      /\ IsTail(version, runtime.tail)
  BY LayoutAssumption
<1>3. /\ runtime.pallets \in Seq({runtime.pallets[i] : i \in DOMAIN runtime.pallets})
      /\ \A k \in DOMAIN runtime.pallets : IsPallet(version, runtime.pallets[k])
  BY <1>2 DEF IsList
<1>4. IsSeq(runtime.pallets) BY <1>3 DEF IsSeq
<1>5. DOMAIN runtime.pallets = 1..Len(runtime.pallets) BY <1>4, SeqDomain
<1>6. \A k \in DOMAIN runtime.pallets : Seen(version, runtime.pallets[k]) \in Pallet[version]
  BY SeenAssumption
<1> QED BY <1>1, <1>2, <1>3, <1>4, <1>5, <1>6 DEF RuntimeOK

(* Every pallet, and what follows them, is read from its bytes.            *)
LEMMA PalletRead ==
  ASSUME RuntimeOK, NEW k \in 1..Len(runtime.pallets)
  PROVE  Reads(ModuleLayout(version), WritePallet(version, runtime.pallets[k]),
               Seen(version, runtime.pallets[k]))
BY ReadsPallet DEF RuntimeOK

LEMMA PalletPieces ==
  ASSUME RuntimeOK
  PROVE  LET ss == PalletTexts(version, runtime)
         IN /\ Pieces(ss) /\ Len(ss) = Len(runtime.pallets)
            /\ \A i \in 1..Len(ss) : ss[i] = WritePallet(version, runtime.pallets[i])
<1> DEFINE ss == PalletTexts(version, runtime)  n == Len(runtime.pallets)
<1>1. n \in Nat /\ DOMAIN runtime.pallets = 1..n BY SeqDomain DEF RuntimeOK
<1>2. /\ ss \in [1..n -> {ss[i] : i \in 1..n}]
      /\ \A i \in 1..n : ss[i] = WritePallet(version, runtime.pallets[i])
  BY <1>1 DEF PalletTexts
<1>3. \A i \in 1..n : IsSeq(WritePallet(version, runtime.pallets[i])) BY PalletRead DEF Reads
<1> HIDE DEF ss, n
<1>4. IsSeq(ss) /\ Len(ss) = n BY <1>1, <1>2, SeqValues
<1>5. \A i \in 1..n : IsSeq(ss[i]) BY <1>2, <1>3
<1> QED BY <1>2, <1>4, <1>5 DEF Pieces, ss, n

LEMMA TailSeq == ASSUME RuntimeOK PROVE IsSeq(WriteTail(version, runtime.tail))
<1>1. TailRead(version, runtime.tail) BY ReadsTail DEF RuntimeOK
<1> QED BY <1>1, SeqConcat DEF TailRead

LEMMA AheadNext ==
  ASSUME RuntimeOK, NEW n \in Nat, n < Len(runtime.pallets)
  PROVE  LET w == WritePallet(version, runtime.pallets[n + 1])
             rest == Ahead(version, runtime, n + 1)
         IN Ahead(version, runtime, n) = w \o rest /\ IsSeq(w) /\ IsSeq(rest)
<1> DEFINE ss == PalletTexts(version, runtime)  u == WriteTail(version, runtime.tail)
           w == WritePallet(version, runtime.pallets[n + 1])  f == FlattenSeq(From(ss, n + 1))
<1>1. /\ Pieces(ss) /\ Len(ss) = Len(runtime.pallets)
      /\ \A i \in 1..Len(ss) : ss[i] = WritePallet(version, runtime.pallets[i])
  BY PalletPieces
<1>2. n + 1 \in 1..Len(ss)
  <2>1. Len(runtime.pallets) \in Nat BY SeqDomain DEF RuntimeOK
  <2> QED BY <1>1, <2>1
<1>3. ss[n + 1] = w BY <1>1, <1>2
<1> HIDE DEF ss
<1>4. IsSeq(w) /\ IsSeq(f) /\ FlattenSeq(From(ss, n)) = w \o f BY <1>1, <1>3, FromNext
<1>5. IsSeq(u) BY TailSeq
<1> HIDE DEF w, u, f
<1>6. Regrouped(w, f, u) BY <1>4, <1>5, Regroup
<1>7. IsSeq(f \o u) BY <1>4, <1>5, SeqConcat
<1> QED BY <1>4, <1>6, <1>7 DEF Ahead, Regrouped, ss, u, w, f

LEMMA AheadLast ==
  ASSUME RuntimeOK
  PROVE  Ahead(version, runtime, Len(runtime.pallets)) = WriteTail(version, runtime.tail)
<1>1. Len(PalletTexts(version, runtime)) = Len(runtime.pallets) BY PalletPieces
<1>2. Len(runtime.pallets) \in Nat BY SeqDomain DEF RuntimeOK
<1>3. From(PalletTexts(version, runtime), Len(runtime.pallets)) = <<>> BY <1>1, <1>2 DEF From
<1> QED BY <1>3, FlatEmpty, TailSeq, SeqNothing DEF Ahead

-----------------------------------------------------------------------------
(* The invariant of the decoder: what is read is what was written, and the *)
(* rest lies ahead of the cursor.                                          *)
CursorInv ==
  /\ left \in Nat /\ left + Len(pallets) = Len(runtime.pallets)
  /\ stage # "read" => left = 0
  /\ \A k \in 1..Len(pallets) : pallets[k] = Seen(version, runtime.pallets[k])
  /\ stage \in {"read", "index"} =>
       tail = None /\ offset \in Nat /\ At(Ahead(version, runtime, Len(pallets)), offset)
TailInv ==
  /\ tail # None => \A part \in DOMAIN tail : tail[part] = runtime.tail[part]
  /\ stage = "done" => at = Len(pallets)
  /\ stage = "done" /\ version >= 13 => origins = OriginCaller(pallets)
ReadInv == IndexInv /\ RuntimeOK /\ CursorInv /\ TailInv

LEMMA ReadInit == DecoderInit => ReadInv
<1> SUFFICES ASSUME DecoderInit PROVE ReadInv OBVIOUS
<1>1. /\ version \in Version /\ runtime \in Runtime[version] /\ wire = Encoded(version, runtime)
      /\ left = Take("count", 0).val /\ offset = Take("count", 0).end
      /\ tail = None /\ Init
  BY DEF DecoderInit, Init
<1>2. RuntimeOK BY <1>1, RuntimeDescribed
<1> DEFINE n == Len(runtime.pallets)
           ws == [i \in DOMAIN runtime.pallets |-> WritePallet(version, runtime.pallets[i])]
           u == WriteTail(version, runtime.tail)
           head == Token("count", n)
<1>3. n \in Nat /\ DOMAIN runtime.pallets = 1..n BY <1>2, SeqDomain DEF RuntimeOK
<1>4. wire = head \o FlattenSeq(ws) \o u
  BY <1>1 DEF Encoded, WriteList
<1>5. ws = PalletTexts(version, runtime) BY DEF PalletTexts
<1>6. IsSeq(head) /\ Len(head) = 1 BY TokenSeq
<1>7. IsSeq(FlattenSeq(ws)) /\ From(ws, 0) = ws
  <2>1. Pieces(ws) BY <1>2, <1>5, PalletPieces
  <2> HIDE DEF ws
  <2> QED BY <2>1, FlatSeq, FromAll
<1>8. IsSeq(u) BY <1>2, TailSeq
<1> DEFINE body == FlattenSeq(ws)
<1>9. Ahead(version, runtime, 0) = body \o u BY <1>5, <1>7 DEF Ahead
<1> HIDE DEF ws, u, head, body
<1>10. wire = head \o Ahead(version, runtime, 0) /\ IsSeq(Ahead(version, runtime, 0))
  <2>1. Regrouped(head, body, u) BY <1>6, <1>7, <1>8, Regroup DEF body
  <2>2. IsSeq(body \o u) BY <1>7, <1>8, SeqConcat DEF body
  <2> QED BY <1>4, <1>9, <2>1, <2>2 DEF Regrouped, body
<1>11. At(wire, 0)
  <2>1. IsSeq(wire) BY <1>6, <1>10, SeqConcat
  <2>2. Len(wire) \in Nat BY <2>1, SeqDomain
  <2> QED BY <2>2 DEF At
<1>12. At(head, 0) /\ At(Ahead(version, runtime, 0), 1)
  <2>1. At(head, 0) /\ At(Ahead(version, runtime, 0), 0 + Len(head))
    BY <1>6, <1>10, <1>11, AtConcat
  <2> QED BY <1>6, <2>1
<1>13. left = n /\ offset = 1
  <2>1. At(Token("count", n), 0) BY <1>12 DEF head
  <2>2. Take("count", 0) = [val |-> n, end |-> 0 + 1] BY <2>1, TakeRead
  <2> QED BY <1>1, <2>2
<1>14. pallets = <<>> /\ stage = "read" BY <1>1 DEF Init
<1>15. CursorInv BY <1>1, <1>3, <1>12, <1>13, <1>14 DEF CursorInv
<1>16. TailInv BY <1>1, <1>14 DEF TailInv
<1> QED BY <1>1, <1>2, <1>15, <1>16, IndexInit DEF ReadInv

(* The layout finds the next pallet where the cursor is.                   *)
LEMMA ReadsNext ==
  ASSUME ReadInv, stage = "read", left > 0
  PROVE  LET r == ModuleLayout(version)[offset]
             n == Len(pallets) + 1
         IN /\ n \in 1..Len(runtime.pallets)
            /\ r.val = Seen(version, runtime.pallets[n]) /\ r.val \in Pallet[version]
            /\ r.end \in Nat /\ At(Ahead(version, runtime, n), r.end)
<1> DEFINE n == Len(pallets) + 1  w == WritePallet(version, runtime.pallets[n])
<1>1. Len(pallets) \in Nat BY PalletsTyped DEF ReadInv, IndexInv
<1>2. Len(pallets) < Len(runtime.pallets) /\ Len(runtime.pallets) \in Nat
  BY <1>1 DEF ReadInv, CursorInv
<1>3. n \in 1..Len(runtime.pallets) BY <1>1, <1>2
<1>4. RuntimeOK /\ offset \in Nat /\ At(Ahead(version, runtime, Len(pallets)), offset) BY DEF ReadInv, CursorInv
<1>5. Ahead(version, runtime, Len(pallets)) = w \o Ahead(version, runtime, n) /\ IsSeq(w) /\ IsSeq(Ahead(version, runtime, n))
  BY <1>1, <1>2, <1>4, AheadNext
<1>6. Reads(ModuleLayout(version), w, Seen(version, runtime.pallets[n]))
  BY <1>3, <1>4, PalletRead
<1>7. Seen(version, runtime.pallets[n]) \in Pallet[version] BY <1>3, <1>4 DEF RuntimeOK
<1> HIDE DEF n, w
<1>8. At(w, offset) /\ At(Ahead(version, runtime, n), offset + Len(w)) BY <1>4, <1>5, AtConcat
<1>9. ModuleLayout(version)[offset]
        = [val |-> Seen(version, runtime.pallets[n]), end |-> offset + Len(w)]
  BY <1>4, <1>6, <1>8 DEF Reads
<1>10. Len(w) \in Nat BY <1>5, SeqDomain
<1> QED BY <1>3, <1>4, <1>7, <1>8, <1>9, <1>10 DEF n

(* And what follows the pallets, once they are read.                       *)
LEMMA ReadsLast ==
  ASSUME ReadInv, stage = "index"
  PROVE  LET x == TailLayout(version)[offset].val
         IN \A part \in DOMAIN x : x[part] = runtime.tail[part]
<1>1. Len(pallets) \in Nat BY PalletsTyped DEF ReadInv, IndexInv
<1>2. RuntimeOK /\ offset \in Nat /\ At(Ahead(version, runtime, Len(runtime.pallets)), offset)
  BY <1>1 DEF ReadInv, CursorInv
<1>3. At(WriteTail(version, runtime.tail), offset) BY <1>2, AheadLast
<1>4. TailRead(version, runtime.tail) BY <1>2, ReadsTail DEF RuntimeOK
<1>5. PICK s, u, x :
        /\ WriteTail(version, runtime.tail) = s \o u /\ IsSeq(s) /\ IsSeq(u)
        /\ Reads(TailLayout(version), s, x) /\ \A part \in DOMAIN x : x[part] = runtime.tail[part]
  BY <1>4 DEF TailRead
<1>6. At(s, offset)
  <2>1. At(s \o u, offset) BY <1>3, <1>5
  <2> QED BY <1>2, <1>5, <2>1, AtConcat
<1>7. TailLayout(version)[offset] = [val |-> x, end |-> offset + Len(s)]
  BY <1>2, <1>5, <1>6 DEF Reads
<1> QED BY <1>5, <1>7

-----------------------------------------------------------------------------
(* The decoder's steps are steps of the index.                             *)
LEMMA DecodeModuleReads ==
  ASSUME ReadInv, DecodeModule
  PROVE  /\ ReadModule(Seen(version, runtime.pallets[Len(pallets) + 1]))
         /\ Seen(version, runtime.pallets[Len(pallets) + 1]) \in Pallet[version]
BY ReadsNext DEF DecodeModule

LEMMA DecoderIndexes ==
  ASSUME ReadInv, DecoderNext
  PROVE  Next
<1>1. CASE DecodeModule BY <1>1, DecodeModuleReads DEF Next
<1>2. CASE EndModules BY <1>2 DEF EndModules, Next
<1>3. CASE Index BY <1>3 DEF Index, Next
<1>4. CASE DecodeTail BY <1>4 DEF DecodeTail, Next
<1> QED BY <1>1, <1>2, <1>3, <1>4 DEF DecoderNext

LEMMA RuntimeKept ==
  ASSUME ReadInv, DecoderNext
  PROVE  /\ version' = version /\ runtime' = runtime /\ wire' = wire
         /\ RuntimeOK' /\ IndexInv'
<1>1. version' = version /\ runtime' = runtime /\ wire' = wire
  BY DEF DecoderNext, DecodeModule, EndModules, Index, DecodeTail, ReadModule, StartIndex,
         IndexModule, IndexPanic, Finish
<1>2. IndexInv' BY DecoderIndexes, IndexStep DEF ReadInv
<1>3. RuntimeOK' BY <1>1 DEF ReadInv, RuntimeOK
<1> QED BY <1>1, <1>2, <1>3

LEMMA ReadDecodeModule ==
  ASSUME ReadInv, DecodeModule
  PROVE  CursorInv' /\ TailInv'
<1> DEFINE n == Len(pallets) + 1  p == Seen(version, runtime.pallets[n])
           r == ModuleLayout(version)[offset]
<1>1. DecoderNext BY DEF DecoderNext
<1>2. version' = version /\ runtime' = runtime /\ wire' = wire BY <1>1, RuntimeKept
<1>3. /\ stage = "read" /\ left > 0 /\ left' = left - 1 /\ offset' = r.end /\ tail' = tail
  BY DEF DecodeModule
<1>4. /\ n \in 1..Len(runtime.pallets) /\ r.val = p /\ r.end \in Nat /\ At(Ahead(version, runtime, n), r.end)
  BY <1>3, ReadsNext
<1>5. pallets' = Append(pallets, p) /\ stage' = stage
  BY DecodeModuleReads DEF ReadModule
<1>6. IsSeq(pallets) BY DEF ReadInv, IndexInv, TypeInv, IsSeq
<1>7. /\ Len(pallets) \in Nat /\ Len(pallets') = n /\ pallets'[n] = p
      /\ \A k \in 1..Len(pallets) : pallets'[k] = pallets[k]
  BY <1>5, <1>6, SeqAppend, SeqDomain
<1>8. left' \in Nat /\ left' + n = Len(runtime.pallets)
  <2>1. left \in Nat /\ left + Len(pallets) = Len(runtime.pallets) BY DEF ReadInv, CursorInv
  <2>2. left - 1 \in Nat /\ (left - 1) + n = left + Len(pallets) BY <1>3, <1>7, <2>1
  <2> QED BY <1>3, <2>1, <2>2
<1>9. \A k \in 1..n : pallets'[k] = Seen(version, runtime.pallets[k])
  <2> TAKE k \in 1..n
  <2>1. k = n \/ k \in 1..Len(pallets) BY <1>7
  <2> QED BY <1>7, <2>1 DEF ReadInv, CursorInv
<1>10. tail' = None /\ offset' \in Nat /\ At(Ahead(version, runtime, n), offset')
  BY <1>3, <1>4 DEF ReadInv, CursorInv
<1> HIDE DEF n, p, r
<1>11. At(Ahead(version, runtime, Len(pallets)), offset)'
  <2>1. Ahead(version, runtime, Len(pallets))' = Ahead(version, runtime, n) BY <1>2, <1>7
  <2> QED BY <1>2, <1>10, <2>1 DEF At
<1>12. CursorInv'
  BY <1>2, <1>3, <1>5, <1>7, <1>8, <1>9, <1>10, <1>11 DEF CursorInv
<1>13. TailInv' BY <1>3, <1>5, <1>10 DEF TailInv
<1> QED BY <1>12, <1>13

LEMMA ReadStill ==
  ASSUME ReadInv, DecoderNext, pallets' = pallets, left' = left,
         stage' # "read" => left = 0,
         stage' \in {"read", "index"} => stage \in {"read", "index"} /\ tail' = tail /\ offset' = offset
  PROVE  CursorInv'
<1>1. version' = version /\ runtime' = runtime /\ wire' = wire BY RuntimeKept
<1>2. /\ left' \in Nat /\ left' + Len(pallets') = Len(runtime'.pallets)
      /\ stage' # "read" => left' = 0
      /\ \A k \in 1..Len(pallets') : pallets'[k] = Seen(version', runtime'.pallets[k])
  BY <1>1 DEF ReadInv, CursorInv
<1>3. ASSUME stage' \in {"read", "index"}
      PROVE  tail' = None /\ offset' \in Nat /\ At(Ahead(version, runtime, Len(pallets)), offset)'
  <2>1. tail' = None /\ offset' \in Nat /\ At(Ahead(version, runtime, Len(pallets)), offset)
    BY <1>3 DEF ReadInv, CursorInv
  <2>2. Ahead(version, runtime, Len(pallets))' = Ahead(version, runtime, Len(pallets)) BY <1>1
  <2>3. offset' = offset BY <1>3
  <2> QED BY <1>1, <2>1, <2>2, <2>3 DEF At
<1> QED BY <1>2, <1>3 DEF CursorInv

LEMMA ReadEndModules ==
  ASSUME ReadInv, EndModules
  PROVE  CursorInv' /\ TailInv'
<1>1. /\ DecoderNext /\ pallets' = pallets /\ left' = left /\ left = 0 /\ tail' = tail
      /\ offset' = offset /\ stage = "read" /\ stage' = "index" /\ runtime' = runtime
  BY DEF EndModules, StartIndex, DecoderNext
<1>2. CursorInv' BY <1>1, ReadStill
<1> QED BY <1>1, <1>2 DEF TailInv, CursorInv

LEMMA ReadIndex ==
  ASSUME ReadInv, Index
  PROVE  CursorInv' /\ TailInv'
<1>1. /\ DecoderNext /\ pallets' = pallets /\ left' = left /\ tail' = tail /\ offset' = offset
      /\ stage = "index" /\ stage' \in {"index", "panic"} /\ runtime' = runtime
  BY DEF Index, IndexModule, IndexPanic, DecoderNext
<1>2. left = 0 /\ tail = None BY <1>1 DEF ReadInv, CursorInv
<1>3. CursorInv' BY <1>1, <1>2, ReadStill
<1>4. TailInv' BY <1>1, <1>2 DEF TailInv
<1> QED BY <1>3, <1>4

LEMMA ReadDecodeTail ==
  ASSUME ReadInv, DecodeTail
  PROVE  CursorInv' /\ TailInv'
<1> DEFINE x == TailLayout(version)[offset].val
<1>1. /\ DecoderNext /\ pallets' = pallets /\ left' = left /\ tail' = x
      /\ version' = version /\ runtime' = runtime /\ at' = at /\ at = Len(pallets)
      /\ stage = "index" /\ stage' \in {"done", "panic"}
      /\ stage' = "done" /\ version >= 13 => origins' = OriginCaller(pallets)
  BY DEF DecodeTail, Finish, DecoderNext
<1>2. left = 0 BY <1>1 DEF ReadInv, CursorInv
<1>3. CursorInv' BY <1>1, <1>2, ReadStill
<1>4. \A part \in DOMAIN x : x[part] = runtime.tail[part] BY <1>1, ReadsLast
<1> HIDE DEF x
<1>5. TailInv' BY <1>1, <1>4 DEF TailInv
<1> QED BY <1>3, <1>5

LEMMA ReadStep == ReadInv /\ [DecoderNext]_decoderVars => ReadInv'
<1> SUFFICES ASSUME ReadInv, [DecoderNext]_decoderVars PROVE ReadInv' OBVIOUS
<1>1. CASE DecoderNext
  <2>1. RuntimeOK' /\ IndexInv' BY <1>1, RuntimeKept
  <2>2. CursorInv' /\ TailInv'
    BY <1>1, ReadDecodeModule, ReadEndModules, ReadIndex, ReadDecodeTail DEF DecoderNext
  <2> QED BY <2>1, <2>2 DEF ReadInv
<1>2. CASE UNCHANGED decoderVars
  <2>1. UNCHANGED vars BY <1>2 DEF decoderVars
  <2>2. IndexInv' BY <2>1, IndexStep DEF ReadInv
  <2>3. /\ version' = version /\ pallets' = pallets /\ stage' = stage /\ at' = at
        /\ runtime' = runtime /\ left' = left /\ wire' = wire /\ offset' = offset
        /\ tail' = tail /\ origins' = origins
    BY <1>2 DEF decoderVars, vars
  <2>4. RuntimeOK' BY <2>3 DEF ReadInv, RuntimeOK
  <2>5. CursorInv' BY <2>3 DEF ReadInv, CursorInv, At
  <2>6. TailInv' BY <2>3 DEF ReadInv, TailInv
  <2> QED BY <2>2, <2>4, <2>5, <2>6 DEF ReadInv
<1> QED BY <1>1, <1>2

LEMMA ClientDecodes == [ClientNext]_clientVars => [DecoderNext]_decoderVars
BY DEF ClientNext, clientVars

LEMMA ReadAlways == ClientSpec => []ReadInv
<1>1. ClientInit => ReadInv BY ReadInit DEF ClientInit
<1>2. ReadInv /\ [ClientNext]_clientVars => ReadInv' BY ReadStep, ClientDecodes
<1> QED BY <1>1, <1>2, PTL DEF ClientSpec

(* The pallets and what follows them are what the runtime wrote.           *)
THEOREM MetadataReadBack == ClientSpec => []ReadBack
<1>1. ReadInv => ReadBack
  <2> SUFFICES ASSUME ReadInv PROVE ReadBack OBVIOUS
  <2>1. DOMAIN pallets = 1..Len(pallets) BY PalletsTyped DEF ReadInv, IndexInv
  <2> QED BY <2>1 DEF ReadInv, CursorInv, TailInv, ReadBack
<1> QED BY <1>1, ReadAlways, PTL

(* Decoding implements the index: pallets read one by one from the bytes   *)
(* are pallets given to it.                                                *)
THEOREM DecoderImplementsIndex == ClientSpec => Spec
<1>1. ClientInit => Init BY DEF ClientInit, DecoderInit
<1>2. ReadInv /\ [ClientNext]_clientVars => [Next]_vars
  <2> SUFFICES ASSUME ReadInv, [DecoderNext]_decoderVars PROVE [Next]_vars BY ClientDecodes
  <2>1. CASE DecoderNext BY <2>1, DecoderIndexes
  <2>2. CASE UNCHANGED decoderVars BY <2>2 DEF decoderVars
  <2> QED BY <2>1, <2>2
<1> QED BY <1>1, <1>2, ReadAlways, PTL DEF ClientSpec, Spec

-----------------------------------------------------------------------------
(* What a section, a name and an index become once they are read.          *)
LEMMA ItemsSeen ==
  ASSUME NEW v \in 6..16, NEW x
  PROVE  Items(v, SeenSection(v, x)) = Items(v, x)
<1>1. CASE v \in {6, 7, 12, 13} /\ x = <<>>
  <2>1. SeenSection(v, x) = None BY <1>1 DEF SeenSection
  <2>2. Items(v, None) = <<>> BY DEF Items
  <2>3. v < 14 BY <1>1
  <2>4. Items(v, <<>>) = <<>> BY <2>3 DEF Items
  <2> QED BY <1>1, <2>1, <2>2, <2>4
<1>2. CASE ~ (v \in {6, 7, 12, 13} /\ x = <<>>) BY <1>2 DEF SeenSection
<1> QED BY <1>1, <1>2

LEMMA PalletSeen ==
  ASSUME ReadInv, NEW k \in 1..Len(pallets), NEW s \in Section
  PROVE  /\ k \in 1..Len(runtime.pallets) /\ pallets[k].name = runtime.pallets[k].name
         /\ pallets[k][s] = SeenSection(version, runtime.pallets[k][s])
         /\ Items(version, pallets[k][s]) = Items(version, runtime.pallets[k][s])
         /\ version >= 12 => pallets[k].index = runtime.pallets[k].index
<1> DEFINE p == runtime.pallets[k]
<1>1. Len(pallets) \in Nat BY PalletsTyped DEF ReadInv, IndexInv
<1>2. left \in Nat /\ left + Len(pallets) = Len(runtime.pallets) BY DEF ReadInv, CursorInv
<1>3. k \in 1..Len(runtime.pallets) BY <1>1, <1>2
<1>4. pallets[k] = Seen(version, p) /\ RuntimeOK BY DEF ReadInv, CursorInv
<1>5. version \in 6..16 /\ IsPallet(version, p) BY <1>3, <1>4 DEF RuntimeOK
<1> HIDE DEF p
<1>6. s = "calls" \/ s = "events" BY DEF Section
<1>7. "name" \in PalletFields(version) /\ (version >= 12 => "index" \in PalletFields(version))
  BY DEF PalletFields
<1>8. /\ \A f \in PalletFields(version) \ {"calls", "events", "storage"} : Seen(version, p)[f] = p[f]
      /\ Seen(version, p)["calls"] = SeenSection(version, p.calls)
      /\ Seen(version, p)["events"] = SeenSection(version, p.events)
  BY <1>5, SeenFields
<1>9. /\ Seen(version, p).name = p.name
      /\ Seen(version, p)[s] = SeenSection(version, p[s])
      /\ version >= 12 => Seen(version, p).index = p.index
  BY <1>6, <1>7, <1>8
<1>10. Items(version, SeenSection(version, p[s])) = Items(version, p[s]) BY <1>5, ItemsSeen
<1> QED BY <1>3, <1>4, <1>9, <1>10 DEF p

(* The decoder counts the pallets that have a section as the runtime does, *)
(* up to the first list it takes for none.                                 *)
AfterEmpty(k, s) == \E j \in 1..(k - 1) : runtime.pallets[j][s] = <<>>

LEMMA NumberDispatched ==
  ASSUME ReadInv, NEW k \in 1..Len(pallets), NEW s \in Section,
         ~ (version \in {6, 7} /\ AfterEmpty(k, s))
  PROVE  PalletNumber(k, s) = RuntimeNumber(k, s)
<1>1. CASE version < 12
  <2>1. Len(pallets) \in Nat BY PalletsTyped DEF ReadInv, IndexInv
  <2>2. ASSUME NEW j \in 1..(k - 1)
        PROVE  pallets[j][s] # None <=> runtime.pallets[j][s] # None
    <3>1. j \in 1..Len(pallets) BY <2>1
    <3>2. pallets[j][s] = SeenSection(version, runtime.pallets[j][s]) BY <3>1, PalletSeen
    <3>3. version \notin {12, 13} BY <1>1
    <3>4. ~ (version \in {6, 7, 12, 13} /\ runtime.pallets[j][s] = <<>>)
      BY <3>3 DEF AfterEmpty
    <3> QED BY <3>2, <3>4 DEF SeenSection
  <2>3. Before(k, s) = {j \in 1..(k - 1) : runtime.pallets[j][s] # None} BY <2>2 DEF Before
  <2> QED BY <1>1, <2>3 DEF PalletNumber, RuntimeNumber
<1>2. CASE ~ (version < 12)
  <2>1. version >= 12 BY <1>2 DEF ReadInv, RuntimeOK
  <2>2. pallets[k].index = runtime.pallets[k].index BY <2>1, PalletSeen
  <2> QED BY <1>2, <2>2 DEF PalletNumber, RuntimeNumber
<1> QED BY <1>1, <1>2

(* What the index has under the bytes the runtime dispatches an item by.   *)
LEMMA Dispatched ==
  ASSUME ReadInv, stage = "done", NEW k \in 1..Len(runtime.pallets), NEW s \in Section,
         ~ (version \in {6, 7} /\ AfterEmpty(k, s)),
         NEW i \in DOMAIN Items(version, runtime.pallets[k][s])
  PROVE  LET it == Items(version, runtime.pallets[k][s])[i]
             l == Lookup(RuntimeNumber(k, s), it.index)
         IN /\ l \in DOMAIN index[s] /\ index[s][l].module = runtime.pallets[k].name
            /\ index[s][l].item = it
<1>1. Len(pallets) \in Nat BY PalletsTyped DEF ReadInv, IndexInv
<1>2. Len(pallets) = Len(runtime.pallets) /\ at = Len(pallets)
  BY <1>1 DEF ReadInv, CursorInv, TailInv
<1>3. k \in 1..Len(pallets) /\ k \in 1..at BY <1>2
<1>4. Its(k, s) = Items(version, runtime.pallets[k][s]) /\ pallets[k].name = runtime.pallets[k].name
  BY <1>3, PalletSeen DEF Its
<1>5. PalletNumber(k, s) = RuntimeNumber(k, s) BY <1>3, NumberDispatched
<1>6. /\ Own(k, s, i) \in DOMAIN index[s]
      /\ index[s][Own(k, s, i)] = [module |-> pallets[k].name, item |-> Its(k, s)[i]]
  BY <1>3, <1>4 DEF ReadInv, IndexInv, FoundInv
<1>7. Own(k, s, i) = Lookup(RuntimeNumber(k, s), Items(version, runtime.pallets[k][s])[i].index)
  BY <1>4, <1>5 DEF Own
<1> HIDE DEF ReadInv, Its
<1> QED BY <1>4, <1>6, <1>7

(* Every call and event is found under the bytes the runtime dispatches it *)
(* by.                                                                     *)
THEOREM CallsDispatched == ClientSpec => []DispatchedByRuntime
<1>1. ReadInv => DispatchedByRuntime
  <2> SUFFICES ASSUME ReadInv, stage = "done", NEW k \in DOMAIN runtime.pallets,
                      NEW s \in Section
               PROVE  LET its == Items(version, runtime.pallets[k][s])
                          afterEmpty == \E j \in 1..(k - 1) : runtime.pallets[j][s] = <<>>
                      IN \/ version \in {6, 7} /\ afterEmpty
                         \/ \A i \in DOMAIN its :
                              LET l == Lookup(RuntimeNumber(k, s), its[i].index)
                              IN l \in DOMAIN index[s]
                                   /\ index[s][l].module = runtime.pallets[k].name
                                   /\ index[s][l].item = its[i]
    BY DEF DispatchedByRuntime
  <2>1. k \in 1..Len(runtime.pallets) BY SeqDomain DEF ReadInv, RuntimeOK
  <2>2. CASE version \in {6, 7} /\ AfterEmpty(k, s) BY <2>2 DEF AfterEmpty
  <2>3. CASE ~ (version \in {6, 7} /\ AfterEmpty(k, s)) BY <2>1, <2>3, Dispatched
  <2> QED BY <2>2, <2>3
<1> QED BY <1>1, ReadAlways, PTL

(* The origin a pallet's index selects is its own.                         *)
THEOREM OriginsSelected == ClientSpec => []OriginSelected
<1>1. ReadInv => OriginSelected
  <2> SUFFICES ASSUME ReadInv, stage = "done", version >= 13 PROVE OriginSelected
    BY DEF OriginSelected
  <2>1. origins = OriginCaller(pallets) BY DEF ReadInv, TailInv
  <2>2. TypeInv /\ IndexesDistinct BY DEF ReadInv, IndexInv, TypeInv
  <2>3. DOMAIN pallets = 1..Len(pallets) /\ version \in 6..16 BY <2>2, PalletsTyped
  <2>4. version >= 12 BY <2>3
  <2>5. IsSeq(pallets) BY <2>2 DEF TypeInv, IsSeq
  <2>6. \A k \in 1..Len(pallets) : pallets[k].index \in Nat
    <3>1. \A b \in Byte : b \in Nat BY DEF Byte
    <3>2. \A k \in 1..Len(pallets) : PalletOK(version, pallets[k]) BY <2>2, <2>3 DEF TypeInv, TypeOK
    <3>3. \A k \in 1..Len(pallets) : pallets[k].index \in Byte BY <2>4, <3>2 DEF PalletOK
    <3> QED BY <3>1, <3>3
  <2>7. \A j, k \in 1..Len(pallets) : pallets[j].index = pallets[k].index => j = k
    BY <2>2, <2>3, <2>4 DEF IndexesDistinct
  <2>8. Placed(origins, pallets) BY <2>1, <2>5, <2>6, <2>7, OriginsPlaced
  <2>9. ASSUME NEW k \in DOMAIN pallets
        PROVE  /\ pallets[k].index + 1 \in DOMAIN origins
               /\ origins[pallets[k].index + 1] = Origin(pallets[k])
    <3> DEFINE i == pallets[k].index + 1
    <3>1. i \in DOMAIN origins BY <2>3, <2>8 DEF Placed
    <3>2. pallets[k].index = i - 1 BY <2>3, <2>6
    <3> HIDE DEF i
    <3>3. origins[i] = Origin(pallets[k]) BY <2>3, <2>8, <3>1, <3>2 DEF Placed
    <3> QED BY <3>1, <3>3 DEF i
  <2>10. ASSUME NEW i \in DOMAIN origins, \A k \in DOMAIN pallets : pallets[k].index # i - 1
         PROVE  origins[i].name = Empty /\ i < Len(origins)
    BY <2>3, <2>8, <2>10 DEF Placed
  <2> QED BY <2>9, <2>10 DEF OriginSelected
<1> QED BY <1>1, ReadAlways, PTL

-----------------------------------------------------------------------------
(* The text of an event: its parts are where the reader looks for them.    *)
FirstNumber(v, r, e) ==
  IF v < 12 THEN Cardinality({j \in 1..(e.pallet - 1) : r.pallets[j].events # None})
  ELSE r.pallets[e.pallet].index
ItemOf(v, r, e) == Items(v, r.pallets[e.pallet].events)[e.item]
HeadText(e) == Token("phase", e.phase) \o (IF e.phase = 0 THEN Token("U32", e.extrinsic) ELSE <<>>)
HeadSize(e) == IF e.phase = 0 THEN 2 ELSE 1
ArgText(v, r, e) ==
  [i \in DOMAIN ItemOf(v, r, e).args |->
     [kind |-> ModuleType(r.pallets[e.pallet].name, ItemOf(v, r, e).args[i]),
      val |-> <<e.salt, i>>]]
TopicText(e) == WriteTokens("hash", e.topics)

LEMMA EventText ==
  ASSUME NEW v, NEW r, NEW e
  PROVE  WriteEvent(v, r, e)
           = HeadText(e) \o Token("lookup", Lookup(FirstNumber(v, r, e), ItemOf(v, r, e).index))
               \o ArgText(v, r, e) \o TopicText(e)
BY DEF WriteEvent, HeadText, FirstNumber, ItemOf, ArgText, TopicText

LEMMA HeadRead ==
  ASSUME NEW e
  PROVE  /\ IsSeq(HeadText(e)) /\ Len(HeadText(e)) = HeadSize(e)
         /\ HeadText(e)[1].val = e.phase
         /\ e.phase = 0 => HeadText(e)[2] = [kind |-> "U32", val |-> e.extrinsic]
<1> DEFINE a == Token("phase", e.phase)  b == Token("U32", e.extrinsic)
<1>1. IsSeq(a) /\ Len(a) = 1 /\ a[1].val = e.phase BY TokenSeq DEF Token
<1>2. IsSeq(b) /\ Len(b) = 1 /\ b[1] = [kind |-> "U32", val |-> e.extrinsic]
  BY TokenSeq DEF Token
<1>3. CASE e.phase = 0
  <2>1. HeadText(e) = a \o b BY <1>3 DEF HeadText
  <2> HIDE DEF a, b
  <2>2. /\ IsSeq(a \o b) /\ Len(a \o b) = Len(a) + Len(b)
        /\ \A i \in 1..(Len(a) + Len(b)) :
             (a \o b)[i] = IF i <= Len(a) THEN a[i] ELSE b[i - Len(a)]
    BY <1>1, <1>2, SeqConcat
  <2>3. (a \o b)[1] = a[1] /\ (a \o b)[2] = b[1]
    <3>1. 1 \in 1..(1 + 1) /\ 2 \in 1..(1 + 1) /\ 2 - 1 = 1 /\ ~ (2 <= 1) /\ 1 <= 1 OBVIOUS
    <3> QED BY <1>1, <1>2, <2>2, <3>1
  <2>4. HeadSize(e) = 2 BY <1>3 DEF HeadSize
  <2> QED BY <1>1, <1>2, <2>1, <2>2, <2>3, <2>4
<1>4. CASE e.phase # 0
  <2>1. HeadText(e) = a \o <<>> BY <1>4 DEF HeadText
  <2> HIDE DEF a
  <2>2. a \o <<>> = a BY <1>1, SeqNothing
  <2>3. HeadSize(e) = 1 BY <1>4 DEF HeadSize
  <2> QED BY <1>1, <1>4, <2>1, <2>2, <2>3
<1> QED BY <1>3, <1>4

LEMMA TopicsRead ==
  ASSUME NEW e, IsList(IsAny, e.topics), NEW rest, IsSeq(rest)
  PROVE  LET u == TopicText(e) \o rest
             k == Len(e.topics)
         IN /\ IsSeq(TopicText(e)) /\ k \in Nat /\ u[1].val = k /\ u # <<>> /\ Head(u) = u[1]
            /\ [i \in 1..k |-> u[i + 1].val] = e.topics
            /\ SubSeq(u, 1 + k + 1, Len(u)) = rest
<1> DEFINE t == e.topics  k == Len(t)  body == FlattenSeq([i \in DOMAIN t |-> Token("hash", t[i])])
           head == Token("count", k)  f == [i \in 1..k |-> [kind |-> "hash", val |-> t[i]]]
           h == head \o body  u == h \o rest
<1>1. t # None /\ t \in Seq({t[i] : i \in DOMAIN t}) BY DEF IsList
<1>2. IsSeq(t) /\ k \in Nat /\ DOMAIN t = 1..k BY <1>1, SeqDomain DEF IsSeq
<1>3. TopicText(e) = h BY <1>1 DEF TopicText, WriteTokens, WriteNil, WriteList, OrEmpty
<1>4. IsSeq(f) /\ Len(f) = k /\ DOMAIN f = 1..k
  <2>1. f \in [1..k -> {f[i] : i \in 1..k}] OBVIOUS
  <2> HIDE DEF f, k
  <2> QED BY <1>2, <2>1, SeqValues
<1>5. \A i \in 1..k : f[i] = [kind |-> "hash", val |-> t[i]] OBVIOUS
<1>6. body = f
  <2>1. [i \in DOMAIN t |-> Token("hash", t[i])] = [i \in DOMAIN f |-> <<f[i]>>]
    BY <1>2, <1>4 DEF Token
  <2> HIDE DEF f, k
  <2>2. FlattenSeq([i \in DOMAIN f |-> <<f[i]>>]) = f BY <1>4, FlatSingles
  <2> QED BY <2>1, <2>2
<1>7. IsSeq(head) /\ Len(head) = 1 /\ head[1].val = k BY TokenSeq DEF Token
<1> HIDE DEF f, k, body, head, t
<1>8. /\ IsSeq(h) /\ Len(h) = 1 + k
      /\ \A i \in 1..(1 + k) : h[i] = IF i <= 1 THEN head[1] ELSE f[i - 1]
  <2>1. /\ IsSeq(h) /\ Len(h) = Len(head) + Len(body)
        /\ \A i \in 1..(Len(head) + Len(body)) :
             h[i] = IF i <= Len(head) THEN head[i] ELSE body[i - Len(head)]
    BY <1>4, <1>6, <1>7, SeqConcat
  <2>2. \A i \in 1..(1 + k) : i <= 1 => i = 1 BY <1>2
  <2> HIDE DEF h
  <2> QED BY <1>4, <1>6, <1>7, <2>1, <2>2
<1> HIDE DEF h
<1>9. /\ IsSeq(u) /\ Len(u) = 1 + k + Len(rest) /\ Len(rest) \in Nat
      /\ \A i \in 1..(1 + k) : u[i] = h[i]
  <2>1. /\ IsSeq(u) /\ Len(u) = Len(h) + Len(rest)
        /\ \A i \in 1..(Len(h) + Len(rest)) :
             u[i] = IF i <= Len(h) THEN h[i] ELSE rest[i - Len(h)]
    BY <1>8, SeqConcat
  <2>2. Len(rest) \in Nat BY SeqDomain
  <2>3. \A i \in 1..(1 + k) : i \in 1..(1 + k + Len(rest)) /\ i <= 1 + k BY <1>2, <2>2
  <2> HIDE DEF u
  <2> QED BY <1>8, <2>1, <2>2, <2>3
<1>10. SubSeq(u, 1 + k + 1, Len(u)) = rest BY <1>8, RestOf
<1> HIDE DEF u
<1>11. u # <<>> /\ Head(u) = u[1]
  <2>1. Len(u) # 0 BY <1>2, <1>9
  <2>2. PICK S : u \in Seq(S) BY <1>9 DEF IsSeq
  <2> QED BY <2>1, <2>2
<1>12. u[1].val = k
  <2>1. 1 \in 1..(1 + k) BY <1>2
  <2> QED BY <1>7, <1>8, <1>9, <2>1
<1>13. [i \in 1..k |-> u[i + 1].val] = t
  <2>1. ASSUME NEW i \in 1..k PROVE u[i + 1].val = t[i]
    <3>1. i + 1 \in 1..(1 + k) /\ ~ (i + 1 <= 1) /\ (i + 1) - 1 = i BY <1>2
    <3>2. u[i + 1] = f[i] BY <1>8, <1>9, <3>1
    <3>3. f[i].val = t[i]
      <4>1. f[i] = [kind |-> "hash", val |-> t[i]] BY <1>5
      <4> QED BY ONLY <4>1
    <3> QED BY <3>2, <3>3
  <2>2. t = [i \in 1..k |-> t[i]] BY <1>1, <1>2
  <2> QED BY <2>1, <2>2
<1> QED BY <1>2, <1>3, <1>8, <1>10, <1>11, <1>12, <1>13 DEF u, k, t

(* What the reader finds of an event that is ahead of it.                  *)
EventAhead(v, r, e, rest) ==
  LET d == WriteEvent(v, r, e) \o rest
      h == HeadSize(e)
      m == Len(ItemOf(v, r, e).args)
  IN /\ IsSeq(WriteEvent(v, r, e)) /\ IsSeq(d)
     /\ d[1].val = e.phase
     /\ e.phase = 0 => d[2] = [kind |-> "U32", val |-> e.extrinsic]
     /\ d[h + 1].val = Lookup(FirstNumber(v, r, e), ItemOf(v, r, e).index)
     /\ \A j \in 1..m : d[h + 1 + j] = ArgText(v, r, e)[j]
     /\ SubSeq(d, h + 1 + m + 1, Len(d)) = TopicText(e) \o rest

LEMMA EventFound ==
  ASSUME NEW v, NEW r, NEW e, IsEmitted(v, r, e), NEW rest, IsSeq(rest)
  PROVE  EventAhead(v, r, e, rest)
<1> DEFINE h == HeadText(e)  l == Lookup(FirstNumber(v, r, e), ItemOf(v, r, e).index)
           b == Token("lookup", l)  c == ArgText(v, r, e)  t == TopicText(e)
           p == h \o b \o c  args == ItemOf(v, r, e).args
           d == p \o (t \o rest)
<1>1. IsSeq(h) /\ Len(h) = HeadSize(e) /\ h[1].val = e.phase
      /\ (e.phase = 0 => h[2] = [kind |-> "U32", val |-> e.extrinsic])
  BY HeadRead
<1>2. IsSeq(b) /\ Len(b) = 1 BY TokenSeq
<1>3. b[1].val = l BY DEF Token
<1>4. IsList(IsAny, args) /\ IsList(IsAny, e.topics) BY DEF IsEmitted, ItemOf
<1>5. IsSeq(args) /\ Len(args) \in Nat /\ DOMAIN args = 1..Len(args)
  <2>1. IsSeq(args) BY <1>4 DEF IsList, IsSeq
  <2> QED BY <2>1, SeqDomain
<1>6. IsSeq(c) /\ Len(c) = Len(args)
  <2> DEFINE n == Len(args)
  <2>1. c \in [1..n -> {c[i] : i \in 1..n}] BY <1>5 DEF ArgText
  <2> HIDE DEF n, c
  <2> QED BY <1>5, <2>1, SeqValues DEF n
<1>7. IsSeq(t) BY <1>4, TopicsRead
<1>8. WriteEvent(v, r, e) = p \o t BY EventText
<1>9. IsSeq(h \o b) /\ IsSeq(t \o rest)
  BY <1>1, <1>2, <1>7, SeqConcat
<1>10. IsSeq(p)
  BY <1>6, <1>9, SeqConcat
<1>11. IsSeq(p \o t) BY <1>7, <1>10, SeqConcat
<1> HIDE DEF h, b, c, t
<1>12. Regrouped(p, t, rest) BY <1>7, <1>10, Regroup
<1>13. WriteEvent(v, r, e) \o rest = d BY <1>8, <1>12 DEF Regrouped
<1>14. PartsAt(h, b, c, t \o rest, d) BY <1>1, <1>2, <1>6, <1>9, FindParts
<1> HIDE DEF p, d, l, args
<1>15. HeadSize(e) \in Nat /\ 1 <= HeadSize(e) /\ (e.phase = 0 => HeadSize(e) = 2) BY DEF HeadSize
<1>16. d[1] = h[1] /\ (e.phase = 0 => d[2] = h[2])
  <2>1. 1 \in 1..HeadSize(e) /\ (e.phase = 0 => 2 \in 1..HeadSize(e)) BY <1>15
  <2> QED BY <1>1, <1>14, <2>1 DEF PartsAt
<1>17. d[HeadSize(e) + 1].val = l BY <1>1, <1>3, <1>14 DEF PartsAt
<1>18. \A j \in 1..Len(args) : d[HeadSize(e) + 1 + j] = c[j] BY <1>1, <1>6, <1>14 DEF PartsAt
<1>19. SubSeq(d, HeadSize(e) + 1 + Len(args) + 1, Len(d)) = t \o rest
  BY <1>1, <1>6, <1>14 DEF PartsAt
<1> QED BY <1>1, <1>8, <1>11, <1>13, <1>14, <1>16, <1>17, <1>18, <1>19
        DEF EventAhead, PartsAt, l, args, c, t

EmittedAs(v, r, e) ==
  [phase |-> e.phase, extrinsicIdx |-> IF e.phase = 0 THEN e.extrinsic ELSE 0,
   module |-> r.pallets[e.pallet].name, event |-> ItemOf(v, r, e).name,
   params |-> [i \in DOMAIN ItemOf(v, r, e).args |-> <<e.salt, i>>],
   topics |-> e.topics]

LEMMA EmittedSame == ASSUME NEW e PROVE Emitted(e) = EmittedAs(version, runtime, e)
BY DEF Emitted, EmittedAs, ItemOf

NoEmpty(v, r) == v \in {6, 7} => \A k \in DOMAIN r.pallets : r.pallets[k].events # <<>>
NamedTypes(v, r, e) ==
  \A i \in DOMAIN ItemOf(v, r, e).args : ItemOf(v, r, e).args[i] # Unresolved

(* The event that is ahead is found in the index.                          *)
LEMMA EntryFound ==
  ASSUME ReadInv, stage = "done", NoEmpty(version, runtime), NEW e, IsEmitted(version, runtime, e)
  PROVE  LET l == Lookup(FirstNumber(version, runtime, e), ItemOf(version, runtime, e).index)
         IN /\ l \in DOMAIN EventIndex /\ EventIndex[l].module = runtime.pallets[e.pallet].name
            /\ EventIndex[l].item = ItemOf(version, runtime, e)
<1> DEFINE k == e.pallet
<1>1. DOMAIN runtime.pallets = 1..Len(runtime.pallets) /\ Len(runtime.pallets) \in Nat
  BY SeqDomain DEF ReadInv, RuntimeOK
<1>2. k \in 1..Len(runtime.pallets) /\ e.item \in DOMAIN Items(version, runtime.pallets[k].events)
  BY <1>1 DEF IsEmitted
<1>3. ~ (version \in {6, 7} /\ AfterEmpty(k, "events"))
  <2>1. \A j \in 1..(k - 1) : j \in DOMAIN runtime.pallets BY <1>1, <1>2
  <2> QED BY <2>1 DEF AfterEmpty, NoEmpty
<1>4. "events" \in Section BY DEF Section
<1>5. FirstNumber(version, runtime, e) = RuntimeNumber(k, "events") BY DEF FirstNumber, RuntimeNumber
<1>6. ItemOf(version, runtime, e) = Items(version, runtime.pallets[k]["events"])[e.item]
  BY DEF ItemOf
<1> HIDE DEF k
<1>7. LET it == Items(version, runtime.pallets[k]["events"])[e.item]
          l == Lookup(RuntimeNumber(k, "events"), it.index)
      IN /\ l \in DOMAIN index["events"] /\ index["events"][l].module = runtime.pallets[k].name
         /\ index["events"][l].item = it
  BY <1>2, <1>3, <1>4, Dispatched
<1> QED BY <1>5, <1>6, <1>7 DEF EventIndex, k

(* It is decoded as it was emitted, up to where the next begins.           *)
LEMMA EventDecoded ==
  ASSUME ReadInv, stage = "done", NoEmpty(version, runtime), NEW e, IsEmitted(version, runtime, e),
         NEW rest, IsSeq(rest), data = WriteEvent(version, runtime, e) \o rest,
         ModuleType(module, "U32") = "U32"
  PROVE  /\ ER!Known(data) <=> NamedTypes(version, runtime, e)
         /\ ER!Record(data) = EmittedAs(version, runtime, e)
         /\ ER!After(data) = rest
         /\ ER!Entry(data).module = runtime.pallets[e.pallet].name
<1> DEFINE it == ItemOf(version, runtime, e)  h == HeadSize(e)  args == it.args
           l == Lookup(FirstNumber(version, runtime, e), it.index)
           m == Len(args)  u == TopicText(e) \o rest  k == Len(e.topics)
           name == runtime.pallets[e.pallet].name
<1>1. EventAhead(version, runtime, e, rest) BY EventFound
<1>2. /\ data[1].val = e.phase
      /\ e.phase = 0 => data[2] = [kind |-> "U32", val |-> e.extrinsic]
      /\ data[h + 1].val = l
      /\ \A j \in 1..m : data[h + 1 + j] = ArgText(version, runtime, e)[j]
      /\ SubSeq(data, h + 1 + m + 1, Len(data)) = u
  BY <1>1 DEF EventAhead
<1>3. IsList(IsAny, args) /\ IsList(IsAny, e.topics) BY DEF IsEmitted, ItemOf
<1>4. m \in Nat /\ DOMAIN args = 1..m
  <2>1. IsSeq(args) BY <1>3 DEF IsList, IsSeq
  <2> HIDE DEF args
  <2> QED BY <2>1, SeqDomain
<1>5. \A j \in 1..m : ArgText(version, runtime, e)[j]
                        = [kind |-> ModuleType(name, args[j]), val |-> <<e.salt, j>>]
  BY <1>4 DEF ArgText
<1>6. /\ k \in Nat /\ u[1].val = k /\ u # <<>> /\ Head(u) = u[1]
      /\ [i \in 1..k |-> u[i + 1].val] = e.topics
      /\ SubSeq(u, 1 + k + 1, Len(u)) = rest
  BY <1>3, TopicsRead
<1>7. l \in DOMAIN EventIndex /\ EventIndex[l].module = name /\ EventIndex[l].item = it
  BY EntryFound
<1> HIDE DEF it, l, args, m, u, k, name, h
<1>8. ER!HeadLen(data) = h BY <1>2 DEF ER!HeadLen, HeadSize, h
<1>9. ER!Entry(data) = EventIndex[l] BY <1>2, <1>8 DEF ER!Entry
<1>10. ER!Args(data) = args BY <1>7, <1>9 DEF ER!Args, args
<1>11. ER!Known(data) <=> NamedTypes(version, runtime, e)
  BY <1>2, <1>7, <1>8, <1>10 DEF ER!Known, NamedTypes, args, it
<1>12. ER!Drop(data, h + 1 + m) = u BY <1>2 DEF ER!Drop
<1>13. ER!After(data) = rest
  <2>1. ER!Drop(u, 1 + Head(u).val) = rest BY <1>6 DEF ER!Drop
  <2> QED BY <1>8, <1>10, <1>12, <2>1 DEF ER!After, m
<1>14. ER!Topics(u) = e.topics BY <1>6 DEF ER!Topics
<1>15. (IF h = 2 THEN ER!Decode(module, "U32", data[2]) ELSE 0)
         = IF e.phase = 0 THEN e.extrinsic ELSE 0
  <2>1. h = 2 <=> e.phase = 0 BY DEF h, HeadSize
  <2>2. ASSUME e.phase = 0 PROVE ER!Decode(module, "U32", data[2]) = e.extrinsic
    <3>1. data[2] = [kind |-> "U32", val |-> e.extrinsic] BY <1>2, <2>2
    <3>2. data[2].kind = "U32" /\ data[2].val = e.extrinsic BY ONLY <3>1
    <3> QED BY <3>2 DEF ER!Decode
  <2> QED BY <2>1, <2>2
<1>16. [i \in DOMAIN args |-> ER!Decode(ER!ArgModule(data), args[i], data[h + 1 + i])]
         = [i \in DOMAIN args |-> <<e.salt, i>>]
  <2>1. ASSUME NEW i \in 1..m
        PROVE  ER!Decode(ER!ArgModule(data), args[i], data[h + 1 + i]) = <<e.salt, i>>
    <3>1. data[h + 1 + i] = [kind |-> ModuleType(name, args[i]), val |-> <<e.salt, i>>]
      BY <1>2, <1>5
    <3>2. /\ data[h + 1 + i].kind = ModuleType(name, args[i])
          /\ data[h + 1 + i].val = <<e.salt, i>>
      BY ONLY <3>1
    <3>3. ER!ArgModule(data) = name BY <1>7, <1>9 DEF ER!ArgModule
    <3> QED BY <3>2, <3>3 DEF ER!Decode
  <2> QED BY <1>4, <2>1
<1>17. ER!Record(data) = EmittedAs(version, runtime, e)
  <2>1. ER!Record(data)
          = [phase |-> data[1].val,
             extrinsicIdx |-> IF h = 2 THEN ER!Decode(module, "U32", data[2]) ELSE 0,
             module |-> ER!Entry(data).module, event |-> ER!Entry(data).item.name,
             params |-> [i \in DOMAIN args |->
                           ER!Decode(ER!ArgModule(data), args[i], data[h + 1 + i])],
             topics |-> ER!Topics(u)]
    BY <1>8, <1>10, <1>12 DEF ER!Record, m
  <2>2. EmittedAs(version, runtime, e)
          = [phase |-> e.phase, extrinsicIdx |-> IF e.phase = 0 THEN e.extrinsic ELSE 0,
             module |-> name, event |-> it.name,
             params |-> [i \in DOMAIN args |-> <<e.salt, i>>], topics |-> e.topics]
    BY DEF EmittedAs, it, args, name
  <2> QED BY <1>2, <1>7, <1>9, <1>14, <1>15, <1>16, <2>1, <2>2
<1> QED BY <1>7, <1>9, <1>11, <1>13, <1>17 DEF name

-----------------------------------------------------------------------------
(* The invariant of the client: the events that are read are the first of  *)
(* the block, and the others are ahead of the reader.                      *)
Texts(v, r, b) == [i \in DOMAIN b |-> WriteEvent(v, r, b[i])]
Coming(v, r, b, n) == FlattenSeq(From(Texts(v, r, b), n))
InModule(r, m) == m \in {NoModule} \cup {r.pallets[k].name : k \in DOMAIN r.pallets}
(* Decoding has come to an event one of whose types has no name.           *)
StoppedAt(v, r, b, n) == n \in DOMAIN b /\ ~ NamedTypes(v, r, b[n])
BlockOK(v, r, b) == IsSeq(b) /\ \A i \in 1..Len(b) : IsEmitted(v, r, b[i])

ReadSoFar ==
  /\ IsSeq(records) /\ todo \in Nat /\ todo + Len(records) = Len(block)
  /\ \A i \in 1..Len(records) : records[i] = EmittedAs(version, runtime, block[i])
  /\ data = Coming(version, runtime, block, Len(records))
  /\ InModule(runtime, module)
  /\ status = "panic" => StoppedAt(version, runtime, block, Len(records) + 1)
EventInv ==
  /\ BlockOK(version, runtime, block)
  /\ NoEmpty(version, runtime) => ReadSoFar
ClientInv == ReadInv /\ EventInv

LEMMA TextPieces ==
  ASSUME NEW v, NEW r, NEW b, BlockOK(v, r, b)
  PROVE  /\ Pieces(Texts(v, r, b)) /\ Len(Texts(v, r, b)) = Len(b)
         /\ \A i \in 1..Len(b) : Texts(v, r, b)[i] = WriteEvent(v, r, b[i])
<1> DEFINE n == Len(b)  ss == Texts(v, r, b)
<1>1. n \in Nat /\ DOMAIN b = 1..n BY SeqDomain DEF BlockOK
<1>2. ss \in [1..n -> {ss[i] : i \in 1..n}] /\ \A i \in 1..n : ss[i] = WriteEvent(v, r, b[i])
  BY <1>1 DEF Texts
<1> HIDE DEF n, ss
<1>3. IsSeq(ss) /\ Len(ss) = n BY <1>1, <1>2, SeqValues
<1>4. \A i \in 1..n : IsSeq(ss[i])
  <2> TAKE i \in 1..n
  <2>1. EventAhead(v, r, b[i], <<>>) BY EventFound, SeqEmpty DEF BlockOK, n
  <2> QED BY <1>2, <2>1 DEF EventAhead
<1> QED BY <1>2, <1>3, <1>4 DEF Pieces, n, ss

LEMMA BlockDescribed ==
  ASSUME version \in Version, runtime \in Runtime[version], NEW b \in Block[version][runtime]
  PROVE  BlockOK(version, runtime, b)
<1>1. IsList(LAMBDA e : IsEmitted(version, runtime, e), b) BY EventAssumption
<1>2. b \in Seq({b[i] : i \in DOMAIN b}) /\ \A i \in DOMAIN b : IsEmitted(version, runtime, b[i])
  BY <1>1 DEF IsList
<1>3. IsSeq(b) BY <1>2 DEF IsSeq
<1> QED BY <1>2, <1>3, SeqDomain DEF BlockOK

LEMMA EventInit == ClientInit => ClientInv
<1> SUFFICES ASSUME ClientInit PROVE ClientInv OBVIOUS
<1>1. ReadInv /\ version \in Version /\ runtime \in Runtime[version]
  BY ReadInit DEF ClientInit, DecoderInit, Init
<1>2. BlockOK(version, runtime, block) BY <1>1, BlockDescribed DEF ClientInit
<1>3. /\ data = FlattenSeq(Texts(version, runtime, block))
      /\ todo = Len(block) /\ module = NoModule /\ records = <<>> /\ status = "run"
  BY DEF ClientInit, Texts
<1> DEFINE ss == Texts(version, runtime, block)
<1>4. From(ss, 0) = ss
  <2>1. Pieces(ss) BY <1>2, TextPieces
  <2> HIDE DEF ss
  <2> QED BY <2>1, FromAll
<1>5. data = Coming(version, runtime, block, 0) BY <1>3, <1>4 DEF Coming
<1>6. Len(block) \in Nat /\ Len(block) + 0 = Len(block) BY <1>2, SeqDomain DEF BlockOK
<1>7. IsSeq(records) /\ Len(records) = 0 BY <1>3, SeqEmpty
<1>8. ReadSoFar BY <1>3, <1>5, <1>6, <1>7 DEF ReadSoFar, InModule
<1> QED BY <1>1, <1>2, <1>8 DEF ClientInv, EventInv

(* The next event of the block is the one ahead.                           *)
LEMMA NextAhead ==
  ASSUME ClientInv, stage = "done", NoEmpty(version, runtime), todo > 0
  PROVE  LET n == Len(records)
             e == block[n + 1]
         IN /\ n + 1 \in 1..Len(block)
            /\ ER!Known(data) <=> NamedTypes(version, runtime, e)
            /\ ER!Record(data) = EmittedAs(version, runtime, e)
            /\ ER!After(data) = Coming(version, runtime, block, n + 1)
            /\ ER!Entry(data).module = runtime.pallets[e.pallet].name
            /\ e.pallet \in DOMAIN runtime.pallets
<1> DEFINE n == Len(records)  e == block[n + 1]  ss == Texts(version, runtime, block)
           rest == FlattenSeq(From(ss, n + 1))
<1>1. ReadInv /\ BlockOK(version, runtime, block) /\ ReadSoFar BY DEF ClientInv, EventInv
<1>2. n \in Nat /\ todo \in Nat /\ todo + n = Len(block) /\ Len(block) \in Nat
  BY <1>1, SeqDomain DEF ReadSoFar, BlockOK
<1>3. n + 1 \in 1..Len(block) /\ n < Len(block) BY <1>2
<1>4. Pieces(ss) /\ Len(ss) = Len(block) /\ ss[n + 1] = WriteEvent(version, runtime, e)
  BY <1>1, <1>3, TextPieces
<1>5. data = FlattenSeq(From(ss, n)) BY <1>1 DEF ReadSoFar, Coming
<1> HIDE DEF n, ss
<1>6. FlattenSeq(From(ss, n)) = ss[n + 1] \o rest /\ IsSeq(rest)
  BY <1>2, <1>3, <1>4, FromNext
<1>7. IsEmitted(version, runtime, e) BY <1>1, <1>3 DEF BlockOK
<1>8. ModuleType(module, "U32") = "U32"
  BY <1>1, EventAssumption DEF ReadSoFar, InModule, ReadInv, RuntimeOK
<1> HIDE DEF e, rest
<1>9. data = WriteEvent(version, runtime, e) \o rest BY <1>4, <1>5, <1>6
<1>10. /\ ER!Known(data) <=> NamedTypes(version, runtime, e)
       /\ ER!Record(data) = EmittedAs(version, runtime, e)
       /\ ER!After(data) = rest
       /\ ER!Entry(data).module = runtime.pallets[e.pallet].name
  BY <1>1, <1>6, <1>7, <1>8, <1>9, EventDecoded
<1>11. rest = Coming(version, runtime, block, n + 1) BY DEF rest, ss, Coming
<1>12. e.pallet \in DOMAIN runtime.pallets BY <1>7 DEF IsEmitted
<1> QED BY <1>3, <1>10, <1>11, <1>12 DEF e, n

LEMMA EventRead ==
  ASSUME ClientInv, stage = "done", NoEmpty(version, runtime), ER!ReadRecord,
         UNCHANGED <<version, runtime, block>>
  PROVE  ReadSoFar'
<1> DEFINE n == Len(records)  e == block[n + 1]
<1>1. /\ status = "run" /\ status' = status /\ todo > 0 /\ todo' = todo - 1
      /\ records' = Append(records, ER!Record(data))
      /\ module' = ER!Entry(data).module /\ data' = ER!After(data)
  BY DEF ER!ReadRecord
<1>2. BlockOK(version, runtime, block) /\ ReadSoFar BY DEF ClientInv, EventInv
<1>3. /\ n + 1 \in 1..Len(block)
      /\ ER!Record(data) = EmittedAs(version, runtime, e)
      /\ ER!After(data) = Coming(version, runtime, block, n + 1)
      /\ ER!Entry(data).module = runtime.pallets[e.pallet].name
      /\ e.pallet \in DOMAIN runtime.pallets
  BY <1>1, NextAhead
<1>4. n \in Nat /\ todo \in Nat /\ todo + n = Len(block) /\ IsSeq(records)
  BY <1>2, SeqDomain DEF ReadSoFar
<1>5. /\ IsSeq(records') /\ Len(records') = n + 1
      /\ \A i \in 1..n : records'[i] = records[i]
      /\ records'[n + 1] = EmittedAs(version, runtime, e)
  BY <1>1, <1>3, <1>4, SeqAppend
<1>6. \A i \in 1..n : records[i] = EmittedAs(version, runtime, block[i])
  BY <1>2 DEF ReadSoFar
<1> HIDE DEF n
<1>7. \A i \in 1..(n + 1) : records'[i] = EmittedAs(version, runtime, block[i])
  <2>1. \A i \in 1..(n + 1) : i = n + 1 \/ i \in 1..n BY <1>4
  <2> QED BY <1>5, <1>6, <2>1
<1>8. todo' \in Nat /\ todo' + (n + 1) = Len(block) BY <1>1, <1>4
<1>9. InModule(runtime, module') BY <1>1, <1>3 DEF InModule
<1>10. version' = version /\ runtime' = runtime /\ block' = block OBVIOUS
<1>11. status' # "panic" BY <1>1
<1>12. data' = Coming(version, runtime, block, n + 1) BY <1>1, <1>3
<1>13. InModule(runtime, module)' BY <1>9, <1>10 DEF InModule
<1>14. (data = Coming(version, runtime, block, Len(records)))' BY <1>5, <1>10, <1>12
<1>15. (\A i \in 1..Len(records) : records[i] = EmittedAs(version, runtime, block[i]))'
  BY <1>5, <1>7, <1>10
<1> QED BY <1>5, <1>8, <1>10, <1>11, <1>13, <1>14, <1>15 DEF ReadSoFar

LEMMA EventUnknown ==
  ASSUME ClientInv, stage = "done", NoEmpty(version, runtime), ER!UnknownEvent,
         UNCHANGED <<version, runtime, block>>
  PROVE  ReadSoFar'
<1>1. /\ todo > 0 /\ ~ ER!Known(data) /\ data' = data /\ todo' = todo /\ module' = module
      /\ records' = records
  BY DEF ER!UnknownEvent
<1>2. BlockOK(version, runtime, block) /\ ReadSoFar BY DEF ClientInv, EventInv
<1>3. Len(records) + 1 \in 1..Len(block) /\ ~ NamedTypes(version, runtime, block[Len(records) + 1])
  BY <1>1, NextAhead
<1>4. DOMAIN block = 1..Len(block) BY <1>2, SeqDomain DEF BlockOK
<1>5. StoppedAt(version, runtime, block, Len(records) + 1) BY <1>3, <1>4 DEF StoppedAt
<1>6. version' = version /\ runtime' = runtime /\ block' = block OBVIOUS
<1>7. StoppedAt(version, runtime, block, Len(records) + 1)' BY <1>1, <1>5, <1>6
<1>8. (data = Coming(version, runtime, block, Len(records)))' BY <1>1, <1>2, <1>6 DEF ReadSoFar
<1>9. InModule(runtime, module)' BY <1>1, <1>2, <1>6 DEF ReadSoFar, InModule
<1>10. (\A i \in 1..Len(records) : records[i] = EmittedAs(version, runtime, block[i]))'
  BY <1>1, <1>2, <1>6 DEF ReadSoFar
<1>11. IsSeq(records') /\ todo' \in Nat /\ todo' + Len(records') = Len(block')
  BY <1>1, <1>2, <1>6 DEF ReadSoFar
<1> QED BY <1>7, <1>8, <1>9, <1>10, <1>11 DEF ReadSoFar

LEMMA EventStill ==
  ASSUME EventInv, UNCHANGED <<version, runtime, block, data, todo, module, records, status>>
  PROVE  EventInv'
<1>1. /\ version' = version /\ runtime' = runtime /\ block' = block /\ data' = data
      /\ todo' = todo /\ module' = module /\ records' = records /\ status' = status
  OBVIOUS
<1>2. BlockOK(version, runtime, block)' BY <1>1 DEF EventInv
<1>3. NoEmpty(version, runtime)' = NoEmpty(version, runtime) BY <1>1
<1>4. ASSUME ReadSoFar PROVE ReadSoFar'
  <2>1. (data = Coming(version, runtime, block, Len(records)))' BY <1>1, <1>4 DEF ReadSoFar
  <2>2. (\A i \in 1..Len(records) : records[i] = EmittedAs(version, runtime, block[i]))'
    BY <1>1, <1>4 DEF ReadSoFar
  <2>3. InModule(runtime, module)' BY <1>1, <1>4 DEF ReadSoFar, InModule
  <2>4. (status = "panic" => StoppedAt(version, runtime, block, Len(records) + 1))'
    BY <1>1, <1>4 DEF ReadSoFar
  <2>5. IsSeq(records') /\ todo' \in Nat /\ todo' + Len(records') = Len(block')
    BY <1>1, <1>4 DEF ReadSoFar
  <2> QED BY <2>1, <2>2, <2>3, <2>4, <2>5 DEF ReadSoFar
<1> QED BY <1>2, <1>3, <1>4 DEF EventInv

LEMMA EventStep == ClientInv /\ [ClientNext]_clientVars => ClientInv'
<1> SUFFICES ASSUME ClientInv, [ClientNext]_clientVars PROVE ClientInv' OBVIOUS
<1>1. ReadInv' BY ReadStep, ClientDecodes DEF ClientInv
<1>2. CASE DecoderNext /\ UNCHANGED <<block, data, todo, module, records, status>>
  <2>1. version' = version /\ runtime' = runtime BY <1>2, RuntimeKept DEF ClientInv
  <2>2. EventInv' BY <1>2, <2>1, EventStill DEF ClientInv
  <2> QED BY <1>1, <2>2 DEF ClientInv
<1>3. CASE stage = "done" /\ ER!ReaderNext /\ UNCHANGED <<decoderVars, block>>
  <2>1. version' = version /\ runtime' = runtime /\ block' = block
    BY <1>3 DEF decoderVars, vars
  <2>2. BlockOK(version, runtime, block)' BY <2>1 DEF ClientInv, EventInv
  <2>3. ASSUME NoEmpty(version, runtime)' PROVE ReadSoFar'
    <3>1. NoEmpty(version, runtime) BY <2>1, <2>3
    <3>2. UNCHANGED <<version, runtime, block>> BY <2>1
    <3>3. CASE ER!ReadRecord BY <1>3, <3>1, <3>2, <3>3, EventRead
    <3>4. CASE ER!UnknownEvent BY <1>3, <3>1, <3>2, <3>4, EventUnknown
    <3> QED BY <1>3, <3>3, <3>4 DEF ER!ReaderNext
  <2> QED BY <1>1, <2>2, <2>3 DEF ClientInv, EventInv
<1>4. CASE UNCHANGED clientVars
  <2>1. UNCHANGED <<version, runtime, block, data, todo, module, records, status>>
    BY <1>4 DEF clientVars, decoderVars, vars
  <2>2. EventInv' BY <2>1, EventStill DEF ClientInv
  <2> QED BY <1>1, <2>2 DEF ClientInv
<1> QED BY <1>2, <1>3, <1>4 DEF ClientNext

LEMMA ClientAlways == ClientSpec => []ClientInv
<1> QED BY EventInit, EventStep, PTL DEF ClientSpec

(* The events of a block are decoded as they were emitted, in their order. *)
THEOREM EventsDecoded == ClientSpec => []EventsAsEmitted
<1>1. ClientInv => EventsAsEmitted
  <2> SUFFICES ASSUME ClientInv, NEW i \in DOMAIN records, NoEmpty(version, runtime)
               PROVE  records[i] = Emitted(block[i])
    BY DEF EventsAsEmitted, NoEmpty
  <2>1. ReadSoFar BY DEF ClientInv, EventInv
  <2>2. i \in 1..Len(records) BY <2>1, SeqDomain DEF ReadSoFar
  <2>3. records[i] = EmittedAs(version, runtime, block[i]) BY <2>1, <2>2 DEF ReadSoFar
  <2> QED BY <2>3, EmittedSame
<1> QED BY <1>1, ClientAlways, PTL

(* The decoding of a block stops at no event but one of whose own types    *)
(* has no name, and not before it has come to that event.                  *)
THEOREM BlocksDecoded == ClientSpec => []BlockDecoded
<1>1. ClientInv => BlockDecoded
  <2> SUFFICES ASSUME ClientInv, status = "panic" PROVE BlockDecoded BY DEF BlockDecoded
  <2>1. CASE ~ NoEmpty(version, runtime) BY <2>1 DEF NoEmpty, BlockDecoded
  <2>2. CASE NoEmpty(version, runtime)
    <3>1. ReadSoFar /\ BlockOK(version, runtime, block) BY <2>2 DEF ClientInv, EventInv
    <3>2. StoppedAt(version, runtime, block, Len(records) + 1) BY <3>1 DEF ReadSoFar
    <3> DEFINE n == Len(records) + 1
    <3>3. n \in DOMAIN block /\ ~ NamedTypes(version, runtime, block[n])
      BY <3>2 DEF StoppedAt
    <3> HIDE DEF n
    <3>4. Unresolved \in ToSet(Items(version, runtime.pallets[block[n].pallet].events)[block[n].item].args)
      BY <3>3 DEF NamedTypes, ItemOf, ToSet
    <3> QED BY <3>3, <3>4 DEF BlockDecoded, n
  <2> QED BY <2>1, <2>2
<1> QED BY <1>1, ClientAlways, PTL
=============================================================================
