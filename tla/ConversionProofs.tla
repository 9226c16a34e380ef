---------------------------- MODULE ConversionProofs ----------------------------
(***************************************************************************)
(* What the parts without a state promise of every input: a comparison of  *)
(* two metadata hides no change, texts, integers, compacts and sets come   *)
(* back as they were written, two words count like numbers, and a leaf ends*)
(* where its value does.                                                   *)
(***************************************************************************)
EXTENDS Conversions, SequenceLemmas, FiniteSetTheorems

-----------------------------------------------------------------------------
(* The comparison of metadata.                                             *)

(* Pieces put together are nothing only if each of them is.                *)
LEMMA FlatNone ==
  ASSUME NEW S, NEW ss \in Seq(Seq(S))
  PROVE  FlattenSeq(ss) = <<>> <=> \A i \in DOMAIN ss : ss[i] = <<>>
<1>1. ASSUME NEW s \in Seq(S) PROVE s = <<>> <=> \A x : x \notin ToSet(s)
  <2>1. s # <<>> => s[1] \in ToSet(s) BY DEF ToSet
  <2>2. s = <<>> => ToSet(s) = {} BY DEF ToSet
  <2> QED BY <2>1, <2>2
<1>2. FlattenSeq(ss) \in Seq(S) BY FlatType
<1>3. \A i \in DOMAIN ss : ss[i] \in Seq(S) OBVIOUS
<1>4. \A x : x \in ToSet(FlattenSeq(ss)) <=> \E i \in DOMAIN ss : x \in ToSet(ss[i]) BY FlatRange
<1> QED BY <1>1, <1>2, <1>3, <1>4

IsSeq(s) == s \in Seq(ToSet(s))

LEMMA SeqElements ==
  ASSUME NEW s, IsSeq(s)
  PROVE  DOMAIN s = 1..Len(s) /\ Len(s) \in Nat /\ \A k \in DOMAIN s : s[k] \in ToSet(s)
BY DEF IsSeq, ToSet

LEMMA NewNone ==
  ASSUME NEW items, IsSeq(items), NEW old
  PROVE  New(items, old) = <<>> <=> \A x \in ToSet(items) : x.name \in Names(old)
<1> DEFINE ss == [k \in DOMAIN items |-> IF items[k].name \in Names(old) THEN <<>> ELSE <<items[k]>>]
           S == ToSet(items)
<1>1. ss \in Seq(Seq(S)) /\ DOMAIN ss = DOMAIN items
  <2>1. DOMAIN items = 1..Len(items) /\ Len(items) \in Nat /\ \A k \in DOMAIN items : items[k] \in S
    BY SeqElements
  <2>2. \A k \in DOMAIN items : ss[k] \in Seq(S) BY <2>1
  <2> HIDE DEF S
  <2> QED BY <2>1, <2>2
<1>2. \A k \in DOMAIN items : ss[k] = <<>> <=> items[k].name \in Names(old) OBVIOUS
<1>3. New(items, old) = FlattenSeq(ss) BY DEF New
<1> HIDE DEF ss
<1>4. FlattenSeq(ss) = <<>> <=> \A k \in DOMAIN items : items[k].name \in Names(old)
  BY <1>1, <1>2, FlatNone
<1> QED BY <1>3, <1>4 DEF ToSet

LEMMA KnownRange ==
  ASSUME NEW items, IsSeq(items), NEW old
  PROVE  \A x : x \in ToSet(Known(items, old)) <=> x \in ToSet(items) /\ x.name \in Names(old)
<1> DEFINE ss == [k \in DOMAIN items |-> IF items[k].name \in Names(old) THEN <<items[k]>> ELSE <<>>]
           S == ToSet(items)
<1>1. ss \in Seq(Seq(S)) /\ DOMAIN ss = DOMAIN items
  <2>1. DOMAIN items = 1..Len(items) /\ Len(items) \in Nat /\ \A k \in DOMAIN items : items[k] \in S
    BY SeqElements
  <2>2. \A k \in DOMAIN items : ss[k] \in Seq(S) BY <2>1
  <2> HIDE DEF S
  <2> QED BY <2>1, <2>2
<1>2. \A k \in DOMAIN items : \A x : x \in ToSet(ss[k]) <=> x = items[k] /\ x.name \in Names(old) BY DEF ToSet
<1>3. Known(items, old) = FlattenSeq(ss) BY DEF Known
<1> HIDE DEF ss
<1>4. \A x : x \in ToSet(FlattenSeq(ss)) <=> \E i \in DOMAIN ss : x \in ToSet(ss[i]) BY <1>1, FlatRange
<1>5. \A x : x \in ToSet(items) <=> \E k \in DOMAIN items : x = items[k] BY DEF ToSet
<1> QED BY <1>1, <1>2, <1>3, <1>4, <1>5

(* The descriptions of what an item takes.                                 *)
Typed(x) == [k \in DOMAIN x.args |-> TypeStruct(x.args[k])]

LEMMA ChangesNone ==
  ASSUME NEW x, NEW old, IsSeq(x.args), IsSeq(old.args)
  PROVE  Changes(x, old) = <<>> <=> Typed(x) = Typed(old)
<1> DEFINE ss == [k \in DOMAIN x.args |-> IF TypeStruct(x.args[k]) = TypeStruct(old.args[k]) THEN <<>> ELSE <<k>>]
<1>1. /\ DOMAIN x.args = 1..Len(x.args) /\ Len(x.args) \in Nat
      /\ DOMAIN old.args = 1..Len(old.args) /\ Len(old.args) \in Nat
  BY SeqElements
<1>2. CASE Len(x.args) # Len(old.args)
  <2>1. Changes(x, old) # <<>> BY <1>2 DEF Changes
  <2>2. DOMAIN Typed(x) # DOMAIN Typed(old)
    <3>1. DOMAIN Typed(x) = 1..Len(x.args) /\ DOMAIN Typed(old) = 1..Len(old.args) BY <1>1 DEF Typed
    <3>2. \A m, n \in Nat : 1..m = 1..n => m = n
      <4>1. \A m, n \in Nat : m < n => n \in 1..n /\ n \notin 1..m OBVIOUS
      <4>2. \A m, n \in Nat : m < n \/ n < m \/ m = n OBVIOUS
      <4> QED BY <4>1, <4>2
    <3> QED BY <1>1, <1>2, <3>1, <3>2
  <2> QED BY <2>1, <2>2
<1>3. CASE Len(x.args) = Len(old.args)
  <2>1. ss \in Seq(Seq(Nat)) /\ DOMAIN ss = DOMAIN x.args
    <3>1. \A k \in 1..Len(x.args) : ss[k] \in Seq(Nat) BY <1>1
    <3> QED BY <1>1, <3>1
  <2>2. Changes(x, old) = FlattenSeq(ss) BY <1>3 DEF Changes
  <2>3. \A k \in DOMAIN x.args : ss[k] = <<>> <=> TypeStruct(x.args[k]) = TypeStruct(old.args[k]) OBVIOUS
  <2> HIDE DEF ss
  <2>4. Changes(x, old) = <<>> <=> \A k \in DOMAIN x.args : TypeStruct(x.args[k]) = TypeStruct(old.args[k])
    BY <2>1, <2>2, <2>3, FlatNone
  <2>5. DOMAIN x.args = DOMAIN old.args BY <1>1, <1>3
  <2> QED BY <2>4, <2>5 DEF Typed
<1> QED BY <1>2, <1>3

LEMMA ChangesType ==
  ASSUME NEW x, NEW old, IsSeq(x.args), IsSeq(old.args)
  PROVE  Changes(x, old) \in Seq(Int)
<1> DEFINE ss == [k \in DOMAIN x.args |-> IF TypeStruct(x.args[k]) = TypeStruct(old.args[k]) THEN <<>> ELSE <<k>>]
<1>1. DOMAIN x.args = 1..Len(x.args) /\ Len(x.args) \in Nat BY SeqElements
<1>2. \A k \in 1..Len(x.args) : ss[k] \in Seq(Int) BY <1>1
<1>3. ss \in Seq(Seq(Int)) BY <1>1, <1>2
<1>4. Changes(x, old) = <<0>> \/ Changes(x, old) = FlattenSeq(ss) BY DEF Changes
<1> HIDE DEF ss
<1>5. FlattenSeq(ss) \in Seq(Int) BY <1>3, FlatType
<1>6. <<0>> \in Seq(Int) OBVIOUS
<1> DEFINE c == Changes(x, old)
<1>7. c = <<0>> \/ c = FlattenSeq(ss) BY <1>4
<1> HIDE DEF c
<1>8. c \in Seq(Int) BY <1>5, <1>6, <1>7
<1> QED BY <1>8 DEF c

(* The first of a name is the only one, in a list of different names.      *)
LEMMA ByNameOnly ==
  ASSUME NEW s, IsList(s), NEW x \in ToSet(s)
  PROVE  ByName(x.name, s) = x /\ x.name \in Names(s)
<1> DEFINE Is(k) == k \in DOMAIN s /\ s[k].name = x.name
           R == {ss \in Nat \X Nat : ss[1] < ss[2]}
           Found == {k \in Nat : Is(k)}
<1>1. IsSeq(s) /\ DOMAIN s = 1..Len(s) /\ Len(s) \in Nat BY SeqElements DEF IsList, IsSeq
<1>2. IsWellFoundedOn(R, Nat) BY NatLessThanWellFounded DEF OpToRel
<1>3. \E k \in DOMAIN s : s[k] = x BY DEF ToSet
<1>4. Found # {} /\ Found \subseteq Nat BY <1>1, <1>3
<1>5. PICK k \in Found : \A j \in Found : ~ (<<j, k>> \in R)
  <2> HIDE DEF R, Found
  <2> QED BY <1>2, <1>4, WFMin
<1>6. \A j \in 1..(k - 1) : s[j].name # x.name
  <2> SUFFICES ASSUME NEW j \in 1..(k - 1), s[j].name = x.name PROVE FALSE OBVIOUS
  <2>1. j \in DOMAIN s /\ j \in Nat /\ j < k /\ k \in Nat BY <1>1, <1>5
  <2>2. j \in Found /\ <<j, k>> \in R BY <2>1
  <2> QED BY <1>5, <2>2
<1> DEFINE P(i) == s[i].name = x.name /\ \A j \in 1..(i - 1) : s[j].name # x.name
           first == CHOOSE i \in DOMAIN s : P(i)
<1>7. k \in DOMAIN s /\ P(k) BY <1>5, <1>6
<1>8. first \in DOMAIN s /\ P(first)
  <2> HIDE DEF P
  <2> QED BY <1>7
<1>9. ByName(x.name, s) = s[first] BY DEF ByName
<1>10. s[first] \in ToSet(s) /\ s[first].name = x.name BY <1>1, <1>8, SeqElements
<1>11. s[first] = x BY <1>10 DEF IsList
<1>12. x.name \in Names(s) BY DEF Names
<1> QED BY <1>9, <1>11, <1>12

(* What ChangesList calls with: different names, and arguments in order.   *)
IsItems(s) == IsList(s) /\ \A x \in ToSet(s) : IsSeq(x.args)
Carried(items, old) ==
  \A x \in ToSet(items) : x.name \in Names(old) /\ Typed(x) = Typed(ByName(x.name, old))
Described(s) == {<<x.name, Typed(x)>> : x \in ToSet(s)}

LEMMA NameElement ==
  ASSUME NEW s, IsList(s), NEW name \in Names(s)
  PROVE  ByName(name, s) \in ToSet(s) /\ ByName(name, s).name = name
<1>1. PICK x \in ToSet(s) : x.name = name BY DEF Names
<1> QED BY <1>1, ByNameOnly

LEMMA ListNothing ==
  ASSUME NEW items, NEW old, IsItems(items), IsItems(old)
  PROVE  ChangesList(items, old) = Nothing <=> Carried(items, old)
<1> DEFINE c(k) == IF items[k].name \notin Names(old) THEN <<>>
                   ELSE [i \in DOMAIN Changes(items[k], ByName(items[k].name, old)) |-> items[k].name]
           ss == [k \in DOMAIN items |-> c(k)]
           S == {x.name : x \in ToSet(items)}
<1>1. IsSeq(items) /\ DOMAIN items = 1..Len(items) /\ Len(items) \in Nat /\ \A k \in DOMAIN items : items[k] \in ToSet(items)
  BY SeqElements DEF IsItems, IsList, IsSeq
<1>2. ASSUME NEW k \in DOMAIN items, items[k].name \in Names(old)
      PROVE  /\ Changes(items[k], ByName(items[k].name, old)) \in Seq(Int)
             /\ Changes(items[k], ByName(items[k].name, old)) = <<>>
                  <=> Typed(items[k]) = Typed(ByName(items[k].name, old))
  <2> DEFINE x == items[k]  o == ByName(items[k].name, old)
  <2>1. o \in ToSet(old) BY <1>2, NameElement DEF IsItems
  <2>2. IsSeq(x.args) /\ IsSeq(o.args) BY <1>1, <2>1 DEF IsItems
  <2> HIDE DEF x, o
  <2>3. Changes(x, o) = <<>> <=> Typed(x) = Typed(o) BY <2>2, ChangesNone
  <2>4. Changes(x, o) \in Seq(Int) BY <2>2, ChangesType
  <2> QED BY <2>3, <2>4 DEF x, o
<1>3. ASSUME NEW k \in DOMAIN items
      PROVE  /\ ss[k] \in Seq(S)
             /\ ss[k] = <<>> <=> (items[k].name \in Names(old) => Typed(items[k]) = Typed(ByName(items[k].name, old)))
  <2>1. CASE items[k].name \notin Names(old) BY <2>1
  <2>2. CASE items[k].name \in Names(old)
    <3> DEFINE d == Changes(items[k], ByName(items[k].name, old))
               n == items[k].name
    <3>1. d \in Seq(Int) /\ (d = <<>> <=> Typed(items[k]) = Typed(ByName(items[k].name, old))) BY <1>2, <2>2
    <3>2. ss[k] = [i \in DOMAIN d |-> n] BY <2>2
    <3>3. n \in S BY <1>1
    <3> HIDE DEF d, n, S
    <3>4. [i \in DOMAIN d |-> n] \in Seq(S) /\ ([i \in DOMAIN d |-> n] = <<>> <=> d = <<>>) BY <3>1, <3>3
    <3> QED BY <3>1, <3>2, <3>4
  <2> QED BY <2>1, <2>2
<1>4. ss \in Seq(Seq(S)) /\ DOMAIN ss = DOMAIN items
  <2> HIDE DEF c
  <2>1. DOMAIN ss = DOMAIN items OBVIOUS
  <2> HIDE DEF ss, S
  <2>2. \A k \in DOMAIN items : ss[k] \in Seq(S) BY <1>3
  <2>3. ss = [k \in DOMAIN items |-> ss[k]] BY DEF ss
  <2> QED BY <1>1, <2>1, <2>2, <2>3
<1>5. ChangesList(items, old) = [new |-> New(items, old), changes |-> FlattenSeq(ss)] BY DEF ChangesList
<1> HIDE DEF ss, S, c
<1>6. ChangesList(items, old) = Nothing <=> New(items, old) = <<>> /\ FlattenSeq(ss) = <<>>
  BY <1>5 DEF Nothing
<1>7. FlattenSeq(ss) = <<>> <=> \A k \in DOMAIN items :
        items[k].name \in Names(old) => Typed(items[k]) = Typed(ByName(items[k].name, old))
  BY <1>3, <1>4, FlatNone
<1>8. New(items, old) = <<>> <=> \A x \in ToSet(items) : x.name \in Names(old) BY <1>1, NewNone
<1>9. \A x : x \in ToSet(items) <=> \E k \in DOMAIN items : x = items[k] BY DEF ToSet
<1> QED BY <1>6, <1>7, <1>8, <1>9 DEF Carried

(* Two lists have the same items if neither has what the other has not.    *)
LEMMA SameLists ==
  ASSUME NEW a, NEW b, IsItems(a), IsItems(b)
  PROVE  /\ Carried(a, b) /\ Carried(b, a) => Described(a) = Described(b)
         /\ Described(a) = Described(b) => Carried(a, b)
<1>1. ASSUME NEW s, NEW t, IsItems(t), Carried(s, t) PROVE Described(s) \subseteq Described(t)
  <2> SUFFICES ASSUME NEW x \in ToSet(s) PROVE <<x.name, Typed(x)>> \in Described(t) BY DEF Described
  <2> DEFINE y == ByName(x.name, t)
  <2>1. x.name \in Names(t) /\ Typed(x) = Typed(y) BY <1>1 DEF Carried
  <2>2. y \in ToSet(t) /\ y.name = x.name BY <1>1, <2>1, NameElement DEF IsItems
  <2> HIDE DEF y
  <2> QED BY <2>1, <2>2 DEF Described
<1>2. ASSUME Described(a) = Described(b) PROVE Carried(a, b)
  <2> SUFFICES ASSUME NEW x \in ToSet(a)
               PROVE  x.name \in Names(b) /\ Typed(x) = Typed(ByName(x.name, b))
    BY DEF Carried
  <2>1. <<x.name, Typed(x)>> \in Described(b) BY <1>2 DEF Described
  <2>2. PICK y \in ToSet(b) : <<x.name, Typed(x)>> = <<y.name, Typed(y)>> BY <2>1 DEF Described
  <2>3. y.name = x.name /\ Typed(y) = Typed(x) BY <2>2
  <2>4. ByName(y.name, b) = y /\ y.name \in Names(b) BY ByNameOnly DEF IsItems
  <2> QED BY <2>3, <2>4
<1> QED BY <1>1, <1>2

(* Storage items, of one argument each.                                    *)
StoredTypes(s) == {<<x.name, TypeStruct(TypeValue(x))>> : x \in ToSet(s)}

LEMMA StorageItems ==
  ASSUME NEW s, IsList(s)
  PROVE  /\ IsItems(Valued(s))
         /\ \A n, d : <<n, d>> \in StoredTypes(s) <=> <<n, [k \in 1..1 |-> d]>> \in Described(Valued(s))
         /\ Described(Valued(s)) = {<<p[1], [k \in 1..1 |-> p[2]]>> : p \in StoredTypes(s)}
<1> DEFINE w(x) == [name |-> x.name, args |-> <<TypeValue(x)>>]
<1>1. IsSeq(s) /\ DOMAIN s = 1..Len(s) /\ Len(s) \in Nat /\ \A k \in DOMAIN s : s[k] \in ToSet(s)
  BY SeqElements DEF IsList, IsSeq
<1>2. /\ Valued(s) = [k \in DOMAIN s |-> w(s[k])]
      /\ \A x : w(x).name = x.name /\ w(x).args = <<TypeValue(x)>>
  BY DEF Valued
<1> HIDE DEF w
<1>3. ToSet(Valued(s)) = {w(x) : x \in ToSet(s)} BY <1>2 DEF ToSet
<1>4. Valued(s) \in Seq(ToSet(Valued(s))) BY <1>1, <1>2, <1>3
<1>5. ASSUME NEW x \in ToSet(Valued(s)), NEW y \in ToSet(Valued(s)), x.name = y.name PROVE x = y
  <2>1. PICK u \in ToSet(s), v \in ToSet(s) : x = w(u) /\ y = w(v) BY <1>3
  <2>2. u.name = v.name BY <1>2, <1>5, <2>1
  <2>3. u = v BY <2>2 DEF IsList
  <2> QED BY <2>1, <2>3
<1>6. ASSUME NEW x \in ToSet(Valued(s)) PROVE IsSeq(x.args)
  <2>1. PICK u \in ToSet(s) : x = w(u) BY <1>3
  <2>2. x.args = <<TypeValue(u)>> BY <1>2, <2>1
  <2>3. <<TypeValue(u)>> \in Seq(ToSet(<<TypeValue(u)>>)) BY DEF ToSet
  <2> QED BY <2>2, <2>3 DEF IsSeq
<1>7. \A x : Typed(w(x)) = [k \in 1..1 |-> TypeStruct(TypeValue(x))] BY <1>2 DEF Typed
<1>8. Described(Valued(s)) = {<<x.name, [k \in 1..1 |-> TypeStruct(TypeValue(x))]>> : x \in ToSet(s)}
  BY <1>2, <1>3, <1>7 DEF Described
<1>9. \A d, e : [k \in 1..1 |-> d] = [k \in 1..1 |-> e] <=> d = e
  <2> TAKE d, e
  <2>1. [k \in 1..1 |-> d][1] = d /\ [k \in 1..1 |-> e][1] = e OBVIOUS
  <2> QED BY <2>1
<1>10. ASSUME NEW n, NEW d
       PROVE  <<n, d>> \in StoredTypes(s) <=> <<n, [k \in 1..1 |-> d]>> \in Described(Valued(s))
  BY <1>8, <1>9 DEF StoredTypes
<1>11. Described(Valued(s)) = {<<p[1], [k \in 1..1 |-> p[2]]>> : p \in StoredTypes(s)}
  <2> DEFINE d(x) == TypeStruct(TypeValue(x))
             one(e) == [k \in 1..1 |-> e]
  <2>1. /\ Described(Valued(s)) = {<<x.name, one(d(x))>> : x \in ToSet(s)}
        /\ StoredTypes(s) = {<<x.name, d(x)>> : x \in ToSet(s)}
    BY <1>8 DEF StoredTypes
  <2> HIDE DEF d, one
  <2> DEFINE image == {<<p[1], one(p[2])>> : p \in StoredTypes(s)}
  <2>2. ASSUME NEW x \in ToSet(s) PROVE <<x.name, one(d(x))>> \in image
    <3> DEFINE p == <<x.name, d(x)>>
    <3>1. p \in StoredTypes(s) /\ p[1] = x.name /\ p[2] = d(x) BY <2>1
    <3> HIDE DEF p
    <3>2. <<p[1], one(p[2])>> \in image BY <3>1
    <3> QED BY <3>1, <3>2
  <2>3. ASSUME NEW p \in StoredTypes(s) PROVE <<p[1], one(p[2])>> \in Described(Valued(s))
    <3>1. PICK x \in ToSet(s) : p = <<x.name, d(x)>> BY <2>1
    <3>2. p[1] = x.name /\ p[2] = d(x) BY <3>1
    <3> QED BY <2>1, <3>2
  <2>4. Described(Valued(s)) = image BY <2>1, <2>2, <2>3
  <2> QED BY <2>4 DEF one
<1> QED BY <1>4, <1>5, <1>6, <1>10, <1>11 DEF IsItems, IsList

(* A module and the one of its name in the other metadata.                 *)
CarriedModule(m, o) ==
  /\ Carried(m.calls, o.calls) /\ Carried(m.events, o.events)
  /\ Carried(Valued(m.storage), Valued(o.storage))
CarriedModules(a, b) ==
  \A m \in ToSet(a) : m.name \in Names(b) /\ CarriedModule(m, ByName(m.name, b))

LEMMA ModuleParts ==
  ASSUME NEW s, IsMetadata(s), NEW m \in ToSet(s)
  PROVE  IsItems(m.calls) /\ IsItems(m.events) /\ IsList(m.storage) /\ IsItems(Valued(m.storage))
<1>1. /\ IsList(m.calls) /\ IsList(m.events) /\ IsList(m.storage)
      /\ \A x \in ToSet(m.calls) \cup ToSet(m.events) : x.args \in Seq(ToSet(x.args))
  BY DEF IsMetadata
<1>2. IsItems(Valued(m.storage)) BY <1>1, StorageItems
<1> QED BY <1>1, <1>2 DEF IsItems, IsSeq

LEMMA ModuleNothing ==
  ASSUME NEW m, NEW o,
         IsItems(m.calls), IsItems(m.events), IsItems(Valued(m.storage)),
         IsItems(o.calls), IsItems(o.events), IsItems(Valued(o.storage))
  PROVE  (\A f \in DOMAIN ModuleChanges(m, o) : ModuleChanges(m, o)[f] = Nothing) <=> CarriedModule(m, o)
<1> DEFINE c == ChangesList(m.calls, o.calls)
           e == ChangesList(m.events, o.events)
           s == ChangesList(Valued(m.storage), Valued(o.storage))
<1>1. ModuleChanges(m, o) = [calls |-> c, events |-> e, storage |-> s] BY DEF ModuleChanges
<1>2. /\ c = Nothing <=> Carried(m.calls, o.calls)
      /\ e = Nothing <=> Carried(m.events, o.events)
      /\ s = Nothing <=> Carried(Valued(m.storage), Valued(o.storage))
  BY ListNothing
<1> HIDE DEF c, e, s
<1>3. (\A f \in DOMAIN ModuleChanges(m, o) : ModuleChanges(m, o)[f] = Nothing)
        <=> c = Nothing /\ e = Nothing /\ s = Nothing
  BY <1>1
<1> QED BY <1>2, <1>3 DEF CarriedModule

LEMMA SilentCarried ==
  ASSUME NEW a, NEW b, IsMetadata(a), IsMetadata(b)
  PROVE  Silent(Compare(a, b)) <=> CarriedModules(a, b)
<1> DEFINE D(m) == ModuleChanges(m, ByName(m.name, b))
           M == {x \in ToSet(Known(a, b)) : \E f \in DOMAIN D(x) : D(x)[f] # Nothing}
<1>1. IsList(a) /\ IsSeq(a) /\ IsList(b) BY DEF IsMetadata, IsList, IsSeq
<1>2. Compare(a, b) = [newModules |-> New(a, b), moduleChanges |-> [m \in M |-> D(m)]] BY DEF Compare
<1>3. ASSUME NEW m \in ToSet(a), m.name \in Names(b)
      PROVE  (\A f \in DOMAIN D(m) : D(m)[f] = Nothing) <=> CarriedModule(m, ByName(m.name, b))
  <2> DEFINE o == ByName(m.name, b)
  <2>1. o \in ToSet(b) BY <1>1, <1>3, NameElement
  <2> HIDE DEF o
  <2>2. IsItems(m.calls) /\ IsItems(m.events) /\ IsItems(Valued(m.storage)) BY ModuleParts
  <2>3. IsItems(o.calls) /\ IsItems(o.events) /\ IsItems(Valued(o.storage)) BY <2>1, ModuleParts
  <2>4. (\A f \in DOMAIN ModuleChanges(m, o) : ModuleChanges(m, o)[f] = Nothing) <=> CarriedModule(m, o)
    BY <2>2, <2>3, ModuleNothing
  <2> QED BY <2>4 DEF o
<1>4. New(a, b) = <<>> <=> \A x \in ToSet(a) : x.name \in Names(b) BY <1>1, NewNone
<1>5. \A x : x \in ToSet(Known(a, b)) <=> x \in ToSet(a) /\ x.name \in Names(b) BY <1>1, KnownRange
<1>6. Silent(Compare(a, b)) <=> New(a, b) = <<>> /\ M = {}
  <2> HIDE DEF M, D
  <2>1. DOMAIN [m \in M |-> D(m)] = M OBVIOUS
  <2> QED BY <1>2, <2>1 DEF Silent
<1>7. M = {} <=> \A x \in ToSet(Known(a, b)) : \A f \in DOMAIN D(x) : D(x)[f] = Nothing
  <2> HIDE DEF D
  <2> QED OBVIOUS
<1> HIDE DEF M, D
<1>8. M = {} <=> \A x \in ToSet(a) : x.name \in Names(b) => CarriedModule(x, ByName(x.name, b))
  BY <1>3, <1>5, <1>7
<1> QED BY <1>4, <1>6, <1>8 DEF CarriedModules

(* What the property compares of a module.                                 *)
Form(m) ==
  [name |-> m.name,
   items |-> [f \in {"calls", "events"} |->
                {<<x.name, [k \in DOMAIN x.args |-> TypeStruct(x.args[k])]>> : x \in ToSet(m[f])}],
   storage |-> {<<x.name, TypeStruct(IF x.origin = "NMapType" THEN "" ELSE x.value)>> : x \in ToSet(m.storage)}]

LEMMA FormParts ==
  ASSUME NEW m
  PROVE  /\ Form(m).name = m.name /\ Form(m).storage = StoredTypes(m.storage)
         /\ Form(m) = [name |-> m.name, items |-> Form(m).items, storage |-> Form(m).storage]
         /\ DOMAIN Form(m).items = {"calls", "events"}
         /\ Form(m).items = [f \in {"calls", "events"} |-> Form(m).items[f]]
         /\ Form(m).items["calls"] = Described(m.calls)
         /\ Form(m).items["events"] = Described(m.events)
BY DEF Form, StoredTypes, TypeValue, Described, Typed

LEMMA SameForm ==
  ASSUME NEW m, NEW o, IsItems(m.calls), IsItems(m.events), IsList(m.storage),
         IsItems(o.calls), IsItems(o.events), IsList(o.storage)
  PROVE  /\ CarriedModule(m, o) /\ CarriedModule(o, m) /\ m.name = o.name => Form(m) = Form(o)
         /\ Form(m) = Form(o) => CarriedModule(m, o) /\ m.name = o.name
<1>1. /\ IsItems(Valued(m.storage)) /\ IsItems(Valued(o.storage))
      /\ \A n, d : <<n, d>> \in StoredTypes(m.storage) <=> <<n, [k \in 1..1 |-> d]>> \in Described(Valued(m.storage))
      /\ \A n, d : <<n, d>> \in StoredTypes(o.storage) <=> <<n, [k \in 1..1 |-> d]>> \in Described(Valued(o.storage))
  BY StorageItems
<1>2. Described(Valued(m.storage)) = Described(Valued(o.storage)) <=> StoredTypes(m.storage) = StoredTypes(o.storage)
  <2>1. ASSUME Described(Valued(m.storage)) = Described(Valued(o.storage))
        PROVE  StoredTypes(m.storage) = StoredTypes(o.storage)
    <3>1. \A n, d : <<n, d>> \in StoredTypes(m.storage) <=> <<n, d>> \in StoredTypes(o.storage) BY <1>1, <2>1
    <3>2. \A s : \A p \in StoredTypes(s) : p = <<p[1], p[2]>> BY DEF StoredTypes
    <3> QED BY <3>1, <3>2
  <2>2. ASSUME StoredTypes(m.storage) = StoredTypes(o.storage)
        PROVE  Described(Valued(m.storage)) = Described(Valued(o.storage))
    <3>1. \A s : IsList(s) => Described(Valued(s)) = {<<p[1], [k \in 1..1 |-> p[2]]>> : p \in StoredTypes(s)}
      BY StorageItems
    <3> QED BY <2>2, <3>1
  <2> QED BY <2>1, <2>2
<1>3. /\ Carried(m.calls, o.calls) /\ Carried(o.calls, m.calls) => Described(m.calls) = Described(o.calls)
      /\ Carried(m.events, o.events) /\ Carried(o.events, m.events) => Described(m.events) = Described(o.events)
      /\ Described(m.calls) = Described(o.calls) => Carried(m.calls, o.calls)
      /\ Described(m.events) = Described(o.events) => Carried(m.events, o.events)
  BY SameLists
<1>4. /\ Carried(Valued(m.storage), Valued(o.storage)) /\ Carried(Valued(o.storage), Valued(m.storage))
           => Described(Valued(m.storage)) = Described(Valued(o.storage))
      /\ Described(Valued(m.storage)) = Described(Valued(o.storage))
           => Carried(Valued(m.storage), Valued(o.storage))
  BY <1>1, SameLists
<1>5. Form(m) = Form(o) <=> /\ m.name = o.name /\ StoredTypes(m.storage) = StoredTypes(o.storage)
                            /\ Described(m.calls) = Described(o.calls) /\ Described(m.events) = Described(o.events)
  <2> DEFINE F == Form(m)  G == Form(o)
  <2>1. /\ F.name = m.name /\ F.storage = StoredTypes(m.storage)
        /\ F = [name |-> m.name, items |-> F.items, storage |-> F.storage]
        /\ F.items = [f \in {"calls", "events"} |-> F.items[f]]
        /\ F.items["calls"] = Described(m.calls) /\ F.items["events"] = Described(m.events)
    BY FormParts
  <2>2. /\ G.name = o.name /\ G.storage = StoredTypes(o.storage)
        /\ G = [name |-> o.name, items |-> G.items, storage |-> G.storage]
        /\ G.items = [f \in {"calls", "events"} |-> G.items[f]]
        /\ G.items["calls"] = Described(o.calls) /\ G.items["events"] = Described(o.events)
    BY FormParts
  <2> HIDE DEF F, G
  <2>3. F.items = G.items <=> F.items["calls"] = G.items["calls"] /\ F.items["events"] = G.items["events"]
    BY <2>1, <2>2
  <2>4. F = G <=> F.name = G.name /\ F.items = G.items /\ F.storage = G.storage BY <2>1, <2>2
  <2> QED BY <2>1, <2>2, <2>3, <2>4 DEF F, G
<1> QED BY <1>2, <1>3, <1>4, <1>5 DEF CarriedModule

LEMMA SameMetadata ==
  ASSUME NEW a, NEW b, IsMetadata(a), IsMetadata(b)
  PROVE  CarriedModules(a, b) /\ CarriedModules(b, a) <=> Shape(a) = Shape(b)
<1>1. \A s : Shape(s) = {Form(m) : m \in ToSet(s)} BY DEF Shape, Form
<1>2. IsList(a) /\ IsList(b) BY DEF IsMetadata
<1>3. ASSUME NEW m \in ToSet(a), NEW o \in ToSet(b)
      PROVE  /\ CarriedModule(m, o) /\ CarriedModule(o, m) /\ m.name = o.name => Form(m) = Form(o)
             /\ Form(m) = Form(o) => CarriedModule(m, o) /\ CarriedModule(o, m) /\ m.name = o.name
  <2>1. IsItems(m.calls) /\ IsItems(m.events) /\ IsList(m.storage) BY ModuleParts
  <2>2. IsItems(o.calls) /\ IsItems(o.events) /\ IsList(o.storage) BY ModuleParts
  <2> QED BY <2>1, <2>2, SameForm
<1>4. ASSUME NEW s, NEW t, IsList(s), IsList(t), CarriedModules(s, t), CarriedModules(t, s), NEW m \in ToSet(s)
      PROVE  \E o \in ToSet(t) : o.name = m.name /\ CarriedModule(m, o) /\ CarriedModule(o, m)
  <2> DEFINE o == ByName(m.name, t)
  <2>1. m.name \in Names(t) /\ CarriedModule(m, o) BY <1>4 DEF CarriedModules
  <2>2. o \in ToSet(t) /\ o.name = m.name BY <1>4, <2>1, NameElement
  <2> HIDE DEF o
  <2>3. ByName(o.name, s) = m BY <1>4, <2>2, ByNameOnly
  <2>4. CarriedModule(o, m) BY <1>4, <2>2, <2>3 DEF CarriedModules
  <2> QED BY <2>1, <2>2, <2>4
<1>5. ASSUME CarriedModules(a, b), CarriedModules(b, a) PROVE Shape(a) = Shape(b)
  <2>1. ASSUME NEW m \in ToSet(a) PROVE \E o \in ToSet(b) : Form(o) = Form(m)
    <3>1. PICK o \in ToSet(b) : o.name = m.name /\ CarriedModule(m, o) /\ CarriedModule(o, m)
      BY <1>2, <1>4, <1>5
    <3> QED BY <1>3, <3>1
  <2>2. ASSUME NEW o \in ToSet(b) PROVE \E m \in ToSet(a) : Form(m) = Form(o)
    <3>1. PICK m \in ToSet(a) : m.name = o.name /\ CarriedModule(m, o) /\ CarriedModule(o, m)
      BY <1>2, <1>4, <1>5
    <3> QED BY <1>3, <3>1
  <2>3. Shape(a) = {Form(m) : m \in ToSet(a)} /\ Shape(b) = {Form(m) : m \in ToSet(b)} BY <1>1
  <2>4. {Form(m) : m \in ToSet(a)} = {Form(m) : m \in ToSet(b)}
    <3> HIDE DEF Form
    <3> QED BY <2>1, <2>2
  <2> QED BY <2>3, <2>4
<1>6. ASSUME Shape(a) = Shape(b) PROVE CarriedModules(a, b) /\ CarriedModules(b, a)
  <2>1. ASSUME NEW m \in ToSet(a) PROVE m.name \in Names(b) /\ CarriedModule(m, ByName(m.name, b))
    <3>1. Form(m) \in Shape(b) BY <1>1, <1>6
    <3>2. PICK o \in ToSet(b) : Form(o) = Form(m) BY <1>1, <3>1
    <3>3. CarriedModule(m, o) /\ m.name = o.name BY <1>3, <3>2
    <3>4. ByName(o.name, b) = o /\ o.name \in Names(b) BY <1>2, ByNameOnly
    <3> QED BY <3>3, <3>4
  <2>2. ASSUME NEW o \in ToSet(b) PROVE o.name \in Names(a) /\ CarriedModule(o, ByName(o.name, a))
    <3>1. Form(o) \in Shape(a) BY <1>1, <1>6
    <3>2. PICK m \in ToSet(a) : Form(m) = Form(o) BY <1>1, <3>1
    <3>3. CarriedModule(o, m) /\ m.name = o.name BY <1>3, <3>2
    <3>4. ByName(m.name, a) = m /\ m.name \in Names(a) BY <1>2, ByNameOnly
    <3> QED BY <3>3, <3>4
  <2> QED BY <2>1, <2>2 DEF CarriedModules
<1> QED BY <1>5, <1>6

-----------------------------------------------------------------------------
(* Byte vectors as text.                                                   *)

(* Pieces of two put together are twice as many.                           *)
LEMMA FlatPairs ==
  ASSUME NEW S, NEW ss \in Seq(Seq(S)), \A i \in DOMAIN ss : Len(ss[i]) = 2
  PROVE  Len(FlattenSeq(ss)) = 2 * Len(ss)
<1>1. PICK f \in [0..Len(ss) -> Seq(S)] : Parts(ss, f) BY PartsExist
<1>2. Len(ss) \in Nat /\ DOMAIN ss = 1..Len(ss) OBVIOUS
<1> DEFINE T == {n \in Nat : n <= Len(ss) => Len(f[n]) = 2 * n}
<1>3. 0 \in T BY <1>1 DEF Parts
<1>4. ASSUME NEW n \in Nat, n \in T PROVE n + 1 \in T
  <2> SUFFICES ASSUME n + 1 <= Len(ss) PROVE Len(f[n + 1]) = 2 * (n + 1) BY <1>4
  <2> DEFINE k == n + 1
  <2>1. k \in 1..Len(ss) /\ k - 1 = n /\ n <= Len(ss) /\ n \in 0..Len(ss) BY <1>2
  <2> HIDE DEF k
  <2>2. f[k] = f[k - 1] \o ss[k] BY <1>1, <2>1 DEF Parts
  <2>3. f[n] \in Seq(S) BY <2>1
  <2>4. Len(ss[k]) = 2 BY <1>2, <2>1
  <2>5. ss[k] \in Seq(S) BY <2>1, ElementType
  <2>6. f[k] = f[n] \o ss[k] BY <2>1, <2>2
  <2>7. Len(f[k]) = Len(f[n]) + 2
    <3>1. Len(f[n] \o ss[k]) = Len(f[n]) + Len(ss[k]) BY <2>3, <2>5, ConcatType
    <3> QED BY <2>4, <2>6, <3>1
  <2>8. Len(f[n]) = 2 * n BY <1>4, <2>1
  <2> QED BY <2>7, <2>8 DEF k
<1>5. Len(ss) \in T
  <2> HIDE DEF T
  <2> QED BY <1>2, <1>3, <1>4, SetInduction
<1> QED BY <1>1, <1>5, FlatParts

LEMMA FunctionSeq ==
  ASSUME NEW S, NEW n \in Nat, NEW h \in [1..n -> S]
  PROVE  h \in Seq(S) /\ Len(h) = n
OBVIOUS

LEMMA HexDigits ==
  ASSUME NEW v, IsSeq(v), \A b \in ToSet(v) : Hex(b) \in [1..2 -> HexDigit]
  PROVE  /\ BytesToHex(v) \in Seq(HexDigit) /\ Len(BytesToHex(v)) = 2 * Len(v)
         /\ ~HasHexPrefix(BytesToHex(v))
<1> DEFINE ss == [i \in DOMAIN v |-> Hex(v[i])]
<1>1. DOMAIN v = 1..Len(v) /\ Len(v) \in Nat /\ \A k \in DOMAIN v : v[k] \in ToSet(v) BY SeqElements
<1>2. \A h \in [1..2 -> HexDigit] : h \in Seq(HexDigit) /\ Len(h) = 2
  BY FunctionSeq
<1>3. \A i \in DOMAIN v : ss[i] \in Seq(HexDigit) /\ Len(ss[i]) = 2 BY <1>1, <1>2
<1>4. ss \in Seq(Seq(HexDigit)) /\ DOMAIN ss = DOMAIN v /\ Len(ss) = Len(v)
  <2> HIDE DEF HexDigit
  <2> QED BY <1>1, <1>3
<1>5. BytesToHex(v) = FlattenSeq(ss) BY DEF BytesToHex
<1> HIDE DEF ss
<1>6. BytesToHex(v) \in Seq(HexDigit) BY <1>4, <1>5, FlatType
<1>7. Len(BytesToHex(v)) = 2 * Len(v) BY <1>3, <1>4, <1>5, FlatPairs
<1> DEFINE h == BytesToHex(v)
<1>8. ~HasHexPrefix(h)
  <2>1. Len(h) >= 2 => h[2] \in HexDigit
    <3> HIDE DEF h
    <3>1. h \in Seq(HexDigit) BY <1>6 DEF h
    <3> QED BY <3>1, ElementType
  <2>2. "x" \notin HexDigit BY DEF HexDigit
  <2> QED BY <2>1, <2>2 DEF HasHexPrefix
<1> QED BY <1>6, <1>7, <1>8

LEMMA TextEncodes ==
  ASSUME NEW codec \in Text, NEW v, IsSeq(v), \A b \in ToSet(v) : Hex(b) \in [1..2 -> HexDigit],
         codec = "Bytes" => ~(IsASCII(v) /\ HasHexPrefix(v)), codec = "String" => IsASCII(v)
  PROVE  EncodeText(codec, DecodeText(codec, v)) = [length |-> Len(v), hex |-> BytesToHex(v)]
<1> DEFINE h == BytesToHex(v)
<1>1. h \in Seq(HexDigit) /\ Len(h) = 2 * Len(v) /\ ~HasHexPrefix(h) /\ Len(v) \in Nat
  BY HexDigits DEF IsSeq
<1> HIDE DEF h
<1>2. CASE codec # "HexBytes" /\ IsASCII(v)
  <2>1. DecodeText(codec, v) = v BY <1>2 DEF DecodeText
  <2>2. codec = "String" \/ (codec = "Bytes" /\ ~HasHexPrefix(v)) BY <1>2 DEF Text
  <2> QED BY <2>1, <2>2 DEF EncodeText
<1>3. CASE ~(codec # "HexBytes" /\ IsASCII(v))
  <2>1. DecodeText(codec, v) = AddHex(h) BY <1>3 DEF DecodeText, h
  <2>2. TrimHex(h) = h /\ Even(h) = h /\ HexLength(h) = Len(v)
    <3>1. TrimHex(h) = h BY <1>1 DEF TrimHex
    <3>2. (2 * Len(v)) % 2 # 1 /\ (2 * Len(v)) \div 2 = Len(v) BY <1>1
    <3> QED BY <1>1, <3>1, <3>2 DEF Even, HexLength
  <2>3. CASE h = <<>>
    <3>1. Len(v) = 0 BY <1>1, <2>3
    <3>2. v = <<>> BY <3>1 DEF IsSeq
    <3>3. IsASCII(v) BY <3>2 DEF IsASCII, ToSet
    <3>4. codec = "HexBytes" BY <1>3, <3>3
    <3>5. AddHex(h) = h BY <2>3 DEF AddHex
    <3> QED BY <2>1, <2>2, <3>4, <3>5 DEF EncodeText, h
  <2>4. CASE h # <<>>
    <3> DEFINE s == <<"0", "x">> \o h
    <3>1. AddHex(h) = s BY <1>1, <2>4 DEF AddHex
    <3>2. HasHexPrefix(s) /\ TrimHex(s) = h
      <4> DEFINE C == HexDigit \cup {"x"}
      <4>1. h \in Seq(C) /\ <<"0", "x">> \in Seq(C) BY <1>1 DEF HexDigit
      <4>2. s \in Seq(C) /\ Len(s) = 2 + Len(h) /\ s[1] = "0" /\ s[2] = "x" /\ \A i \in 1..Len(h) : s[2 + i] = h[i]
        <5> HIDE DEF C
        <5> QED BY <4>1
      <4> HIDE DEF s, C
      <4>3. HasHexPrefix(s) BY <1>1, <4>2 DEF HasHexPrefix
      <4>4. SubSeq(s, 3, Len(s)) = h BY <4>1, <4>2
      <4> QED BY <4>3, <4>4 DEF TrimHex
    <3> HIDE DEF s
    <3>3. ~(codec = "String" \/ (codec = "Bytes" /\ ~HasHexPrefix(s))) BY <1>3, <3>2
    <3> QED BY <2>1, <2>2, <3>1, <3>2, <3>3 DEF EncodeText, h
  <2> QED BY <2>3, <2>4
<1> QED BY <1>2, <1>3

-----------------------------------------------------------------------------
(* Division of integers, by a number that no solver knows.                 *)
LEMMA DivMod ==
  ASSUME NEW a \in Int, NEW b \in Nat, b > 0
  PROVE  a \div b \in Int /\ a % b \in 0..(b - 1) /\ a = b * (a \div b) + (a % b)
<1>1. a \div b \in Int OBVIOUS
<1>2. a % b \in 0..(b - 1) OBVIOUS
<1>3. a = b * (a \div b) + (a % b) OBVIOUS
<1> QED BY <1>1, <1>2, <1>3

LEMMA DivUnique ==
  ASSUME NEW a \in Int, NEW b \in Nat, b > 0, NEW q \in Int, NEW r \in 0..(b - 1), a = b * q + r
  PROVE  a \div b = q /\ a % b = r
<1> DEFINE d == a \div b  m == a % b
<1>1. d \in Int /\ m \in 0..(b - 1) /\ a = b * d + m BY DivMod
<1> HIDE DEF d, m
<1>2. b * (d - q) = r - m BY <1>1
<1>3. r - m < b /\ m - r < b BY <1>1
<1>4. d - q >= 1 => b * (d - q) >= b BY <1>1
<1>5. d - q <= -1 => b * (d - q) <= -b BY <1>1
<1>6. d - q = 0 BY <1>1, <1>2, <1>3, <1>4, <1>5
<1>7. d = q BY <1>1, <1>6
<1>8. b * (d - q) = 0 BY <1>1, <1>6
<1>9. m = r BY <1>1, <1>2, <1>8
<1> QED BY <1>7, <1>9 DEF d, m

LEMMA ModStep ==
  ASSUME NEW v \in Int, NEW p \in Nat, p > 0, NEW b \in Nat, b > 0
  PROVE  /\ v % (b * p) = (v % p) + ((v \div p) % b) * p
         /\ v \div (b * p) = (v \div p) \div b
<1> DEFINE q == v \div p  r == v % p  e == q % b  f == q \div b
<1>1. q \in Int /\ r \in 0..(p - 1) /\ v = p * q + r BY DivMod
<1> HIDE DEF q, r
<1>2. f \in Int /\ e \in 0..(b - 1) /\ q = b * f + e BY <1>1, DivMod
<1> HIDE DEF e, f
<1>3. b * p \in Nat /\ b * p > 0 OBVIOUS
<1>4. p * q = (b * p) * f + e * p
  <2>1. p * q = p * (b * f + e) BY <1>2
  <2>2. p * (b * f + e) = p * (b * f) + p * e BY <1>2
  <2>3. p * (b * f) = (b * p) * f /\ p * e = e * p BY <1>2
  <2> QED BY <2>1, <2>2, <2>3
<1>5. r + e * p \in 0..(b * p - 1)
  <2>1. e * p >= 0 /\ e * p \in Int BY <1>2
  <2>2. e * p <= (b - 1) * p BY <1>2
  <2>3. (b - 1) * p = b * p - p OBVIOUS
  <2> QED BY <1>1, <1>2, <1>3, <2>1, <2>2, <2>3
<1>6. v = (b * p) * f + (r + e * p) BY <1>1, <1>2, <1>3, <1>4
<1>7. v \div (b * p) = f /\ v % (b * p) = r + e * p
  <2> DEFINE w == b * p  s == r + e * p
  <2>1. w \in Nat /\ w > 0 /\ s \in 0..(w - 1) /\ v = w * f + s BY <1>3, <1>5, <1>6
  <2> HIDE DEF w, s
  <2>2. v \div w = f /\ v % w = s BY <1>2, <2>1, DivUnique
  <2> QED BY <2>2 DEF w, s
<1> QED BY <1>7 DEF q, r, e, f

-----------------------------------------------------------------------------
(* Powers, and with them the numbers of so many bytes.                     *)
PowersOf(b, n, f) ==
  f \in [0..n -> Nat \ {0}] /\ f[0] = 1 /\ \A i \in 1..n : f[i] = b * f[i - 1]

LEMMA BaseFacts == Base \in Nat /\ Base >= 8 /\ Base % 4 = 0
BY CompactAssumption

LEMMA PowersExist ==
  ASSUME NEW b \in Nat \ {0}, NEW n \in Nat
  PROVE  \E f : PowersOf(b, n, f)
<1> DEFINE T == {k \in Nat : \E f : PowersOf(b, k, f)}
<1>1. 0 \in T
  <2> DEFINE f == [i \in 0..0 |-> 1]
  <2>1. f \in [0..0 -> Nat \ {0}] /\ f[0] = 1 OBVIOUS
  <2> HIDE DEF f
  <2>2. PowersOf(b, 0, f) BY <2>1 DEF PowersOf
  <2> QED BY <2>2
<1>2. ASSUME NEW k \in Nat, k \in T PROVE k + 1 \in T
  <2>1. PICK f : PowersOf(b, k, f) BY <1>2
  <2> DEFINE h == [i \in 0..(k + 1) |-> IF i = k + 1 THEN b * f[k] ELSE f[i]]
  <2>2. f[k] \in Nat \ {0} BY <2>1 DEF PowersOf
  <2>3. b * f[k] \in Nat \ {0} BY <2>2
  <2>4. h \in [0..(k + 1) -> Nat \ {0}]
    <3>1. \A i \in 0..(k + 1) : i # k + 1 => i \in 0..k OBVIOUS
    <3>2. \A i \in 0..k : f[i] \in Nat \ {0} BY <2>1 DEF PowersOf
    <3> QED BY <2>3, <3>1, <3>2
  <2>5. h[0] = 1 BY <2>1 DEF PowersOf
  <2>6. ASSUME NEW i \in 1..(k + 1) PROVE h[i] = b * h[i - 1]
    <3>1. i - 1 \in 0..(k + 1) /\ i - 1 # k + 1 /\ i \in 0..(k + 1) OBVIOUS
    <3>2. h[i - 1] = f[i - 1] BY <3>1
    <3>3. CASE i = k + 1 BY <3>1, <3>2, <3>3
    <3>4. CASE i # k + 1
      <4>1. i \in 1..k BY <3>4
      <4>2. f[i] = b * f[i - 1] BY <2>1, <4>1 DEF PowersOf
      <4>3. h[i] = f[i] BY <3>1, <3>4
      <4> QED BY <3>2, <4>2, <4>3
    <3> QED BY <3>3, <3>4
  <2> HIDE DEF h
  <2>7. PowersOf(b, k + 1, h) BY <2>4, <2>5, <2>6 DEF PowersOf
  <2> QED BY <2>7
<1>3. n \in T
  <2> HIDE DEF T
  <2> QED BY <1>1, <1>2, SetInduction
<1> QED BY <1>3

LEMMA PowerIs ==
  ASSUME NEW b \in Nat \ {0}, NEW n \in Nat, NEW f, PowersOf(b, n, f)
  PROVE  Power(b, n) = f[n]
<1> DEFINE D(h) == [i \in 0..n |-> IF i = 0 THEN 1 ELSE b * h[i - 1]]
           g == CHOOSE h : h = D(h)
<1>1. Power(b, n) = g[n] BY DEF Power
<1>2. f = D(f)
  <2>1. DOMAIN f = 0..n /\ f = [i \in 0..n |-> f[i]] BY DEF PowersOf
  <2>2. ASSUME NEW i \in 0..n PROVE f[i] = IF i = 0 THEN 1 ELSE b * f[i - 1]
    <3>1. CASE i = 0 BY <3>1 DEF PowersOf
    <3>2. CASE i # 0
      <4>1. i \in 1..n BY <3>2
      <4> QED BY <3>2, <4>1 DEF PowersOf
    <3> QED BY <3>1, <3>2
  <2> QED BY <2>1, <2>2
<1>3. g = D(g)
  <2> HIDE DEF D
  <2> QED BY <1>2
<1>4. \A i \in 0..n : g[i] = IF i = 0 THEN 1 ELSE b * g[i - 1]
  <2> HIDE DEF g
  <2> DEFINE c == D(g)
  <2>1. \A i \in 0..n : c[i] = IF i = 0 THEN 1 ELSE b * g[i - 1] OBVIOUS
  <2>2. g = c BY <1>3
  <2> HIDE DEF c
  <2> QED BY <2>1, <2>2
<1> HIDE DEF g, D
<1> DEFINE T == {k \in Nat : k <= n => g[k] = f[k]}
<1>5. 0 \in T BY <1>4 DEF PowersOf
<1>6. ASSUME NEW k \in Nat, k \in T PROVE k + 1 \in T
  <2> SUFFICES ASSUME k + 1 <= n PROVE g[k + 1] = f[k + 1] OBVIOUS
  <2> DEFINE j == k + 1
  <2>1. j \in 1..n /\ j \in 0..n /\ j # 0 /\ j - 1 = k OBVIOUS
  <2> HIDE DEF j
  <2>2. g[j] = b * g[j - 1] /\ f[j] = b * f[j - 1] BY <1>4, <2>1 DEF PowersOf
  <2>3. g[k] = f[k] BY <1>6
  <2>4. g[j] = f[j] BY <2>1, <2>2, <2>3
  <2> QED BY <2>4 DEF j
<1>7. n \in T
  <2> HIDE DEF T
  <2> QED BY <1>5, <1>6, SetInduction
<1> QED BY <1>1, <1>7

LEMMA PowerStep ==
  ASSUME NEW b \in Nat \ {0}, NEW n \in Nat
  PROVE  Power(b, n) \in Nat \ {0} /\ Power(b, 0) = 1 /\ Power(b, n + 1) = b * Power(b, n)
<1>1. PICK f : PowersOf(b, n + 1, f) BY PowersExist
<1> DEFINE h(k) == [i \in 0..k |-> f[i]]
<1>2. ASSUME NEW k \in 0..(n + 1) PROVE Power(b, k) = f[k] /\ f[k] \in Nat \ {0}
  <2>1. h(k) \in [0..k -> Nat \ {0}]
    <3>1. \A i \in 0..k : f[i] \in Nat \ {0} BY <1>1 DEF PowersOf
    <3> QED BY <3>1
  <2>2. h(k)[0] = 1 /\ h(k)[k] = f[k] BY <1>1 DEF PowersOf
  <2>3. ASSUME NEW i \in 1..k PROVE h(k)[i] = b * h(k)[i - 1]
    <3>1. i \in 1..(n + 1) /\ i \in 0..k /\ i - 1 \in 0..k OBVIOUS
    <3>2. f[i] = b * f[i - 1] BY <1>1, <3>1 DEF PowersOf
    <3> QED BY <3>1, <3>2
  <2> HIDE DEF h
  <2>4. PowersOf(b, k, h(k)) BY <2>1, <2>2, <2>3 DEF PowersOf
  <2>5. Power(b, k) = f[k] BY <2>2, <2>4, PowerIs
  <2>6. f[k] \in Nat \ {0} BY <1>1 DEF PowersOf
  <2> QED BY <2>5, <2>6
<1>3. 0 \in 0..(n + 1) /\ n \in 0..(n + 1) /\ n + 1 \in 0..(n + 1) OBVIOUS
<1>4. Power(b, 0) = f[0] /\ Power(b, n) = f[n] /\ f[n] \in Nat \ {0} /\ Power(b, n + 1) = f[n + 1] BY <1>2, <1>3
<1>5. f[0] = 1 BY <1>1 DEF PowersOf
<1>6. f[n + 1] = b * f[n]
  <2> DEFINE j == n + 1
  <2>1. j \in 1..(n + 1) /\ j - 1 = n OBVIOUS
  <2> HIDE DEF j
  <2>2. f[j] = b * f[j - 1] BY <1>1, <2>1 DEF PowersOf
  <2> QED BY <2>1, <2>2 DEF j
<1> QED BY <1>4, <1>5, <1>6

LEMMA SizeStep ==
  ASSUME NEW n \in Nat
  PROVE  Size(n) \in Nat \ {0} /\ Size(0) = 1 /\ Size(n + 1) = Base * Size(n)
<1>1. Base \in Nat \ {0} BY BaseFacts
<1> QED BY <1>1, PowerStep DEF Size

LEMMA SizeNat ==
  ASSUME NEW n \in Nat
  PROVE  Size(n) \in Nat /\ Size(n) > 0
BY SizeStep

LEMMA TimesAssoc ==
  ASSUME NEW a \in Int, NEW b \in Int, NEW c \in Int
  PROVE  a * (b * c) = (a * b) * c
OBVIOUS

LEMMA SizeFacts ==
  ASSUME NEW n \in Nat
  PROVE  /\ Size(n) \in Nat /\ Size(n) >= 1
         /\ n > 0 => Size(n) = Base * Size(n - 1) /\ Size(n) = 4 * (Size(n) \div 4) /\ Size(n) = 2 * (Size(n) \div 2) /\ Size(n) >= 8
<1>1. Size(n) \in Nat /\ Size(n) >= 1 BY SizeStep
<1>2. ASSUME n > 0 PROVE Size(n) = Base * Size(n - 1) /\ Size(n) = 4 * (Size(n) \div 4) /\ Size(n) = 2 * (Size(n) \div 2) /\ Size(n) >= 8
  <2> DEFINE p == Size(n - 1)  s == Size(n)
  <2>1. n - 1 \in Nat /\ n - 1 + 1 = n BY <1>2
  <2>2. p \in Nat /\ p >= 1 /\ s = Base * p
    <3> DEFINE m == n - 1
    <3>1. m \in Nat /\ m + 1 = n BY <2>1
    <3> HIDE DEF m
    <3>2. Size(m) \in Nat \ {0} /\ Size(m + 1) = Base * Size(m) BY <3>1, SizeStep
    <3>3. Size(m) \in Nat /\ Size(m) >= 1 /\ Size(n) = Base * Size(m) BY <3>1, <3>2
    <3> QED BY <3>3 DEF m
  <2> HIDE DEF p, s
  <2> DEFINE c == Base \div 4
  <2>3. c \in Nat /\ Base = 4 * c BY BaseFacts
  <2> HIDE DEF c
  <2>4. s = 4 * (c * p) BY <2>2, <2>3
  <2>5. c * p \in Nat BY <2>2, <2>3
  <2>6. Base * p >= 8 * p BY <2>2, BaseFacts
  <2>7. s \in Nat /\ s >= 8 BY <2>2, <2>6, BaseFacts
  <2>8. s = 4 * (s \div 4) /\ s = 2 * (s \div 2) BY <2>4, <2>5
  <2> QED BY <2>2, <2>7, <2>8 DEF p, s
<1> QED BY <1>1, <1>2

LEMMA SizeDivides ==
  ASSUME NEW i \in Nat, NEW n \in Nat, i <= n
  PROVE  \E c \in Nat : c >= 1 /\ Size(n) = c * Size(i)
<1> DEFINE T == {k \in Nat : \E c \in Nat : c >= 1 /\ Size(i + k) = c * Size(i)}
<1>1. 0 \in T
  <2>1. Size(i) \in Nat /\ i + 0 = i BY SizeFacts
  <2>2. Size(i + 0) = 1 * Size(i) BY <2>1
  <2> QED BY <2>2
<1>2. ASSUME NEW k \in Nat, k \in T PROVE k + 1 \in T
  <2>1. PICK c \in Nat : c >= 1 /\ Size(i + k) = c * Size(i) BY <1>2
  <2>2. Size(i + k + 1) = Base * Size(i + k) /\ i + k \in Nat
    <3> DEFINE j == i + k
    <3>1. j \in Nat OBVIOUS
    <3> HIDE DEF j
    <3>2. Size(j + 1) = Base * Size(j) BY <3>1, SizeStep
    <3> QED BY <3>1, <3>2 DEF j
  <2>3. Size(i) \in Nat BY SizeFacts
  <2>4. Base * (c * Size(i)) = (Base * c) * Size(i)
    <3>1. Base \in Int /\ c \in Int /\ Size(i) \in Int BY <2>3, BaseFacts
    <3> QED BY ONLY <3>1, TimesAssoc
  <2>5. Base * c \in Nat /\ Base * c >= 1 BY <2>1, BaseFacts
  <2>6. i + k + 1 = i + (k + 1) OBVIOUS
  <2>7. Size(i + (k + 1)) = (Base * c) * Size(i)
    <3>1. Size(i + k + 1) = Base * (c * Size(i)) BY <2>1, <2>2
    <3> QED BY <2>4, <2>6, <3>1
  <2> QED BY <2>5, <2>7
<1>3. n - i \in T
  <2> HIDE DEF T
  <2> QED BY <1>1, <1>2, SetInduction
<1>4. i + (n - i) = n OBVIOUS
<1> QED BY <1>3, <1>4

LEMMA SizeGrows ==
  ASSUME NEW i \in Nat, NEW n \in Nat, i <= n
  PROVE  Size(i) <= Size(n)
<1>1. PICK c \in Nat : c >= 1 /\ Size(n) = c * Size(i) BY SizeDivides
<1>2. Size(i) \in Nat BY SizeFacts
<1> QED BY <1>1, <1>2

LEMMA SmallMod ==
  ASSUME NEW m \in Nat, NEW v \in 0..(m - 1)
  PROVE  v % m = v
<1>1. v = m * 0 + v OBVIOUS
<1> QED BY <1>1, DivUnique

-----------------------------------------------------------------------------
(* The number that bytes are, the least significant first.                 *)
LEMMA LowValue ==
  ASSUME NEW bs \in Seq(Int), NEW f, f \in [0..Len(bs) -> Int], f[0] = 0,
         \A i \in 1..Len(bs) : f[i] = f[i - 1] + bs[i] * Size(i - 1)
  PROVE  FromLittle(bs) = f[Len(bs)]
<1> DEFINE n == Len(bs)
           D(h) == [i \in 0..n |-> IF i = 0 THEN 0 ELSE h[i - 1] + bs[i] * Size(i - 1)]
           g == CHOOSE h : h = D(h)
<1>0. n \in Nat OBVIOUS
<1>1. FromLittle(bs) = g[n] BY DEF FromLittle
<1>2. f = D(f)
  <2>1. DOMAIN f = 0..n /\ f = [i \in 0..n |-> f[i]] OBVIOUS
  <2>2. ASSUME NEW i \in 0..n PROVE f[i] = IF i = 0 THEN 0 ELSE f[i - 1] + bs[i] * Size(i - 1)
    <3>1. CASE i = 0 BY <3>1
    <3>2. CASE i # 0
      <4>1. i \in 1..n BY <3>2
      <4> QED BY <3>2, <4>1
    <3> QED BY <3>1, <3>2
  <2> QED BY <2>1, <2>2
<1>3. g = D(g)
  <2> HIDE DEF D
  <2> QED BY <1>2
<1>4. \A i \in 0..n : g[i] = IF i = 0 THEN 0 ELSE g[i - 1] + bs[i] * Size(i - 1)
  <2> HIDE DEF g
  <2> DEFINE c == D(g)
  <2>1. \A i \in 0..n : c[i] = IF i = 0 THEN 0 ELSE g[i - 1] + bs[i] * Size(i - 1) OBVIOUS
  <2>2. g = c BY <1>3
  <2> HIDE DEF c
  <2> QED BY <2>1, <2>2
<1> HIDE DEF g, D
<1> DEFINE T == {k \in Nat : k <= n => g[k] = f[k]}
<1>5. 0 \in T BY <1>4
<1>6. ASSUME NEW k \in Nat, k \in T PROVE k + 1 \in T
  <2> SUFFICES ASSUME k + 1 <= n PROVE g[k + 1] = f[k + 1] OBVIOUS
  <2> DEFINE j == k + 1
  <2>1. j \in 1..n /\ j \in 0..n /\ j # 0 /\ j - 1 = k BY <1>0
  <2> HIDE DEF j
  <2>2. g[j] = g[j - 1] + bs[j] * Size(j - 1) BY <1>4, <2>1
  <2>3. f[j] = f[j - 1] + bs[j] * Size(j - 1) BY <2>1
  <2>4. g[k] = f[k] BY <1>0, <1>6
  <2>5. g[j] = f[j] BY <2>1, <2>2, <2>3, <2>4
  <2> QED BY <2>5 DEF j
<1>7. n \in T
  <2> HIDE DEF T
  <2> QED BY <1>0, <1>5, <1>6, SetInduction
<1> QED BY <1>1, <1>7

LEMMA DigitByte ==
  ASSUME NEW v \in Int, NEW i \in Nat, i >= 1
  PROVE  (v \div Size(i - 1)) % Base \in 0..(Base - 1)
<1> DEFINE j == i - 1  q == v \div Size(j)
<1>1. j \in Nat OBVIOUS
<1> HIDE DEF j
<1>2. Size(j) \in Nat /\ Size(j) > 0 BY <1>1, SizeNat
<1>3. q \in Int BY <1>2, DivMod
<1> HIDE DEF q
<1>4. q % Base \in 0..(Base - 1) BY <1>3, BaseFacts, DivMod
<1> QED BY <1>4 DEF q, j

LEMMA LittleBytes ==
  ASSUME NEW v \in Int, NEW n \in Nat
  PROVE  /\ LittleEndian(v, n) \in Seq(Byte) /\ Len(LittleEndian(v, n)) = n
         /\ \A i \in 1..n : /\ LittleEndian(v, n)[i] = (v \div Size(i - 1)) % Base
                           /\ (v \div Size(i - 1)) % Base \in 0..(Base - 1)
<1>1. ASSUME NEW i \in 1..n PROVE (v \div Size(i - 1)) % Base \in Byte
  <2>1. i \in Nat /\ i >= 1 OBVIOUS
  <2> QED BY <2>1, DigitByte DEF Byte
<1>2. LittleEndian(v, n) \in [1..n -> Byte] BY <1>1 DEF LittleEndian
<1>3. \A i \in 1..n : LittleEndian(v, n)[i] = (v \div Size(i - 1)) % Base BY DEF LittleEndian
<1>4. LittleEndian(v, n) \in Seq(Byte) /\ Len(LittleEndian(v, n)) = n BY <1>2, FunctionSeq
<1> QED BY <1>1, <1>3, <1>4 DEF Byte

(* The lowest k bytes of a number, among n.                                *)
LEMMA PaddedValue ==
  ASSUME NEW v \in Nat, NEW n \in Nat, NEW k \in 0..n, NEW bs,
         bs = [i \in 1..n |-> IF i <= k THEN (v \div Size(i - 1)) % Base ELSE 0]
  PROVE  FromLittle(bs) = v % Size(k)
<1> DEFINE low(i) == IF i <= k THEN i ELSE k
           f == [i \in 0..n |-> v % Size(low(i))]
<1>1. bs \in Seq(Int) /\ Len(bs) = n
  <2>1. ASSUME NEW i \in 1..n PROVE bs[i] \in Int
    <3> DEFINE d == (v \div Size(i - 1)) % Base
    <3>0. i \in Nat /\ i >= 1 OBVIOUS
    <3>1. d \in 0..(Base - 1) BY <3>0, DigitByte
    <3>2. bs[i] = IF i <= k THEN d ELSE 0 OBVIOUS
    <3> HIDE DEF d
    <3> QED BY <3>1, <3>2
  <2>2. bs \in [1..n -> Int] BY <2>1
  <2> QED BY <2>2, FunctionSeq
<1>2. ASSUME NEW i \in 0..n PROVE low(i) \in Nat /\ v % Size(low(i)) \in Int
  <2>1. low(i) \in Nat OBVIOUS
  <2> DEFINE j == low(i)
  <2>2. j \in Nat BY <2>1
  <2> HIDE DEF low, j
  <2>3. Size(j) \in Nat /\ Size(j) > 0 BY <2>2, SizeNat
  <2>4. v % Size(j) \in Int BY <2>3, DivMod
  <2> QED BY <2>1, <2>4 DEF j
<1>3. f \in [0..n -> Int] BY <1>2
<1>4. f[0] = 0
  <2>1. low(0) = 0 /\ Size(0) = 1 BY SizeStep
  <2>2. f[0] = v % 1 BY <2>1
  <2> QED BY <2>2
<1>5. ASSUME NEW i \in 1..n PROVE f[i] = f[i - 1] + bs[i] * Size(i - 1)
  <2>1. i - 1 \in 0..n /\ i \in 0..n OBVIOUS
  <2>2. f[i] = v % Size(low(i)) /\ f[i - 1] = v % Size(low(i - 1)) BY <2>1
  <2>3. CASE i <= k
    <3>1. low(i) = i /\ low(i - 1) = i - 1 /\ bs[i] = (v \div Size(i - 1)) % Base BY <2>3
    <3>2. Size(i) = Base * Size(i - 1) /\ Size(i - 1) \in Nat /\ Size(i - 1) > 0
      <4>1. i \in Nat /\ i > 0 /\ i - 1 \in Nat OBVIOUS
      <4>2. Size(i) = Base * Size(i - 1) BY <4>1, SizeFacts
      <4>3. Size(i - 1) \in Nat /\ Size(i - 1) >= 1 BY <4>1, SizeFacts
      <4> QED BY <4>2, <4>3
    <3>3. v % (Base * Size(i - 1)) = (v % Size(i - 1)) + ((v \div Size(i - 1)) % Base) * Size(i - 1)
      <4> DEFINE p == Size(i - 1)
      <4>1. p \in Nat /\ p > 0 /\ v \in Int /\ Base \in Nat /\ Base > 0 BY <3>2, BaseFacts
      <4> HIDE DEF p
      <4>2. v % (Base * p) = (v % p) + ((v \div p) % Base) * p BY ONLY <4>1, ModStep
      <4> QED BY <4>2 DEF p
    <3> HIDE DEF f, low
    <3> QED BY <2>2, <3>1, <3>2, <3>3
  <2>4. CASE ~(i <= k)
    <3>1. low(i) = k /\ low(i - 1) = k /\ bs[i] = 0 BY <2>4
    <3>2. Size(i - 1) \in Nat
      <4>1. i - 1 \in Nat OBVIOUS
      <4> QED BY <4>1, SizeFacts
    <3>3. f[i] \in Int BY <1>3
    <3> HIDE DEF f, low
    <3> QED BY <2>2, <3>1, <3>2, <3>3
  <2> QED BY <2>3, <2>4
<1>6. f[n] = v % Size(k)
  <2>1. low(n) = k /\ n \in 0..n OBVIOUS
  <2> QED BY <2>1
<1> HIDE DEF f
<1> QED BY <1>1, <1>3, <1>4, <1>5, <1>6, LowValue

LEMMA LittleValue ==
  ASSUME NEW v \in Nat, NEW n \in Nat
  PROVE  FromLittle(LittleEndian(v, n)) = v % Size(n)
<1>1. LittleEndian(v, n) = [i \in 1..n |-> IF i <= n THEN (v \div Size(i - 1)) % Base ELSE 0]
  BY DEF LittleEndian
<1> QED BY <1>1, PaddedValue

-----------------------------------------------------------------------------
(* Numbers of a fixed width.                                               *)
LEMMA Reversed ==
  ASSUME NEW bs \in Seq(Int)
  PROVE  /\ Reverse(bs) \in Seq(Int) /\ Len(Reverse(bs)) = Len(bs)
         /\ \A i \in 1..Len(bs) : Reverse(bs)[i] = bs[Len(bs) + 1 - i]
         /\ Reverse(Reverse(bs)) = bs
<1> DEFINE n == Len(bs)  r == Reverse(bs)
<1>1. n \in Nat OBVIOUS
<1>2. r = [i \in 1..n |-> bs[(n - i) + 1]] BY DEF Reverse
<1>3. \A i \in 1..n : (n - i) + 1 \in 1..n /\ bs[(n - i) + 1] \in Int
  <2> TAKE i \in 1..n
  <2>1. (n - i) + 1 \in 1..n BY <1>1
  <2> QED BY <2>1, ElementType
<1>4. r \in [1..n -> Int] BY <1>2, <1>3
<1>5. r \in Seq(Int) /\ Len(r) = n BY <1>1, <1>4, FunctionSeq
<1>6. \A i \in 1..n : r[i] = bs[n + 1 - i]
  <2> TAKE i \in 1..n
  <2>1. (n - i) + 1 = n + 1 - i BY <1>1
  <2> QED BY <1>2, <2>1
<1> HIDE DEF r
<1>7. Reverse(r) = [i \in 1..n |-> r[(n - i) + 1]] BY <1>5 DEF Reverse
<1>8. ASSUME NEW i \in 1..n PROVE Reverse(r)[i] = bs[i]
  <2> DEFINE j == (n - i) + 1
  <2>1. j \in 1..n /\ n + 1 - j = i BY <1>1
  <2>2. Reverse(r)[i] = r[j] BY <1>7
  <2> HIDE DEF j
  <2>3. r[j] = bs[i] BY <1>6, <2>1
  <2> QED BY <2>2, <2>3
<1>9. Reverse(r) = bs
  <2>1. Reverse(r) = [i \in 1..n |-> Reverse(r)[i]] BY <1>7
  <2>2. bs = [i \in 1..n |-> bs[i]] OBVIOUS
  <2> HIDE DEF n
  <2> QED BY <1>8, <2>1, <2>2
<1> QED BY <1>5, <1>6, <1>9 DEF r

LEMMA ReversedBytes ==
  ASSUME NEW bs \in Seq(Int), Len(bs) % 2 = 0
  PROVE  ReverseBytes(bs) = Reverse(bs)
<1> DEFINE n == Len(bs)
<1>1. n \in Nat /\ n % 2 = 0 /\ DOMAIN bs = 1..n OBVIOUS
<1>2. ASSUME NEW i \in 1..n PROVE 2 * i # n + 1 BY <1>1
<1>3. ReverseBytes(bs) = [i \in 1..n |-> bs[n + 1 - i]] BY <1>1, <1>2 DEF ReverseBytes
<1>4. Reverse(bs) = [i \in 1..n |-> bs[(n - i) + 1]] BY DEF Reverse
<1>5. \A i \in 1..n : (n - i) + 1 = n + 1 - i BY <1>1
<1> HIDE DEF n
<1> QED BY <1>3, <1>4, <1>5

LEMMA WiderSeq ==
  ASSUME NEW S, NEW T, S \subseteq T, NEW a \in Seq(S)
  PROVE  a \in Seq(T)
OBVIOUS

LEMMA LittleInts ==
  ASSUME NEW v \in Int, NEW n \in Nat
  PROVE  LittleEndian(v, n) \in Seq(Int) /\ Len(LittleEndian(v, n)) = n /\ LittleEndian(v, n) # Unset
<1>1. LittleEndian(v, n) \in Seq(Byte) /\ Len(LittleEndian(v, n)) = n BY LittleBytes
<1>2. Byte \subseteq Int BY BaseFacts DEF Byte
<1>3. LittleEndian(v, n) \in Seq(Int) BY <1>1, <1>2, WiderSeq
<1> QED BY <1>1, <1>3, UnsetAssumption

LEMMA BigInts ==
  ASSUME NEW v \in Int, NEW n \in Nat
  PROVE  BigEndian(v, n) \in Seq(Int) /\ Len(BigEndian(v, n)) = n /\ BigEndian(v, n) # Unset
<1>1. LittleEndian(v, n) \in Seq(Int) /\ Len(LittleEndian(v, n)) = n BY LittleInts
<1>2. BigEndian(v, n) \in Seq(Int) /\ Len(BigEndian(v, n)) = n BY <1>1, Reversed DEF BigEndian
<1> QED BY <1>2, UnsetAssumption

(* A signed number below 16 bytes.                                         *)
LEMMA SignedCodec ==
  ASSUME NEW v \in Int, NEW n \in Nat, n > 1, n % 2 = 0, NEW bs, bs = IntEncode(v, n),
         NEW back, back = IntDecode(bs, n)
  PROVE  /\ back % Size(n) = v % Size(n)
         /\ back # Size(n) \div 2 => back \in (-(Size(n) \div 2) + 1)..(Size(n) \div 2 - 1)
         /\ IntEncode(back, n) = bs
<1> DEFINE s == Size(n)  h == s \div 2  u == v % s
<1>1. s \in Nat /\ s > 0 /\ s >= 8 /\ s = 2 * h
  <2>1. Size(n) \in Nat /\ Size(n) = 2 * (Size(n) \div 2) /\ Size(n) >= 8 BY SizeFacts
  <2> QED BY <2>1
<1>2. h \in Int /\ h >= 4 BY <1>1
<1> HIDE DEF s, h
<1>3. u \in 0..(s - 1) /\ u \in Nat BY <1>1, DivMod
<1> HIDE DEF u
<1>4. bs = LittleEndian(u, n) BY DEF IntEncode, u, s
<1>5. bs \in Seq(Int) /\ Len(bs) = n BY <1>3, <1>4, LittleInts
<1>6. FromBig(ReverseBytes(bs)) = u
  <2>1. ReverseBytes(bs) = Reverse(bs) BY <1>5, ReversedBytes
  <2>2. FromBig(ReverseBytes(bs)) = FromLittle(bs) BY <1>5, <2>1, Reversed DEF FromBig
  <2>3. FromLittle(bs) = u % s BY <1>3, <1>4, LittleValue DEF s
  <2>4. u % s = u BY <1>1, <1>3, SmallMod
  <2> QED BY <2>2, <2>3, <2>4
<1>7. back = IF u > h THEN u - s ELSE u BY <1>6 DEF IntDecode, s, h
<1>8. back % s = u
  <2>1. CASE u > h
    <3>1. back = s * (-1) + u /\ back \in Int BY <1>1, <1>3, <1>7, <2>1
    <3> QED BY <1>1, <1>3, <3>1, DivUnique
  <2>2. CASE ~(u > h)
    <3>1. back = u BY <1>7, <2>2
    <3> QED BY <1>1, <1>3, <3>1, SmallMod
  <2> QED BY <2>1, <2>2
<1>9. back # h => back \in (-h + 1)..(h - 1) BY <1>1, <1>2, <1>3, <1>7
<1>10. IntEncode(back, n) = bs BY <1>4, <1>8 DEF IntEncode, s
<1> QED BY <1>8, <1>9, <1>10 DEF u, s, h

(* Each byte of the complement of a number is the complement of its byte.  *)
LEMMA Complement ==
  ASSUME NEW n \in Nat, NEW w \in 0..(Size(n) - 1), NEW i \in 1..n
  PROVE  ((Size(n) - 1 - w) \div Size(i - 1)) % Base = Base - 1 - ((w \div Size(i - 1)) % Base)
<1> DEFINE p == Size(i - 1)  s == Size(n)  q == w \div p  r == w % p  e == q % Base  f == q \div Base
<1>1. i \in Nat /\ i <= n /\ i - 1 \in Nat /\ i > 0 OBVIOUS
<1>2. PICK c \in Nat : c >= 1 /\ Size(n) = c * Size(i) BY <1>1, SizeDivides
<1>3. p \in Nat /\ p > 0 /\ s \in Nat BY <1>1, SizeNat
<1>4. Size(i) = Base * p BY <1>1, SizeFacts
<1>5. s = c * (Base * p) BY <1>2, <1>4
<1>6. w \in Int OBVIOUS
<1> HIDE DEF p, s
<1>7. q \in Int /\ r \in 0..(p - 1) /\ w = p * q + r BY <1>3, <1>6, DivMod
<1> HIDE DEF q, r
<1>8. f \in Int /\ e \in 0..(Base - 1) /\ q = Base * f + e BY <1>7, BaseFacts, DivMod
<1> HIDE DEF e, f
<1> DEFINE Q == Base * c - 1 - q  R == p - 1 - r
<1>9. Q \in Int /\ R \in 0..(p - 1) BY <1>3, <1>7, BaseFacts
<1>10. s - 1 - w = p * Q + R
  <2>1. c * (Base * p) = p * (Base * c)
    <3>1. c * (Base * p) = (c * Base) * p BY <1>3, BaseFacts, TimesAssoc
    <3>2. c * Base = Base * c BY BaseFacts
    <3>3. Base * c \in Int BY BaseFacts
    <3>4. (Base * c) * p = p * (Base * c) BY <1>3, <3>3
    <3> QED BY <3>1, <3>2, <3>4
  <2> DEFINE b == Base * c
  <2>2. b \in Int BY BaseFacts
  <2>3. s = p * b BY <1>5, <2>1
  <2>4. Q = b - 1 - q OBVIOUS
  <2> HIDE DEF b, Q
  <2>5. p * (b - 1 - q) = p * b - p - p * q BY <1>3, <1>7, <2>2
  <2>6. p * Q + R = p * b - p - p * q + (p - 1 - r) BY <2>4, <2>5
  <2>7. p * b \in Int /\ p * q \in Int BY <1>3, <1>7, <2>2
  <2> QED BY <1>3, <1>7, <2>3, <2>6, <2>7
<1>11. (s - 1 - w) \div p = Q
  <2>1. s - 1 - w \in Int BY <1>3, <1>6
  <2> HIDE DEF Q, R
  <2> QED BY <1>3, <1>9, <1>10, <2>1, DivUnique
<1>12. Q = Base * (c - 1 - f) + (Base - 1 - e)
  <2>1. Base * (c - 1 - f) = Base * c - Base - Base * f BY <1>8, BaseFacts
  <2>2. Base * c \in Int /\ Base * f \in Int BY <1>8, BaseFacts
  <2> QED BY <1>8, <2>1, <2>2, BaseFacts
<1>13. Q % Base = Base - 1 - e
  <2> DEFINE x == c - 1 - f  y == Base - 1 - e
  <2>1. x \in Int /\ y \in 0..(Base - 1) BY <1>8, BaseFacts
  <2>2. Q \in Int /\ Q = Base * x + y /\ Base \in Nat /\ Base > 0 BY <1>9, <1>12, BaseFacts
  <2> HIDE DEF Q, x, y
  <2>3. Q % Base = y BY ONLY <2>1, <2>2, DivUnique
  <2> QED BY <2>3 DEF y
<1> QED BY <1>11, <1>13 DEF p, s, q, e

(* A signed number from 16 bytes on.                                       *)
LEMMA WideCodec ==
  ASSUME NEW v \in Int, NEW n \in Nat, n > 0
  PROVE  BigIntToIntBytes(v, n) = IF v \in -(Size(n) \div 2)..(Size(n) \div 2 - 1)
                                  THEN BigEndian(v % Size(n), n) ELSE Unset
<1> DEFINE s == Size(n)  h == s \div 2
<1>1. s \in Nat /\ s > 0 /\ s = 2 * h /\ h \in Int
  <2>1. Size(n) \in Nat /\ Size(n) = 2 * (Size(n) \div 2) /\ Size(n) >= 8 BY SizeFacts
  <2> QED BY <2>1
<1>2. CASE v >= 0
  <2>1. ASSUME v <= h - 1 PROVE v % s = v
    <3>1. v \in 0..(s - 1) BY <1>1, <1>2, <2>1
    <3> HIDE DEF s
    <3> QED BY <1>1, <3>1, SmallMod
  <2>2. v \in (-h)..(h - 1) <=> v <= h - 1 BY <1>1, <1>2
  <2>3. ~(v > h - 1) <=> v <= h - 1 BY <1>1
  <2>4. BigIntToIntBytes(v, n) = IF v > h - 1 THEN Unset ELSE BigEndian(v, n)
    BY <1>2 DEF BigIntToIntBytes
  <2> HIDE DEF s, h
  <2> QED BY <2>1, <2>2, <2>3, <2>4 DEF s, h
<1>3. CASE v < 0
  <2> DEFINE w == -(v + 1)  b == BigEndian(w, n)  c == [i \in 1..n |-> Base - 1 - b[i]]
  <2>1. BigIntToIntBytes(v, n) = IF -v > h THEN Unset ELSE c BY <1>3 DEF BigIntToIntBytes
  <2>2. v \in (-h)..(h - 1) <=> ~(-v > h) BY <1>1, <1>3
  <2>3. ASSUME ~(-v > h) PROVE c = BigEndian(v % s, n)
    <3> DEFINE x == s - 1 - w
    <3>1. w \in 0..(s - 1) /\ w \in Int /\ x \in 0..(s - 1) /\ x \in Int BY <1>1, <1>3, <2>3
    <3>2. x = v + s BY <1>1
    <3>3. v % s = x
      <4>1. v = s * (-1) + x BY <1>1, <3>2
      <4> HIDE DEF s, x, w
      <4> QED BY <1>1, <3>1, <4>1, DivUnique
    <3>4. /\ LittleEndian(w, n) \in Seq(Int) /\ Len(LittleEndian(w, n)) = n
          /\ LittleEndian(x, n) \in Seq(Int) /\ Len(LittleEndian(x, n)) = n
      <4> HIDE DEF w, x
      <4> QED BY <3>1, LittleInts
    <3>5. ASSUME NEW i \in 1..n PROVE c[i] = BigEndian(x, n)[i]
      <4> DEFINE j == n + 1 - i
      <4>1. j \in 1..n OBVIOUS
      <4>2. b[i] = LittleEndian(w, n)[j] /\ BigEndian(x, n)[i] = LittleEndian(x, n)[j]
        <5> HIDE DEF w, x
        <5> QED BY ONLY <3>4, i \in 1..n, n \in Nat, Reversed, ZenonT(30) DEF BigEndian
      <4>3. /\ LittleEndian(w, n)[j] = (w \div Size(j - 1)) % Base
            /\ LittleEndian(x, n)[j] = (x \div Size(j - 1)) % Base
        <5> HIDE DEF w, x, j
        <5> QED BY <4>1 DEF LittleEndian
      <4>4. (x \div Size(j - 1)) % Base = Base - 1 - ((w \div Size(j - 1)) % Base)
        <5> HIDE DEF w, j
        <5> QED BY <3>1, <4>1, Complement
      <4>5. c[i] = Base - 1 - b[i] OBVIOUS
      <4> HIDE DEF b, c, x, w, j
      <4> QED BY <4>2, <4>3, <4>4, <4>5
    <3>6. BigEndian(x, n) = [i \in 1..n |-> BigEndian(x, n)[i]]
      <4> HIDE DEF x
      <4>1. BigEndian(x, n) \in Seq(Int) /\ Len(BigEndian(x, n)) = n BY <3>1, BigInts
      <4> QED BY <4>1
    <3>7. c = [i \in 1..n |-> c[i]] OBVIOUS
    <3> HIDE DEF c, x, s
    <3> QED BY <3>3, <3>5, <3>6, <3>7
  <2> HIDE DEF c, s, h
  <2> QED BY <2>1, <2>2, <2>3 DEF s, h
<1> QED BY <1>2, <1>3

(* An unsigned number: the lowest bytes of it are its remainder.           *)
LEMMA UnsignedPart ==
  ASSUME NEW u \in Nat, NEW n \in Nat, NEW k \in 0..n, NEW kind, kind # "U256"
  PROVE  UDecode(kind, SubSeq(LittleEndian(u, n), 1, k), n) =
           IF kind = "U" /\ k < n THEN Unset ELSE u % Size(k)
<1> DEFINE b == LittleEndian(u, n)  c == SubSeq(b, 1, k)
           d == [i \in 1..n |-> IF i <= Len(c) THEN c[i] ELSE 0]
<1>1. b \in Seq(Int) /\ Len(b) = n BY LittleInts
<1>2. \A i \in 1..n : b[i] = (u \div Size(i - 1)) % Base BY DEF LittleEndian
<1> HIDE DEF b
<1>3. Len(c) = k /\ \A i \in 1..k : c[i] = b[i] BY <1>1
<1> HIDE DEF c
<1>4. d = [i \in 1..n |-> IF i <= k THEN (u \div Size(i - 1)) % Base ELSE 0]
  <2>1. ASSUME NEW i \in 1..n PROVE d[i] = IF i <= k THEN (u \div Size(i - 1)) % Base ELSE 0
    <3>1. CASE i <= k
      <4>1. i \in 1..k BY <3>1
      <4> QED BY <1>2, <1>3, <3>1, <4>1
    <3>2. CASE ~(i <= k) BY <1>3, <3>2
    <3> QED BY <3>1, <3>2
  <2> QED BY <2>1
<1>5. UDecode(kind, c, n) = IF kind = "U" /\ k < n THEN Unset ELSE FromLittle(d)
  BY <1>3 DEF UDecode
<1> HIDE DEF d
<1>6. FromLittle(d) = u % Size(k) BY <1>4, PaddedValue
<1> QED BY <1>5, <1>6 DEF b, c

LEMMA ModMod ==
  ASSUME NEW u \in Int, NEW p \in Nat, p > 0, NEW c \in Nat, c >= 1
  PROVE  (u % (c * p)) % p = u % p
<1> DEFINE s == c * p  q == u \div s  r == u % s  d == r \div p  e == r % p
<1>1. s \in Nat /\ s > 0 OBVIOUS
<1>2. s = p * c OBVIOUS
<1> HIDE DEF s
<1>3. q \in Int /\ r \in 0..(s - 1) /\ u = s * q + r BY <1>1, DivMod
<1> HIDE DEF q, r
<1>4. r \in Int BY <1>1, <1>3
<1>5. d \in Int /\ e \in 0..(p - 1) /\ r = p * d + e BY <1>4, DivMod
<1> HIDE DEF d, e
<1>6. s * q = p * (c * q)
  <2>1. (p * c) * q = p * (c * q) BY <1>3
  <2> QED BY <1>2, <2>1
<1>7. c * q + d \in Int BY <1>3, <1>5
<1>8. u = p * (c * q + d) + e
  <2>1. p * (c * q + d) = p * (c * q) + p * d BY <1>3, <1>5
  <2> QED BY <1>3, <1>5, <1>6, <2>1
<1>9. u % p = e BY ONLY <1>5, <1>7, <1>8, u \in Int, p \in Nat, p > 0, DivUnique
<1> QED BY <1>9 DEF e, r, s

(* A whole number of bytes of an unsigned codec.                           *)
LEMMA UnsignedCodec ==
  ASSUME NEW u \in Nat, NEW n \in Nat, NEW kind, kind # "U256"
  PROVE  UDecode(kind, LittleEndian(u, n), n) = u % Size(n)
<1>1. LittleEndian(u, n) \in Seq(Int) /\ Len(LittleEndian(u, n)) = n BY LittleInts
<1>2. SubSeq(LittleEndian(u, n), 1, n) = LittleEndian(u, n)
  <2> DEFINE b == LittleEndian(u, n)
  <2> HIDE DEF b
  <2>1. b \in Seq(Int) /\ Len(b) = n BY <1>1 DEF b
  <2>2. SubSeq(b, 1, n) = b BY <2>1
  <2> QED BY <2>2 DEF b
<1>3. n \in 0..n /\ ~(n < n) OBVIOUS
<1>4. UDecode(kind, SubSeq(LittleEndian(u, n), 1, n), n) = u % Size(n) BY <1>3, UnsignedPart
<1> QED BY <1>2, <1>4

(* Numbers of 32 bytes are written as hex and reversed.                    *)
LEMMA HexCodec ==
  ASSUME NEW u \in Nat, NEW n \in Nat, n % 2 = 0
  PROVE  /\ UEncode("U256", u, n) = LittleEndian(u, n)
         /\ UDecode("U256", LittleEndian(u, n), n) = u % Size(n)
<1> DEFINE b == LittleEndian(u, n)
<1>1. b \in Seq(Int) /\ Len(b) = n BY LittleInts
<1>2. BigEndian(u, n) = Reverse(b) BY DEF BigEndian
<1>3. FromLittle(b) = u % Size(n) BY LittleValue
<1>4. UEncode("U256", u, n) = ReverseBytes(BigEndian(u, n)) BY DEF UEncode
<1>5. UDecode("U256", b, n) = FromBig(ReverseBytes(b)) BY DEF UDecode
<1> HIDE DEF b
<1>6. Reverse(b) \in Seq(Int) /\ Len(Reverse(b)) = n /\ Reverse(Reverse(b)) = b BY <1>1, Reversed
<1>7. ReverseBytes(b) = Reverse(b) BY <1>1, ReversedBytes
<1>8. ReverseBytes(Reverse(b)) = b BY <1>6, ReversedBytes
<1>9. FromBig(Reverse(b)) = FromLittle(b) BY <1>6 DEF FromBig
<1> QED BY <1>2, <1>3, <1>4, <1>5, <1>7, <1>8, <1>9 DEF b

(* What the encoders of unsigned numbers write.                            *)
LEMMA UnsignedWritten ==
  ASSUME NEW v \in Int, NEW n \in Nat, NEW kind \in UNumber, kind = "U256" => n % 2 = 0
  PROVE  /\ UEncode(kind, v, n) = Unset => kind = "U128" /\ v \notin 0..(Size(n) - 1)
         /\ kind = "U128" /\ v \notin 0..(Size(n) - 1) => UEncode(kind, v, n) = Unset
         /\ UEncode(kind, v, n) # Unset =>
              \E u \in Nat : /\ UEncode(kind, v, n) = LittleEndian(u, n)
                             /\ v \in 0..(Size(n) - 1) => u = v
<1> DEFINE s == Size(n)
<1>1. s \in Nat /\ s > 0 BY SizeNat
<1>2. CASE kind \in {"U", "alias"}
  <2>1. UEncode(kind, v, n) = LittleEndian(v % s, n) BY <1>2 DEF UEncode
  <2> HIDE DEF s
  <2>2. v % s \in Nat BY <1>1, DivMod
  <2>3. v \in 0..(s - 1) => v % s = v BY <1>1, SmallMod
  <2>4. LittleEndian(v % s, n) # Unset BY <2>2, LittleInts
  <2> QED BY <1>2, <2>1, <2>2, <2>3, <2>4 DEF s
<1>3. CASE kind = "U128"
  <2>1. UEncode(kind, v, n) = IF v < 0 \/ v >= s THEN Unset ELSE LittleEndian(v, n) BY <1>3 DEF UEncode
  <2>2. LittleEndian(v, n) # Unset BY LittleInts
  <2> HIDE DEF s
  <2>3. v \notin 0..(s - 1) <=> v < 0 \/ v >= s BY <1>1
  <2>4. ~(v < 0 \/ v >= s) => v \in Nat BY <1>1
  <2> QED BY <1>3, <2>1, <2>2, <2>3, <2>4 DEF s
<1>4. CASE kind = "U256"
  <2> DEFINE u == IF v < 0 THEN 0 ELSE v
  <2>1. u \in Nat /\ (v >= 0 => u = v) OBVIOUS
  <2>2. UEncode(kind, v, n) = UEncode("U256", u, n)
    <3>1. UEncode(kind, v, n) = ReverseBytes(BigEndian(u, n)) BY <1>4 DEF UEncode
    <3>2. (IF u < 0 THEN 0 ELSE u) = u BY <2>1
    <3> HIDE DEF u
    <3>3. UEncode("U256", u, n) = ReverseBytes(BigEndian(u, n)) BY <3>2 DEF UEncode
    <3> QED BY <3>1, <3>3
  <2> HIDE DEF u
  <2>3. UEncode(kind, v, n) = LittleEndian(u, n) BY <1>4, <2>1, <2>2, HexCodec
  <2>4. LittleEndian(u, n) # Unset BY <2>1, LittleInts
  <2>5. v \in 0..(s - 1) => u = v BY <2>1
  <2> QED BY <1>4, <2>1, <2>3, <2>4, <2>5
<1> QED BY <1>2, <1>3, <1>4 DEF UNumber

LEMMA UnsignedRead ==
  ASSUME NEW u \in Nat, NEW n \in Nat, NEW kind \in UNumber, kind = "U256" => n % 2 = 0
  PROVE  UDecode(kind, LittleEndian(u, n), n) = u % Size(n)
BY UnsignedCodec, HexCodec

(* The elements of M among the first n, counted.                           *)
LEMMA Counted ==
  ASSUME NEW M, M \subseteq Nat, NEW n \in Nat
  PROVE  /\ IsFiniteSet(M \cap 1..n) /\ Cardinality(M \cap 1..n) \in Nat
         /\ Cardinality(M \cap 1..0) = 0
         /\ Cardinality(M \cap 1..(n + 1)) = Cardinality(M \cap 1..n) + (IF n + 1 \in M THEN 1 ELSE 0)
         /\ \A k \in M \cap 1..n : Cardinality(M \cap 1..k) \in 1..Cardinality(M \cap 1..n)
<1> DEFINE C(k) == M \cap 1..k
<1>1. ASSUME NEW k \in Nat PROVE IsFiniteSet(C(k)) /\ Cardinality(C(k)) \in Nat
  <2>1. IsFiniteSet(1..k) /\ C(k) \in SUBSET (1..k) BY FS_Interval
  <2>2. IsFiniteSet(C(k)) BY <2>1, FS_Subset
  <2> QED BY <2>2, FS_CardinalityType
<1>2. Cardinality(C(0)) = 0
  <2>1. C(0) = {} OBVIOUS
  <2> QED BY <2>1, FS_EmptySet
<1>3. Cardinality(C(n + 1)) = Cardinality(C(n)) + (IF n + 1 \in M THEN 1 ELSE 0)
  <2>1. n + 1 \notin C(n) OBVIOUS
  <2>2. 1..(n + 1) = (1..n) \cup {n + 1} OBVIOUS
  <2>3. CASE n + 1 \in M
    <3>1. C(n + 1) = C(n) \cup {n + 1} BY <2>2, <2>3
    <3> QED BY <1>1, <2>1, <2>3, <3>1, FS_AddElement
  <2>4. CASE n + 1 \notin M
    <3>1. C(n + 1) = C(n) BY <2>2, <2>4
    <3> HIDE DEF C
    <3> QED BY <1>1, <2>4, <3>1
  <2> QED BY <2>3, <2>4
<1>4. ASSUME NEW k \in C(n) PROVE Cardinality(C(k)) \in 1..Cardinality(C(n))
  <2>1. k \in Nat /\ k \in C(k) /\ C(k) \in SUBSET C(n) OBVIOUS
  <2>2. Cardinality(C(k)) <= Cardinality(C(n)) BY <1>1, <2>1, FS_Subset
  <2>3. Cardinality(C(k)) # 0 BY <1>1, <2>1, FS_EmptySet
  <2> HIDE DEF C
  <2> QED BY <1>1, <2>1, <2>2, <2>3
<1> QED BY <1>1, <1>2, <1>3, <1>4

LEMMA Appended ==
  ASSUME NEW S, NEW a \in Seq(S), NEW x \in S
  PROVE  /\ Len(a \o <<x>>) = Len(a) + 1 /\ (a \o <<x>>)[Len(a) + 1] = x
         /\ \A i \in 1..Len(a) : (a \o <<x>>)[i] = a[i]
OBVIOUS

(* The elements of M in a list, in order.                                  *)
Picks(list, M, s) ==
  /\ Len(s) = Cardinality(M)
  /\ \A k \in M : s[Cardinality(M \cap 1..k)] = list[k]

LEMMA Picked ==
  ASSUME NEW S, NEW list \in Seq(S), NEW M, M \subseteq DOMAIN list, NEW ss \in [DOMAIN list -> Seq(S)],
         \A k \in DOMAIN list : ss[k] = IF k \in M THEN <<list[k]>> ELSE <<>>
  PROVE  Picks(list, M, FlattenSeq(ss))
<1> DEFINE m == Len(list)
<1>1. m \in Nat /\ DOMAIN list = 1..m /\ \A k \in 1..m : list[k] \in S OBVIOUS
<1>2. ss \in Seq(Seq(S)) /\ Len(ss) = m
  <2>1. ss \in [1..m -> Seq(S)] BY <1>1
  <2> HIDE DEF m
  <2> QED BY <1>1, <2>1, FunctionSeq
<1>3. PICK f \in [0..m -> Seq(S)] : Parts(ss, f) BY <1>2, PartsExist
<1>4. FlattenSeq(ss) = f[m] BY <1>2, <1>3, FlatParts
<1> DEFINE C(k) == M \cap 1..k
           Good(n) == /\ Len(f[n]) = Cardinality(C(n))
                      /\ \A k \in C(n) : f[n][Cardinality(C(k))] = list[k]
           T == {n \in Nat : n <= m => Good(n)}
<1>5. M \subseteq Nat BY <1>1
<1>6. f[0] = <<>> /\ \A i \in 1..m : f[i] = f[i - 1] \o ss[i] BY <1>2, <1>3 DEF Parts
<1>7. 0 \in T
  <2>1. C(0) = {} OBVIOUS
  <2>2. Cardinality({}) = 0 BY FS_EmptySet
  <2>3. Len(f[0]) = 0 BY <1>6
  <2> HIDE DEF m, C
  <2>4. Good(0) BY <2>1, <2>2, <2>3
  <2> QED BY <2>4
<1>8. ASSUME NEW n \in Nat, n \in T PROVE n + 1 \in T
  <2> SUFFICES ASSUME n + 1 <= m PROVE Good(n + 1) OBVIOUS
  <2> DEFINE j == n + 1  c == Cardinality(C(n))
  <2>1. j \in 1..m /\ j - 1 = n /\ n \in 0..m BY <1>1
  <2>2. Good(n)
    <3>1. n <= m BY <1>1
    <3> HIDE DEF Good, m
    <3> QED BY <1>8, <3>1
  <2>3. /\ c \in Nat /\ Cardinality(C(j)) = c + (IF j \in M THEN 1 ELSE 0)
        /\ \A k \in C(n) : Cardinality(C(k)) \in 1..c
    BY <1>5, Counted
  <2>4. f[j] = f[n] \o ss[j] /\ f[n] \in Seq(S)
    <3> HIDE DEF j, m
    <3>1. f[j] = f[j - 1] \o ss[j] BY <1>6, <2>1
    <3> QED BY <1>3, <2>1, <3>1
  <2>5. \A k \in C(j) : k \in C(n) \/ (k = j /\ j \in M)
    <3>1. 1..j = (1..n) \cup {j} OBVIOUS
    <3> HIDE DEF j
    <3> QED BY <3>1
  <2>6. list[j] \in S BY <1>1, <2>1
  <2>7. ss[j] = IF j \in M THEN <<list[j]>> ELSE <<>> BY <1>1, <2>1
  <2>8. Len(f[n]) = c /\ \A k \in C(n) : f[n][Cardinality(C(k))] = list[k] BY <2>2
  <2> HIDE DEF C, j, c, m
  <2>9. CASE j \in M
    <3>1. f[j] = f[n] \o <<list[j]>> BY <2>4, <2>7, <2>9
    <3>2. Len(f[j]) = c + 1 /\ f[j][c + 1] = list[j] /\ \A i \in 1..c : f[j][i] = f[n][i]
      <4> DEFINE a == f[n]  x == list[j]
      <4>1. a \in Seq(S) /\ Len(a) = c /\ x \in S /\ f[j] = a \o <<x>> BY <2>4, <2>6, <2>8, <3>1
      <4> HIDE DEF a, x
      <4>2. Len(f[j]) = c + 1 /\ f[j][c + 1] = x /\ \A i \in 1..c : f[j][i] = a[i]
        <5>1. /\ Len(a \o <<x>>) = Len(a) + 1 /\ (a \o <<x>>)[Len(a) + 1] = x
              /\ \A i \in 1..Len(a) : (a \o <<x>>)[i] = a[i]
          BY ONLY <4>1, Appended
        <5> QED BY <4>1, <5>1
      <4> QED BY <4>2 DEF a, x
    <3>3. Cardinality(C(j)) = c + 1 BY <2>3, <2>9
    <3>4. ASSUME NEW k \in C(j) PROVE f[j][Cardinality(C(k))] = list[k]
      <4>1. CASE k = j BY <3>2, <3>3, <4>1
      <4>2. CASE k \in C(n)
        <5>1. Cardinality(C(k)) \in 1..c /\ f[n][Cardinality(C(k))] = list[k] BY <2>3, <2>8, <4>2
        <5> QED BY <3>2, <5>1
      <4> QED BY <2>5, <4>1, <4>2
    <3>5. Good(j) BY <3>2, <3>3, <3>4
    <3> QED BY <3>5 DEF j
  <2>10. CASE j \notin M
    <3>1. f[j] = f[n] BY <2>4, <2>7, <2>10, ConcatEmpty
    <3>2. Cardinality(C(j)) = c BY <2>3, <2>10
    <3>3. Good(j) BY <2>5, <2>8, <2>10, <3>1, <3>2
    <3> QED BY <3>3 DEF j
  <2> QED BY <2>9, <2>10
<1>9. m \in T
  <2> HIDE DEF T
  <2> QED BY <1>1, <1>7, <1>8, SetInduction
<1>10. Good(m)
  <2> HIDE DEF Good, m
  <2> QED BY <1>1, <1>9
<1>11. C(m) = M BY <1>1
<1> HIDE DEF m
<1> QED BY <1>4, <1>10, <1>11 DEF Picks

LEMMA SetElements ==
  ASSUME NEW S, NEW list \in Seq(S), NEW n \in {2, 4, 8}, NEW v \in 0..(Size(n) - 1), NEW M,
         ~(n = 8 /\ v >= Size(n) \div 2), M = {k \in DOMAIN list : (v \div 2 ^ (k - 1)) % 2 = 1}
  PROVE  Picks(list, M, SetDecode(LittleEndian(v, n), n, list))
<1> DEFINE On(k) == (v \div 2 ^ (k - 1)) % 2 = 1
           ss == [k \in DOMAIN list |-> IF On(k) THEN <<list[k]>> ELSE <<>>]
<1>1. n \in Nat /\ n # 1 OBVIOUS
<1>2. UDecode("U", LittleEndian(v, n), n) = v
  <2>1. Size(n) \in Nat /\ Size(n) > 0 BY <1>1, SizeNat
  <2> DEFINE s == Size(n)
  <2> HIDE DEF s
  <2>2. v \in Nat /\ s \in Nat /\ v \in 0..(s - 1) BY <2>1 DEF s
  <2>3. v % s = v BY <2>2, SmallMod
  <2> QED BY <1>1, <2>2, <2>3, UnsignedCodec DEF s
<1>3. SetDecode(LittleEndian(v, n), n, list) = FlattenSeq(ss)
  <2>1. v # Unset
    <3>1. Size(n) \in Nat BY <1>1, SizeNat
    <3> QED BY <3>1, UnsetAssumption
  <2> QED BY <1>1, <1>2, <2>1 DEF SetDecode
<1>4. \A k \in DOMAIN list : k \in M <=> On(k) OBVIOUS
<1>5. M \subseteq DOMAIN list OBVIOUS
<1> HIDE DEF On
<1>6. \A k \in DOMAIN list : ss[k] = IF k \in M THEN <<list[k]>> ELSE <<>> BY <1>4
<1>7. ss \in [DOMAIN list -> Seq(S)] OBVIOUS
<1> HIDE DEF ss
<1>8. Picks(list, M, FlattenSeq(ss)) BY <1>5, <1>6, <1>7, Picked
<1> QED BY <1>3, <1>8

LEMMA SizesToFour ==
  /\ Size(0) = 1 /\ Size(1) = Base /\ Size(2) = Base * Base
  /\ Size(3) = Base * Base * Base /\ Size(4) = Base * Base * Base * Base
<1>1. Base \in Int BY BaseFacts
<1>2. Size(0) = 1 /\ Size(0 + 1) = Base * Size(0) BY 0 \in Nat, SizeStep
<1>3. Size(1 + 1) = Base * Size(1) BY 1 \in Nat, SizeStep
<1>4. Size(2 + 1) = Base * Size(2) BY 2 \in Nat, SizeStep
<1>5. Size(3 + 1) = Base * Size(3) BY 3 \in Nat, SizeStep
<1>6. Size(1) = Base BY <1>1, <1>2
<1>7. Size(2) = Base * Base BY <1>3, <1>6
<1> DEFINE s == Base * Base  c == s * Base
<1>8. s \in Int /\ c \in Int BY <1>1
<1>9. Size(3) = c
  <2>1. Size(3) = Base * s BY <1>4, <1>7
  <2> HIDE DEF s
  <2> QED BY <1>1, <1>8, <2>1
<1>10. Size(4) = c * Base
  <2>1. Size(4) = Base * Size(3) BY <1>5
  <2> HIDE DEF c
  <2>2. Base * c = c * Base BY <1>1, <1>8
  <2> QED BY <1>9, <2>1, <2>2
<1> QED BY <1>2, <1>6, <1>7, <1>9, <1>10

(* There is a number of bytes that a number takes.                         *)
LEMMA DigitsExist ==
  ASSUME NEW v \in Nat, v >= 1
  PROVE  Digits(v) \in Nat /\ Digits(v) >= 1 /\ Size(Digits(v) - 1) <= v /\ v < Size(Digits(v))
<1> DEFINE Fits(i) == Size(i - 1) <= v /\ v < Size(i)
           T == {k \in Nat : k < Size(k) /\ (v < Size(k) => \E i \in 1..k : Fits(i))}
<1>1. 0 \in T
  <2>1. Size(0) = 1 BY SizesToFour
  <2> HIDE DEF Fits
  <2> QED BY <2>1
<1>2. ASSUME NEW k \in Nat, k \in T PROVE k + 1 \in T
  <2> DEFINE j == k + 1
  <2>1. j \in Nat /\ j >= 1 /\ j - 1 = k OBVIOUS
  <2>2. Size(k) \in Nat /\ Size(k) > 0 /\ Size(j) = Base * Size(k) BY SizeStep
  <2>3. k < Size(k) /\ (v < Size(k) => \E i \in 1..k : Fits(i)) BY <1>2
  <2>4. j < Size(j)
    <3> DEFINE p == Size(k)
    <3> HIDE DEF p, j
    <3>1. Base * p >= 8 * p BY <2>2, BaseFacts DEF p
    <3>2. Size(j) = Base * p /\ k < p /\ p \in Nat BY <2>2, <2>3 DEF p
    <3>3. Base * p \in Nat BY <3>2, BaseFacts
    <3> QED BY <2>1, <3>1, <3>2, <3>3
  <2>5. ASSUME v < Size(j), ~(v < Size(k)) PROVE Fits(j)
    <3> HIDE DEF j
    <3> QED BY <2>1, <2>2, <2>5
  <2> HIDE DEF Fits, j
  <2>6. ASSUME v < Size(j) PROVE \E i \in 1..j : Fits(i)
    <3>1. CASE v < Size(k)
      <4>1. PICK i \in 1..k : Fits(i) BY <2>3, <3>1
      <4>2. i \in 1..j BY <2>1
      <4> QED BY <4>1, <4>2
    <3>2. CASE ~(v < Size(k))
      <4>1. Fits(j) /\ j \in 1..j BY <2>1, <2>5, <2>6, <3>2
      <4> QED BY <4>1
    <3> QED BY <3>1, <3>2
  <2>7. j \in T BY <2>1, <2>4, <2>6
  <2> QED BY <2>7 DEF j
<1>3. v \in T
  <2> HIDE DEF T
  <2> QED BY <1>1, <1>2, SetInduction
<1>4. PICK i \in 1..(v + 1) : Fits(i)
  <2> HIDE DEF Fits
  <2>1. PICK i \in 1..v : Fits(i) BY <1>3
  <2>2. i \in 1..(v + 1) OBVIOUS
  <2> QED BY <2>1, <2>2
<1>5. Digits(v) \in 1..(v + 1) /\ Fits(Digits(v))
  <2>1. Digits(v) = CHOOSE k \in 1..(v + 1) : Fits(k) BY DEF Digits
  <2> HIDE DEF Fits
  <2> QED BY <1>4, <2>1
<1> QED BY <1>5

(* The k lowest bytes of v, and the bytes bs, in a type of n bytes.         *)
Lowest(v, n, k) == [i \in 1..n |-> IF i <= k THEN (v \div Size(i - 1)) % Base ELSE 0]
Widened(bs, n) == [i \in 1..n |-> IF i <= Len(bs) THEN bs[i] ELSE 0]

LEMMA LowestValue ==
  ASSUME NEW v \in Nat, NEW n \in Nat, NEW k \in 0..n
  PROVE  FromLittle(Lowest(v, n, k)) = v % Size(k)
<1>1. Lowest(v, n, k) = [i \in 1..n |-> IF i <= k THEN (v \div Size(i - 1)) % Base ELSE 0]
  BY DEF Lowest
<1> QED BY <1>1, PaddedValue

(* All the bytes of a number, in a type that is wide enough for it.        *)
LEMMA CutValue ==
  ASSUME NEW w \in Nat, NEW m \in Nat, NEW n \in Nat, w < Size(m), w < Size(n),
         NEW bs, Len(bs) = m, \A i \in 1..m : bs[i] = (w \div Size(i - 1)) % Base
  PROVE  FromLittle(Widened(bs, n)) = w
<1> DEFINE k == IF m <= n THEN m ELSE n
           d == Widened(bs, n)
<1>1. k \in 0..n /\ k \in Nat /\ w < Size(k) /\ (k = m \/ (k = n /\ k < m)) OBVIOUS
<1>2. d = Lowest(w, n, k)
  <2>1. ASSUME NEW i \in 1..n PROVE d[i] = IF i <= k THEN (w \div Size(i - 1)) % Base ELSE 0
    <3>1. i <= Len(bs) <=> i <= k BY <1>1
    <3>2. i <= k => i \in 1..m BY <1>1
    <3>3. d[i] = IF i <= Len(bs) THEN bs[i] ELSE 0 BY DEF Widened
    <3> HIDE DEF d, k
    <3> QED BY <3>1, <3>2, <3>3
  <2> HIDE DEF k
  <2> QED BY <2>1 DEF Widened, Lowest
<1> HIDE DEF d, k
<1>3. FromLittle(d) = w % Size(k)
  <2>1. k \in 0..n /\ n \in Nat BY <1>1
  <2> QED BY <2>1, <1>2, LowestValue
<1>4. w % Size(k) = w
  <2> DEFINE s == Size(k)
  <2>1. s \in Nat BY <1>1, SizeNat
  <2> HIDE DEF s
  <2>2. w \in 0..(s - 1) BY <1>1, <2>1 DEF s
  <2> QED BY <2>1, <2>2, SmallMod DEF s
<1> QED BY <1>3, <1>4 DEF d

IsLittle(bs, w, m) ==
  bs \in Seq(Int) /\ Len(bs) = m /\ \A i \in 1..m : bs[i] = (w \div Size(i - 1)) % Base

(* The first of a number's bytes tells the mode.                           *)
LEMMA ShortMode ==
  ASSUME NEW v \in Nat, NEW mode \in 0..2, NEW m,
         m = (IF mode = 0 THEN 1 ELSE IF mode = 1 THEN 2 ELSE 4),
         NEW bs, IsLittle(bs, 4 * v + mode, m)
  PROVE  /\ m \in {1, 2, 4} /\ CompactLength(bs[1]) = m
         /\ 4 * v + mode \in Nat /\ (4 * v + mode) \div 4 = v
<1> DEFINE w == 4 * v + mode
<1>0. bs \in Seq(Int) /\ Len(bs) = m /\ \A i \in 1..m : bs[i] = (w \div Size(i - 1)) % Base
  BY DEF IsLittle
<1>1. w \in Nat /\ w % 4 = mode /\ w \div 4 = v
  <2>1. w \in Int /\ 4 \in Nat /\ 4 > 0 /\ v \in Int /\ mode \in 0..(4 - 1) /\ w = 4 * v + mode OBVIOUS
  <2>2. w \in Nat OBVIOUS
  <2> HIDE DEF w
  <2>3. w \div 4 = v /\ w % 4 = mode BY ONLY <2>1, DivUnique
  <2> QED BY <2>2, <2>3
<1>2. m \in {1, 2, 4} /\ m \in Nat /\ 1 \in 1..m OBVIOUS
<1> HIDE DEF w
<1>3. bs[1] = w % Base
  <2>1. bs[1] = (w \div Size(1 - 1)) % Base BY <1>0, <1>2
  <2>2. Size(1 - 1) = 1 BY SizesToFour
  <2>3. w \div 1 = w BY <1>1
  <2> QED BY <2>1, <2>2, <2>3
<1>4. bs[1] % 4 = mode
  <2> DEFINE q == w \div Base  r == w % Base  c == Base \div 4
  <2>1. q \in Int /\ r \in 0..(Base - 1) /\ w = Base * q + r BY <1>1, BaseFacts, DivMod
  <2>2. c \in Int /\ Base = 4 * c BY BaseFacts
  <2> HIDE DEF q, r, c
  <2>3. Base * q = 4 * (c * q)
    <3>1. 4 * (c * q) = (4 * c) * q BY <2>1, <2>2
    <3> QED BY <2>2, <3>1
  <2> DEFINE t == c * q
  <2>4. t \in Int /\ w = 4 * t + r BY <2>1, <2>2, <2>3
  <2> HIDE DEF t
  <2>5. r \in Int BY <2>1, BaseFacts
  <2>6. w % 4 = r % 4 BY <1>1, <2>4, <2>5
  <2> QED BY <1>1, <1>3, <2>6 DEF r
<1>5. CompactLength(bs[1]) = m
  <2>1. mode = 0 => CompactLength(bs[1]) = 1 BY <1>4 DEF CompactLength
  <2>2. mode = 1 => CompactLength(bs[1]) = 2 BY <1>4 DEF CompactLength
  <2>3. mode = 2 => CompactLength(bs[1]) = 4 BY <1>4 DEF CompactLength
  <2> QED BY <2>1, <2>2, <2>3
<1> QED BY <1>1, <1>2, <1>5 DEF w

(* The prefix of a compact number in the modes of one, two and four bytes, *)
(* and what is read back of them.                                          *)
LEMMA ShortRead ==
  ASSUME NEW v \in Nat, NEW n \in Nat, NEW mode \in 0..2, NEW m,
         m = (IF mode = 0 THEN 1 ELSE IF mode = 1 THEN 2 ELSE 4),
         4 * v + mode < Size(m), 4 * v + mode < Size(n),
         NEW bs, IsLittle(bs, 4 * v + mode, m)
  PROVE  ReadCompact(bs, n) = v
<1> DEFINE w == 4 * v + mode
<1>0. bs \in Seq(Int) /\ Len(bs) = m /\ \A i \in 1..m : bs[i] = (w \div Size(i - 1)) % Base
  BY DEF IsLittle
<1>1. m \in {1, 2, 4} /\ CompactLength(bs[1]) = m /\ w \in Nat /\ w \div 4 = v BY ShortMode
<1>2. m \in Nat BY <1>1
<1>5. CompactLength(bs[1]) = m BY <1>1
<1>6. CompactBytes(bs) = bs
  <2>1. bs \in Seq(Int) /\ Len(bs) = m BY <1>0
  <2>2. SubSeq(bs, 1, Len(bs)) = bs BY ONLY <2>1
  <2>3. m <= 4 BY <1>1
  <2> QED BY <1>5, <2>1, <2>2, <2>3 DEF CompactBytes
<1>7. FromLittle(Widened(bs, n)) = w
  <2>1. w < Size(m) /\ w < Size(n) /\ \A i \in 1..m : bs[i] = (w \div Size(i - 1)) % Base BY <1>0 DEF w
  <2> QED BY ONLY <1>0, <1>1, <1>2, <2>1, n \in Nat, CutValue
<1>8. CompactLength(bs[1]) <= 4 BY <1>1
<1> HIDE DEF w
<1>9. ReadCompact(bs, n) = w \div 4 BY <1>6, <1>7, <1>8 DEF ReadCompact, Widened
<1> QED BY <1>1, <1>9

(* The number after a prefix that counts its bytes.                        *)
LEMMA LongRead ==
  ASSUME NEW v \in Nat, NEW n \in Nat, NEW m \in Nat, m >= 4, v < Size(m), v < Size(n)
  PROVE  /\ <<4 * (m - 4) + 3>> \o LittleEndian(v, m) \in Seq(Int)
         /\ ReadCompact(<<4 * (m - 4) + 3>> \o LittleEndian(v, m), n) = v
<1> DEFINE b == 4 * (m - 4) + 3  l == LittleEndian(v, m)  bs == <<b>> \o l
<1>1. b \in Int /\ b % 4 = 3 /\ (b - 3) \div 4 = m - 4 OBVIOUS
<1>2. l \in Seq(Int) /\ Len(l) = m BY LittleInts
<1>3. \A i \in 1..m : l[i] = (v \div Size(i - 1)) % Base BY DEF LittleEndian
<1> HIDE DEF b, l
<1>4. bs \in Seq(Int) /\ bs[1] = b /\ SubSeq(bs, 2, m + 1) = l
  <2>1. bs \in Seq(Int) /\ bs[1] = b /\ Len(bs) = m + 1 /\ \A i \in 1..m : bs[i + 1] = l[i] BY <1>1, <1>2
  <2> HIDE DEF bs
  <2> DEFINE c == SubSeq(bs, 2, m + 1)
  <2>2. c \in Seq(Int) /\ Len(c) = m /\ \A i \in 1..m : c[i] = bs[i + 1] BY <2>1
  <2> HIDE DEF c
  <2>3. c = l BY <1>2, <2>1, <2>2, EqualSeqs
  <2> QED BY <2>1, <2>3 DEF c
<1> HIDE DEF bs
<1>5. CompactLength(bs[1]) = m + 1 BY <1>1, <1>4 DEF CompactLength
<1>6. CompactBytes(bs) = l BY <1>4, <1>5 DEF CompactBytes
<1>7. FromLittle(Widened(l, n)) = v BY <1>2, <1>3, CutValue
<1>8. ~(CompactLength(bs[1]) <= 4) BY <1>5
<1>9. ReadCompact(bs, n) = v BY <1>6, <1>7, <1>8 DEF ReadCompact, Widened
<1> QED BY <1>4, <1>9 DEF bs, b, l

(* A quarter of the numbers of so many bytes leaves room for the mode.     *)
LEMMA Quarter ==
  ASSUME NEW v \in Nat, NEW n \in Nat, n > 0, v < Size(n) \div 4, NEW mode \in 0..3
  PROVE  4 * v + mode < Size(n)
<1>1. Size(n) \in Nat /\ Size(n) = 4 * (Size(n) \div 4) BY SizeFacts
<1> DEFINE q == Size(n) \div 4
<1>2. q \in Int BY <1>1
<1> HIDE DEF q
<1> QED BY <1>1, <1>2 DEF q

(* The digits of a number, the first ones or all.                          *)
LEMMA DigitsLittle ==
  ASSUME NEW w \in Nat, NEW m \in {1, 2, 4}, w < Size(m),
         NEW bs, bs = [k \in 1..m |-> Digit(w, k)]
  PROVE  IsLittle(bs, w, m)
<1>1. m \in Nat /\ m > 0 OBVIOUS
<1>2. w \in Nat /\ w < Size(m) OBVIOUS
<1>3. bs = [k \in 1..m |-> Digit(w, k)] OBVIOUS
<1>4. Digit(w, 1) = (w \div Size(1 - 1)) % Base
  <2>1. Size(1 - 1) = 1 /\ w \div 1 = w BY <1>2, SizesToFour
  <2> QED BY <2>1 DEF Digit
<1>5. Digit(w, 2) = (w \div Size(2 - 1)) % Base BY SizesToFour DEF Digit
<1>6. Digit(w, 3) = (w \div Size(3 - 1)) % Base BY SizesToFour DEF Digit
<1>7. m = 4 => Digit(w, 4) = (w \div Size(4 - 1)) % Base
  <2> SUFFICES ASSUME m = 4 PROVE Digit(w, 4) = (w \div Size(4 - 1)) % Base OBVIOUS
  <2> DEFINE p == Size(3)  q == w \div p  r == w % p
  <2>1. Digit(w, 4) = w \div p BY SizesToFour DEF Digit
  <2>2. p \in Nat /\ p > 0 BY 3 \in Nat, SizeNat
  <2>3. Size(4) = Base * p
    <3>1. Size(3 + 1) = Base * Size(3) BY 3 \in Nat, SizeStep
    <3> QED BY <3>1
  <2>4. w < Base * p BY <1>2, <2>3
  <2> HIDE DEF p
  <2>5. q \in Int /\ r \in 0..(p - 1) /\ w = p * q + r BY <1>2, <2>2, DivMod
  <2> HIDE DEF q, r
  <2>6. q >= 0
    <3> SUFFICES ASSUME q <= -1 PROVE FALSE BY <2>5
    <3>1. p * q <= -p BY <2>2, <2>5
    <3>2. p * q \in Int BY <2>2, <2>5
    <3> QED BY <1>2, <2>2, <2>5, <3>1, <3>2
  <2>7. q <= Base - 1
    <3> SUFFICES ASSUME q >= Base PROVE FALSE BY <2>5, BaseFacts
    <3>1. p * q >= Base * p BY <2>2, <2>5, BaseFacts
    <3>2. p * q \in Int /\ Base * p \in Int BY <2>2, <2>5, BaseFacts
    <3> QED BY <2>2, <2>4, <2>5, <3>1, <3>2
  <2>8. q % Base = q
    <3>1. q \in 0..(Base - 1) /\ Base \in Nat BY <2>5, <2>6, <2>7, BaseFacts
    <3> QED BY <3>1, SmallMod
  <2>9. Digit(w, 4) = (w \div p) % Base BY <2>1, <2>8 DEF q
  <2> QED BY <2>9 DEF p
<1>8. ASSUME NEW i \in 1..m PROVE bs[i] = (w \div Size(i - 1)) % Base
  <2>1. bs[i] = Digit(w, i) BY <1>3
  <2>2. i = 1 \/ i = 2 \/ (m = 4 /\ (i = 3 \/ i = 4)) BY <1>1
  <2> QED BY <1>4, <1>5, <1>6, <1>7, <2>1, <2>2
<1>9. ASSUME NEW i \in 1..m PROVE bs[i] \in Int
  <2>1. i \in Nat /\ i >= 1 BY <1>1
  <2> DEFINE d == (w \div Size(i - 1)) % Base
  <2>2. d \in 0..(Base - 1) BY <1>2, <2>1, DigitByte
  <2>3. bs[i] = d BY <1>8
  <2> HIDE DEF d
  <2> QED BY <2>2, <2>3, BaseFacts
<1>10. bs \in Seq(Int) /\ Len(bs) = m
  <2>1. bs \in [1..m -> Int] BY <1>3, <1>9
  <2> QED BY <1>1, <2>1, FunctionSeq
<1> QED BY <1>8, <1>10 DEF IsLittle

(* What is in the modes of one, two and four bytes.                        *)
LEMMA ShortWritten ==
  ASSUME NEW v \in Nat, NEW mode \in 0..2, NEW m,
         m = (IF mode = 0 THEN 1 ELSE IF mode = 1 THEN 2 ELSE 4), v < Size(m) \div 4,
         NEW bs, bs = [k \in 1..m |-> Digit(4 * v + mode, k)]
  PROVE  IsLittle(bs, 4 * v + mode, m)
<1>1. m \in {1, 2, 4} /\ m \in Nat /\ m > 0 OBVIOUS
<1>2. mode \in 0..3 /\ 4 * v + mode \in Nat OBVIOUS
<1>3. 4 * v + mode < Size(m) BY <1>1, <1>2, Quarter
<1> QED BY <1>1, <1>2, <1>3, DigitsLittle

(* What a number is written as in those modes.                             *)
ShortForm(v, mode, m, bs) ==
  /\ mode \in 0..2 /\ m = (IF mode = 0 THEN 1 ELSE IF mode = 1 THEN 2 ELSE 4)
  /\ IsLittle(bs, 4 * v + mode, m) /\ 4 * v + mode < Size(m)

LEMMA EncodedShort ==
  ASSUME NEW v \in Nat, v < Size(4) \div 4
  PROVE  \E mode, m : ShortForm(v, mode, m, EncodeCompact(v))
<1> DEFINE mode == IF v < Size(1) \div 4 THEN 0 ELSE IF v < Size(2) \div 4 THEN 1 ELSE 2
           m == IF mode = 0 THEN 1 ELSE IF mode = 1 THEN 2 ELSE 4
           bs == [k \in 1..m |-> Digit(4 * v + mode, k)]
<1>2. mode \in 0..2 /\ v < Size(m) \div 4 OBVIOUS
<1>3. m \in {1, 2, 4} /\ m = (IF mode = 0 THEN 1 ELSE IF mode = 1 THEN 2 ELSE 4) OBVIOUS
<1>4. EncodeCompact(v) = bs
  <2>1. CASE v < Size(1) \div 4
    <3>1. EncodeCompact(v) = <<4 * v>> BY <2>1, SizesToFour DEF EncodeCompact
    <3>2. mode = 0 /\ m = 1 BY <2>1
    <3>3. (4 * v + 0) % Base = 4 * v
      <4>1. 4 * v + 0 < Size(1)
        <5>1. v \in Nat /\ 1 \in Nat /\ 1 > 0 /\ 0 \in 0..3 OBVIOUS
        <5> QED BY <2>1, <5>1, Quarter
      <4>2. 4 * v \in 0..(Base - 1) /\ 4 * v + 0 = 4 * v /\ Base \in Nat BY <4>1, SizesToFour, BaseFacts
      <4> DEFINE w == 4 * v
      <4> HIDE DEF w
      <4>3. w \in 0..(Base - 1) /\ Base \in Nat BY <4>2 DEF w
      <4>4. w % Base = w BY <4>3, SmallMod
      <4> QED BY <4>2, <4>4 DEF w
    <3>4. Digit(4 * v + mode, 1) = 4 * v BY <3>2, <3>3 DEF Digit
    <3>5. bs = [k \in 1..1 |-> 4 * v]
      <4>1. bs = [k \in 1..1 |-> Digit(4 * v + mode, k)] BY <3>2
      <4> HIDE DEF bs, mode
      <4> QED BY <3>4, <4>1
    <3> QED BY <3>1, <3>5
  <2>2. CASE ~(v < Size(1) \div 4) /\ v < Size(2) \div 4
    <3>1. EncodeCompact(v) = [k \in 1..2 |-> Digit(4 * v + 1, k)] BY <2>2, SizesToFour DEF EncodeCompact
    <3>2. mode = 1 /\ m = 2 BY <2>2
    <3> HIDE DEF mode, m
    <3> QED BY <3>1, <3>2
  <2>3. CASE ~(v < Size(1) \div 4) /\ ~(v < Size(2) \div 4)
    <3>1. EncodeCompact(v) = [k \in 1..4 |-> Digit(4 * v + 2, k)] BY <2>3, SizesToFour DEF EncodeCompact
    <3>2. mode = 2 /\ m = 4 BY <2>3
    <3> HIDE DEF mode, m
    <3> QED BY <3>1, <3>2
  <2> QED BY <2>1, <2>2, <2>3
<1> HIDE DEF mode, m, bs
<1>5. bs = [k \in 1..m |-> Digit(4 * v + mode, k)] BY DEF bs
<1>6. IsLittle(bs, 4 * v + mode, m)
  <2>1. v \in Nat OBVIOUS
  <2> QED BY ONLY <2>1, <1>2, <1>3, <1>5, ShortWritten
<1>7. 4 * v + mode < Size(m)
  <2>1. v \in Nat /\ m \in Nat /\ m > 0 /\ mode \in 0..3 BY <1>2, <1>3
  <2> QED BY <1>2, <2>1, Quarter
<1> QED BY <1>2, <1>3, <1>4, <1>6, <1>7 DEF ShortForm

(* A number that fits its type is what is read back.                       *)
Fits(v, n) == v < (IF n < 4 THEN Size(n) \div 4 ELSE Size(n))

LEMMA CompactCodes ==
  ASSUME NEW v \in Int, NEW n \in Nat, n > 0, WriteCompact(v) # Unset, Fits(v, n)
  PROVE  ReadCompact(WriteCompact(v), n) = v
<1>0. Size(4) \in Nat BY 4 \in Nat, SizeNat
<1>1. v >= 0 BY DEF WriteCompact
<1>2. CASE v < Size(4) \div 4
  <2>1. WriteCompact(v) = EncodeCompact(v) BY <1>1, <1>2 DEF WriteCompact
  <2> DEFINE bs == EncodeCompact(v)
  <2>2. PICK mode, m : ShortForm(v, mode, m, bs) BY <1>1, <1>2, EncodedShort
  <2>3. mode \in 0..2 /\ m = (IF mode = 0 THEN 1 ELSE IF mode = 1 THEN 2 ELSE 4) BY <2>2 DEF ShortForm
  <2>6. IsLittle(bs, 4 * v + mode, m) BY <2>2 DEF ShortForm
  <2>7. 4 * v + mode < Size(m) BY <2>2 DEF ShortForm
  <2> HIDE DEF bs
  <2>8. 4 * v + mode < Size(n)
    <3>1. CASE n < 4
      <4>1. v \in Nat /\ mode \in 0..3 /\ v < Size(n) \div 4 BY <1>1, <2>3, <3>1 DEF Fits
      <4> QED BY <4>1, Quarter
    <3>2. CASE n >= 4
      <4>1. m \in Nat /\ m <= n BY <2>3, <3>2
      <4>2. Size(m) <= Size(n) /\ Size(m) \in Nat /\ Size(n) \in Nat BY <4>1, SizeGrows, SizeNat
      <4> QED BY <2>3, <2>7, <4>2
    <3> QED BY <3>1, <3>2
  <2>9. ReadCompact(bs, n) = v
    <3>1. v \in Nat BY <1>1
    <3> QED BY <3>1, <2>3, <2>6, <2>7, <2>8, ShortRead
  <2> QED BY <2>1, <2>9 DEF bs
<1>3. CASE v >= Size(4) \div 4
  <2> DEFINE m == Digits(v)
  <2>1. Size(3) \in Nat /\ Size(3) >= 1 /\ 2 * Size(3) <= Size(4) \div 4
    <3>1. Size(3) \in Nat /\ Size(3) >= 1 BY 3 \in Nat, SizeFacts
    <3>2. Size(3 + 1) = Base * Size(3) BY 3 \in Nat, SizeStep
    <3> DEFINE p == Size(3)
    <3> HIDE DEF p
    <3>3. Base * p >= 8 * p BY <3>1, BaseFacts DEF p
    <3>4. Size(4) >= 8 * p BY <3>2, <3>3 DEF p
    <3> QED BY <1>0, <3>1, <3>4 DEF p
  <2>2. v \in Nat /\ v >= 1 /\ v >= Size(3) BY <1>0, <1>3, <2>1
  <2>3. m \in Nat /\ m >= 1 /\ v < Size(m) BY <2>2, DigitsExist
  <2>4. WriteCompact(v) = IF m - 4 > Base \div 4 - 1 THEN Unset ELSE <<4 * (m - 4) + 3>> \o LittleEndian(v, m)
    BY <1>0, <1>1, <1>3 DEF WriteCompact
  <2> HIDE DEF m
  <2>5. m >= 4
    <3> SUFFICES ASSUME m <= 3 PROVE FALSE BY <2>3
    <3>1. Size(m) <= Size(3) BY <2>3, 3 \in Nat, SizeGrows
    <3>2. Size(m) \in Nat BY <2>3, SizeNat
    <3> QED BY <2>1, <2>2, <2>3, <3>1, <3>2
  <2>6. v < Size(n)
    <3>1. CASE n < 4
      <4>1. v < Size(n) \div 4 /\ n <= 3 BY <3>1 DEF Fits
      <4>2. Size(n) <= Size(3) BY <4>1, 3 \in Nat, SizeGrows
      <4>3. Size(n) \in Nat BY SizeNat
      <4>4. Size(n) \div 4 <= Size(n) /\ Size(n) \div 4 \in Int BY <4>3
      <4> QED BY <2>1, <2>2, <4>1, <4>2, <4>3, <4>4
    <3>2. CASE n >= 4 BY <3>2 DEF Fits
    <3> QED BY <3>1, <3>2
  <2> QED BY <2>2, <2>3, <2>4, <2>5, <2>6, LongRead
<1> QED BY <1>0, <1>2, <1>3

-----------------------------------------------------------------------------
(* Numbers of two words.                                                   *)
LEMMA PowerNat ==
  ASSUME NEW b \in Nat \ {0}, NEW n \in Nat
  PROVE  Power(b, n) \in Nat /\ Power(b, n) >= 1
BY PowerStep

LEMMA PowerSum ==
  ASSUME NEW b \in Nat \ {0}, NEW i \in Nat, NEW j \in Nat
  PROVE  Power(b, i + j) = Power(b, i) * Power(b, j)
<1> DEFINE T == {k \in Nat : Power(b, i + k) = Power(b, i) * Power(b, k)}
<1>1. Power(b, i) \in Nat BY PowerNat
<1>2. 0 \in T
  <2>1. i + 0 = i /\ Power(b, 0) = 1 BY PowerStep
  <2> QED BY <1>1, <2>1
<1>3. ASSUME NEW k \in Nat, k \in T PROVE k + 1 \in T
  <2> DEFINE p == Power(b, i)  q == Power(b, k)  m == i + k
  <2>1. m \in Nat /\ i + (k + 1) = m + 1 OBVIOUS
  <2>2. Power(b, m) = p * q BY <1>3
  <2>3. Power(b, m + 1) = b * Power(b, m)
    <3> HIDE DEF m
    <3> QED BY <2>1, PowerStep
  <2>4. Power(b, k + 1) = b * q /\ q \in Nat BY PowerStep, PowerNat
  <2>5. p \in Nat BY <1>1
  <2> HIDE DEF p, q, m
  <2>6. b * (p * q) = p * (b * q) BY <2>4, <2>5
  <2>7. Power(b, i + (k + 1)) = p * Power(b, k + 1) BY ONLY <2>1, <2>2, <2>3, <2>4, <2>6
  <2> QED BY <2>7 DEF p
<1> HIDE DEF T
<1>4. j \in T BY <1>2, <1>3, SetInduction
<1> QED BY <1>4 DEF T

LEMMA PowerGrows ==
  ASSUME NEW b \in Nat \ {0}, NEW i \in Nat, NEW n \in Nat, i <= n
  PROVE  Power(b, i) <= Power(b, n)
<1> DEFINE j == n - i
<1>1. j \in Nat /\ i + j = n OBVIOUS
<1> HIDE DEF j
<1>2. Power(b, n) = Power(b, i) * Power(b, j) BY <1>1, PowerSum
<1>3. Power(b, i) \in Nat /\ Power(b, j) \in Nat /\ Power(b, j) >= 1 BY <1>1, PowerNat
<1> DEFINE p == Power(b, i)  q == Power(b, j)
<1> HIDE DEF p, q
<1>4. p * q >= p BY <1>3 DEF p, q
<1> QED BY <1>2, <1>4 DEF p, q

LEMMA RadixFacts == Radix \in Nat /\ Radix >= 16
<1>1. W \in Nat /\ 4 <= W BY WordBits
<1>2. 2 \in Nat \ {0} /\ 4 \in Nat OBVIOUS
<1>3. Power(2, 4) <= Power(2, W) BY <1>1, <1>2, PowerGrows
<1>4. Power(2, 4) = 16
  <2>1. Power(2, 0) = 1 /\ Power(2, 0 + 1) = 2 * Power(2, 0) BY <1>2, 0 \in Nat, PowerStep
  <2>2. Power(2, 1 + 1) = 2 * Power(2, 1) BY <1>2, 1 \in Nat, PowerStep
  <2>3. Power(2, 2 + 1) = 2 * Power(2, 2) BY <1>2, 2 \in Nat, PowerStep
  <2>4. Power(2, 3 + 1) = 2 * Power(2, 3) BY <1>2, 3 \in Nat, PowerStep
  <2> QED BY <2>1, <2>2, <2>3, <2>4
<1>5. Power(2, W) \in Nat BY <1>1, <1>2, PowerNat
<1> QED BY <1>3, <1>4, <1>5 DEF Radix

LEMMA WordParts ==
  ASSUME NEW u \in TwoWords
  PROVE  /\ u.lo \in 0..(Radix - 1) /\ u.hi \in 0..(Radix - 1) /\ u = U(u.lo, u.hi)
         /\ u.lo \in Nat /\ u.hi \in Nat
         /\ Num(u) = u.lo + Radix * u.hi /\ Num(u) \in Nat /\ Num(u) < Radix * Radix
<1>1. u.lo \in 0..(Radix - 1) /\ u.hi \in 0..(Radix - 1) /\ u = U(u.lo, u.hi) BY DEF TwoWords, U
<1> DEFINE l == u.lo  h == u.hi
<1>2. Num(u) = l + Radix * h BY DEF Num
<1>3. l \in Nat /\ h \in Nat /\ l < Radix /\ h <= Radix - 1 /\ Radix \in Nat BY <1>1, RadixFacts
<1> HIDE DEF l, h
<1>4. Radix * h \in Nat /\ Radix * h <= Radix * (Radix - 1) BY <1>3
<1>5. Radix * (Radix - 1) = Radix * Radix - Radix /\ Radix * Radix \in Nat BY <1>3
<1>6. Num(u) \in Nat /\ Num(u) < Radix * Radix BY <1>2, <1>3, <1>4, <1>5
<1> QED BY <1>1, <1>2, <1>3, <1>6 DEF l, h

IsTwo(x, l, r, h) == x = l + r * h

LEMMA LowHigh ==
  ASSUME NEW r \in Nat, r > 0, NEW l \in 0..(r - 1), NEW h \in Int, NEW x, IsTwo(x, l, r, h)
  PROVE  x \in Int /\ x % r = l /\ x \div r = h /\ x % (r * r) = l + r * (h % r)
<1>1. l \in Int OBVIOUS
<1>2. r * h \in Int OBVIOUS
<1>3. x \in Int /\ x = r * h + l BY <1>1, <1>2 DEF IsTwo
<1>4. x % r = l /\ x \div r = h BY ONLY <1>3, DivUnique, r \in Nat, r > 0, l \in 0..(r - 1), h \in Int
<1>5. x % (r * r) = (x % r) + ((x \div r) % r) * r BY <1>3, ModStep
<1> DEFINE m == h % r
<1>6. m \in Int BY DivMod
<1> HIDE DEF m
<1>7. m * r = r * m BY <1>6
<1> QED BY <1>3, <1>4, <1>5, <1>7 DEF m

(* Two words that are the number modulo all there are.                     *)
LEMMA WordsOf ==
  ASSUME NEW l \in 0..(Radix - 1), NEW h \in Int
  PROVE  /\ U(l, h % Radix) \in TwoWords
         /\ Num(U(l, h % Radix)) = (l + Radix * h) % (Radix * Radix)
<1>1. Radix \in Nat /\ Radix > 0 BY RadixFacts
<1>2. h % Radix \in 0..(Radix - 1) BY <1>1, DivMod
<1>3. U(l, h % Radix) \in TwoWords BY <1>2 DEF U, TwoWords
<1>4. Num(U(l, h % Radix)) = l + Radix * (h % Radix) BY DEF Num, U
<1> DEFINE x == l + Radix * h
<1>5. IsTwo(x, l, Radix, h) BY DEF IsTwo
<1> HIDE DEF x
<1>6. x % (Radix * Radix) = l + Radix * (h % Radix) BY <1>1, <1>5, LowHigh
<1> QED BY <1>3, <1>4, <1>5, <1>6 DEF x

LEMMA AddExact ==
  ASSUME NEW u \in TwoWords, NEW v \in TwoWords
  PROVE  Add(u, v) \in TwoWords /\ Num(Add(u, v)) = (Num(u) + Num(v)) % (Radix * Radix)
<1> DEFINE a == u.lo  b == u.hi  c == v.lo  d == v.hi  s == a + c  l == s % Radix  k == s \div Radix  h == b + d + k
<1>1. Radix \in Nat /\ Radix > 0 BY RadixFacts
<1>2. a \in Nat /\ b \in Nat /\ c \in Nat /\ d \in Nat /\ Num(u) = a + Radix * b /\ Num(v) = c + Radix * d
  BY WordParts
<1>3. Add(u, v) = U(l, h % Radix)
  <2>1. Add64(a, c, 0).sum = (a + c + 0) % Radix /\ Add64(a, c, 0).carry = (a + c + 0) \div Radix BY DEF Add64
  <2>2. a + c + 0 = s BY <1>2
  <2>3. Add(u, v) = U(l, (b + d + k) % Radix) BY <2>1, <2>2 DEF Add, Add64
  <2> QED BY <2>3
<1> HIDE DEF a, b, c, d
<1>4. s \in Int BY <1>2
<1> HIDE DEF s
<1>5. l \in 0..(Radix - 1) /\ k \in Int /\ s = Radix * k + l BY <1>1, <1>4, DivMod
<1> HIDE DEF l, k
<1>6. h \in Int BY <1>2, <1>5
<1>7. Num(u) + Num(v) = l + Radix * h
  <2>1. Radix * (b + d + k) = Radix * b + Radix * d + Radix * k BY <1>1, <1>2, <1>5
  <2>2. Radix * b \in Int /\ Radix * d \in Int /\ Radix * k \in Int /\ l \in Int BY <1>1, <1>2, <1>5
  <2>3. a + c = Radix * k + l BY <1>5 DEF s
  <2> QED BY <1>2, <2>1, <2>2, <2>3
<1> HIDE DEF h
<1> QED BY <1>3, <1>5, <1>6, <1>7, WordsOf

LEMMA SubExact ==
  ASSUME NEW u \in TwoWords, NEW v \in TwoWords
  PROVE  Sub(u, v) \in TwoWords /\ Num(Sub(u, v)) = (Num(u) - Num(v)) % (Radix * Radix)
<1> DEFINE a == u.lo  b == u.hi  c == v.lo  d == v.hi  s == a - c  l == s % Radix
           k == IF a < c THEN 1 ELSE 0  h == b - d - k
<1>1. Radix \in Nat /\ Radix > 0 BY RadixFacts
<1>2. /\ a \in Nat /\ b \in Nat /\ c \in Nat /\ d \in Nat /\ Num(u) = a + Radix * b /\ Num(v) = c + Radix * d
      /\ a < Radix /\ c < Radix
  BY <1>1, WordParts
<1>3. Sub(u, v) = U(l, h % Radix)
  <2>1. Sub64(a, c, 0).diff = (a - c - 0) % Radix /\ Sub64(a, c, 0).borrow = (IF a < c + 0 THEN 1 ELSE 0) BY DEF Sub64
  <2>2. a - c - 0 = s /\ c + 0 = c BY <1>2
  <2>3. Sub(u, v) = U(l, (b - d - k) % Radix) BY <2>1, <2>2 DEF Sub, Sub64
  <2> QED BY <2>3
<1> HIDE DEF a, b, c, d
<1>4. l \in 0..(Radix - 1) /\ s = l - Radix * k /\ k \in Int
  <2>1. s \in Int /\ k \in Int BY <1>2
  <2>2. CASE a < c
    <3>1. s = Radix * (-1) + (s + Radix) /\ s + Radix \in 0..(Radix - 1) BY <1>1, <1>2, <2>2
    <3>2. k = 1 BY <2>2
    <3> HIDE DEF s, k
    <3>3. s % Radix = s + Radix BY <1>1, <2>1, <3>1, DivUnique
    <3> QED BY <1>1, <2>1, <3>1, <3>2, <3>3
  <2>3. CASE ~(a < c)
    <3>1. s \in 0..(Radix - 1) BY <1>1, <1>2, <2>3
    <3>2. k = 0 BY <2>3
    <3> HIDE DEF s, k
    <3>3. s % Radix = s BY <1>1, <3>1, SmallMod
    <3> QED BY <1>1, <2>1, <3>1, <3>2, <3>3
  <2> QED BY <2>2, <2>3
<1> HIDE DEF l, k
<1>5. h \in Int BY <1>2, <1>4
<1>6. Num(u) - Num(v) = l + Radix * h
  <2>1. Radix * (b - d - k) = Radix * b - Radix * d - Radix * k BY <1>1, <1>2, <1>4
  <2>2. Radix * b \in Int /\ Radix * d \in Int /\ Radix * k \in Int /\ l \in Int BY <1>1, <1>2, <1>4
  <2> QED BY <1>2, <1>4, <2>1, <2>2
<1> HIDE DEF h
<1> QED BY <1>3, <1>4, <1>5, <1>6, WordsOf

LEMMA MulExact ==
  ASSUME NEW u \in TwoWords, NEW v \in TwoWords
  PROVE  Mul(u, v) \in TwoWords /\ Num(Mul(u, v)) = (Num(u) * Num(v)) % (Radix * Radix)
<1> DEFINE a == u.lo  b == u.hi  c == v.lo  d == v.hi  s == a * c  l == s % Radix  k == s \div Radix
           g == k + b * c + a * d  h == g + Radix * (b * d)
<1>1. Radix \in Nat /\ Radix > 0 BY RadixFacts
<1>2. a \in Nat /\ b \in Nat /\ c \in Nat /\ d \in Nat /\ Num(u) = a + Radix * b /\ Num(v) = c + Radix * d
  BY WordParts
<1>3. Mul(u, v) = U(l, g % Radix) BY DEF Mul, Mul64, U
<1> HIDE DEF a, b, c, d
<1>4. s \in Int /\ b * c \in Int /\ a * d \in Int /\ b * d \in Int BY <1>2
<1>5. l \in 0..(Radix - 1) /\ k \in Int /\ s = Radix * k + l
  <2> HIDE DEF s
  <2> QED BY <1>1, <1>4, DivMod
<1> HIDE DEF l, k
<1>6. g \in Int BY <1>4, <1>5
<1>7. h \in Int /\ h % Radix = g % Radix
  <2> DEFINE e == b * d  q == g \div Radix  r == g % Radix
  <2>0. e \in Int BY <1>4
  <2> HIDE DEF g, e
  <2>1. q \in Int /\ r \in 0..(Radix - 1) /\ g = Radix * q + r BY <1>1, <1>6, DivMod
  <2> HIDE DEF q, r
  <2>2. h = g + Radix * e BY DEF e
  <2> HIDE DEF h
  <2>3. Radix * (q + e) = Radix * q + Radix * e /\ q + e \in Int BY <1>1, <2>0, <2>1
  <2>4. Radix * q \in Int /\ Radix * e \in Int /\ r \in Int BY <1>1, <2>0, <2>1
  <2>5. h = Radix * (q + e) + r /\ h \in Int BY <2>1, <2>2, <2>3, <2>4
  <2>6. h % Radix = r BY <1>1, <2>1, <2>3, <2>5, DivUnique
  <2> QED BY <2>5, <2>6 DEF r
<1>8. Num(u) * Num(v) = l + Radix * h
  <2>1. (a + Radix * b) * (c + Radix * d) = a * c + Radix * (b * c + a * d + Radix * (b * d)) BY <1>1, <1>2
  <2>2. a * c = Radix * k + l BY <1>5 DEF s
  <2> DEFINE e == b * c + a * d + Radix * (b * d)
  <2>3. e \in Int BY <1>1, <1>4
  <2>4. h = k + e BY <1>1, <1>4, <1>5
  <2> HIDE DEF e, h
  <2>5. Radix * (k + e) = Radix * k + Radix * e BY <1>1, <1>5, <2>3
  <2>6. Radix * k \in Int /\ Radix * e \in Int /\ l \in Int BY <1>1, <1>5, <2>3
  <2>7. (a + Radix * b) * (c + Radix * d) = a * c + Radix * e BY <2>1 DEF e
  <2> QED BY <1>2, <2>2, <2>4, <2>5, <2>6, <2>7
<1> HIDE DEF g, h
<1> QED BY <1>3, <1>5, <1>7, <1>8, WordsOf

LEMMA CmpExact ==
  ASSUME NEW u \in TwoWords, NEW v \in TwoWords
  PROVE  /\ Cmp(u, v) = IF Num(u) < Num(v) THEN -1 ELSE IF Num(u) = Num(v) THEN 0 ELSE 1
         /\ u = v <=> Num(u) = Num(v)
<1> DEFINE a == u.lo  b == u.hi  c == v.lo  d == v.hi
<1>1. Radix \in Nat /\ Radix > 0 BY RadixFacts
<1>2. /\ a \in Nat /\ b \in Nat /\ c \in Nat /\ d \in Nat /\ Num(u) = a + Radix * b /\ Num(v) = c + Radix * d
      /\ a < Radix /\ c < Radix
  BY <1>1, WordParts
<1>3. u = v <=> a = c /\ b = d BY WordParts
<1>4. Cmp(u, v) = IF u = v THEN 0 ELSE IF b < d \/ (b = d /\ a < c) THEN -1 ELSE 1 BY DEF Cmp
<1> HIDE DEF a, b, c, d
<1> DEFINE x == Radix * b  y == Radix * d
<1>5. x \in Int /\ y \in Int BY <1>1, <1>2
<1>6. b < d => x + Radix <= y BY <1>1, <1>2
<1>7. d < b => y + Radix <= x BY <1>1, <1>2
<1>8. b = d => x = y OBVIOUS
<1>9. Num(u) = a + x /\ Num(v) = c + y BY <1>2
<1> HIDE DEF x, y
<1>10. u = v <=> Num(u) = Num(v) BY <1>1, <1>2, <1>3, <1>5, <1>6, <1>7, <1>8, <1>9
<1>11. Num(u) < Num(v) <=> b < d \/ (b = d /\ a < c) BY <1>1, <1>2, <1>5, <1>6, <1>7, <1>8, <1>9
<1>12. Num(u) \in Int /\ Num(v) \in Int BY <1>1, <1>2, <1>5, <1>9
<1> QED BY <1>4, <1>10, <1>11, <1>12

-----------------------------------------------------------------------------
(* Division by one word.                                                   *)
LEMMA QuotientBelow ==
  ASSUME NEW a \in Nat, NEW b \in Nat, b > 0, NEW m \in Nat, a < b * m
  PROVE  a \div b \in 0..(m - 1) /\ a \div b <= a /\ a % b \in 0..(b - 1)
<1> DEFINE q == a \div b  r == a % b
<1>1. q \in Int /\ r \in 0..(b - 1) /\ a = b * q + r BY DivMod
<1> HIDE DEF q, r
<1>2. q >= 0
  <2> SUFFICES ASSUME q <= -1 PROVE FALSE BY <1>1
  <2>1. b * q <= -b BY <1>1
  <2> QED BY <1>1, <2>1
<1>3. q < m
  <2> SUFFICES ASSUME q >= m PROVE FALSE BY <1>1
  <2>1. b * q >= b * m BY <1>1
  <2>2. b * q \in Int /\ b * m \in Int BY <1>1
  <2> QED BY <1>1, <2>1, <2>2
<1>4. q <= a
  <2>1. b * q >= q BY <1>1, <1>2
  <2>2. b * q \in Int BY <1>1
  <2> QED BY <1>1, <2>1, <2>2
<1> QED BY <1>1, <1>2, <1>3, <1>4 DEF q, r

(* One division of two words of which the high one is less than the divisor.*)
LEMMA WordDivision ==
  ASSUME NEW hi \in Nat, NEW lo \in 0..(Radix - 1), NEW v \in Nat, hi < v
  PROVE  /\ Div64(hi, lo, v).q \in 0..(Radix - 1) /\ Div64(hi, lo, v).r \in 0..(v - 1)
         /\ hi * Radix + lo = v * Div64(hi, lo, v).q + Div64(hi, lo, v).r
         /\ Div64(hi, lo, v).q <= hi * Radix + lo
<1>1. Radix \in Nat /\ Radix > 0 BY RadixFacts
<1> DEFINE x == hi * Radix + lo
<1>2. x \in Nat /\ x < v * Radix
  <2>1. hi * Radix \in Nat BY <1>1
  <2>2. hi * Radix <= (v - 1) * Radix BY <1>1
  <2>3. (v - 1) * Radix = v * Radix - Radix /\ v * Radix \in Nat BY <1>1
  <2> QED BY <1>1, <2>1, <2>2, <2>3
<1>3. Div64(hi, lo, v).q = x \div v /\ Div64(hi, lo, v).r = x % v BY DEF Div64
<1> HIDE DEF x
<1>4. v > 0 BY DEF x
<1>5. x \div v \in 0..(Radix - 1) /\ x \div v <= x /\ x % v \in 0..(v - 1) BY ONLY <1>1, <1>2, <1>4, QuotientBelow, v \in Nat
<1>6. x = v * (x \div v) + (x % v) BY <1>2, <1>4, DivMod
<1> QED BY <1>3, <1>5, <1>6 DEF x

(* The quotient and the remainder of two words by one.                     *)
Divides(u, v, q, r) == /\ q \in TwoWords /\ Num(q) = Num(u) \div v /\ r = Num(u) % v
                       /\ Num(u) = v * Num(q) + r /\ r \in 0..(v - 1)

LEMMA QuoRem64Exact ==
  ASSUME NEW u \in TwoWords, NEW v \in Nat, v > 0
  PROVE  Divides(u, v, QuoRem64(u, v).q, QuoRem64(u, v).r)
<1> DEFINE a == u.lo  b == u.hi
<1>1. Radix \in Nat /\ Radix > 0 BY RadixFacts
<1>2. a \in 0..(Radix - 1) /\ b \in 0..(Radix - 1) /\ a \in Nat /\ b \in Nat /\ Num(u) = a + Radix * b /\ Num(u) \in Nat BY WordParts
<1>3. CASE b < v
  <2> DEFINE d == Div64(b, a, v)
  <2>1. QuoRem64(u, v) = [q |-> U(d.q, 0), r |-> d.r] BY <1>3 DEF QuoRem64
  <2> HIDE DEF a, b
  <2>2. d.q \in 0..(Radix - 1) /\ d.r \in 0..(v - 1) /\ b * Radix + a = v * d.q + d.r
    BY <1>2, <1>3, WordDivision
  <2> DEFINE q == d.q  r == d.r
  <2>3. U(q, 0) \in TwoWords BY <1>1, <2>2 DEF TwoWords, U
  <2>4. Num(U(q, 0)) = q + Radix * 0 BY DEF Num, U
  <2>5. q \in Int /\ q \in 0..(Radix - 1) /\ r \in 0..(v - 1) /\ b * Radix + a = v * q + r BY <2>2
  <2>6. QuoRem64(u, v).q = U(q, 0) /\ QuoRem64(u, v).r = r BY <2>1
  <2> HIDE DEF q, r
  <2>7. Num(U(q, 0)) = q BY <1>1, <2>4, <2>5
  <2>8. b * Radix = Radix * b BY <1>1, <1>2
  <2>9. Num(u) = v * q + r BY <1>1, <1>2, <2>5, <2>8
  <2> DEFINE x == Num(u)
  <2>10. x \in Int /\ x = v * q + r BY <1>2, <2>9
  <2>11. q \in Int /\ r \in 0..(v - 1) BY <2>5
  <2> HIDE DEF x
  <2>12. x \div v = q /\ x % v = r BY ONLY <2>10, <2>11, DivUnique, v \in Nat, v > 0
  <2>13. Num(u) \div v = q /\ Num(u) % v = r BY <2>12 DEF x
  <2> QED BY <2>3, <2>5, <2>6, <2>7, <2>9, <2>13 DEF Divides
<1>4. CASE ~(b < v)
  <2> DEFINE h == Div64(0, b, v)  l == Div64(h.r, a, v)
  <2>1. QuoRem64(u, v) = [q |-> U(l.q, h.q), r |-> l.r] BY <1>4 DEF QuoRem64
  <2> HIDE DEF a, b
  <2>2. h.q \in 0..(Radix - 1) /\ h.r \in 0..(v - 1) /\ 0 * Radix + b = v * h.q + h.r
    BY <1>2, WordDivision
  <2> DEFINE m == h.q  n == h.r
  <2>3. m \in 0..(Radix - 1) /\ m \in Nat /\ n \in Nat /\ n < v /\ 0 * Radix + b = v * m + n BY <2>2
  <2>4. l = Div64(n, a, v) OBVIOUS
  <2> HIDE DEF l, n
  <2>5. l.q \in 0..(Radix - 1) /\ l.r \in 0..(v - 1) /\ n * Radix + a = v * l.q + l.r
    BY <1>2, <2>3, <2>4, WordDivision
  <2> DEFINE q == l.q  r == l.r
  <2>6. q \in 0..(Radix - 1) /\ q \in Nat /\ r \in 0..(v - 1) /\ n * Radix + a = v * q + r BY <2>5
  <2>7. QuoRem64(u, v).q = U(q, m) /\ QuoRem64(u, v).r = r BY <2>1
  <2> HIDE DEF q, r, m
  <2>8. U(q, m) \in TwoWords BY <2>3, <2>6 DEF U, TwoWords
  <2>9. Num(U(q, m)) = q + Radix * m BY DEF Num, U
  <2> DEFINE x == q + Radix * m
  <2>10. Num(u) = v * x + r
    <3>1. b = v * m + n BY <1>1, <1>2, <2>3
    <3>2. Radix * (v * m + n) = Radix * (v * m) + n * Radix BY <1>1, <2>3
    <3>3. v * (q + Radix * m) = v * q + v * (Radix * m) BY <1>1, <2>3, <2>6
    <3>4. v * (Radix * m) = Radix * (v * m) BY <1>1, <2>3
    <3>5. v * q \in Int /\ Radix * (v * m) \in Int /\ n * Radix \in Int BY <1>1, <2>3, <2>6
    <3> QED BY <1>2, <2>6, <3>1, <3>2, <3>3, <3>4, <3>5
  <2>11. x \in Int /\ Num(u) \in Int /\ r \in 0..(v - 1) BY <1>1, <1>2, <2>3, <2>6
  <2> HIDE DEF x
  <2>12. Num(u) \div v = x /\ Num(u) % v = r
    BY ONLY <2>10, <2>11, DivUnique, v \in Nat, v > 0
  <2> QED BY <2>6, <2>7, <2>8, <2>9, <2>10, <2>12 DEF Divides, x
<1> QED BY <1>3, <1>4

-----------------------------------------------------------------------------
(* How many digits of a base a number has.                                 *)
LEMMA Magnitude ==
  ASSUME NEW b \in Nat \ {0}, NEW m \in Nat, NEW x \in Nat, x >= 1, x < Power(b, m)
  PROVE  \E k \in 0..(m - 1) : Power(b, k) <= x /\ x < Power(b, k + 1)
<1> DEFINE Has(i) == \E k \in 0..(i - 1) : Power(b, k) <= x /\ x < Power(b, k + 1)
           T == {i \in Nat : x < Power(b, i) => Has(i)}
<1>1. 0 \in T
  <2>1. Power(b, 0) = 1 BY 0 \in Nat, PowerStep
  <2> QED BY <2>1
<1>2. ASSUME NEW i \in Nat, i \in T PROVE i + 1 \in T
  <2> SUFFICES ASSUME x < Power(b, i + 1) PROVE Has(i + 1) OBVIOUS
  <2>1. CASE x < Power(b, i)
    <3>1. PICK k \in 0..(i - 1) : Power(b, k) <= x /\ x < Power(b, k + 1) BY <1>2, <2>1
    <3>2. k \in 0..((i + 1) - 1) OBVIOUS
    <3> QED BY <3>1, <3>2
  <2>2. CASE ~(x < Power(b, i))
    <3>1. Power(b, i) \in Nat BY PowerNat
    <3>2. Power(b, i) <= x BY <2>2, <3>1
    <3>3. i \in 0..((i + 1) - 1) OBVIOUS
    <3> QED BY <3>2, <3>3
  <2> QED BY <2>1, <2>2
<1> HIDE DEF T
<1>3. m \in T BY <1>1, <1>2, SetInduction
<1> QED BY <1>3 DEF T

LEMMA LeadingZerosOf ==
  ASSUME NEW x \in 1..(Radix - 1)
  PROVE  LET n == LeadingZeros(x) IN
         /\ n \in 0..(W - 1) /\ x < Power(2, W - n) /\ x >= Power(2, W - 1 - n)
<1> DEFINE n == LeadingZeros(x)
<1>1. W \in Nat /\ 2 \in Nat \ {0} BY WordBits
<1>2. x \in Nat /\ x >= 1 /\ x < Power(2, W) BY RadixFacts DEF Radix
<1>3. PICK k \in 0..(W - 1) : Power(2, k) <= x /\ x < Power(2, k + 1) BY <1>1, <1>2, Magnitude
<1> DEFINE Is(m) == x < Power(2, W - m) /\ (m = W \/ x >= Power(2, W - m - 1))
<1>4. \E m \in 0..W : Is(m)
  <2> DEFINE m == W - 1 - k
  <2>1. m \in 0..W /\ W - m = k + 1 /\ W - m - 1 = k BY <1>1
  <2> HIDE DEF m
  <2>2. Is(m) BY <1>3, <2>1
  <2> QED BY <2>1, <2>2
<1>5. n = CHOOSE m \in 0..W : Is(m) BY DEF LeadingZeros
<1> HIDE DEF n
<1>6. n \in 0..W /\ Is(n)
  <2> HIDE DEF Is
  <2> QED BY <1>4, <1>5
<1>7. n # W
  <2>1. SUFFICES ASSUME n = W PROVE FALSE OBVIOUS
  <2>2. W - n = 0 BY <1>1, <2>1
  <2>3. Power(2, 0) = 1 BY <1>1, 0 \in Nat, PowerStep
  <2> QED BY <1>2, <1>6, <2>2, <2>3
<1>8. n \in 0..(W - 1) /\ W - n - 1 = W - 1 - n BY <1>1, <1>6, <1>7
<1> QED BY <1>6, <1>7, <1>8 DEF n

(* The powers of two that a shift by n splits a word into.                 *)
Splits(n, p, h) == /\ p = Power(2, n) /\ h = Power(2, W - 1 - n) /\ Power(2, W - n) = 2 * h
                   /\ p \in Nat /\ h \in Nat /\ p >= 1 /\ h >= 1 /\ Radix = p * (2 * h)

LEMMA SplitAt ==
  ASSUME NEW n \in 0..(W - 1)
  PROVE  Splits(n, Power(2, n), Power(2, W - 1 - n))
<1> DEFINE m == W - 1 - n  p == Power(2, n)  h == Power(2, m)
<1>1. W \in Nat /\ n \in Nat /\ m \in Nat /\ 2 \in Nat \ {0} /\ W - n = m + 1 /\ W = n + (m + 1) BY WordBits
<1> HIDE DEF m
<1>2. Power(2, W - n) = 2 * h BY <1>1, PowerStep
<1>3. p \in Nat /\ p >= 1 /\ h \in Nat /\ h >= 1 BY <1>1, PowerNat
<1>4. Radix = p * Power(2, m + 1)
  <2>1. m + 1 \in Nat BY <1>1
  <2>2. Power(2, n + (m + 1)) = p * Power(2, m + 1) BY <1>1, <2>1, PowerSum
  <2> QED BY <1>1, <2>2 DEF Radix
<1>5. Radix = p * (2 * h) BY <1>1, <1>2, <1>4
<1> QED BY <1>2, <1>3, <1>5 DEF m, Splits

(* The high word of a divisor that was shifted to its first bit.           *)
LEMMA HighBits ==
  ASSUME NEW v \in TwoWords, NEW n \in 0..(W - 1), NEW p, NEW h, Splits(n, p, h),
         v.hi < 2 * h, v.hi >= h
  PROVE  LET d == Lsh(v, n).hi  k == 2 * h IN
         d \in Nat /\ d < Radix /\ d >= h * p /\ Num(v) = k * d + (v.lo % k) /\ v.lo % k \in 0..(k - 1)
<1> DEFINE a == v.lo  b == v.hi  k == 2 * h  s == b * p  f == a \div k  e == a % k
<1>1. Radix \in Nat /\ Radix > 0 BY RadixFacts
<1>2. a \in Nat /\ b \in Nat /\ Num(v) = a + Radix * b /\ a < Radix /\ b >= h /\ b < k BY <1>1, WordParts
<1>3. p \in Nat /\ p >= 1 /\ h \in Nat /\ h >= 1 /\ Radix = p * k BY DEF Splits
<1>4. Lsh(v, n).hi = (s % Radix) + f
  <2>1. W \in Nat /\ ~(n > W) BY WordBits
  <2> QED BY <2>1 DEF Lsh, U, Splits
<1> HIDE DEF a, b
<1>5. k \in Nat /\ k > 0 /\ a < k * p
  <2>1. p * k = k * p BY <1>3
  <2> QED BY <1>2, <1>3, <2>1
<1> HIDE DEF k
<1>6. f \in 0..(p - 1) /\ e \in 0..(k - 1) /\ a = k * f + e BY <1>2, <1>3, <1>5, QuotientBelow, DivMod
<1> HIDE DEF f, e
<1>7. s \in Nat /\ s >= h * p /\ s <= Radix - p
  <2>1. s \in Nat BY <1>2, <1>3
  <2>2. s >= h * p BY <1>2, <1>3
  <2>3. s <= (k - 1) * p BY <1>2, <1>3, <1>5
  <2>4. (k - 1) * p = p * k - p BY <1>3, <1>5
  <2> QED BY <1>3, <2>1, <2>2, <2>3, <2>4
<1>8. s % Radix = s
  <2> HIDE DEF s
  <2>1. s \in 0..(Radix - 1) BY <1>1, <1>3, <1>7
  <2> QED BY <1>1, <2>1, SmallMod
<1> DEFINE d == s + f
<1>9. d \in Nat /\ d < Radix /\ d >= h * p BY <1>1, <1>3, <1>6, <1>7
<1>10. Num(v) = k * d + e
  <2>1. k * (b * p + f) = (p * k) * b + k * f BY <1>2, <1>3, <1>5, <1>6
  <2>2. (p * k) * b \in Int /\ k * f \in Int /\ e \in Int BY <1>2, <1>3, <1>5, <1>6
  <2> QED BY <1>2, <1>3, <1>6, <2>1, <2>2
<1> QED BY <1>4, <1>6, <1>8, <1>9, <1>10 DEF k, e, a

(* Half of a number of two words.                                          *)
LEMMA Halved ==
  ASSUME NEW u \in TwoWords
  PROVE  LET y == Rsh(u, 1) IN
         /\ y.hi \in Nat /\ 2 * y.hi < Radix /\ y.lo \in 0..(Radix - 1)
         /\ y.hi * Radix + y.lo = Num(u) \div 2
<1> DEFINE a == u.lo  b == u.hi  m == W - 1  z == Power(2, m)
<1>1. Radix \in Nat /\ Radix > 0 /\ W \in Nat /\ W >= 4 /\ 2 \in Nat \ {0} BY RadixFacts, WordBits
<1>2. a \in Nat /\ b \in Nat /\ Num(u) = a + Radix * b /\ a < Radix /\ b < Radix /\ Num(u) \in Nat BY <1>1, WordParts
<1>3. z \in Nat /\ Radix = 2 * z
  <2>1. m \in Nat /\ m + 1 = W BY <1>1
  <2> HIDE DEF m
  <2>2. Power(2, m) \in Nat \ {0} /\ Power(2, m + 1) = 2 * Power(2, m) BY <1>1, <2>1, PowerStep
  <2> QED BY <2>1, <2>2 DEF Radix
<1>4. Power(2, 1) = 2
  <2>1. Power(2, 0) = 1 /\ Power(2, 0 + 1) = 2 * Power(2, 0) BY <1>1, 0 \in Nat, PowerStep
  <2> QED BY <2>1
<1>5. Rsh(u, 1) = U(a \div 2 + ((b * z) % Radix), b \div 2)
  <2>1. ~(1 > W) BY <1>1
  <2> QED BY <1>4, <2>1 DEF Rsh
<1> HIDE DEF a, b, z
<1> DEFINE g == b \div 2  t == b % 2  i == a \div 2  j == a % 2
<1>6. /\ g \in Nat /\ t \in 0..1 /\ b = 2 * g + t
      /\ i \in Nat /\ j \in 0..1 /\ a = 2 * i + j
  BY <1>2
<1> HIDE DEF g, t, i, j
<1>7. (b * z) % Radix = t * z
  <2> DEFINE x == b * z  c == t * z
  <2>1. x = Radix * g + c /\ x \in Int
    <3>1. (2 * g + t) * z = (2 * z) * g + t * z BY <1>3, <1>6
    <3> QED BY <1>2, <1>3, <1>6, <3>1
  <2>2. c \in 0..(Radix - 1) BY <1>1, <1>3, <1>6
  <2> HIDE DEF x, c
  <2>3. x % Radix = c BY <1>1, <1>6, <2>1, <2>2, DivUnique
  <2> QED BY <2>3 DEF x, c
<1>8. t * z \in Int /\ (t = 0 => t * z = 0) /\ (t = 1 => t * z = z) BY <1>3, <1>6
<1> DEFINE l == i + t * z
<1>9. l \in 0..(Radix - 1) BY <1>1, <1>2, <1>3, <1>6, <1>8
<1>10. Num(u) = 2 * (g * Radix + l) + j
  <2>1. Radix * (2 * g + t) = 2 * (g * Radix) + 2 * (t * z) BY <1>1, <1>3, <1>6
  <2>2. g * Radix \in Int BY <1>1, <1>6
  <2> QED BY <1>2, <1>6, <1>8, <2>1, <2>2
<1>11. Num(u) \div 2 = g * Radix + l
  <2> DEFINE x == Num(u)  w == g * Radix + l
  <2>1. w \in Int /\ x \in Int /\ x = 2 * w + j BY <1>1, <1>2, <1>6, <1>9, <1>10
  <2> HIDE DEF x, w
  <2>2. x \div 2 = w BY <1>6, <2>1
  <2> QED BY <2>2 DEF x, w
<1>12. Rsh(u, 1) = U(l, g) BY <1>5, <1>7 DEF g, i
<1>13. 2 * g < Radix BY <1>1, <1>2, <1>6
<1> HIDE DEF l
<1>14. Rsh(u, 1).lo = l /\ Rsh(u, 1).hi = g BY <1>12 DEF U
<1> QED BY <1>6, <1>9, <1>11, <1>13, <1>14

-----------------------------------------------------------------------------
(* A divisor of which the low bits are left out: h is half of what they    *)
(* count to, and p times twice h the radix.                                *)
LEMMA TrialNear ==
  ASSUME NEW x \in Nat, NEW p \in Nat, NEW h \in Nat, p >= 1, h >= 1, NEW r, r = p * (2 * h), x < r * r,
         NEW g \in Nat, g >= h * p, NEW e \in 0..(2 * h - 1),
         NEW d, d = (2 * h) * g, NEW v, v = d + e, v >= r * h
  PROVE  /\ d \in Nat /\ d > 0 /\ v \in Nat /\ v > 0
         /\ x \div v \in Nat /\ x \div v < r
         /\ x \div d = x \div v \/ x \div d = (x \div v) + 1
<1> DEFINE k == 2 * h
<1>1. k \in Nat /\ k >= 2 /\ r = p * k /\ d = k * g /\ e \in 0..(k - 1) OBVIOUS
<1>2. h * p \in Nat /\ h * p >= 1 OBVIOUS
<1>3. d \in Nat /\ d >= k * (h * p) BY <1>1, <1>2
<1>4. r \in Nat /\ r >= 1
  <2>1. p * k >= 1 /\ p * k \in Nat BY <1>1
  <2> QED BY <1>1, <2>1
<1>5. k * (h * p) = r * h /\ r * h \in Nat /\ r * h >= r
  <2>1. k * (h * p) = (p * k) * h BY <1>1
  <2>2. r * h >= r BY <1>4
  <2>3. r * h \in Nat BY <1>4
  <2> QED BY <1>1, <2>1, <2>2, <2>3
<1>6. d > 0 /\ v \in Nat /\ v > 0 /\ d <= v /\ v < d + k /\ v >= r
  BY <1>1, <1>3, <1>4, <1>5
<1> DEFINE q == x \div v  w == x % v  t == x \div d  s == x % d
<1>7. q \in Int /\ w \in 0..(v - 1) /\ x = v * q + w BY <1>6, DivMod
<1>8. t \in Int /\ s \in 0..(d - 1) /\ x = d * t + s BY <1>3, <1>6, DivMod
<1>9. q \in 0..(r - 1)
  <2>1. r * r <= v * r BY <1>4, <1>6
  <2>2. r * r \in Int /\ v * r \in Int BY <1>4, <1>6
  <2>3. x < v * r BY <2>1, <2>2
  <2> QED BY <1>4, <1>6, <2>3, QuotientBelow
<1>10. q + 1 <= 2 * p
  <2> SUFFICES ASSUME q >= 2 * p PROVE FALSE BY <1>9
  <2> HIDE DEF q, w, t, s
  <2>1. v * q >= v * (2 * p) BY <1>6, <1>9
  <2>2. v * (2 * p) >= (r * h) * (2 * p) BY <1>5, <1>6
  <2>3. (r * h) * (2 * p) = r * r
    <3>1. (r * h) * (2 * p) = r * (p * (2 * h)) BY <1>4
    <3> QED BY <3>1
  <2>4. v * q \in Int /\ v * (2 * p) \in Int /\ r * r \in Int BY <1>4, <1>6, <1>9
  <2> QED BY <1>7, <2>1, <2>2, <2>3, <2>4
<1> HIDE DEF q, w, t, s
<1>11. t >= q
  <2> SUFFICES ASSUME t <= q - 1 PROVE FALSE BY <1>8, <1>9
  <2>1. d * t <= d * (q - 1) BY <1>3, <1>8, <1>9
  <2>2. d * (q - 1) = d * q - d /\ d * q <= v * q BY <1>3, <1>6, <1>9
  <2>3. d * q \in Int /\ v * q \in Int /\ d * t \in Int BY <1>3, <1>6, <1>8, <1>9
  <2> QED BY <1>3, <1>7, <1>8, <2>1, <2>2, <2>3
<1>12. (q + 1) * e <= d
  <2> DEFINE m == (2 * p) * (k - 1)
  <2>1. (q + 1) * e <= (q + 1) * (k - 1) BY <1>1, <1>9
  <2>2. (q + 1) * (k - 1) <= m BY <1>1, <1>9, <1>10
  <2>3. k - 1 <= h * h
    <3>1. (h - 1) * (h - 1) >= 0 OBVIOUS
    <3>2. (h - 1) * (h - 1) = h * h - 2 * h + 1 /\ h * h \in Int OBVIOUS
    <3> QED BY <3>1, <3>2
  <2>4. m <= (2 * p) * (h * h) BY <1>1, <2>3
  <2>5. (2 * p) * (h * h) = k * (h * p) OBVIOUS
  <2>6. (q + 1) * e \in Int /\ (q + 1) * (k - 1) \in Int /\ m \in Int /\ k * (h * p) \in Int BY <1>1, <1>9
  <2> HIDE DEF m, k
  <2> QED BY <1>3, <2>1, <2>2, <2>4, <2>5, <2>6
<1>13. t <= q + 1
  <2> SUFFICES ASSUME t >= q + 2 PROVE FALSE BY <1>8, <1>9
  <2>1. d * t >= d * (q + 2) BY <1>3, <1>8, <1>9
  <2>2. d * (q + 2) = d * (q + 1) + d BY <1>3, <1>9
  <2>3. v * (q + 1) = d * (q + 1) + (q + 1) * e BY <1>1, <1>3, <1>9
  <2>4. v * (q + 1) = v * q + v BY <1>6, <1>9
  <2>5. d * t \in Int /\ v * q \in Int /\ d * (q + 1) \in Int /\ (q + 1) * e \in Int BY <1>1, <1>3, <1>6, <1>8, <1>9
  <2> QED BY <1>3, <1>6, <1>7, <1>8, <1>12, <2>1, <2>2, <2>3, <2>4, <2>5
<1>14. t = q \/ t = q + 1 BY <1>8, <1>9, <1>11, <1>13
<1> QED BY <1>3, <1>6, <1>9, <1>14 DEF q, t

(* The trial quotient is the quotient or one less than it.                 *)
LEMMA TrialIs ==
  ASSUME NEW u \in TwoWords, NEW v \in TwoWords, v.hi >= 1
  PROVE  LET q == Num(u) \div Num(v) IN
         /\ q \in 0..(Radix - 1) /\ Num(v) > 0
         /\ Trial(u, v) = q \/ (q >= 1 /\ Trial(u, v) = q - 1)
<1> DEFINE n == LeadingZeros(v.hi)  p == Power(2, n)  h == Power(2, W - 1 - n)
           g == Lsh(v, n).hi  e == v.lo % (2 * h)  d == (2 * h) * g
           x == Num(u)  z == Num(v)  y == Rsh(u, 1)  q == x \div z
<1>1. Radix \in Nat /\ Radix > 0 BY RadixFacts
<1>2. v.hi \in 1..(Radix - 1) BY WordParts
<1>3. n \in 0..(W - 1) /\ v.hi < Power(2, W - n) /\ v.hi >= h BY <1>2, LeadingZerosOf
<1> HIDE DEF n
<1>4. Splits(n, p, h) BY <1>3, SplitAt
<1>5. p \in Nat /\ p >= 1 /\ h \in Nat /\ h >= 1 /\ Radix = p * (2 * h) /\ v.hi < 2 * h
  BY <1>3, <1>4 DEF Splits
<1>6. h = Power(2, W - 1 - n) OBVIOUS
<1> HIDE DEF p, h
<1>7. g \in Nat /\ g < Radix /\ g >= h * p /\ z = d + e /\ e \in 0..(2 * h - 1)
  BY <1>3, <1>4, <1>5, HighBits
<1>8. x \in Nat /\ x < Radix * Radix /\ z >= Radix * h
  <2>1. z = v.lo + Radix * v.hi /\ v.lo \in Nat /\ v.hi \in Nat BY WordParts
  <2>2. Radix * v.hi >= Radix * h /\ Radix * v.hi \in Int /\ Radix * h \in Int BY <1>1, <1>3, <1>5, <2>1
  <2> QED BY <2>1, <2>2, WordParts
<1>9. /\ y.hi \in Nat /\ 2 * y.hi < Radix /\ y.lo \in 0..(Radix - 1)
      /\ y.hi * Radix + y.lo = x \div 2
  BY Halved
<1>10. Trial(u, v) = LET t == Div64(y.hi, y.lo, g).q \div h IN IF t # 0 THEN t - 1 ELSE t
  BY <1>6 DEF Trial, n
<1>11. d = (2 * h) * g OBVIOUS
<1> HIDE DEF g, e, d, x, z, y
<1>12. /\ d \in Nat /\ d > 0 /\ z \in Nat /\ z > 0 /\ q \in Nat /\ q < Radix
       /\ x \div d = q \/ x \div d = q + 1
  BY <1>5, <1>7, <1>8, <1>11, TrialNear
<1>13. y.hi < g
  <2>1. Radix = 2 * (h * p) /\ h * p \in Int BY <1>5
  <2> QED BY <1>1, <1>7, <1>9, <2>1
<1>14. g > 0 BY <1>7, <1>9, <1>13
<1>15. Div64(y.hi, y.lo, g).q = (x \div 2) \div g
  <2>1. Div64(y.hi, y.lo, g).q = (y.hi * Radix + y.lo) \div g BY <1>7, <1>9, <1>13 DEF Div64
  <2> QED BY <1>9, <2>1
<1>16. ((x \div 2) \div g) \div h = x \div d
  <2>1. x \in Int /\ x \div 2 \in Int BY <1>8
  <2> DEFINE w == x \div 2
  <2>2. w \in Int BY <2>1
  <2> HIDE DEF w
  <2>3. w \div (h * g) = (w \div g) \div h BY <1>5, <1>7, <1>14, <2>2, ModStep
  <2> DEFINE m == h * g
  <2>4. m \in Nat /\ m > 0 BY <1>5, <1>7, <1>14
  <2>5. d = m * 2 BY <1>5, <1>7, <1>11
  <2> HIDE DEF m
  <2>6. x \div (m * 2) = (x \div 2) \div m BY <2>1, <2>4, 2 \in Nat, ModStep
  <2> QED BY <2>3, <2>5, <2>6 DEF w, m
<1>17. Trial(u, v) = LET t == x \div d IN IF t # 0 THEN t - 1 ELSE t BY <1>10, <1>15, <1>16
<1> HIDE DEF q
<1>18. q \in 0..(Radix - 1) /\ z > 0 /\ (Trial(u, v) = q \/ (q >= 1 /\ Trial(u, v) = q - 1)) BY <1>1, <1>12, <1>17
<1> QED BY <1>18 DEF q, x, z

-----------------------------------------------------------------------------
LEMMA OneWord ==
  ASSUME NEW t \in 0..(Radix - 1)
  PROVE  U(t, 0) \in TwoWords /\ Num(U(t, 0)) = t
<1>1. Radix \in Nat /\ Radix > 0 BY RadixFacts
<1>2. U(t, 0) \in TwoWords BY <1>1 DEF U, TwoWords
<1>3. Num(U(t, 0)) = t + Radix * 0 BY DEF U, Num
<1> QED BY <1>1, <1>2, <1>3

(* One correction at most makes the trial quotient the quotient.           *)
LEMMA QuoRemExact ==
  ASSUME NEW u \in TwoWords, NEW v \in TwoWords, v # Zero
  PROVE  Num(QuoRem(u, v).q) = Num(u) \div Num(v) /\ Num(QuoRem(u, v).r) = Num(u) % Num(v)
<1> DEFINE x == Num(u)  z == Num(v)  all == Radix * Radix
<1>1. Radix \in Nat /\ Radix > 1 /\ all \in Nat BY RadixFacts
<1>2. /\ v.lo \in 0..(Radix - 1) /\ v.lo \in Nat /\ v.hi \in Nat /\ v = U(v.lo, v.hi) /\ z = v.lo + Radix * v.hi
      /\ x \in Nat /\ x < all /\ z \in Nat /\ z < all
  BY WordParts
<1>3. CASE v.hi = 0
  <2>1. v.lo # 0 BY <1>2, <1>3 DEF Zero
  <2>2. z = v.lo
    <3>1. Radix * v.hi = 0 BY <1>1, <1>3
    <3> QED BY <1>2, <3>1
  <2> DEFINE d == QuoRem64(u, v.lo)
  <2>3. v.lo > 0 BY <1>2, <2>1
  <2>4. Divides(u, v.lo, d.q, d.r) BY <1>2, <2>3, QuoRem64Exact
  <2>5. QuoRem(u, v).q = d.q /\ QuoRem(u, v).r = U(d.r, 0) BY <1>3 DEF QuoRem
  <2> HIDE DEF d
  <2>6. Num(d.q) = x \div z /\ d.r = x % z /\ d.r \in 0..(v.lo - 1) BY <2>2, <2>4 DEF Divides
  <2>7. d.r \in 0..(Radix - 1) BY <1>1, <1>2, <2>6
  <2>8. Num(U(d.r, 0)) = d.r BY <2>7, OneWord
  <2> QED BY <2>5, <2>6, <2>8
<1>4. CASE v.hi # 0
  <2> DEFINE q == x \div z  w == x % z  t == Trial(u, v)  m == Mul(v, U(t, 0))  r == Sub(u, m)
  <2>1. v.hi >= 1 BY <1>2, <1>4
  <2>2. q \in 0..(Radix - 1) /\ z > 0 /\ (t = q \/ (q >= 1 /\ t = q - 1)) BY <2>1, TrialIs
  <2>3. w \in 0..(z - 1) /\ x = z * q + w BY <1>2, <2>2, DivMod
  <2>4. QuoRem(u, v) = IF Cmp(r, v) >= 0 THEN [q |-> Add(U(t, 0), U(1, 0)), r |-> Sub(r, v)] ELSE [q |-> U(t, 0), r |-> r]
    BY <1>4 DEF QuoRem
  <2> HIDE DEF q, w, t, m, r
  <2>5. t \in 0..(Radix - 1) /\ t \in Nat BY <1>1, <2>2
  <2>6. U(t, 0) \in TwoWords /\ Num(U(t, 0)) = t BY <2>5, OneWord
  <2>7. m \in TwoWords /\ Num(m) = (z * t) % all BY <2>6, MulExact DEF m
  <2>8. z * t \in Nat /\ z * t <= z * q /\ z * q <= x /\ z * q \in Nat BY <1>2, <2>2, <2>3, <2>5
  <2>9. (z * t) % all = z * t
    <3> DEFINE c == z * t
    <3>1. c \in 0..(all - 1) BY <1>1, <1>2, <2>8
    <3> HIDE DEF c, all
    <3>2. c % all = c BY <1>1, <3>1, SmallMod
    <3> QED BY <3>2 DEF c
  <2>10. r \in TwoWords /\ Num(r) = (x - z * t) % all BY <2>7, <2>9, SubExact DEF r
  <2>11. (x - z * t) % all = x - z * t
    <3> DEFINE c == x - z * t
    <3>1. c \in 0..(all - 1) BY <1>1, <1>2, <2>8
    <3> HIDE DEF c, all
    <3>2. c % all = c BY <1>1, <3>1, SmallMod
    <3> QED BY <3>2 DEF c
  <2>12. Num(r) = x - z * t BY <2>10, <2>11
  <2>13. Cmp(r, v) = IF Num(r) < z THEN -1 ELSE IF Num(r) = z THEN 0 ELSE 1 BY <2>10, CmpExact
  <2>14. CASE t = q
    <3>0. z * t = z * q BY <2>14
    <3>1. Num(r) = w /\ w < z /\ w \in Int BY <1>2, <2>3, <2>8, <2>12, <3>0
    <3>2. ~(Cmp(r, v) >= 0) BY <2>13, <3>1
    <3> QED BY <2>4, <2>6, <2>14, <3>1, <3>2 DEF q, w
  <2>15. CASE t # q
    <3>1. q >= 1 /\ t = q - 1 BY <2>2, <2>15
    <3>2. z * t = z * q - z BY <1>2, <2>2, <3>1
    <3>3. Num(r) = w + z /\ w \in Int /\ w >= 0 BY <1>2, <2>3, <2>8, <2>12, <3>2
    <3>4. Cmp(r, v) >= 0 BY <1>2, <2>13, <3>3
    <3>5. QuoRem(u, v).q = Add(U(t, 0), U(1, 0)) /\ QuoRem(u, v).r = Sub(r, v) BY <2>4, <3>4
    <3>6. 1 \in 0..(Radix - 1) BY <1>1
    <3>7. U(1, 0) \in TwoWords /\ Num(U(1, 0)) = 1 BY <3>6, OneWord
    <3>8. Num(Add(U(t, 0), U(1, 0))) = (t + 1) % all BY <2>6, <3>7, AddExact
    <3>9. t + 1 = q BY <2>2, <3>1
    <3>10. Num(Sub(r, v)) = (Num(r) - z) % all BY <2>10, SubExact
    <3>11. Num(r) - z = w BY <1>2, <3>3
    <3>12. q \in 0..(all - 1) /\ w \in 0..(all - 1)
      <4>1. all >= Radix BY <1>1
      <4> HIDE DEF all
      <4> QED BY <1>1, <1>2, <2>2, <2>3, <4>1
    <3> HIDE DEF all
    <3>13. q % all = q /\ w % all = w BY <1>1, <3>12, SmallMod
    <3> QED BY <3>5, <3>8, <3>9, <3>10, <3>11, <3>13 DEF q, w
  <2> QED BY <2>14, <2>15
<1> QED BY <1>3, <1>4

-----------------------------------------------------------------------------
(* The number that decimal digits are, and that of the first of them.      *)
CountsUp(ds, n, f) ==
  f \in [0..n -> Nat] /\ f[0] = 0 /\ \A i \in 1..n : f[i] = 10 * f[i - 1] + ds[i]

LEMMA CountsExist ==
  ASSUME NEW ds \in Seq(Nat)
  PROVE  \E f : CountsUp(ds, Len(ds), f)
<1> DEFINE T == {k \in Nat : k <= Len(ds) => \E f : CountsUp(ds, k, f)}
<1>1. 0 \in T
  <2> DEFINE f == [i \in 0..0 |-> 0]
  <2>1. f \in [0..0 -> Nat] /\ f[0] = 0 OBVIOUS
  <2> HIDE DEF f
  <2>2. CountsUp(ds, 0, f) BY <2>1 DEF CountsUp
  <2> QED BY <2>2
<1>2. ASSUME NEW k \in Nat, k \in T PROVE k + 1 \in T
  <2> SUFFICES ASSUME k + 1 <= Len(ds) PROVE \E f : CountsUp(ds, k + 1, f) OBVIOUS
  <2>1. PICK f : CountsUp(ds, k, f) BY <1>2
  <2> DEFINE h == [i \in 0..(k + 1) |-> IF i = k + 1 THEN 10 * f[k] + ds[k + 1] ELSE f[i]]
  <2>2. f[k] \in Nat /\ ds[k + 1] \in Nat
    <3>1. k + 1 \in 1..Len(ds) /\ k \in 0..k OBVIOUS
    <3>2. ds[k + 1] \in Nat BY <3>1, ElementType
    <3> QED BY <2>1, <3>1, <3>2 DEF CountsUp
  <2>3. 10 * f[k] + ds[k + 1] \in Nat BY <2>2
  <2>4. h \in [0..(k + 1) -> Nat]
    <3>1. \A i \in 0..(k + 1) : i # k + 1 => i \in 0..k OBVIOUS
    <3>2. \A i \in 0..k : f[i] \in Nat BY <2>1 DEF CountsUp
    <3> QED BY <2>3, <3>1, <3>2
  <2>5. h[0] = 0 BY <2>1 DEF CountsUp
  <2>6. ASSUME NEW i \in 1..(k + 1) PROVE h[i] = 10 * h[i - 1] + ds[i]
    <3>1. i - 1 \in 0..(k + 1) /\ i - 1 # k + 1 /\ i \in 0..(k + 1) OBVIOUS
    <3>2. h[i - 1] = f[i - 1] BY <3>1
    <3>3. CASE i = k + 1 BY <3>1, <3>2, <3>3
    <3>4. CASE i # k + 1
      <4>1. i \in 1..k BY <3>4
      <4>2. f[i] = 10 * f[i - 1] + ds[i] BY <2>1, <4>1 DEF CountsUp
      <4>3. h[i] = f[i] BY <3>1, <3>4
      <4> QED BY <3>2, <4>2, <4>3
    <3> QED BY <3>3, <3>4
  <2> HIDE DEF h
  <2>7. CountsUp(ds, k + 1, h) BY <2>4, <2>5, <2>6 DEF CountsUp
  <2> QED BY <2>7
<1>3. Len(ds) \in Nat OBVIOUS
<1> HIDE DEF T
<1>4. Len(ds) \in T BY <1>1, <1>2, <1>3, SetInduction
<1> QED BY <1>3, <1>4 DEF T

LEMMA DecimalIs ==
  ASSUME NEW ds \in Seq(Nat), NEW f, CountsUp(ds, Len(ds), f)
  PROVE  Decimal(ds) = f[Len(ds)]
<1> DEFINE n == Len(ds)
           D(h) == [i \in 0..n |-> IF i = 0 THEN 0 ELSE 10 * h[i - 1] + ds[i]]
           g == CHOOSE h : h = D(h)
<1>0. n \in Nat OBVIOUS
<1>1. Decimal(ds) = g[n] BY DEF Decimal
<1>2. f = D(f)
  <2>1. DOMAIN f = 0..n /\ f = [i \in 0..n |-> f[i]] BY DEF CountsUp
  <2>2. ASSUME NEW i \in 0..n PROVE f[i] = IF i = 0 THEN 0 ELSE 10 * f[i - 1] + ds[i]
    <3>1. CASE i = 0 BY <3>1 DEF CountsUp
    <3>2. CASE i # 0
      <4>1. i \in 1..n BY <3>2
      <4> QED BY <3>2, <4>1 DEF CountsUp
    <3> QED BY <3>1, <3>2
  <2> QED BY <2>1, <2>2
<1>3. g = D(g)
  <2> HIDE DEF D
  <2> QED BY <1>2
<1>4. \A i \in 0..n : g[i] = IF i = 0 THEN 0 ELSE 10 * g[i - 1] + ds[i]
  <2> HIDE DEF g
  <2> DEFINE c == D(g)
  <2>1. \A i \in 0..n : c[i] = IF i = 0 THEN 0 ELSE 10 * g[i - 1] + ds[i] OBVIOUS
  <2>2. g = c BY <1>3
  <2> HIDE DEF c
  <2> QED BY <2>1, <2>2
<1> HIDE DEF g, D
<1> DEFINE T == {k \in Nat : k <= n => g[k] = f[k]}
<1>5. 0 \in T BY <1>4 DEF CountsUp
<1>6. ASSUME NEW k \in Nat, k \in T PROVE k + 1 \in T
  <2> SUFFICES ASSUME k + 1 <= n PROVE g[k + 1] = f[k + 1] OBVIOUS
  <2> DEFINE j == k + 1
  <2>1. j \in 1..n /\ j \in 0..n /\ j # 0 /\ j - 1 = k BY <1>0
  <2> HIDE DEF j
  <2>2. g[j] = 10 * g[j - 1] + ds[j] BY <1>4, <2>1
  <2>3. f[j] = 10 * f[j - 1] + ds[j] BY <2>1 DEF CountsUp
  <2>4. g[k] = f[k] BY <1>0, <1>6
  <2>5. g[j] = f[j] BY <2>1, <2>2, <2>3, <2>4
  <2> QED BY <2>5 DEF j
<1>7. n \in T
  <2> HIDE DEF T
  <2> QED BY <1>0, <1>5, <1>6, SetInduction
<1> QED BY <1>1, <1>7

LEMMA DigitsType ==
  ASSUME NEW x \in Nat, NEW d \in Nat
  PROVE  /\ Digit10(x, d) \in Seq(Nat) /\ Len(Digit10(x, d)) = d
         /\ \A i \in 1..d : Digit10(x, d)[i] = (x \div Power(10, d - i)) % 10
<1>1. ASSUME NEW i \in 1..d PROVE (x \div Power(10, d - i)) % 10 \in Nat
  <2> DEFINE m == d - i  p == Power(10, m)
  <2>1. m \in Nat OBVIOUS
  <2> HIDE DEF m
  <2>2. p \in Nat /\ p >= 1 BY <2>1, 10 \in Nat \ {0}, PowerNat
  <2> HIDE DEF p
  <2>3. x \div p \in Int BY <2>2, DivMod
  <2>4. (x \div p) % 10 \in Nat BY <2>3
  <2> QED BY <2>4 DEF p, m
<1>2. Digit10(x, d) \in [1..d -> Nat] BY <1>1 DEF Digit10
<1> QED BY <1>2, FunctionSeq DEF Digit10

(* The number grows by as many powers of ten as digits are written after   *)
(* it.                                                                     *)
LEMMA DecimalAppend ==
  ASSUME NEW a \in Seq(Nat), NEW x \in Nat, NEW d \in Nat
  PROVE  Decimal(a \o Digit10(x, d)) = Decimal(a) * Power(10, d) + (x % Power(10, d))
<1> DEFINE b == Digit10(x, d)  s == a \o b  l == Len(a)  y(j) == x \div Power(10, d - j)
<1>0. l \in Nat /\ 10 \in Nat \ {0} OBVIOUS
<1>1. b \in Seq(Nat) /\ Len(b) = d /\ \A j \in 1..d : b[j] = y(j) % 10 BY DigitsType
<1> HIDE DEF b
<1>2. s \in Seq(Nat) /\ Len(s) = l + d BY <1>1, ConcatType
<1>3. \A i \in 1..l : s[i] = a[i] BY <1>1
<1>4. \A j \in 1..d : s[l + j] = b[j] BY <1>1
<1> HIDE DEF s
<1>5. PICK f : CountsUp(s, l + d, f) BY <1>2, CountsExist
<1>6. /\ f \in [0..(l + d) -> Nat] /\ f[0] = 0
      /\ \A i \in 1..(l + d) : f[i] = 10 * f[i - 1] + s[i]
  BY <1>5 DEF CountsUp
<1>7. Decimal(s) = f[l + d] BY <1>2, <1>5, DecimalIs
<1>8. Decimal(a) = f[l]
  <2> DEFINE g == [i \in 0..l |-> f[i]]
  <2>1. g \in [0..l -> Nat] BY <1>0, <1>6
  <2>2. g[0] = 0 /\ g[l] = f[l] BY <1>0, <1>6
  <2>3. ASSUME NEW i \in 1..l PROVE g[i] = 10 * g[i - 1] + a[i]
    <3>1. i \in 1..(l + d) /\ i \in 0..l /\ i - 1 \in 0..l BY <1>0
    <3>2. f[i] = 10 * f[i - 1] + s[i] /\ s[i] = a[i] BY <1>3, <1>6, <3>1
    <3> QED BY <3>1, <3>2
  <2> HIDE DEF g
  <2>4. CountsUp(a, l, g) BY <2>1, <2>2, <2>3 DEF CountsUp
  <2> QED BY <2>2, <2>4, DecimalIs
<1> DEFINE c == f[l]
<1>9. c \in Nat BY <1>0, <1>6
<1> HIDE DEF c, l
<1> DEFINE T == {j \in Nat : j <= d => f[l + j] = c * Power(10, j) + (y(j) % Power(10, j))}
<1>10. ASSUME NEW j \in 0..d PROVE y(j) \in Int /\ Power(10, j) \in Nat /\ Power(10, j) >= 1
  <2> DEFINE m == d - j
  <2>1. m \in Nat /\ j \in Nat OBVIOUS
  <2> HIDE DEF m
  <2>2. Power(10, m) \in Nat /\ Power(10, m) >= 1 BY <1>0, <2>1, PowerNat
  <2>3. x \div Power(10, m) \in Int BY <2>2, DivMod
  <2>4. Power(10, j) \in Nat /\ Power(10, j) >= 1 BY <1>0, <2>1, PowerNat
  <2> QED BY <2>3, <2>4 DEF m
<1> HIDE DEF y
<1>11. 0 \in T
  <2> SUFFICES f[l + 0] = c * Power(10, 0) + (y(0) % Power(10, 0)) OBVIOUS
  <2>1. Power(10, 0) = 1 BY <1>0, 0 \in Nat, PowerStep
  <2>2. y(0) \in Int BY <1>10
  <2>3. y(0) % 1 = 0 BY <2>2
  <2>4. f[l + 0] = c BY <1>0 DEF c
  <2>5. c * 1 + 0 = c BY <1>9
  <2> QED BY <2>1, <2>3, <2>4, <2>5
<1>12. ASSUME NEW j \in Nat, j \in T PROVE j + 1 \in T
  <2> SUFFICES ASSUME j + 1 <= d PROVE f[l + (j + 1)] = c * Power(10, j + 1) + (y(j + 1) % Power(10, j + 1)) OBVIOUS
  <2> DEFINE p == Power(10, j)  z == y(j + 1)  w == y(j) % p
  <2>1. j \in 0..d /\ j + 1 \in 0..d /\ j + 1 \in 1..d OBVIOUS
  <2>2. z \in Int /\ p \in Nat /\ p >= 1 /\ y(j) \in Int BY <1>10, <2>1
  <2>3. y(j) = z \div 10
    <3> DEFINE m == d - (j + 1)  r == Power(10, m)
    <3>1. m \in Nat /\ d - j = m + 1 BY <2>1
    <3>2. z = x \div r BY DEF y
    <3> HIDE DEF m
    <3>3. r \in Nat /\ r >= 1 /\ Power(10, m + 1) = 10 * r BY <1>0, <3>1, PowerStep, PowerNat
    <3>4. y(j) = x \div (10 * r) BY <3>1, <3>3 DEF y
    <3> HIDE DEF r
    <3>5. x \in Int /\ r > 0 /\ 10 \in Nat /\ 10 > 0 BY <3>3
    <3>6. x \div (10 * r) = (x \div r) \div 10 BY <3>3, <3>5, ModStep
    <3> QED BY <3>2, <3>4, <3>6
  <2>4. Power(10, j + 1) = 10 * p BY <1>0, PowerStep
  <2>5. f[l + j] = c * p + w BY <1>12
  <2>6. b[j + 1] = z % 10 BY <1>1, <2>1
  <2>7. f[l + (j + 1)] = 10 * f[l + j] + b[j + 1]
    <3> DEFINE i == l + (j + 1)
    <3>1. i \in 1..(l + d) /\ i - 1 = l + j BY <1>0, <2>1
    <3>2. s[i] = b[j + 1] BY <1>4, <2>1
    <3> HIDE DEF i
    <3>3. f[i] = 10 * f[i - 1] + s[i] BY <1>6, <3>1
    <3> QED BY <3>1, <3>2, <3>3 DEF i
  <2> HIDE DEF p, z
  <2>8. z % (p * 10) = (z % 10) + ((z \div 10) % p) * 10
    <3>1. p > 0 /\ 10 \in Nat /\ 10 > 0 BY <2>2
    <3> QED BY <2>2, <3>1, ModStep
  <2>9. w = (z \div 10) % p BY <2>3
  <2>10. w \in Int BY <2>2, DivMod
  <2> HIDE DEF w
  <2>11. 10 * p = p * 10 BY <2>2
  <2>12. z % (10 * p) = (z % 10) + w * 10 BY <2>8, <2>9, <2>11
  <2>13. c * (10 * p) = 10 * (c * p) /\ c * p \in Int BY <1>9, <2>2
  <2>14. z % 10 \in Int BY <2>2
  <2>15. 10 * (c * p + w) + (z % 10) = c * (10 * p) + ((z % 10) + w * 10) BY <2>10, <2>13, <2>14
  <2>16. f[l + (j + 1)] = 10 * (c * p + w) + (z % 10) BY <2>5, <2>6, <2>7
  <2>17. f[l + (j + 1)] = c * (10 * p) + (z % (10 * p)) BY <2>12, <2>15, <2>16
  <2> QED BY <2>4, <2>17 DEF z
<1> HIDE DEF T
<1>13. d \in T BY <1>11, <1>12, SetInduction
<1>14. f[l + d] = c * Power(10, d) + (y(d) % Power(10, d)) BY <1>13 DEF T
<1>15. y(d) = x
  <2>1. Power(10, 0) = 1 /\ d - d = 0 BY <1>0, 0 \in Nat, PowerStep
  <2>2. y(d) = x \div 1 BY <2>1 DEF y
  <2> QED BY <2>2
<1> QED BY <1>7, <1>8, <1>14, <1>15 DEF c, s, b

-----------------------------------------------------------------------------
(* The digits of a chunk, and those that its number has.                   *)
LEMMA ChunkIs ==
  /\ ChunkDigits \in 1..W /\ Chunk = Power(10, ChunkDigits)
  /\ Chunk \in Nat /\ Chunk >= 10 /\ Chunk <= Radix
<1> DEFINE Is(d) == Power(10, d) <= Radix /\ Power(10, d + 1) > Radix
<1>1. W \in Nat /\ W >= 4 /\ 2 \in Nat \ {0} /\ 10 \in Nat \ {0} BY WordBits
<1>2. Radix \in Nat /\ Radix >= 16 BY RadixFacts
<1>3. Radix < Power(10, W)
  <2> DEFINE T == {k \in Nat : k >= 1 => Power(2, k) < Power(10, k)}
  <2>1. 0 \in T OBVIOUS
  <2>2. ASSUME NEW k \in Nat, k \in T PROVE k + 1 \in T
    <3>1. /\ Power(2, k + 1) = 2 * Power(2, k) /\ Power(10, k + 1) = 10 * Power(10, k)
          /\ Power(2, 0) = 1 /\ Power(10, 0) = 1
      BY <1>1, PowerStep
    <3>2. Power(2, k) \in Nat /\ Power(2, k) >= 1 /\ Power(10, k) \in Nat BY <1>1, PowerNat
    <3>3. Power(2, k) <= Power(10, k) BY <2>2, <3>1, <3>2
    <3> QED BY <3>1, <3>2, <3>3
  <2> HIDE DEF T
  <2>3. W \in T BY <1>1, <2>1, <2>2, SetInduction
  <2> QED BY <1>1, <2>3 DEF T, Radix
<1>4. PICK d \in 0..(W - 1) : Power(10, d) <= Radix /\ Radix < Power(10, d + 1)
  <2>1. Radix >= 1 BY <1>2
  <2> QED BY <1>1, <1>2, <1>3, <2>1, Magnitude
<1>5. Power(10, 0 + 1) = 10
  <2>1. Power(10, 0) = 1 /\ Power(10, 0 + 1) = 10 * Power(10, 0) BY <1>1, 0 \in Nat, PowerStep
  <2> QED BY <2>1
<1>6. d # 0 BY <1>2, <1>4, <1>5
<1>7. d \in 1..W BY <1>1, <1>6
<1>8. Is(d)
  <2>1. Power(10, d + 1) \in Nat
    <3>1. d + 1 \in Nat OBVIOUS
    <3> QED BY <1>1, <3>1, PowerNat
  <2> QED BY <1>2, <1>4, <2>1
<1>9. ChunkDigits = CHOOSE m \in 1..W : Is(m) BY DEF ChunkDigits
<1> HIDE DEF Is
<1>10. ChunkDigits \in 1..W /\ Is(ChunkDigits) BY <1>7, <1>8, <1>9
<1>11. Chunk \in Nat
  <2>1. ChunkDigits \in Nat BY <1>10
  <2> QED BY <1>1, <2>1, PowerNat DEF Chunk
<1>12. Chunk >= 10
  <2>1. 1 \in Nat /\ ChunkDigits \in Nat /\ 1 <= ChunkDigits BY <1>10
  <2>2. Power(10, 1) <= Power(10, ChunkDigits) BY <1>1, <2>1, PowerGrows
  <2> QED BY <1>5, <1>11, <2>2 DEF Chunk
<1> QED BY <1>10, <1>11, <1>12 DEF Is, Chunk

LEMMA DigitsOf ==
  ASSUME NEW x \in 1..(Chunk - 1)
  PROVE  /\ NumDigits(x) \in Nat \ {0} /\ x < Power(10, NumDigits(x))
         /\ Decimal(Digit10(x, NumDigits(x))) = x
         /\ Digit10(x, NumDigits(x)) \in Seq(Nat) /\ Digit10(x, NumDigits(x)) # <<>>
         /\ Digit10(x, NumDigits(x))[1] # 0
<1> DEFINE n == NumDigits(x)  Is(m) == Power(10, m) > x /\ Power(10, m - 1) <= x
           ds == Digit10(x, n)
<1>1. W \in Nat /\ 10 \in Nat \ {0} BY WordBits
<1>2. x \in Nat /\ x >= 1 /\ x < Power(10, ChunkDigits) /\ ChunkDigits \in Nat /\ ChunkDigits <= W BY <1>1, ChunkIs
<1>3. PICK k \in 0..(ChunkDigits - 1) : Power(10, k) <= x /\ x < Power(10, k + 1) BY <1>1, <1>2, Magnitude
<1>4. \E m \in 1..W : Is(m)
  <2> DEFINE m == k + 1
  <2>1. m \in 1..W /\ m - 1 = k /\ m \in Nat BY <1>1, <1>2
  <2> HIDE DEF m
  <2>2. Power(10, m) \in Nat BY <1>1, <2>1, PowerNat
  <2>3. x < Power(10, m) BY <1>3 DEF m
  <2>4. Is(m) BY <1>2, <1>3, <2>1, <2>2, <2>3
  <2> QED BY <2>1, <2>4
<1>5. n = CHOOSE m \in 1..W : Is(m) BY <1>2 DEF NumDigits
<1> HIDE DEF n
<1>6. n \in 1..W /\ Is(n)
  <2> HIDE DEF Is
  <2> QED BY <1>4, <1>5
<1>7. n \in Nat /\ n # 0 /\ n >= 1 /\ n - 1 \in Nat BY <1>1, <1>6
<1>8. Power(10, n) \in Nat /\ Power(10, n) = 10 * Power(10, n - 1) /\ Power(10, n - 1) \in Nat /\ Power(10, n - 1) >= 1
  <2> DEFINE m == n - 1
  <2>1. m \in Nat /\ n = m + 1 BY <1>7
  <2> HIDE DEF m
  <2>2. Power(10, m + 1) = 10 * Power(10, m) BY <1>1, <2>1, PowerStep
  <2>3. Power(10, m) \in Nat /\ Power(10, m) >= 1 BY <1>1, <2>1, PowerNat
  <2>4. Power(10, n) = 10 * Power(10, m) BY <2>1, <2>2
  <2> QED BY <2>3, <2>4 DEF m
<1>9. x < Power(10, n) BY <1>2, <1>6, <1>8
<1>10. ds \in Seq(Nat) /\ Len(ds) = n /\ \A i \in 1..n : ds[i] = (x \div Power(10, n - i)) % 10
  BY <1>2, <1>7, DigitsType
<1>11. Decimal(ds) = x
  <2> HIDE DEF ds
  <2>1. <<>> \in Seq(Nat) OBVIOUS
  <2>2. Decimal(<<>> \o Digit10(x, n)) = Decimal(<<>>) * Power(10, n) + (x % Power(10, n)) BY <1>2, <1>7, <2>1, DecimalAppend
  <2>3. <<>> \o ds = ds BY <1>10, ConcatEmpty
  <2>4. Decimal(<<>>) = 0
    <3> DEFINE f == [i \in 0..0 |-> 0]
    <3>1. f \in [0..0 -> Nat] /\ f[0] = 0 OBVIOUS
    <3> HIDE DEF f
    <3>2. CountsUp(<<>>, 0, f) BY <3>1 DEF CountsUp
    <3>3. Len(<<>>) = 0 OBVIOUS
    <3> QED BY <2>1, <3>1, <3>2, <3>3, DecimalIs
  <2>5. x \in 0..(Power(10, n) - 1) BY <1>2, <1>8, <1>9
  <2>6. x % Power(10, n) = x BY <1>8, <2>5, SmallMod
  <2>7. 0 * Power(10, n) + x = x BY <1>2, <1>8
  <2> QED BY <2>2, <2>3, <2>4, <2>6, <2>7 DEF ds
<1>12. ds[1] # 0
  <2> DEFINE p == Power(10, n - 1)
  <2>1. ds[1] = (x \div p) % 10 BY <1>7, <1>10
  <2>2. p \in Nat /\ p >= 1 /\ p <= x /\ x < p * 10 BY <1>6, <1>8, <1>9
  <2> HIDE DEF p, ds
  <2>3. p > 0 /\ 10 \in Nat BY <2>2
  <2>4. x \div p \in 0..(10 - 1) BY <1>2, <2>2, <2>3, QuotientBelow
  <2>5. x \div p # 0
    <3> DEFINE q == x \div p  r == x % p
    <3>1. q \in Int /\ r \in 0..(p - 1) /\ x = p * q + r BY <1>2, <2>2, <2>3, DivMod
    <3> HIDE DEF q, r
    <3>2. q = 0 => p * q = 0 BY <2>2
    <3>3. q # 0 BY <2>2, <3>1, <3>2
    <3> QED BY <3>3 DEF q
  <2>6. (x \div p) % 10 = x \div p BY <2>4
  <2> QED BY <2>1, <2>5, <2>6
<1>13. ds # <<>> BY <1>7, <1>10
<1> QED BY <1>7, <1>9, <1>10, <1>11, <1>12, <1>13 DEF n

-----------------------------------------------------------------------------
(* A number of two words is written before the last of its chunks.         *)
Writes(u, f) ==
  LET d == QuoRem64(u, Chunk)
  IN IF d.q = Zero THEN Digit10(d.r, NumDigits(d.r)) ELSE f[d.q] \o Digit10(d.r, ChunkDigits)

LEMMA Smaller ==
  ASSUME NEW u \in TwoWords
  PROVE  LET d == QuoRem64(u, Chunk) IN
         /\ d.q \in TwoWords /\ Num(u) = Chunk * Num(d.q) + d.r /\ d.r \in 0..(Chunk - 1)
         /\ d.q # Zero => Num(d.q) < Num(u) /\ Num(d.q) \in Nat
         /\ d.q = Zero => Num(u) = d.r
<1> DEFINE d == QuoRem64(u, Chunk)  x == Num(u)  q == Num(d.q)  r == d.r
<1>1. Chunk \in Nat /\ Chunk > 0 /\ Chunk >= 10 BY ChunkIs
<1>2. d.q \in TwoWords /\ x = Chunk * q + r /\ r \in 0..(Chunk - 1)
  <2>1. Divides(u, Chunk, d.q, d.r) BY <1>1, QuoRem64Exact
  <2> QED BY <2>1 DEF Divides
<1>3. x \in Nat /\ q \in Nat BY <1>2, WordParts
<1>4. q = 0 <=> d.q = Zero
  <2>1. Zero \in TwoWords /\ Num(Zero) = 0
    <3>1. 0 \in 0..(Radix - 1) BY RadixFacts
    <3> QED BY <3>1, OneWord DEF Zero
  <2> HIDE DEF d
  <2> QED BY <1>2, <2>1, CmpExact
<1> HIDE DEF x, q, r
<1>5. q # 0 => q < x
  <2> SUFFICES ASSUME q # 0 PROVE q < x OBVIOUS
  <2>1. Chunk * q >= 10 * q BY <1>1, <1>3
  <2>2. Chunk * q \in Int BY <1>1, <1>3
  <2> QED BY <1>1, <1>2, <1>3, <2>1, <2>2
<1>6. q = 0 => x = r
  <2>1. q = 0 => Chunk * q = 0 BY <1>1
  <2> QED BY <1>1, <1>2, <1>3, <2>1
<1> QED BY <1>2, <1>3, <1>4, <1>5, <1>6 DEF x, q, r

LEMMA WritesExist ==
  \E f : f = [u \in TwoWords |-> Writes(u, f)]
<1> DEFINE Up(n, f) == f = [u \in TwoWords |-> f[u]] /\ \A u \in TwoWords : Num(u) < n => f[u] = Writes(u, f)
           T == {n \in Nat : \E f : Up(n, f)}
<1>1. 0 \in T
  <2> DEFINE f == [u \in TwoWords |-> 0]
  <2>1. f = [u \in TwoWords |-> f[u]] OBVIOUS
  <2>2. \A u \in TwoWords : ~(Num(u) < 0)
    <3> TAKE u \in TwoWords
    <3>1. Num(u) \in Nat BY WordParts
    <3> QED BY <3>1
  <2> HIDE DEF f
  <2>3. Up(0, f) BY <2>1, <2>2
  <2> QED BY <2>3
<1>2. ASSUME NEW n \in Nat, n \in T PROVE n + 1 \in T
  <2>1. PICK f : Up(n, f) BY <1>2
  <2> DEFINE h == [u \in TwoWords |-> IF Num(u) = n THEN Writes(u, f) ELSE f[u]]
  <2>2. h = [u \in TwoWords |-> h[u]] OBVIOUS
  <2>3. ASSUME NEW u \in TwoWords, Num(u) < n PROVE h[u] = f[u]
    <3>1. Num(u) # n
      <4>1. Num(u) \in Nat BY WordParts
      <4> QED BY <2>3, <4>1
    <3> QED BY <3>1
  <2>4. ASSUME NEW u \in TwoWords, Num(u) <= n PROVE Writes(u, h) = Writes(u, f)
    <3> DEFINE d == QuoRem64(u, Chunk)
    <3>1. d.q \in TwoWords /\ (d.q # Zero => Num(d.q) < Num(u) /\ Num(d.q) \in Nat) BY Smaller
    <3>2. Num(u) \in Nat BY WordParts
    <3>3. d.q # Zero => h[d.q] = f[d.q]
      <4> SUFFICES ASSUME d.q # Zero PROVE h[d.q] = f[d.q] OBVIOUS
      <4>1. Num(d.q) < n BY <2>4, <3>1, <3>2
      <4> HIDE DEF d, h
      <4> QED BY <2>3, <3>1, <4>1
    <3> HIDE DEF h
    <3> QED BY <3>3 DEF Writes
  <2>5. ASSUME NEW u \in TwoWords, Num(u) < n + 1 PROVE h[u] = Writes(u, h)
    <3>1. Num(u) \in Nat BY WordParts
    <3>2. CASE Num(u) = n
      <4>1. h[u] = Writes(u, f) BY <3>2
      <4> HIDE DEF h
      <4> QED BY <2>4, <3>1, <3>2, <4>1
    <3>3. CASE Num(u) # n
      <4>1. Num(u) < n /\ Num(u) <= n BY <2>5, <3>1, <3>3
      <4>2. f[u] = Writes(u, f) BY <2>1, <4>1
      <4> HIDE DEF h
      <4> QED BY <2>3, <2>4, <4>1, <4>2
    <3> QED BY <3>2, <3>3
  <2> HIDE DEF h
  <2>6. Up(n + 1, h) BY <2>2, <2>5
  <2>7. n + 1 \in Nat OBVIOUS
  <2> QED BY <2>6, <2>7
<1> HIDE DEF T
<1>3. Radix * Radix \in T
  <2>1. Radix * Radix \in Nat
    <3>1. Radix \in Nat BY RadixFacts
    <3> QED BY <3>1
  <2> QED BY <1>1, <1>2, <2>1, SetInduction
<1>4. PICK f : Up(Radix * Radix, f) BY <1>3 DEF T
<1>5. \A u \in TwoWords : f[u] = Writes(u, f)
  <2> TAKE u \in TwoWords
  <2>1. Num(u) < Radix * Radix BY WordParts
  <2> QED BY <1>4, <2>1
<1>6. f = [u \in TwoWords |-> Writes(u, f)] BY <1>4, <1>5
<1> QED BY <1>6

LEMMA ChunksStep ==
  ASSUME NEW u \in TwoWords
  PROVE  Chunks[u] = Writes(u, Chunks)
<1> DEFINE D(f) == [x \in TwoWords |-> Writes(x, f)]
           g == CHOOSE f : f = D(f)
<1>1. Chunks = g BY DEF Chunks, Writes
<1>2. \E f : f = D(f) BY WritesExist
<1>3. g = D(g)
  <2> HIDE DEF D
  <2> QED BY <1>2
<1> HIDE DEF g
<1>4. D(g)[u] = Writes(u, g) OBVIOUS
<1>5. g[u] = D(g)[u] BY <1>3
<1> QED BY <1>1, <1>4, <1>5

(* The digits are those of the number, with no zero in front.              *)
Printed(ds, x) == ds \in Seq(Nat) /\ ds # <<>> /\ Decimal(ds) = x /\ ds[1] # 0

LEMMA ChunksExact ==
  ASSUME NEW u \in TwoWords, u # Zero
  PROVE  Printed(Chunks[u], Num(u))
<1> DEFINE T == {n \in Nat : \A w \in TwoWords : Num(w) < n /\ w # Zero => Printed(Chunks[w], Num(w))}
<1>1. 0 \in T
  <2>1. \A w \in TwoWords : ~(Num(w) < 0)
    <3> TAKE w \in TwoWords
    <3>1. Num(w) \in Nat BY WordParts
    <3> QED BY <3>1
  <2> QED BY <2>1
<1>2. ASSUME NEW n \in Nat, n \in T PROVE n + 1 \in T
  <2> SUFFICES ASSUME NEW w \in TwoWords, Num(w) < n + 1, w # Zero PROVE Printed(Chunks[w], Num(w)) OBVIOUS
  <2> DEFINE d == QuoRem64(w, Chunk)  r == d.r  q == d.q
  <2>1. /\ q \in TwoWords /\ Num(w) = Chunk * Num(q) + r /\ r \in 0..(Chunk - 1)
        /\ q # Zero => Num(q) < Num(w) /\ Num(q) \in Nat
        /\ q = Zero => Num(w) = r
    BY Smaller
  <2>2. Chunks[w] = IF q = Zero THEN Digit10(r, NumDigits(r)) ELSE Chunks[q] \o Digit10(r, ChunkDigits)
    BY ChunksStep DEF Writes
  <2>3. Num(w) \in Nat BY WordParts
  <2> HIDE DEF q, r
  <2>4. CASE q = Zero
    <3>1. Num(w) # 0
      <4>1. Zero \in TwoWords /\ Num(Zero) = 0
        <5>1. 0 \in 0..(Radix - 1) BY RadixFacts
        <5> QED BY <5>1, OneWord DEF Zero
      <4> QED BY <4>1, CmpExact
    <3>2. r \in 1..(Chunk - 1) BY <2>1, <2>3, <2>4, <3>1
    <3>3. Printed(Digit10(r, NumDigits(r)), r) BY <3>2, DigitsOf DEF Printed
    <3> QED BY <2>1, <2>2, <2>4, <3>3
  <2>5. CASE q # Zero
    <3> DEFINE a == Chunks[q]  b == Digit10(r, ChunkDigits)
    <3>1. Num(q) < n BY <2>1, <2>3, <2>5
    <3>2. Printed(a, Num(q)) BY <1>2, <2>1, <2>5, <3>1
    <3>3. r \in Nat /\ ChunkDigits \in Nat BY <2>1, ChunkIs
    <3>4. b \in Seq(Nat) BY <3>3, DigitsType
    <3>5. Decimal(a \o b) = Decimal(a) * Chunk + (r % Chunk) BY <3>2, <3>3, DecimalAppend, ChunkIs DEF Printed
    <3> HIDE DEF a, b
    <3>6. Chunk \in Nat BY ChunkIs
    <3>7. r % Chunk = r BY <2>1, <3>6, SmallMod
    <3>8. Num(q) * Chunk = Chunk * Num(q) BY <2>1, <2>5, <3>6
    <3>9. Decimal(a \o b) = Num(w) BY <2>1, <3>2, <3>5, <3>7, <3>8 DEF Printed
    <3>10. a \o b \in Seq(Nat) /\ a \o b # <<>> /\ (a \o b)[1] # 0
      <4>1. a \in Seq(Nat) /\ a # <<>> /\ a[1] # 0 BY <3>2 DEF Printed
      <4>2. Len(a) >= 1 BY <4>1
      <4> QED BY <3>4, <4>1, <4>2
    <3>11. Printed(a \o b, Num(w)) BY <3>9, <3>10 DEF Printed
    <3> QED BY <2>2, <2>5, <3>11 DEF a, b
  <2> QED BY <2>4, <2>5
<1> HIDE DEF T
<1> DEFINE m == Num(u) + 1
<1>3. m \in Nat /\ Num(u) < m
  <2>1. Num(u) \in Nat BY WordParts
  <2> QED BY <2>1
<1> HIDE DEF m
<1>4. m \in T BY <1>1, <1>2, <1>3, SetInduction
<1> QED BY <1>3, <1>4 DEF T

-----------------------------------------------------------------------------
(* What has become of the task after each step.                            *)
CompareDone ==
  task.codec = "compare" =>
    /\ bytes = Unset
    /\ value # Unset => value = [new |-> Compare(task.a, task.b), old |-> Compare(task.b, task.a)]

TextDone ==
  task.codec \in Text /\ value # Unset =>
    value = DecodeText(task.codec, task.v) /\ bytes = EncodeText(task.codec, value)

NumberDone ==
  task.codec \in Number =>
    /\ bytes # Unset => bytes = Encoded(task)
    /\ value # Unset => \/ bytes # Unset /\ value = Decoded(task, bytes)
                        \/ bytes = Unset /\ Encoded(task) = Unset /\ value = "refused"

TaskInv == IsTask(task) /\ CompareDone /\ TextDone /\ NumberDone

LEMMA TaskInvStep ==
  ASSUME TaskInv, [Next]_vars
  PROVE  TaskInv'
<1>1. task' = task
  BY DEF Next, vars, Encode, Refuse, Decode, Reencode, Divide, Format, ReadLeaf, CompareBoth
<1>2. IsTask(task)' BY <1>1 DEF TaskInv
<1>3. CASE task.codec \in Number
  <2>1. task.codec # "compare" /\ task.codec \notin Text
    BY <1>3 DEF Number, Text
  <2>2. Encode \/ Refuse \/ Decode \/ UNCHANGED vars
    BY <1>3 DEF Next, Number, Text, LeafCodec, Account, Reencode, Divide, Format, ReadLeaf, CompareBoth
  <2>3. NumberDone'
    <3>1. NumberDone BY DEF TaskInv
    <3>2. CASE Encode BY <1>1, <1>3, <3>2 DEF Encode, NumberDone
    <3>3. CASE Refuse BY <1>1, <1>3, <3>3 DEF Refuse, NumberDone
    <3>4. CASE Decode BY <1>1, <1>3, <3>1, <3>4 DEF Decode, NumberDone
    <3>5. CASE UNCHANGED vars BY <3>1, <3>5 DEF vars, NumberDone
    <3> QED BY <2>2, <3>2, <3>3, <3>4, <3>5
  <2>4. CompareDone' /\ TextDone' BY <1>1, <2>1 DEF CompareDone, TextDone
  <2> QED BY <1>2, <2>3, <2>4 DEF TaskInv
<1>4. CASE task.codec \notin Number
  <2>1. ~Encode /\ ~Refuse /\ ~Decode BY <1>4 DEF Encode, Refuse, Decode
  <2>2. NumberDone' BY <1>1, <1>4 DEF NumberDone
  <2>3. CompareDone /\ TextDone BY DEF TaskInv
  <2>4. CASE Reencode
    <3>1. task.codec # "compare" BY <2>4 DEF Reencode, Text
    <3>2. CompareDone' BY <1>1, <3>1 DEF CompareDone
    <3>3. TextDone' BY <1>1, <2>4 DEF Reencode, TextDone
    <3> QED BY <1>2, <2>2, <3>2, <3>3 DEF TaskInv
  <2>5. CASE Divide \/ Format \/ ReadLeaf
    <3>1. task.codec # "compare" /\ task.codec \notin Text
      BY <2>5 DEF Divide, Format, ReadLeaf, LeafCodec, Account, Text
    <3>2. CompareDone' /\ TextDone' BY <1>1, <3>1 DEF CompareDone, TextDone
    <3> QED BY <1>2, <2>2, <3>2 DEF TaskInv
  <2>6. CASE CompareBoth
    <3>1. task.codec \notin Text BY <2>6 DEF CompareBoth, Text
    <3>2. TextDone' BY <1>1, <3>1 DEF TextDone
    <3>3. CompareDone' BY <1>1, <2>3, <2>6 DEF CompareBoth, CompareDone
    <3> QED BY <1>2, <2>2, <3>2, <3>3 DEF TaskInv
  <2>7. CASE UNCHANGED vars
    <3>1. CompareDone' /\ TextDone' BY <2>3, <2>7 DEF vars, CompareDone, TextDone
    <3> QED BY <1>2, <2>2, <3>1 DEF TaskInv
  <2> QED BY <2>1, <2>4, <2>5, <2>6, <2>7 DEF Next
<1> QED BY <1>3, <1>4

LEMMA TaskInvariant == Spec => []TaskInv
<1>1. Init => TaskInv BY TaskAssumption DEF Init, TaskInv, CompareDone, TextDone, NumberDone
<1>2. TaskInv /\ [Next]_vars => TaskInv' BY TaskInvStep
<1> QED BY <1>1, <1>2, PTL DEF Spec

(* Comparing two metadata both ways finds nothing exactly if they are the  *)
(* same (MetadataTag.Compare).                                             *)
THEOREM ComparisonComplete == Spec => []ChangesReported
<1>1. TaskInv => ChangesReported
  <2> SUFFICES ASSUME TaskInv, Done({"compare"})
               PROVE  Silent(value.new) /\ Silent(value.old) <=> Shape(task.a) = Shape(task.b)
    BY DEF ChangesReported
  <2>1. task.codec = "compare" /\ value # Unset BY DEF Done
  <2>2. IsMetadata(task.a) /\ IsMetadata(task.b) BY <2>1 DEF TaskInv, IsTask
  <2>3. value.new = Compare(task.a, task.b) /\ value.old = Compare(task.b, task.a)
    BY <2>1 DEF TaskInv, CompareDone
  <2>4. /\ Silent(value.new) <=> CarriedModules(task.a, task.b)
        /\ Silent(value.old) <=> CarriedModules(task.b, task.a)
    BY <2>2, <2>3, SilentCarried
  <2> QED BY <2>2, <2>4, SameMetadata
<1> QED BY <1>1, TaskInvariant, PTL

(* A byte vector that was decoded encodes to itself (Bytes.Encode,         *)
(* HexBytes.Encode, String.Encode).                                        *)
THEOREM TextEncodedBack == Spec => []TextReadsBack
<1>1. TaskInv => TextReadsBack
  <2> SUFFICES ASSUME TaskInv, Done(Text),
                      task.codec = "Bytes" => ~(IsASCII(task.v) /\ HasHexPrefix(task.v)),
                      task.codec = "String" => IsASCII(task.v)
               PROVE  bytes = [length |-> Len(task.v), hex |-> BytesToHex(task.v)]
    BY DEF TextReadsBack
  <2>1. task.codec \in Text /\ value # Unset BY DEF Done
  <2>2. IsSeq(task.v) /\ \A b \in ToSet(task.v) : Hex(b) \in [1..2 -> HexDigit]
    BY <2>1 DEF TaskInv, IsTask, IsSeq
  <2>3. bytes = EncodeText(task.codec, DecodeText(task.codec, task.v)) BY <2>1 DEF TaskInv, TextDone
  <2> QED BY <2>1, <2>2, <2>3, TextEncodes
<1> QED BY <1>1, TaskInvariant, PTL

(* IntFixed and U8 to U256, at every width, and numbers that are cut short:*)
(* by their own names, where they are refused, and by aliases.             *)
THEOREM IntegersAsWritten == Spec => []IntegersReadBack
<1>1. TaskInv => SignedReadsBack
  <2> SUFFICES ASSUME TaskInv, Done({"int"}), task.n > 1
               PROVE  /\ value % Size(task.n) = task.v % Size(task.n)
                      /\ value # Size(task.n) \div 2 =>
                           value \in (-(Size(task.n) \div 2) + 1)..(Size(task.n) \div 2 - 1)
                      /\ IntEncode(value, task.n) = bytes
    BY DEF SignedReadsBack
  <2>1. task.codec = "int" /\ value # Unset BY DEF Done
  <2>2. task.v \in Int /\ task.n \in Nat /\ task.n % 2 = 0
    <3>1. task.n \in Nat \ {0} /\ task.v \in Int /\ (task.n = 1 \/ task.n % 2 = 0)
      BY <2>1 DEF TaskInv, IsTask, Number
    <3> QED BY <3>1
  <2>3. Encoded(task) = IntEncode(task.v, task.n) BY <2>1 DEF Encoded, UNumber
  <2>4. Encoded(task) # Unset
    <3>1. Size(task.n) \in Nat /\ Size(task.n) > 0 BY <2>2, SizeNat
    <3>2. task.v % Size(task.n) \in Int BY <2>2, <3>1, DivMod
    <3> QED BY <2>2, <2>3, <3>2, LittleInts DEF IntEncode
  <2>5. bytes = Encoded(task) /\ value = Decoded(task, bytes)
    BY <2>1, <2>4 DEF TaskInv, NumberDone, Number
  <2>6. bytes = IntEncode(task.v, task.n) /\ value = IntDecode(bytes, task.n)
    BY <2>1, <2>3, <2>5 DEF Decoded, UNumber
  <2> QED BY <2>2, <2>6, SignedCodec
<1>2. TaskInv => WideTwosComplement
  <2> DEFINE n == task.n
  <2> SUFFICES ASSUME TaskInv, Done({"wide"})
               PROVE  IF task.v \in -(Size(n) \div 2)..(Size(n) \div 2 - 1)
                      THEN bytes = BigEndian(task.v % Size(n), n) ELSE value = "refused"
    BY DEF WideTwosComplement
  <2>1. task.codec = "wide" /\ value # Unset BY DEF Done
  <2>2. task.v \in Int /\ n \in Nat /\ n > 0
    <3>1. task.n \in Nat \ {0} /\ task.v \in Int BY <2>1 DEF TaskInv, IsTask, Number
    <3> QED BY <3>1
  <2>3. Encoded(task) = IF task.v \in -(Size(n) \div 2)..(Size(n) \div 2 - 1)
                        THEN BigEndian(task.v % Size(n), n) ELSE Unset
    <3>1. Encoded(task) = BigIntToIntBytes(task.v, n) BY <2>1 DEF Encoded, UNumber
    <3> QED BY <2>2, <3>1, WideCodec
  <2>4. BigEndian(task.v % Size(n), n) # Unset
    <3>1. Size(n) \in Nat /\ Size(n) > 0 BY <2>2, SizeNat
    <3>2. task.v % Size(n) \in Int BY <2>2, <3>1, DivMod
    <3> QED BY <2>2, <3>2, BigInts
  <2>5. IF Encoded(task) = Unset THEN value = "refused" ELSE bytes = Encoded(task)
    BY <2>1 DEF TaskInv, NumberDone, Number
  <2> QED BY <2>3, <2>4, <2>5
<1>3. TaskInv => UnsignedReadsBack
  <2> DEFINE n == task.n  s == Size(n)
  <2> SUFFICES ASSUME TaskInv, Done(UNumber)
               PROVE  /\ task.v \in 0..(s - 1) => value = task.v
                      /\ task.codec = "U128" /\ task.v \notin 0..(s - 1) => value = "refused"
                      /\ task.codec # "U256" /\ bytes # Unset =>
                           \A k \in 0..n : UDecode(task.codec, SubSeq(bytes, 1, k), n) =
                             IF task.codec = "U" /\ k < n THEN Unset ELSE value % Size(k)
    BY DEF UnsignedReadsBack
  <2>1. task.codec \in UNumber /\ value # Unset BY DEF Done
  <2>2. task.v \in Int /\ n \in Nat /\ (task.codec = "U256" => n % 2 = 0)
    <3>1. task.n \in Nat \ {0} /\ task.v \in Int BY <2>1 DEF TaskInv, IsTask, Number, UNumber
    <3>2. task.codec = "U256" => task.n % 2 = 0 BY DEF TaskInv, IsTask
    <3> QED BY <3>1, <3>2
  <2>3. Encoded(task) = UEncode(task.codec, task.v, n) BY <2>1 DEF Encoded, UNumber
  <2>4. s \in Nat /\ s > 0 BY <2>2, SizeNat
  <2>5. \/ Encoded(task) = Unset /\ bytes = Unset /\ value = "refused"
        \/ Encoded(task) # Unset /\ bytes = Encoded(task) /\ value = UDecode(task.codec, bytes, n)
    <3>1. task.codec \in Number BY <2>1 DEF Number, UNumber
    <3>2. Decoded(task, bytes) = UDecode(task.codec, bytes, n) BY <2>1 DEF Decoded, UNumber
    <3> QED BY <2>1, <3>1, <3>2 DEF TaskInv, NumberDone
  <2>6. /\ Encoded(task) = Unset => task.codec = "U128" /\ task.v \notin 0..(s - 1)
        /\ task.codec = "U128" /\ task.v \notin 0..(s - 1) => Encoded(task) = Unset
        /\ Encoded(task) # Unset =>
             \E u \in Nat : Encoded(task) = LittleEndian(u, n) /\ (task.v \in 0..(s - 1) => u = task.v)
    <3> DEFINE c == task.codec  v == task.v
    <3>1. c \in UNumber /\ v \in Int /\ n \in Nat /\ (c = "U256" => n % 2 = 0) BY <2>1, <2>2
    <3> HIDE DEF c, v, n
    <3>2. /\ UEncode(c, v, n) = Unset => c = "U128" /\ v \notin 0..(Size(n) - 1)
          /\ c = "U128" /\ v \notin 0..(Size(n) - 1) => UEncode(c, v, n) = Unset
          /\ UEncode(c, v, n) # Unset =>
               \E u \in Nat : UEncode(c, v, n) = LittleEndian(u, n) /\ (v \in 0..(Size(n) - 1) => u = v)
      BY <3>1, UnsignedWritten
    <3> QED BY <2>3, <3>2 DEF c, v
  <2>7. CASE Encoded(task) = Unset BY <2>5, <2>6, <2>7
  <2>8. CASE Encoded(task) # Unset
    <3>1. PICK u \in Nat : Encoded(task) = LittleEndian(u, n) /\ (task.v \in 0..(s - 1) => u = task.v)
      BY <2>6, <2>8
    <3>2. bytes = LittleEndian(u, n) /\ value = UDecode(task.codec, bytes, n) BY <2>5, <2>8, <3>1
    <3>3. value = u % s
      <4> HIDE DEF n
      <4> QED BY <2>1, <2>2, <3>2, UnsignedRead DEF s
    <3>4. task.v \in 0..(s - 1) => value = task.v
      <4> SUFFICES ASSUME task.v \in 0..(s - 1) PROVE value = task.v OBVIOUS
      <4>1. u = task.v BY <3>1
      <4> HIDE DEF s
      <4>2. u % s = u BY <2>4, <4>1, SmallMod
      <4> QED BY <3>3, <4>1, <4>2
    <3>5. ASSUME task.codec # "U256", NEW k \in 0..n
          PROVE  UDecode(task.codec, SubSeq(bytes, 1, k), n) =
                   IF task.codec = "U" /\ k < n THEN Unset ELSE value % Size(k)
      <4>1. UDecode(task.codec, SubSeq(bytes, 1, k), n) =
              IF task.codec = "U" /\ k < n THEN Unset ELSE u % Size(k)
        <5> HIDE DEF n
        <5> QED BY <2>2, <3>2, <3>5, UnsignedPart
      <4>2. (u % s) % Size(k) = u % Size(k)
        <5>1. k \in Nat /\ k <= n BY <2>2
        <5>2. PICK c \in Nat : c >= 1 /\ s = c * Size(k) BY <2>2, <5>1, SizeDivides
        <5> DEFINE p == Size(k)
        <5>3. p \in Nat /\ p > 0 BY <5>1, SizeNat
        <5> HIDE DEF s, p
        <5>4. s = c * p BY <5>2 DEF p
        <5>5. (u % s) % p = u % p BY ONLY u \in Int, c \in Nat, <5>2, <5>3, <5>4, ModMod
        <5> QED BY <5>5 DEF p
      <4> QED BY <3>3, <4>1, <4>2
    <3> QED BY <2>6, <2>8, <3>4, <3>5
  <2> QED BY <2>7, <2>8
<1>4. TaskInv => IntegersReadBack BY <1>1, <1>2, <1>3 DEF IntegersReadBack
<1> QED BY <1>4, TaskInvariant, PTL

(* A set of 16, 32 or 64 bits has the elements of its bits, unless the     *)
(* highest of the 64 is set, and none is read from too few bytes           *)
(* (Set.Process).                                                          *)
THEOREM SetsAsWritten == Spec => []SetMembers
<1>1. TaskInv => SetMembers
  <2> DEFINE M == Members(task)  v == task.v  n == task.n  list == task.list
  <2> DEFINE Elements == Len(value) = Cardinality(M) /\ \A k \in M : value[Cardinality(M \cap 1..k)] = list[k]
             Cut(k) == SubSeq(bytes, 1, k)
  <2> SUFFICES ASSUME TaskInv, Done({"set"})
               PROVE  /\ n > 1 /\ ~(n = 8 /\ v >= Size(8) \div 2) => Elements
                      /\ \A k \in 0..(n - 1) : SetDecode(Cut(k), n, list) = Unset
    BY DEF SetMembers
  <2>1. task.codec = "set" /\ value # Unset BY DEF Done
  <2>2. v \in 0..(Size(n) - 1) /\ list \in Seq(ToSet(list)) /\ n \in Nat /\ n \in {1, 2, 4, 8}
    BY <2>1 DEF TaskInv, IsTask
  <2>3. Size(n) \in Nat BY <2>2, SizeNat
  <2>4. v \in Int BY <2>2, <2>3
  <2>5. Encoded(task) = LittleEndian(v, n) /\ Encoded(task) # Unset
    <3>1. Encoded(task) = LittleEndian(v, n) BY <2>1 DEF Encoded
    <3> HIDE DEF v, n
    <3> QED BY <2>2, <2>4, <3>1, LittleInts
  <2>6. bytes = LittleEndian(v, n) /\ value = SetDecode(LittleEndian(v, n), n, list)
    BY <2>1, <2>5 DEF TaskInv, NumberDone, Number, Decoded
  <2>7. M = {k \in DOMAIN list : (v \div 2 ^ (k - 1)) % 2 = 1} BY DEF Members
  <2> DEFINE S == ToSet(list)
  <2>8. list \in Seq(S) BY <2>2
  <2> HIDE DEF M, v, n, list, S
  <2>9. ASSUME n > 1, ~(n = 8 /\ v >= Size(8) \div 2) PROVE Elements
    <3>1. n \in {2, 4, 8} /\ ~(n = 8 /\ v >= Size(n) \div 2) BY <2>2, <2>9
    <3>2. Picks(list, M, SetDecode(LittleEndian(v, n), n, list)) BY <2>2, <2>7, <2>8, <3>1, SetElements
    <3> QED BY <2>6, <3>2 DEF Picks
  <2>10. ASSUME NEW k \in 0..(n - 1) PROVE SetDecode(Cut(k), n, list) = Unset
    <3>1. v \in Nat /\ k \in 0..n /\ k < n BY <2>2, <2>3
    <3>2. UDecode("U", Cut(k), n) = Unset BY <2>2, <2>6, <3>1, UnsignedPart
    <3> QED BY <3>2 DEF SetDecode
  <2> HIDE DEF Elements, Cut
  <2> QED BY <2>9, <2>10
<1> QED BY <1>1, TaskInvariant, PTL

(* Compact<T>, at every width of T (Compact.Process, Compact.Encode).      *)
THEOREM CompactsAsWritten == Spec => []CompactReadsBack
<1>1. TaskInv => CompactReadsBack
  <2> SUFFICES ASSUME TaskInv, Done({"compact"}), bytes # Unset, Fits(task.v, task.n)
               PROVE  value = task.v
    BY DEF CompactReadsBack, Fits
  <2>1. task.codec = "compact" /\ value # Unset BY DEF Done
  <2>2. task.v \in Int /\ task.n \in Nat /\ task.n > 0
    <3>1. task.n \in Nat \ {0} /\ task.v \in Int BY <2>1 DEF TaskInv, IsTask, Number
    <3> QED BY <3>1
  <2>3. bytes = Encoded(task) /\ value = Decoded(task, bytes) BY <2>1 DEF TaskInv, NumberDone, Number
  <2>4. bytes = WriteCompact(task.v) /\ value = ReadCompact(bytes, task.n) BY <2>1, <2>3 DEF Encoded, Decoded
  <2> QED BY <2>2, <2>4, CompactCodes
<1> QED BY <1>1, TaskInvariant, PTL

(* What has become of a sum and of a number that is printed.               *)
WordsDone ==
  /\ task.codec = "divide" /\ value # Unset =>
       value = [quo |-> QuoRem(task.u, task.v), add |-> Add(task.u, task.v),
                sub |-> Sub(task.u, task.v), mul |-> Mul(task.u, task.v),
                cmp |-> Cmp(task.u, task.v)]
  /\ task.codec = "print" /\ value # Unset => value = String(task.u)

LEMMA WordsDoneStep ==
  ASSUME WordsDone, [Next]_vars
  PROVE  WordsDone'
<1>1. task' = task
  BY DEF Next, vars, Encode, Refuse, Decode, Reencode, Divide, Format, ReadLeaf, CompareBoth
<1>2. CASE task.codec \notin {"divide", "print"} BY <1>1, <1>2 DEF WordsDone
<1>3. CASE task.codec \in {"divide", "print"}
  <2>1. Divide \/ Format \/ UNCHANGED vars
    BY <1>3 DEF Next, Number, Text, LeafCodec, Account, Encode, Refuse, Decode, Reencode, ReadLeaf, CompareBoth
  <2>2. CASE Divide BY <1>1, <2>2 DEF Divide, WordsDone
  <2>3. CASE Format BY <1>1, <2>3 DEF Format, WordsDone
  <2>4. CASE UNCHANGED vars BY <2>4 DEF vars, WordsDone
  <2> QED BY <2>1, <2>2, <2>3, <2>4
<1> QED BY <1>2, <1>3

(* Arithmetic of two words and its decimal digits (uint128.Uint128).       *)
THEOREM WordsAsNumbers == Spec => []Uint128Exact
<1>1. Init => WordsDone BY DEF Init, WordsDone
<1>2. WordsDone /\ [Next]_vars => WordsDone' BY WordsDoneStep
<1>3. TaskInv /\ WordsDone => Uint128Exact
  <2> SUFFICES ASSUME TaskInv, WordsDone PROVE Uint128Exact OBVIOUS
  <2> DEFINE u == Num(task.u)  v == Num(task.v)  all == Radix * Radix
             Divided == /\ Num(value.quo.q) = u \div v /\ Num(value.quo.r) = u % v
                        /\ Num(value.add) = (u + v) % all /\ Num(value.sub) = (u - v) % all
                        /\ Num(value.mul) = (u * v) % all
                        /\ value.cmp = IF u < v THEN -1 ELSE IF u = v THEN 0 ELSE 1
             Written == Decimal(value) = u /\ (value[1] = 0 => value = <<0>>)
  <2>1. ASSUME Done({"divide"}) PROVE Divided
    <3>1. task.codec = "divide" /\ value # Unset BY <2>1 DEF Done
    <3>2. task.u \in TwoWords /\ task.v \in TwoWords /\ task.v # Zero BY <3>1 DEF TaskInv, IsTask
    <3>3. /\ value.quo = QuoRem(task.u, task.v) /\ value.add = Add(task.u, task.v)
          /\ value.sub = Sub(task.u, task.v) /\ value.mul = Mul(task.u, task.v)
          /\ value.cmp = Cmp(task.u, task.v)
      BY <3>1 DEF WordsDone
    <3>4. /\ Num(QuoRem(task.u, task.v).q) = u \div v /\ Num(QuoRem(task.u, task.v).r) = u % v
      BY <3>2, QuoRemExact
    <3>5. Num(Add(task.u, task.v)) = (u + v) % all BY <3>2, AddExact
    <3>6. Num(Sub(task.u, task.v)) = (u - v) % all BY <3>2, SubExact
    <3>7. Num(Mul(task.u, task.v)) = (u * v) % all BY <3>2, MulExact
    <3>8. Cmp(task.u, task.v) = IF u < v THEN -1 ELSE IF u = v THEN 0 ELSE 1 BY <3>2, CmpExact
    <3> HIDE DEF u, v, all
    <3> QED BY <3>3, <3>4, <3>5, <3>6, <3>7, <3>8
  <2>2. ASSUME Done({"print"}) PROVE Written
    <3>1. task.codec = "print" /\ value # Unset BY <2>2 DEF Done
    <3>2. task.u \in TwoWords BY <3>1 DEF TaskInv, IsTask
    <3>3. value = String(task.u) BY <3>1 DEF WordsDone
    <3>4. CASE task.u = Zero
      <4> DEFINE z == <<0>>
      <4>1. value = z BY <3>3, <3>4 DEF String
      <4>2. u = 0
        <5>1. 0 \in 0..(Radix - 1) BY RadixFacts
        <5> QED BY <3>4, <5>1, OneWord DEF Zero
      <4>3. Decimal(z) = 0
        <5> DEFINE f == [i \in 0..1 |-> 0]
        <5>1. f \in [0..1 -> Nat] /\ f[0] = 0 /\ f[1] = 0 OBVIOUS
        <5>2. \A i \in 1..1 : f[i] = 10 * f[i - 1] + z[i] OBVIOUS
        <5>3. z \in Seq(Nat) /\ Len(z) = 1 OBVIOUS
        <5> HIDE DEF f, z
        <5>4. CountsUp(z, 1, f) BY <5>1, <5>2 DEF CountsUp
        <5> QED BY <5>1, <5>3, <5>4, DecimalIs
      <4> HIDE DEF u
      <4> QED BY <4>1, <4>2, <4>3
    <3>5. CASE task.u # Zero
      <4>1. Printed(value, u) BY <3>2, <3>3, <3>5, ChunksExact DEF String
      <4> QED BY <4>1 DEF Printed
    <3> QED BY <3>4, <3>5
  <2> QED BY <2>1, <2>2 DEF Uint128Exact
<1> QED BY <1>1, <1>2, <1>3, TaskInvariant, PTL DEF Spec

-----------------------------------------------------------------------------
(* A length prefix, as CompactCodec reads and writes it.                   *)
LEMMA UnsignedLittle ==
  ASSUME NEW w \in Nat, NEW m \in 1..4, w < Size(m), NEW bs, IsLittle(bs, w, m)
  PROVE  Unsigned(bs) = w
<1> DEFINE q(i) == w \div Size(i)
           z == Joined(0, Joined(0, Joined(0, 0)))
<1>1. bs \in Seq(Int) /\ Len(bs) = m /\ \A i \in 1..m : bs[i] = q(i - 1) % Base BY DEF IsLittle
<1>2. q(0) = w
  <2>1. Size(0) = 1 /\ w \div 1 = w BY SizesToFour
  <2> QED BY <2>1
<1>3. ASSUME NEW i \in 0..3
      PROVE  q(i) \in Int /\ q(i + 1) \in Int /\ q(i) = Base * q(i + 1) + (q(i) % Base)
  <2>1. Size(i) \in Nat /\ Size(i) > 0 /\ Size(i + 1) = Base * Size(i) BY SizeStep
  <2> DEFINE p == Size(i)
  <2> HIDE DEF p
  <2>2. p \in Nat /\ p > 0 /\ Base \in Nat /\ Base > 0 BY <2>1, BaseFacts DEF p
  <2>3. w \div (Base * p) = (w \div p) \div Base BY <2>2, ModStep
  <2>4. q(i + 1) = q(i) \div Base BY <2>1, <2>3 DEF p
  <2>5. q(i) \in Int BY <2>2, DivMod DEF p
  <2> HIDE DEF q
  <2> QED BY <2>2, <2>4, <2>5, DivMod
<1>4. ASSUME NEW i \in m..4 PROVE q(i) = 0
  <2>1. Size(m) <= Size(i) /\ Size(m) \in Nat /\ Size(i) \in Nat /\ Size(i) > 0 BY SizeGrows, SizeNat
  <2> DEFINE p == Size(i)
  <2>2. p \in Nat /\ p > 0 /\ w \in 0..(p - 1) /\ w = p * 0 + w BY <2>1
  <2> HIDE DEF p
  <2>3. w \div p = 0 BY <2>2, DivUnique
  <2> QED BY <2>3 DEF p
<1>5. ASSUME NEW i \in 1..4 PROVE ByteAt(bs, i) = q(i - 1) % Base
  <2>1. CASE i <= m
    <3>1. i \in 1..m /\ i <= Len(bs) /\ i <= Word BY <1>1, <2>1, CompactAssumption
    <3> QED BY <1>1, <3>1 DEF ByteAt
  <2>2. CASE ~(i <= m)
    <3>1. i - 1 \in m..4 BY <2>2
    <3>2. q(i - 1) = 0 BY <1>4, <3>1
    <3>3. 0 % Base = 0 BY BaseFacts
    <3>4. ByteAt(bs, i) = 0 BY <1>1, <2>2 DEF ByteAt
    <3> HIDE DEF q
    <3> QED BY <3>2, <3>3, <3>4
  <2> QED BY <2>1, <2>2
<1>6. ASSUME NEW i \in 5..8 PROVE ByteAt(bs, i) = 0 BY <1>1 DEF ByteAt
<1>7. q(4) = 0 BY <1>4
<1> HIDE DEF q
<1>8. z = 0 BY BaseFacts DEF Joined
<1>9. Unsigned(bs) = Joined(q(0) % Base, Joined(q(1) % Base, Joined(q(2) % Base,
                       Joined(q(3) % Base, z))))
  <2>1. /\ ByteAt(bs, 1) = q(0) % Base /\ ByteAt(bs, 2) = q(1) % Base
        /\ ByteAt(bs, 3) = q(2) % Base /\ ByteAt(bs, 4) = q(3) % Base
    BY <1>5
  <2>2. ByteAt(bs, 5) = 0 /\ ByteAt(bs, 6) = 0 /\ ByteAt(bs, 7) = 0 /\ ByteAt(bs, 8) = 0 BY <1>6
  <2> QED BY <2>1, <2>2 DEF Unsigned
<1> HIDE DEF z
<1>10. z = q(4) BY <1>7, <1>8
<1>11. ASSUME NEW i \in 0..3 PROVE Joined(q(i) % Base, q(i + 1)) = q(i)
  <2>1. q(i) \in Int /\ q(i + 1) \in Int /\ q(i) = Base * q(i + 1) + (q(i) % Base) BY <1>3
  <2>2. q(i) % Base \in Int /\ Base * q(i + 1) \in Int BY <2>1, BaseFacts
  <2> QED BY <2>1, <2>2 DEF Joined
<1>12. Joined(q(3) % Base, q(4)) = q(3) BY <1>11, 3 \in 0..3
<1>13. Joined(q(2) % Base, q(3)) = q(2) BY <1>11, 2 \in 0..3
<1>14. Joined(q(1) % Base, q(2)) = q(1) BY <1>11, 1 \in 0..3
<1>15. Joined(q(0) % Base, q(1)) = q(0) BY <1>11, 0 \in 0..3
<1> QED BY <1>2, <1>9, <1>10, <1>12, <1>13, <1>14, <1>15

(* A slice of a sequence, and of what starts with it.                      *)
LEMMA Slice ==
  ASSUME NEW S, NEW s \in Seq(S), NEW a \in Nat, NEW b \in Nat, a <= b, b <= Len(s)
  PROVE  /\ SubSeq(s, a + 1, b) \in Seq(S) /\ Len(SubSeq(s, a + 1, b)) = b - a
         /\ \A i \in 1..(b - a) : SubSeq(s, a + 1, b)[i] = s[a + i]
<1> DEFINE z == SubSeq(s, a + 1, b)
<1>1. \A i \in (a + 1)..b : s[i] \in S OBVIOUS
<1>2. z = [i \in 1..(b - a) |-> s[a + i]] /\ Len(z) = b - a
  <2>1. Len(z) = b - a /\ DOMAIN z = 1..(b - a) OBVIOUS
  <2>2. \A i \in 1..(b - a) : z[i] = s[a + i] OBVIOUS
  <2>3. z \in Seq(S) BY <1>1
  <2> HIDE DEF z
  <2> QED BY <2>1, <2>2, <2>3
<1>3. z \in Seq(S) BY <1>1
<1>4. \A i \in 1..(b - a) : z[i] = s[a + i]
  <2> HIDE DEF z
  <2> QED BY <1>2
<1> QED BY <1>2, <1>3, <1>4

LEMMA SameSlice ==
  ASSUME NEW S, NEW s \in Seq(S), NEW t \in Seq(S), NEW a \in Nat, NEW b \in Nat, a <= b,
         b <= Len(s), b <= Len(t), \A i \in 1..b : t[i] = s[i]
  PROVE  SubSeq(t, a + 1, b) = SubSeq(s, a + 1, b)
<1> DEFINE x == SubSeq(t, a + 1, b)  y == SubSeq(s, a + 1, b)
<1>1. x \in Seq(S) /\ Len(x) = b - a /\ \A i \in 1..(b - a) : x[i] = t[a + i] BY Slice
<1>2. y \in Seq(S) /\ Len(y) = b - a /\ \A i \in 1..(b - a) : y[i] = s[a + i] BY Slice
<1> HIDE DEF x, y
<1>3. \A i \in 1..(b - a) : x[i] = y[i] BY <1>1, <1>2
<1>4. x = y BY <1>1, <1>2, <1>3, EqualSeqs
<1> QED BY <1>4 DEF x, y

(* What starts with a number's bytes has them in front.                    *)
LEMMA PrefixBytes ==
  ASSUME NEW s \in Seq(Int), NEW bs \in Seq(Int), IsPrefix(s, bs)
  PROVE  Len(s) <= Len(bs) /\ SubSeq(bs, 1, Len(s)) = s /\ \A i \in 1..Len(s) : bs[i] = s[i]
<1>1. Len(s) <= Len(bs) /\ SubSeq(s, 1, Len(s)) = SubSeq(bs, 1, Len(s)) BY DEF IsPrefix
<1>2. SubSeq(s, 1, Len(s)) = s OBVIOUS
<1>3. \A i \in 1..Len(s) : SubSeq(bs, 1, Len(s))[i] = bs[i] BY <1>1
<1> QED BY <1>1, <1>2, <1>3

(* A number of fewer than 31 bits is read as what was written.             *)
LEMMA PrefixRead ==
  ASSUME NEW n \in Nat, 2 * n < Size(4), NEW bs \in Seq(Int), IsPrefix(EncodeCompact(n), bs)
  PROVE  /\ EncodeCompact(n) \in Seq(Int) /\ Len(EncodeCompact(n)) >= 1
         /\ Len(EncodeCompact(n)) <= Len(bs)
         /\ CompactLength(bs[1]) = Len(EncodeCompact(n)) /\ CompactValue(bs) = n
<1> DEFINE s == EncodeCompact(n)
<1>1. Size(4) \in Nat BY 4 \in Nat, SizeNat
<1>2. CASE n < Size(4) \div 4
  <2>1. PICK mode, m : ShortForm(n, mode, m, s) BY <1>2, EncodedShort
  <2> DEFINE w == 4 * n + mode
  <2>2. /\ mode \in 0..2 /\ m = (IF mode = 0 THEN 1 ELSE IF mode = 1 THEN 2 ELSE 4)
        /\ IsLittle(s, w, m) /\ w < Size(m)
    BY <2>1 DEF ShortForm
  <2> HIDE DEF s
  <2>3. m \in {1, 2, 4} /\ CompactLength(s[1]) = m /\ w \in Nat /\ w \div 4 = n
    <3>1. mode \in 0..2 /\ m = (IF mode = 0 THEN 1 ELSE IF mode = 1 THEN 2 ELSE 4) BY <2>2
    <3>2. IsLittle(s, 4 * n + mode, m) BY <2>2
    <3>3. /\ m \in {1, 2, 4} /\ CompactLength(s[1]) = m
          /\ 4 * n + mode \in Nat /\ (4 * n + mode) \div 4 = n
      BY ONLY n \in Nat, <3>1, <3>2, ShortMode, SMTT(30)
    <3> QED BY ONLY <3>3
  <2>4. s \in Seq(Int) /\ Len(s) = m BY <2>2 DEF IsLittle
  <2>5. m <= Len(bs) /\ SubSeq(bs, 1, m) = s /\ bs[1] = s[1]
    <3>1. IsPrefix(s, bs) /\ 1 \in 1..Len(s) BY <2>3, <2>4 DEF s
    <3> QED BY <2>4, <3>1, PrefixBytes
  <2> HIDE DEF w
  <2>6. Unsigned(s) = w
    <3>1. m \in 1..4 BY <2>3
    <3> QED BY <2>2, <2>3, <3>1, UnsignedLittle
  <2>7. CompactValue(bs) = n
    <3>1. CompactLength(bs[1]) = m /\ m <= 4 BY <2>3, <2>5
    <3>2. CompactValue(bs) = Unsigned(SubSeq(bs, 1, m)) \div 4 BY <3>1 DEF CompactValue
    <3> QED BY <2>3, <2>5, <2>6, <3>2
  <2>8. Len(s) >= 1 /\ Len(s) <= Len(bs) /\ CompactLength(bs[1]) = Len(s) BY <2>3, <2>4, <2>5
  <2> QED BY ONLY <2>4, <2>7, <2>8 DEF s
<1>3. CASE ~(n < Size(4) \div 4)
  <2> DEFINE d == [k \in 1..4 |-> Digit(n, k)]
  <2>1. n < Size(4) BY <1>1
  <2>2. s = <<3>> \o d
    <3>1. Size(4) = Base * Base * Base * Base /\ Size(2) = Base * Base /\ Size(1) = Base BY SizesToFour
    <3>2. Size(2) <= Size(4) /\ Size(1) <= Size(4) /\ Size(2) \in Nat /\ Size(1) \in Nat
      <4>1. 1 \in Nat /\ 2 \in Nat /\ 4 \in Nat /\ 1 <= 4 /\ 2 <= 4 OBVIOUS
      <4>2. Size(2) <= Size(4) BY ONLY <4>1, SizeGrows
      <4>3. Size(1) <= Size(4) BY ONLY <4>1, SizeGrows
      <4>4. Size(2) \in Nat /\ Size(1) \in Nat BY ONLY <4>1, SizeNat
      <4> QED BY <4>2, <4>3, <4>4
    <3>3. ~(n < Size(2) \div 4) /\ ~(n < Size(1) \div 4) BY <1>1, <1>3, <3>2
    <3> QED BY <1>3, <3>1, <3>3 DEF EncodeCompact
  <2>3. IsLittle(d, n, 4) BY <2>1, 4 \in {1, 2, 4}, DigitsLittle
  <2> HIDE DEF d
  <2>4. d \in Seq(Int) /\ Len(d) = 4 /\ \A i \in 1..4 : d[i] = (n \div Size(i - 1)) % Base BY <2>3 DEF IsLittle
  <2>5. s \in Seq(Int) /\ Len(s) = 5 /\ s[1] = 3 /\ SubSeq(s, 1 + 1, 5) = d
    <3>1. s \in Seq(Int) /\ Len(s) = 5 /\ s[1] = 3 /\ \A i \in 1..4 : s[1 + i] = d[i]
      <4> HIDE DEF s
      <4> DEFINE h == <<3>>
      <4>1. h \in Seq(Int) /\ Len(h) = 1 /\ h[1] = 3 OBVIOUS
      <4>2. s = h \o d BY <2>2
      <4> HIDE DEF h
      <4>3. s \in Seq(Int) /\ Len(s) = Len(h) + Len(d)
            /\ \A i \in 1..(Len(h) + Len(d)) : s[i] = IF i <= Len(h) THEN h[i] ELSE d[i - Len(h)]
        BY <2>4, <4>1, <4>2, ConcatType
      <4>4. \A i \in 1..4 : s[1 + i] = d[i]
        <5> TAKE i \in 1..4
        <5>1. 1 + i \in 1..(Len(h) + Len(d)) /\ ~(1 + i <= Len(h)) /\ (1 + i) - Len(h) = i BY <2>4, <4>1
        <5> QED BY <4>3, <5>1
      <4> QED BY <2>4, <4>1, <4>3, <4>4
    <3> HIDE DEF s
    <3> DEFINE c == SubSeq(s, 1 + 1, 5)
    <3>2. 1 \in Nat /\ 5 \in Nat /\ 1 <= 5 /\ 5 <= Len(s) /\ 5 - 1 = 4 BY <3>1
    <3>3. c \in Seq(Int) /\ Len(c) = 5 - 1 /\ \A i \in 1..(5 - 1) : c[i] = s[1 + i]
      <4> DEFINE a == 1  b == 5
      <4>1. s \in Seq(Int) /\ a \in Nat /\ b \in Nat /\ a <= b /\ b <= Len(s) BY <3>1, <3>2
      <4> HIDE DEF a, b
      <4>2. /\ SubSeq(s, a + 1, b) \in Seq(Int) /\ Len(SubSeq(s, a + 1, b)) = b - a
            /\ \A i \in 1..(b - a) : SubSeq(s, a + 1, b)[i] = s[a + i]
        BY ONLY <4>1, Slice
      <4> QED BY <4>2 DEF a, b
    <3> HIDE DEF c
    <3>4. Len(c) = Len(d) /\ \A i \in 1..Len(c) : c[i] = d[i] BY <2>4, <3>1, <3>3
    <3>5. c = d BY <2>4, <3>3, <3>4, EqualSeqs
    <3> QED BY <3>1, <3>5 DEF c
  <2> HIDE DEF s
  <2>6. 5 <= Len(bs) /\ bs[1] = 3 /\ SubSeq(bs, 2, 5) = d
    <3>1. IsPrefix(s, bs) BY DEF s
    <3>2. 5 <= Len(bs) /\ \A i \in 1..5 : bs[i] = s[i] BY <2>5, <3>1, PrefixBytes
    <3>3. 1 \in Nat /\ 5 \in Nat /\ 1 <= 5 /\ 5 <= Len(s) BY <2>5
    <3>4. SubSeq(bs, 1 + 1, 5) = SubSeq(s, 1 + 1, 5) BY <2>5, <3>2, <3>3, SameSlice
    <3>5. 1 + 1 = 2 /\ 1 \in 1..5 OBVIOUS
    <3> QED BY ONLY <2>5, <3>2, <3>4, <3>5
  <2>7. CompactLength(bs[1]) = 5 BY <2>6 DEF CompactLength
  <2>8. ~Negative(d)
    <3>1. CASE Word = 4
      <4> DEFINE p == Size(3)  x == n \div p
      <4>1. p \in Nat /\ p > 0 /\ Size(4) = Base * p
        <5>1. Size(3 + 1) = Base * Size(3) BY 3 \in Nat, SizeStep
        <5> QED BY <5>1, 3 \in Nat, SizeNat
      <4>2. d[4] = x % Base BY <2>4, 4 \in 1..4
      <4> HIDE DEF p
      <4>3. x \in Int /\ n % p \in 0..(p - 1) /\ n = p * x + (n % p) BY <4>1, DivMod
      <4> HIDE DEF x
      <4> DEFINE h == Base \div 2
      <4>4. h \in Nat /\ Base = 2 * h /\ h >= 4 BY BaseFacts
      <4> HIDE DEF h
      <4>5. 2 * n < 2 * (h * p)
        <5>1. (2 * h) * p = 2 * (h * p) BY <4>1, <4>4
        <5> QED BY <4>1, <4>4, <5>1
      <4>6. n < h * p /\ h * p \in Int BY <4>1, <4>4, <4>5
      <4>7. x < h
        <5> SUFFICES ASSUME x >= h PROVE FALSE BY <4>3, <4>4
        <5>1. p * x >= p * h /\ p * x \in Int /\ p * h = h * p BY <4>1, <4>3, <4>4
        <5>2. n % p \in Int /\ n % p >= 0 BY <4>1, <4>3
        <5>3. n >= h * p BY <4>3, <4>6, <5>1, <5>2
        <5> QED BY <4>6, <5>3
      <4>8. x >= 0
        <5> SUFFICES ASSUME x <= -1 PROVE FALSE BY <4>3
        <5>1. p * x <= -p /\ p * x \in Int BY <4>1, <4>3
        <5> QED BY <4>1, <4>3, <5>1
      <4>9. x % Base = x
        <5>1. x \in 0..(Base - 1) BY <4>3, <4>4, <4>7, <4>8
        <5> QED BY <5>1, BaseFacts, SmallMod
      <4>10. d[Word] < Base \div 2 BY <3>1, <4>2, <4>4, <4>7, <4>9 DEF h
      <4>11. d[Word] \in Int BY <3>1, <4>2, <4>3, <4>9
      <4> QED BY <4>4, <4>10, <4>11 DEF Negative
    <3>2. CASE Word # 4 BY <2>4, <3>2, CompactAssumption DEF Negative
    <3> QED BY <3>1, <3>2
  <2>9. Unsigned(d) = n BY <2>1, <2>3, 4 \in 1..4, UnsignedLittle
  <2>10. CompactValue(bs) = n
    <3>1. CompactValue(bs) = Signed(SubSeq(bs, 2, 5)) BY <2>7 DEF CompactValue
    <3>2. Signed(d) = n BY <2>8, <2>9 DEF Signed
    <3> QED BY <2>6, <3>1, <3>2
  <2> QED BY <2>5, <2>6, <2>7, <2>10 DEF s
<1> QED BY <1>2, <1>3

-----------------------------------------------------------------------------
(* Bytes in the middle of others.                                          *)
Inside(bs, at, v) ==
  /\ bs \in Seq(Byte) /\ at \in Nat /\ v \in Seq(Byte)
  /\ at + Len(v) <= Len(bs) /\ \A i \in 1..Len(v) : bs[at + i] = v[i]

LEMMA LeafInside ==
  ASSUME NEW t, IsLeaf(t)
  PROVE  Inside(Around(t), Len(t.before), t.v)
<1> DEFINE b == t.before  v == t.v  a == t.after  bv == b \o v  bs == bv \o a
<1>1. b \in Seq(Byte) /\ v \in Seq(Byte) /\ a \in Seq(Byte) BY DEF IsLeaf
<1>2. Around(t) = bs BY DEF Around
<1> HIDE DEF b, v, a
<1>3. /\ bv \in Seq(Byte) /\ Len(bv) = Len(b) + Len(v)
      /\ \A i \in 1..(Len(b) + Len(v)) : bv[i] = IF i <= Len(b) THEN b[i] ELSE v[i - Len(b)]
  BY <1>1, ConcatType
<1> HIDE DEF bv
<1>4. /\ bs \in Seq(Byte) /\ Len(bs) = Len(bv) + Len(a)
      /\ \A i \in 1..(Len(bv) + Len(a)) : bs[i] = IF i <= Len(bv) THEN bv[i] ELSE a[i - Len(bv)]
  <2>1. bv \in Seq(Byte) /\ a \in Seq(Byte) BY <1>1, <1>3
  <2> QED BY ONLY <2>1, ConcatType
<1> HIDE DEF bs
<1>5. Len(b) \in Nat /\ Len(v) \in Nat /\ Len(a) \in Nat BY <1>1
<1>6. ASSUME NEW i \in 1..Len(v) PROVE bs[Len(b) + i] = v[i]
  <2> DEFINE k == Len(b) + i
  <2>1. k \in 1..(Len(b) + Len(v)) /\ k \in 1..(Len(bv) + Len(a)) /\ k <= Len(bv) /\ ~(k <= Len(b))
        /\ k - Len(b) = i
    BY <1>3, <1>5
  <2> HIDE DEF k
  <2>2. bs[k] = bv[k] BY <1>4, <2>1
  <2>3. bv[k] = v[k - Len(b)] BY <1>3, <2>1
  <2> QED BY <2>1, <2>2, <2>3 DEF k
<1>7. Len(b) + Len(v) <= Len(bs) BY <1>3, <1>4, <1>5
<1>8. Inside(bs, Len(b), v) BY <1>1, <1>4, <1>5, <1>6, <1>7 DEF Inside
<1> QED BY <1>2, <1>8 DEF b, v

LEMMA NextIs ==
  ASSUME NEW bs, NEW at, NEW v, Inside(bs, at, v), NEW c \in Nat, NEW n \in Nat, c + n <= Len(v)
  PROVE  NextBytes(bs, at + c, n) = SubSeq(v, c + 1, c + n) /\ Moved(bs, at + c, n) = at + c + n
<1> DEFINE a == at + c  x == SubSeq(bs, a + 1, a + n)  y == SubSeq(v, c + 1, c + n)
<1>1. /\ bs \in Seq(Byte) /\ at \in Nat /\ v \in Seq(Byte)
      /\ at + Len(v) <= Len(bs) /\ \A i \in 1..Len(v) : bs[at + i] = v[i]
  BY DEF Inside
<1>2. a \in Nat /\ a + n \in Nat /\ a <= a + n /\ a + n <= Len(bs) /\ a + n - a = n BY <1>1
<1>3. c + n \in Nat /\ c <= c + n /\ c + n - c = n BY <1>1
<1>4. x \in Seq(Byte) /\ Len(x) = n /\ \A i \in 1..n : x[i] = bs[a + i]
  <2> HIDE DEF a
  <2>1. /\ x \in Seq(Byte) /\ Len(x) = a + n - a /\ \A i \in 1..(a + n - a) : x[i] = bs[a + i]
    BY <1>1, <1>2, Slice
  <2> QED BY <1>2, <2>1
<1>5. y \in Seq(Byte) /\ Len(y) = n /\ \A i \in 1..n : y[i] = v[c + i]
  <2>1. /\ y \in Seq(Byte) /\ Len(y) = c + n - c /\ \A i \in 1..(c + n - c) : y[i] = v[c + i]
    BY <1>1, <1>3, Slice
  <2> QED BY <1>3, <2>1
<1>6. ASSUME NEW i \in 1..n PROVE bs[a + i] = v[c + i]
  <2>1. c + i \in 1..Len(v) /\ a + i = at + (c + i) BY <1>1
  <2> QED BY <1>1, <2>1
<1> HIDE DEF x, y
<1>7. x = y BY <1>4, <1>5, <1>6, EqualSeqs
<1>8. ~(a + n > Len(bs)) BY <1>1, <1>2
<1> HIDE DEF a
<1>9. NextBytes(bs, a, n) = x /\ Moved(bs, a, n) = a + n BY <1>8 DEF NextBytes, Moved, x
<1> QED BY <1>7, <1>9 DEF a, y

LEMMA WholeIs ==
  ASSUME NEW bs, NEW at, NEW v, Inside(bs, at, v)
  PROVE  NextBytes(bs, at, Len(v)) = v /\ Moved(bs, at, Len(v)) = at + Len(v)
<1>1. at \in Nat /\ v \in Seq(Byte) BY DEF Inside
<1> DEFINE n == Len(v)  c == 0
<1>2. n \in Nat /\ c \in Nat /\ c + n <= Len(v) /\ at + c = at /\ c + n = n /\ at + c + n = at + n BY <1>1
<1>3. SubSeq(v, 1, n) = v BY <1>1
<1>4. c + 1 = 1 OBVIOUS
<1> HIDE DEF n, c
<1>5. NextBytes(bs, at + c, n) = SubSeq(v, c + 1, c + n) /\ Moved(bs, at + c, n) = at + c + n
  BY <1>2, NextIs
<1> QED BY <1>2, <1>3, <1>4, <1>5 DEF n

LEMMA FirstIs ==
  ASSUME NEW bs, NEW at, NEW v, Inside(bs, at, v), v # <<>>
  PROVE  /\ NextBytes(bs, at, 1) = <<v[1]>> /\ Moved(bs, at, 1) = at + 1 /\ bs[at + 1] = v[1]
         /\ v[1] \in Byte /\ Len(v) >= 1
<1>1. at \in Nat /\ v \in Seq(Byte) /\ \A i \in 1..Len(v) : bs[at + i] = v[i] BY DEF Inside
<1>2. Len(v) >= 1 /\ 1 \in 1..Len(v) /\ v[1] \in Byte
  <2>1. Len(v) # 0 BY <1>1
  <2> QED BY <1>1, <2>1
<1>6. SubSeq(v, 1, 1) = <<v[1]>>
  <2> DEFINE a == 0  b == 1  x == SubSeq(v, a + 1, b)
  <2>1. a \in Nat /\ b \in Nat /\ a <= b /\ b <= Len(v) /\ b - a = 1 BY <1>2
  <2>2. a + 1 = 1 /\ b = 1 OBVIOUS
  <2> HIDE DEF a, b
  <2>3. x \in Seq(Byte) /\ Len(x) = b - a /\ \A i \in 1..(b - a) : x[i] = v[a + i] BY <1>1, <2>1, Slice
  <2>4. a + 1 = 1 /\ x \in Seq(Byte) /\ Len(x) = 1 /\ x[1] = v[1]
    <3>1. 1 \in 1..(b - a) BY <2>1
    <3> QED BY <2>1, <2>2, <2>3, <3>1
  <2> HIDE DEF x
  <2>5. x = <<v[1]>> BY <2>4
  <2> QED BY <2>2, <2>5 DEF x
<1> DEFINE n == 1  c == 0
<1>3. n \in Nat /\ c \in Nat /\ c + n <= Len(v) /\ at + c = at /\ c + n = 1 /\ at + c + n = at + 1 BY <1>1, <1>2
<1>4. c + 1 = 1 /\ n = 1 OBVIOUS
<1> HIDE DEF n, c
<1>5. NextBytes(bs, at + c, n) = SubSeq(v, c + 1, c + n) /\ Moved(bs, at + c, n) = at + c + n
  BY <1>3, NextIs
<1> QED BY <1>1, <1>2, <1>3, <1>4, <1>5, <1>6

TailNext(bs, at, v) ==
  /\ NextBytes(bs, at + 1, Len(v) - 1) = Tail(v)
  /\ Moved(bs, at + 1, Len(v) - 1) = at + Len(v)
  /\ v = <<v[1]>> \o Tail(v)

LEMMA TailIs ==
  ASSUME NEW bs, NEW at, NEW v, Inside(bs, at, v), v # <<>>
  PROVE  TailNext(bs, at, v)
<1>1. at \in Nat /\ v \in Seq(Byte) BY DEF Inside
<1> DEFINE c == 1  n == Len(v) - 1
<1>2. n \in Nat /\ c \in Nat /\ c + n <= Len(v) /\ c + n = Len(v) /\ at + c + n = at + Len(v)
  <2>1. Len(v) # 0 BY <1>1
  <2> QED BY <1>1, <2>1
<1>3. SubSeq(v, 2, Len(v)) = Tail(v) /\ v = <<v[1]>> \o Tail(v) BY <1>1
<1>4. c + 1 = 2 /\ at + c = at + 1 OBVIOUS
<1> HIDE DEF c, n
<1>5. NextBytes(bs, at + c, n) = SubSeq(v, c + 1, c + n) /\ Moved(bs, at + c, n) = at + c + n
  BY <1>2, NextIs
<1>6. NextBytes(bs, at + 1, n) = Tail(v) /\ Moved(bs, at + 1, n) = at + Len(v) BY <1>2, <1>3, <1>4, <1>5
<1> QED BY <1>3, <1>6 DEF n, TailNext

LEMMA PrefixInside ==
  ASSUME NEW bs, NEW at, NEW v, Inside(bs, at, v), NEW c \in Nat, NEW d \in Nat, c <= d, d <= Len(v),
         NEW s \in Seq(Int), IsPrefix(s, SubSeq(v, c + 1, d))
  PROVE  SubSeq(bs, at + c + 1, Len(bs)) \in Seq(Int) /\ IsPrefix(s, SubSeq(bs, at + c + 1, Len(bs)))
<1> DEFINE a == at + c  y == SubSeq(v, c + 1, d)  m == Len(bs)  x == SubSeq(bs, a + 1, m)  n == Len(s)
<1>1. /\ bs \in Seq(Byte) /\ at \in Nat /\ v \in Seq(Byte)
      /\ at + Len(v) <= m /\ \A i \in 1..Len(v) : bs[at + i] = v[i]
  BY DEF Inside
<1>2. Byte \subseteq Int BY BaseFacts DEF Byte
<1>3. bs \in Seq(Int) /\ v \in Seq(Int) BY <1>1, <1>2, WiderSeq
<1>4. y \in Seq(Int) /\ Len(y) = d - c /\ \A i \in 1..(d - c) : y[i] = v[c + i] BY <1>3, Slice
<1>5. a \in Nat /\ m \in Nat /\ a <= m BY <1>1
<1> HIDE DEF a, y
<1>6. x \in Seq(Int) /\ Len(x) = m - a /\ \A i \in 1..(m - a) : x[i] = bs[a + i]
  <2>1. bs \in Seq(Int) /\ a \in Nat /\ m \in Nat /\ a <= m /\ m <= Len(bs) BY <1>3, <1>5
  <2> HIDE DEF m
  <2>2. /\ SubSeq(bs, a + 1, m) \in Seq(Int) /\ Len(SubSeq(bs, a + 1, m)) = m - a
        /\ \A i \in 1..(m - a) : SubSeq(bs, a + 1, m)[i] = bs[a + i]
    BY ONLY <2>1, Slice, SMTT(30)
  <2> QED BY <2>2
<1> HIDE DEF x
<1>7. IsPrefix(s, y) BY DEF y
<1>8. n <= d - c /\ SubSeq(y, 1, n) = s /\ \A i \in 1..n : y[i] = s[i] BY <1>4, <1>7, PrefixBytes
<1>9. n \in Nat /\ n <= m - a BY <1>1, <1>8 DEF a
<1>10. ASSUME NEW i \in 1..n PROVE x[i] = s[i]
  <2>1. i \in 1..(m - a) /\ i \in 1..(d - c) /\ c + i \in 1..Len(v) /\ a + i = at + (c + i)
    BY <1>1, <1>8, <1>9 DEF a
  <2>2. x[i] = bs[a + i] /\ bs[at + (c + i)] = v[c + i] /\ y[i] = v[c + i] /\ y[i] = s[i]
    BY <1>1, <1>4, <1>6, <1>8, <2>1
  <2> QED BY <2>1, <2>2
<1>11. SubSeq(x, 1, n) = SubSeq(s, 1, n)
  <2> DEFINE z == 0
  <2>1. z \in Nat /\ z <= n /\ n <= Len(s) /\ n <= Len(x) /\ z + 1 = 1 BY <1>6, <1>9
  <2> HIDE DEF n, z
  <2>2. SubSeq(x, z + 1, n) = SubSeq(s, z + 1, n) BY <1>6, <1>9, <1>10, <2>1, SameSlice
  <2> QED BY <2>1, <2>2
<1>12. IsPrefix(s, x) BY <1>6, <1>9, <1>11 DEF IsPrefix
<1> QED BY <1>6, <1>12 DEF x, a

-----------------------------------------------------------------------------
(* What a leaf is read as, and written from that.                          *)
Reads(t, r, w) ==
  r = DecodeLeaf(t.codec, Around(t), Len(t.before)) /\ w = EncodeLeaf(t.codec, r.value)
Aligned(t, r, w) ==
  r.at = Len(t.before) + Len(t.v) /\ (w # Unset /\ ~Rewritten(t) => w = t.v)

LEMMA TakenWhole ==
  ASSUME NEW t, IsLeaf(t), NEW n, n = Len(t.v), NEW kind
  PROVE  Taken(Around(t), Len(t.before), n, kind)
           = [value |-> [kind |-> kind, bytes |-> t.v], at |-> Len(t.before) + Len(t.v)]
<1> DEFINE bs == Around(t)  at == Len(t.before)  v == t.v
<1>1. Inside(bs, at, v) BY LeafInside
<1> HIDE DEF bs, at, v
<1>2. NextBytes(bs, at, Len(v)) = v /\ Moved(bs, at, Len(v)) = at + Len(v) BY <1>1, WholeIs
<1>3. n = Len(v) BY DEF v
<1>4. Taken(bs, at, n, kind) = [value |-> [kind |-> kind, bytes |-> v], at |-> at + Len(v)]
  BY <1>2, <1>3 DEF Taken, Leaf
<1> QED BY <1>4 DEF bs, at, v

LEMMA EraAligned ==
  ASSUME NEW t, IsLeaf(t), t.codec = "Era", NEW r, NEW w, Reads(t, r, w)
  PROVE  Aligned(t, r, w)
<1> DEFINE bs == Around(t)  at == Len(t.before)  v == t.v
           n == IF NextBytes(bs, at, 1) = <<0>> THEN 1 ELSE 2
<1>1. Inside(bs, at, v) BY LeafInside
<1>2. r = Taken(bs, at, n, "hex") /\ w = r.value.bytes BY DEF Reads, DecodeLeaf, DecodeEra, EncodeLeaf
<1>3. v = <<0>> \/ (Len(v) = 2 /\ v[1] # 0)
  <2>1. t.form = "era" /\ IsForm(t.form, t.v) BY DEF IsLeaf, Forms, Account
  <2> QED BY <2>1 DEF IsForm
<1>4. v \in Seq(Byte) /\ v # <<>>
  <2>1. Len(<<0>>) = 1 /\ Len(<<>>) = 0 OBVIOUS
  <2>2. v \in Seq(Byte) BY <1>1 DEF Inside
  <2> HIDE DEF v
  <2> QED BY <1>3, <2>1, <2>2
<1>5. n = Len(v)
  <2> HIDE DEF bs, at, v
  <2>1. NextBytes(bs, at, 1) = <<v[1]>> BY <1>1, <1>4, FirstIs
  <2>2. <<v[1]>> = <<0>> <=> v[1] = 0 OBVIOUS
  <2> QED BY <1>3, <2>1, <2>2
<1> HIDE DEF n
<1>6. r = [value |-> [kind |-> "hex", bytes |-> v], at |-> at + Len(v)] BY <1>2, <1>5, TakenWhole
<1> HIDE DEF at, v
<1>7. r.at = at + Len(v) /\ w = v BY <1>2, <1>6
<1> QED BY <1>7 DEF Aligned, at, v

LEMMA HashAligned ==
  ASSUME NEW t, IsLeaf(t), t.codec = "H256", NEW r, NEW w, Reads(t, r, w)
  PROVE  Aligned(t, r, w)
<1>1. r = Taken(Around(t), Len(t.before), HashLength, "hex") /\ w = r.value.bytes
  BY DEF Reads, DecodeLeaf, EncodeLeaf
<1>2. Len(t.v) = HashLength
  <2>1. t.form = "account" /\ IsForm(t.form, t.v) BY DEF IsLeaf, Forms, Account
  <2> QED BY <2>1 DEF IsForm
<1>3. r = [value |-> [kind |-> "hex", bytes |-> t.v], at |-> Len(t.before) + Len(t.v)]
  BY <1>1, <1>2, TakenWhole
<1> DEFINE at == Len(t.before)  v == t.v
<1> HIDE DEF at, v
<1>4. r = [value |-> [kind |-> "hex", bytes |-> v], at |-> at + Len(v)] BY <1>3 DEF at, v
<1>5. r.at = at + Len(v) /\ w = v BY <1>1, <1>4
<1> QED BY <1>5 DEF Aligned, at, v

LEMMA AccountIdAligned ==
  ASSUME NEW t, IsLeaf(t), t.codec = "AccountId", NEW r, NEW w, Reads(t, r, w)
  PROVE  Aligned(t, r, w)
<1> DEFINE bs == Around(t)  at == Len(t.before)  v == t.v
<1>1. Inside(bs, at, v) BY LeafInside
<1>2. r = DecodeAccountId(bs, at) /\ w = r.value.bytes BY DEF Reads, DecodeLeaf, EncodeLeaf
<1>3. Len(v) = HashLength
  <2>1. t.form = "account" /\ IsForm(t.form, t.v) BY DEF IsLeaf, Forms, Account
  <2> QED BY <2>1 DEF IsForm
<1> HIDE DEF bs, at, v
<1>4. NextBytes(bs, at, HashLength) = v /\ Moved(bs, at, HashLength) = at + Len(v)
  BY <1>1, <1>3, WholeIs
<1> DEFINE none == [i \in 1..(HashLength - Len(v)) |-> 0]
<1>5. none \o v = v
  <2>1. v \in Seq(Byte) BY <1>1 DEF Inside
  <2>2. 1..(HashLength - Len(v)) = {} BY <1>3, <2>1
  <2>3. none = <<>> BY <2>2
  <2> HIDE DEF none
  <2> QED BY <2>1, <2>3, ConcatEmpty
<1>6. r = [value |-> Leaf("hex", none \o v), at |-> at + Len(v)] BY <1>2, <1>4 DEF DecodeAccountId
<1> HIDE DEF none
<1>7. r.at = at + Len(v) /\ r.value.bytes = v BY <1>5, <1>6 DEF Leaf
<1> QED BY <1>2, <1>7 DEF Aligned, at, v

(* Addresses are not written.                                              *)
LEMMA Accounts ==
  ASSUME NEW t, IsLeaf(t), NEW bs, bs = Around(t), NEW at, at = Len(t.before),
         Len(t.v) = (IF t.v[1] = Ff THEN 1 + HashLength ELSE HashLength)
  PROVE  DecodeAccount(bs, at).at = at + Len(t.v)
<1> DEFINE v == t.v
<1>1. Inside(bs, at, v) BY LeafInside
<1>2. v \in Seq(Byte) /\ HashLength \in Nat \ {0} BY <1>1, LeafAssumption DEF Inside
<1>3. v # <<>>
  <2> SUFFICES ASSUME v = <<>> PROVE FALSE OBVIOUS
  <2>1. Len(v) = 0 OBVIOUS
  <2> QED BY <1>2, <2>1
<1>4. NextBytes(bs, at, 1) = <<v[1]>> BY <1>1, <1>3, FirstIs
<1>5. <<v[1]>> = <<Ff>> <=> v[1] = Ff OBVIOUS
<1>6. CASE v[1] # Ff
  <2>1. Len(v) = HashLength BY <1>6
  <2>2. DecodeAccount(bs, at) = Taken(bs, at, HashLength, "hex") BY <1>4, <1>5, <1>6 DEF DecodeAccount
  <2>3. Moved(bs, at, HashLength) = at + Len(v) BY <1>1, <2>1, WholeIs
  <2> QED BY <2>2, <2>3 DEF Taken
<1>7. CASE v[1] = Ff
  <2>1. HashLength = Len(v) - 1
    <3>1. Len(v) = 1 + HashLength BY <1>7
    <3>2. Len(v) \in Nat BY <1>2
    <3> HIDE DEF v
    <3> QED BY <1>2, <3>1, <3>2
  <2>2. DecodeAccount(bs, at) = Taken(bs, at + 1, HashLength, "hex") BY <1>4, <1>5, <1>7 DEF DecodeAccount
  <2> HIDE DEF v
  <2>3. TailNext(bs, at, v) BY <1>1, <1>3, TailIs
  <2>4. Moved(bs, at + 1, HashLength) = at + Len(v) BY <2>1, <2>3 DEF TailNext
  <2> QED BY <2>2, <2>4 DEF Taken, v
<1> QED BY <1>6, <1>7

LEMMA AddressAligned ==
  ASSUME NEW t, IsLeaf(t), ~Misread(t), t.codec = "Address", NEW r, NEW w, Reads(t, r, w)
  PROVE  Aligned(t, r, w)
<1>1. r = DecodeAccount(Around(t), Len(t.before)) /\ w = Unset
  BY DEF Reads, DecodeLeaf, EncodeLeaf
<1>2. t.form \in {"account", "prefixed", "index"} /\ IsForm(t.form, t.v)
  BY DEF IsLeaf, Forms, Account
<1>3. ~(t.form = "index" \/ (t.form = "account" /\ t.v[1] = Ff)) BY DEF Misread
<1>4. Len(t.v) = (IF t.v[1] = Ff THEN 1 + HashLength ELSE HashLength)
  BY <1>2, <1>3 DEF IsForm
<1>5. r.at = Len(t.before) + Len(t.v) BY <1>1, <1>4, Accounts
<1> QED BY <1>1, <1>5 DEF Aligned

LEMMA FormNonempty ==
  ASSUME NEW t, IsLeaf(t), Len(t.v) # 0
  PROVE  t.v \in Seq(Byte) /\ t.v # <<>> /\ Len(t.v) \in Nat
<1>1. t.v \in Seq(Byte) BY DEF IsLeaf
<1> QED BY <1>1

LEMMA GenericAddressAligned ==
  ASSUME NEW t, IsLeaf(t), ~Misread(t), t.codec = "GenericAddress", NEW r, NEW w, Reads(t, r, w)
  PROVE  Aligned(t, r, w)
<1> DEFINE bs == Around(t)  at == Len(t.before)  v == t.v
<1>1. Inside(bs, at, v) BY LeafInside
<1>2. r = DecodeGenericAddress(bs, at) /\ w = Unset BY DEF Reads, DecodeLeaf, EncodeLeaf
<1>3. t.form \in {"account", "prefixed", "index"} /\ IsForm(t.form, v) BY DEF IsLeaf, Forms, Account
<1>4. ~(t.form = "index" /\ Len(v) = 1) /\ ~(t.form = "account" /\ v[1] >= Fc) BY DEF Misread
<1>5. HashLength \in Nat \ {0} BY LeafAssumption
<1>6. \/ t.form = "account" /\ Len(v) = HashLength
      \/ t.form = "prefixed" /\ Len(v) = 1 + HashLength /\ v[1] = Ff
      \/ t.form = "index" /\ v # <<>> /\ v[1] \in Fc..(Ff - 1) /\ 2 ^ (v[1] - Fc + 1) = Len(v) - 1
  BY <1>3, <1>4 DEF IsForm
<1>7. v # <<>> /\ v \in Seq(Byte)
  <2>1. v \in Seq(Byte) BY <1>1 DEF Inside
  <2>2. CASE t.form = "index" BY <1>6, <2>1, <2>2
  <2>3. CASE t.form # "index"
    <3>1. Len(v) # 0 BY <1>5, <1>6, <2>3
    <3> QED BY <2>1, <3>1, FormNonempty
  <2> QED BY <2>2, <2>3
<1>8. NextBytes(bs, at, 1) = <<v[1]>> /\ bs[at + 1] = v[1] /\ v[1] \in Byte BY <1>1, <1>7, FirstIs
<1>9. Fc \in Int /\ Ff \in Int /\ Fc < Ff /\ v[1] \in Int BY <1>8, BaseFacts DEF Fc, Ff, Byte
<1>10. <<v[1]>> \in {<<b>> : b \in Fc..(Ff - 1)} <=> v[1] \in Fc..(Ff - 1)
  <2> DEFINE x == v[1]
  <2> HIDE DEF x
  <2>1. <<x>> \in {<<b>> : b \in Fc..(Ff - 1)} <=> x \in Fc..(Ff - 1)
    <3>1. \A b : <<x>> = <<b>> <=> x = b OBVIOUS
    <3> QED BY <3>1
  <2> QED BY <2>1 DEF x
<1>11. CASE v[1] \in Fc..(Ff - 1)
  <2>1. 2 ^ (v[1] - Fc + 1) = Len(v) - 1 BY <1>4, <1>6, <1>9, <1>11
  <2>2. r.at = Moved(bs, at + 1, 2 ^ (bs[at + 1] - Fc + 1))
    BY <1>2, <1>8, <1>10, <1>11 DEF DecodeGenericAddress
  <2>3. r.at = Moved(bs, at + 1, Len(v) - 1) BY <1>8, <2>1, <2>2
  <2>4. TailNext(bs, at, v) BY <1>1, <1>7, TailIs
  <2>5. r.at = at + Len(v) BY <2>3, <2>4 DEF TailNext
  <2> QED BY <1>2, <2>5 DEF Aligned
<1>12. CASE v[1] \notin Fc..(Ff - 1)
  <2>1. r = DecodeAccount(bs, at) BY <1>2, <1>8, <1>10, <1>12 DEF DecodeGenericAddress
  <2>2. Len(v) = (IF v[1] = Ff THEN 1 + HashLength ELSE HashLength) BY <1>4, <1>6, <1>9, <1>12
  <2>3. r.at = at + Len(v) BY <2>1, <2>2, Accounts
  <2> QED BY <1>2, <2>3 DEF Aligned
<1> QED BY <1>11, <1>12

LEMMA LookupAligned ==
  ASSUME NEW t, IsLeaf(t), ~Misread(t), t.codec = "GenericLookupSource", NEW r, NEW w, Reads(t, r, w)
  PROVE  Aligned(t, r, w)
<1> DEFINE bs == Around(t)  at == Len(t.before)  v == t.v
<1>1. Inside(bs, at, v) BY LeafInside
<1>2. r = DecodeLookup(bs, at) /\ w = Unset BY DEF Reads, DecodeLeaf, EncodeLeaf
<1>3. t.form \in {"account", "prefixed", "index"} /\ IsForm(t.form, v) BY DEF IsLeaf, Forms, Account
<1>4. t.form # "index" /\ ~(t.form = "account" /\ Len(bs) # HashLength) BY DEF Misread
<1>5. HashLength \in Nat \ {0} BY LeafAssumption
<1>6. \/ t.form = "account" /\ Len(v) = HashLength
      \/ t.form = "prefixed" /\ Len(v) = 1 + HashLength /\ v[1] = Ff
  BY <1>3, <1>4 DEF IsForm
<1>7. CASE t.form = "account"
  <2>1. Len(v) = HashLength /\ Len(bs) = HashLength BY <1>4, <1>6, <1>7
  <2>2. r = Taken(bs, at, HashLength, "hex") BY <1>2, <2>1 DEF DecodeLookup
  <2>3. r = [value |-> [kind |-> "hex", bytes |-> v], at |-> at + Len(v)] BY <2>1, <2>2, TakenWhole
  <2> HIDE DEF at, v
  <2>4. r.at = at + Len(v) BY <2>3
  <2> QED BY <1>2, <2>4 DEF Aligned, at, v
<1>8. CASE t.form # "account"
  <2>1. Len(v) = 1 + HashLength /\ v[1] = Ff BY <1>6, <1>8
  <2>2. v # <<>>
    <3>1. Len(v) # 0 BY <1>5, <2>1
    <3> QED BY <3>1, FormNonempty
  <2>3. Len(bs) # HashLength /\ HashLength = Len(v) - 1
    <3> HIDE DEF bs, at, v
    <3>1. at + Len(v) <= Len(bs) /\ at \in Nat /\ Len(v) \in Nat /\ Len(bs) \in Nat BY <1>1 DEF Inside
    <3> QED BY <1>5, <2>1, <3>1
  <2> HIDE DEF bs, at, v
  <2>4. NextBytes(bs, at, 1) = <<Ff>> BY <1>1, <2>1, <2>2, FirstIs
  <2>5. r = Taken(bs, at + 1, HashLength, "hex") BY <1>2, <2>3, <2>4 DEF DecodeLookup
  <2>6. TailNext(bs, at, v) BY <1>1, <2>2, TailIs
  <2>7. r.at = at + Len(v) BY <2>3, <2>5, <2>6 DEF TailNext, Taken
  <2> QED BY <1>2, <2>7 DEF Aligned, at, v
<1> QED BY <1>7, <1>8

LEMMA DataAligned ==
  ASSUME NEW t, IsLeaf(t), t.codec = "Data", NEW r, NEW w, Reads(t, r, w)
  PROVE  Aligned(t, r, w)
<1> DEFINE bs == Around(t)  at == Len(t.before)  v == t.v  i == v[1]  raw == Tail(v)
<1>1. Inside(bs, at, v) BY LeafInside
<1>2. r = DecodeData(bs, at) /\ (r.value.kind # "nil" => w = EncodeData(r.value))
  BY DEF Reads, DecodeLeaf, EncodeLeaf
<1>3. t.form \in {"none", "raw", "hash"} /\ IsForm(t.form, v) BY DEF IsLeaf, Forms, Account
<1>4. HashLength \in Nat \ {0} /\ MaxRaw \in Nat BY LeafAssumption
<1>5. \/ t.form = "none" /\ v = <<0>>
      \/ t.form = "raw" /\ Len(v) \in 1..(MaxRaw + 1) /\ v[1] = Len(v)
      \/ t.form = "hash" /\ Len(v) = 1 + HashLength /\ v[1] \in (MaxRaw + 2)..(MaxRaw + 5)
  BY <1>3 DEF IsForm
<1>6. v \in Seq(Byte) /\ v # <<>> /\ Len(v) \in Nat
  <2>1. Len(<<0>>) = 1 OBVIOUS
  <2>2. Len(v) # 0
    <3> HIDE DEF v
    <3> QED BY <1>4, <1>5, <2>1
  <2> QED BY <2>2, FormNonempty
<1>7. t.form = "raw" /\ ~Rewritten(t) => raw \in Utf8 \/ Len(v) = 2 BY DEF Rewritten
<1> HIDE DEF bs, at, v
<1>8. /\ NextBytes(bs, at, 1) = <<i>> /\ Moved(bs, at, 1) = at + 1 /\ i \in Byte
  BY <1>1, <1>6, FirstIs
<1>9. TailNext(bs, at, v) BY <1>1, <1>6, TailIs
<1>10. <<i>> # <<>> /\ (<<i>> = <<0>> <=> i = 0) /\ <<i>>[1] = i OBVIOUS
<1>11. raw \in Seq(Byte) /\ Len(raw) = Len(v) - 1 /\ v = <<i>> \o raw BY <1>6, <1>9 DEF TailNext
<1>12. Tail(<<i>> \o raw) = raw /\ (<<i>> \o raw)[1] = i
  <2> HIDE DEF raw
  <2> QED BY <1>8, <1>11
<1>13. CASE t.form = "none"
  <2>1. v = <<0>> /\ Len(v) = 1 /\ i = 0 BY <1>5, <1>13
  <2>2. r = [value |-> Leaf("None", <<>>), at |-> at + 1]
    BY <1>2, <1>8, <1>10, <2>1 DEF DecodeData
  <2>3. r.at = at + Len(v) /\ r.value.kind = "None" BY <2>1, <2>2 DEF Leaf
  <2>4. w = v BY <1>2, <2>1, <2>3 DEF EncodeData
  <2> QED BY <2>3, <2>4 DEF Aligned, at, v
<1>14. CASE t.form = "raw"
  <2>1. i = Len(v) /\ i \in 1..(MaxRaw + 1) /\ i <= MaxRaw + 1 /\ i # 0 BY <1>4, <1>5, <1>14
  <2> DEFINE kind == IF raw \in Utf8 THEN "text" ELSE "hex"
  <2>2. NextBytes(bs, at + 1, i - 1) = raw /\ Moved(bs, at + 1, i - 1) = at + Len(v)
    BY <1>9, <2>1 DEF TailNext
  <2>3. r = [value |-> Leaf(kind, <<i>> \o raw), at |-> at + Len(v)]
    <3> HIDE DEF i, raw
    <3> QED BY <1>2, <1>8, <1>10, <2>1, <2>2 DEF DecodeData
  <2>4. r.at = at + Len(v) /\ r.value.kind = kind /\ r.value.bytes = v BY <1>11, <2>3 DEF Leaf
  <2>5. kind \in {"text", "hex"} /\ w = EncodeData(r.value) BY <1>2, <2>4
  <2>6. raw \in Utf8 => w = v BY <2>4, <2>5 DEF EncodeData
  <2>7. raw \notin Utf8 /\ Len(v) = 2 => w = v
    <3> SUFFICES ASSUME raw \notin Utf8, Len(v) = 2 PROVE w = v OBVIOUS
    <3>1. kind = "hex" OBVIOUS
    <3>2. 2 * Len(raw) = i
      <4> HIDE DEF raw, i
      <4> QED BY <1>11, <2>1
    <3>3. 2 * Len(Tail(v)) = v[1] BY <3>2
    <3> QED BY <2>4, <2>5, <3>1, <3>3 DEF EncodeData
  <2>8. ~Rewritten(t) => w = v BY <1>7, <1>14, <2>6, <2>7
  <2> QED BY <2>4, <2>8 DEF Aligned, at, v
<1>15. CASE t.form = "hash"
  <2>1. HashLength = Len(v) - 1 /\ i \in (MaxRaw + 2)..(MaxRaw + 5) /\ i # 0
        /\ ~(i <= MaxRaw + 1) /\ i <= MaxRaw + 5 /\ i - MaxRaw + MaxRaw = i
    BY <1>4, <1>5, <1>6, <1>15
  <2>2. NextBytes(bs, at + 1, HashLength) = raw /\ Moved(bs, at + 1, HashLength) = at + Len(v)
    BY <1>9, <2>1 DEF TailNext
  <2> DEFINE x == <<i - MaxRaw>> \o raw
  <2>3. r = [value |-> Leaf("hash", x), at |-> at + Len(v)]
    <3> HIDE DEF i, raw
    <3> QED BY <1>2, <1>8, <1>10, <2>1, <2>2 DEF DecodeData
  <2>4. x[1] = i - MaxRaw /\ Tail(x) = raw
    <3> HIDE DEF raw
    <3>1. i - MaxRaw \in Int BY <1>4, <2>1
    <3>2. raw \in Seq(Int)
      <4>1. Byte \subseteq Int BY BaseFacts DEF Byte
      <4> QED BY <1>11, <4>1, WiderSeq
    <3> QED BY <3>1, <3>2
  <2> HIDE DEF x
  <2>5. r.at = at + Len(v) /\ r.value.kind = "hash" /\ r.value.bytes = x BY <2>3 DEF Leaf
  <2>6. w = <<x[1] + MaxRaw>> \o Tail(x) BY <1>2, <2>5 DEF EncodeData
  <2>7. w = v BY <1>11, <2>1, <2>4, <2>6
  <2> QED BY <2>5, <2>7 DEF Aligned, at, v
<1> QED BY <1>3, <1>13, <1>14, <1>15

(* A length prefix in the middle of others, and what it counts.            *)
PrefixAt(bs, a, n, e) ==
  /\ CompactLength(SubSeq(bs, a + 1, Len(bs))[1]) = e
  /\ CompactValue(SubSeq(bs, a + 1, Len(bs))) = n

LEMMA LengthRead ==
  ASSUME NEW bs, NEW at, NEW v, Inside(bs, at, v), NEW c \in Nat, NEW d \in Nat, c <= d, d <= Len(v),
         NEW n \in Nat, NEW len \in Nat, LengthFirst(SubSeq(v, c + 1, d), n, len)
  PROVE  /\ PrefixAt(bs, at + c, n, Len(EncodeCompact(n)))
         /\ EncodeCompact(n) \in Seq(Int) /\ Len(EncodeCompact(n)) + len = d - c
<1> DEFINE a == at + c  rest == SubSeq(bs, a + 1, Len(bs))
           s == EncodeCompact(n)  y == SubSeq(v, c + 1, d)
<1>1. 2 * n < Size(4) /\ IsPrefix(s, y) /\ Len(y) = Len(s) + len BY DEF LengthFirst
<1>2. v \in Seq(Int)
  <2>1. Byte \subseteq Int BY BaseFacts DEF Byte
  <2>2. v \in Seq(Byte) BY DEF Inside
  <2> QED BY <2>1, <2>2, WiderSeq
<1>3. y \in Seq(Int) /\ Len(y) = d - c BY <1>2, Slice
<1>4. s \in Seq(Int)
  <2> HIDE DEF y
  <2>1. EncodeCompact(n) \in Seq(Int) BY <1>1, <1>3, PrefixRead
  <2> QED BY <2>1
<1>5. rest \in Seq(Int) /\ IsPrefix(s, rest)
  <2> HIDE DEF s
  <2>1. IsPrefix(s, SubSeq(v, c + 1, d)) BY <1>1
  <2> QED BY <1>4, <2>1, PrefixInside
<1>6. CompactLength(rest[1]) = Len(s) /\ CompactValue(rest) = n
  <2> HIDE DEF rest
  <2> QED BY <1>1, <1>5, PrefixRead
<1>7. PrefixAt(bs, a, n, Len(s)) BY <1>6 DEF PrefixAt
<1>8. Len(s) + len = d - c
  <2>1. Len(s) \in Nat BY <1>4
  <2> HIDE DEF s, y
  <2> QED BY <1>1, <1>3, <2>1
<1> QED BY <1>4, <1>7, <1>8

LEMMA WholeNat ==
  ASSUME NEW n \in Nat
  PROVE  Whole(n) \in Nat /\ (Whole(n) = 0 <=> n = 0)
<1>1. (n + 7) \div 8 \in Nat /\ ((n + 7) \div 8 = 0 <=> n = 0) OBVIOUS
<1> QED BY <1>1 DEF Whole

LEMMA SplitIn ==
  ASSUME NEW s \in Seq(Int), NEW v \in Seq(Int), IsPrefix(s, v)
  PROVE  s \o SubSeq(v, Len(s) + 1, Len(v)) = v
<1> DEFINE e == Len(s)  m == Len(v)  x == SubSeq(v, e + 1, m)  z == s \o x
<1>1. e \in Nat /\ m \in Nat /\ e <= m /\ \A i \in 1..e : v[i] = s[i] BY PrefixBytes
<1>2. x \in Seq(Int) /\ Len(x) = m - e /\ \A i \in 1..(m - e) : x[i] = v[e + i]
  <2>1. m <= Len(v) BY <1>1
  <2> HIDE DEF e, m
  <2> QED BY <1>1, <2>1, Slice
<1> HIDE DEF x
<1>3. z \in Seq(Int) /\ Len(z) = Len(s) + Len(x)
      /\ \A i \in 1..(Len(s) + Len(x)) : z[i] = IF i <= Len(s) THEN s[i] ELSE x[i - Len(s)]
  BY <1>2, ConcatType
<1> HIDE DEF z
<1>4. Len(z) = Len(v) BY <1>1, <1>2, <1>3
<1>5. ASSUME NEW i \in 1..Len(z) PROVE z[i] = v[i]
  <2>1. CASE i <= e
    <3>1. i \in 1..e /\ i \in 1..(Len(s) + Len(x)) /\ i <= Len(s) BY <1>1, <1>3, <2>1
    <3> QED BY <1>1, <1>3, <3>1
  <2>2. CASE ~(i <= e)
    <3> DEFINE k == i - e
    <3>1. i \in 1..(Len(s) + Len(x)) /\ ~(i <= Len(s)) /\ k \in 1..(m - e) /\ e + k = i
      BY <1>1, <1>2, <1>3, <2>2
    <3>2. z[i] = x[k] BY <1>3, <3>1
    <3> HIDE DEF k
    <3>3. x[k] = v[e + k] BY <1>2, <3>1
    <3> QED BY <3>1, <3>2, <3>3
  <2> QED BY <2>1, <2>2
<1>6. z = v BY <1>3, <1>4, <1>5, EqualSeqs
<1> QED BY ONLY <1>6, Zenon DEF z, x

LEMMA BitVecAligned ==
  ASSUME NEW t, IsLeaf(t), t.codec = "BitVec", NEW r, NEW w, Reads(t, r, w)
  PROVE  Aligned(t, r, w)
<1> DEFINE bs == Around(t)  at == Len(t.before)  v == t.v
<1>1. Inside(bs, at, v) BY LeafInside, SMTT(30)
<1>2. /\ r = DecodeBitVec(bs, at)
      /\ w = (LET b == IF r.value.bytes = <<>> THEN <<0>> ELSE r.value.bytes
              IN EncodeCompact(Len(b)) \o b)
  BY DEF Reads, DecodeLeaf, EncodeLeaf
<1>3. t.form = "bits" /\ IsForm(t.form, v) BY DEF IsLeaf, Forms, Account
<1>4. PICK n \in 0..(8 * Len(v)) : LengthFirst(v, n, Whole(n)) BY <1>3 DEF IsForm
<1>5. ~Rewritten(t) => CompactValue(v) = Whole(CompactValue(v)) /\ CompactValue(v) # 0 BY DEF Rewritten
<1> HIDE DEF bs, at, v
<1>6. at \in Nat /\ v \in Seq(Byte) /\ Len(v) \in Nat /\ SubSeq(v, 1, Len(v)) = v BY <1>1 DEF Inside
<1>7. n \in Nat /\ Whole(n) \in Nat /\ (Whole(n) = 0 <=> n = 0) BY <1>6, WholeNat
<1> DEFINE e == Len(EncodeCompact(n))  x == SubSeq(v, e + 1, Len(v))
<1>8. PrefixAt(bs, at, n, e) /\ EncodeCompact(n) \in Seq(Int) /\ e + Whole(n) = Len(v)
  <2> DEFINE c == 0  d == Len(v)
  <2>1. c \in Nat /\ d \in Nat /\ c <= d /\ d <= Len(v) /\ c + 1 = 1 /\ at + c = at /\ d - c = d BY <1>6
  <2> HIDE DEF c, d
  <2>2. LengthFirst(SubSeq(v, c + 1, d), n, Whole(n)) BY <1>4, <1>6, <2>1 DEF d
  <2>3. PrefixAt(bs, at + c, n, e) /\ EncodeCompact(n) \in Seq(Int) /\ e + Whole(n) = d - c
    BY <1>1, <1>7, <2>1, <2>2, LengthRead
  <2> QED BY <2>1, <2>3 DEF d
<1>9. e \in Nat BY <1>8
<1>10. v \in Seq(Int)
  <2>1. Byte \subseteq Int BY BaseFacts DEF Byte
  <2> QED BY <1>6, <2>1, WiderSeq
<1>11. 2 * n < Size(4) /\ IsPrefix(EncodeCompact(n), v) BY <1>4 DEF LengthFirst
<1>12. CompactValue(v) = n BY <1>7, <1>10, <1>11, PrefixRead
<1>13. x \in Seq(Int) /\ Len(x) = Whole(n)
  <2> DEFINE d == Len(v)
  <2>1. d \in Nat /\ e <= d /\ d <= Len(v) /\ d - e = Whole(n)
    BY ONLY <1>6, <1>7, <1>8, <1>9, SMTT(30)
  <2> HIDE DEF d, e
  <2>2. SubSeq(v, e + 1, d) \in Seq(Int) /\ Len(SubSeq(v, e + 1, d)) = d - e BY <1>9, <1>10, <2>1, Slice
  <2> QED BY ONLY <2>1, <2>2 DEF d
<1>14. EncodeCompact(n) \o x = v BY <1>8, <1>10, <1>11, SplitIn
<1>15. r = Taken(bs, at + e, Whole(n), "bits")
  <2> HIDE DEF e
  <2> QED BY <1>2, <1>8 DEF DecodeBitVec, PrefixAt
<1>16. NextBytes(bs, at + e, Whole(n)) = x /\ Moved(bs, at + e, Whole(n)) = at + Len(v)
  <2>1. e + Whole(n) = Len(v) /\ e + Whole(n) <= Len(v) /\ at + e + Whole(n) = at + Len(v)
    BY <1>6, <1>7, <1>8, <1>9, SMTT(30)
  <2> DEFINE k == Whole(n)
  <2>2. Inside(bs, at, v) /\ e \in Nat /\ k \in Nat /\ e + k <= Len(v) BY <1>1, <1>7, <1>9, <2>1
  <2> HIDE DEF e, k
  <2>3. NextBytes(bs, at + e, k) = SubSeq(v, e + 1, e + k) /\ Moved(bs, at + e, k) = at + e + k
    BY ONLY <2>2, NextIs
  <2>4. /\ NextBytes(bs, at + e, Whole(n)) = SubSeq(v, e + 1, e + Whole(n))
        /\ Moved(bs, at + e, Whole(n)) = at + e + Whole(n)
    BY <2>3 DEF k
  <2> QED BY <2>1, <2>4
<1> HIDE DEF x, e
<1>17. r.at = at + Len(v) /\ r.value.bytes = x BY <1>15, <1>16 DEF Taken, Leaf
<1>18. ASSUME ~Rewritten(t) PROVE w = v
  <2>1. Whole(n) = n /\ n # 0 BY <1>5, <1>12, <1>18
  <2>2. x # <<>>
    <3>1. Len(x) # 0 BY <1>13, <2>1
    <3> QED BY <1>13, <3>1
  <2>3. w = EncodeCompact(Len(x)) \o x BY <1>2, <1>17, <2>2
  <2>4. Len(x) = n BY <1>13, <2>1
  <2> QED BY <1>14, <2>3, <2>4
<1> QED BY <1>17, <1>18 DEF Aligned, at, v

(* The largest of some positions.                                          *)
LEMMA LargestExists ==
  ASSUME NEW n \in Nat, NEW S, S \subseteq 1..n, S # {}
  PROVE  \E x \in S : \A y \in S : x >= y
<1> DEFINE T == {k \in Nat : \A R \in SUBSET (1..k) : R # {} => \E x \in R : \A y \in R : x >= y}
<1>1. 0 \in T
  <2>1. \A R \in SUBSET (1..0) : R = {} OBVIOUS
  <2> QED BY <2>1
<1>2. ASSUME NEW k \in Nat, k \in T PROVE k + 1 \in T
  <2>1. ASSUME NEW R \in SUBSET (1..(k + 1)), R # {} PROVE \E x \in R : \A y \in R : x >= y
    <3>1. CASE k + 1 \in R BY <3>1
    <3>2. CASE k + 1 \notin R
      <4>1. R \in SUBSET (1..k) BY <3>2
      <4> QED BY <1>2, <2>1, <4>1
    <3> QED BY <3>1, <3>2
  <2> QED BY <2>1
<1>3. n \in T
  <2> HIDE DEF T
  <2> QED BY <1>1, <1>2, SetInduction
<1> QED BY <1>3

LEMMA CLikeAligned ==
  ASSUME NEW t, IsLeaf(t), t.codec = "CLike", NEW r, NEW w, Reads(t, r, w)
  PROVE  Aligned(t, r, w)
<1> DEFINE bs == Around(t)  at == Len(t.before)  v == t.v
           hits == {k \in DOMAIN CLikeEnum : CLikeEnum[k].index = v[1]}
<1>1. Inside(bs, at, v) BY LeafInside
<1>2. /\ r = DecodeCLike(bs, at)
      /\ w = IF r.value.bytes # <<>> THEN <<CLikeEnum[r.value.bytes[1]].index>> ELSE Unset
  BY DEF Reads, DecodeLeaf, EncodeLeaf
<1>3. Len(v) = 1
  <2>1. t.form = "name" /\ IsForm(t.form, t.v) BY DEF IsLeaf, Forms, Account
  <2> QED BY <2>1 DEF IsForm
<1>4. v \in Seq(Byte) /\ v # <<>> BY <1>3, FormNonempty
<1> HIDE DEF bs, at, v
<1>5. v = <<v[1]>> BY <1>3, <1>4
<1>6. NextBytes(bs, at, 1) = <<v[1]>> /\ Moved(bs, at, 1) = at + 1 BY <1>1, <1>4, FirstIs
<1>7. <<v[1]>> # <<>> /\ <<v[1]>>[1] = v[1] BY ONLY <1>4, SMTT(30)
<1>8. r = [value |-> Leaf("name", IF hits = {} THEN <<>> ELSE <<Max(hits)>>), at |-> at + 1]
  BY <1>2, <1>6, <1>7 DEF DecodeCLike
<1>9. r.at = at + Len(v) /\ r.value.bytes = (IF hits = {} THEN <<>> ELSE <<Max(hits)>>)
  BY <1>3, <1>8 DEF Leaf
<1>10. CASE hits = {}
  <2>1. w = Unset BY <1>2, <1>9, <1>10
  <2> QED BY <1>9, <2>1 DEF Aligned, at, v
<1>11. CASE hits # {}
  <2> DEFINE m == Max(hits)
  <2>1. m \in hits
    <3>1. hits \subseteq 1..Len(CLikeEnum) /\ Len(CLikeEnum) \in Nat BY LeafAssumption
    <3> HIDE DEF hits
    <3>2. \E x \in hits : \A y \in hits : x >= y BY <1>11, <3>1, LargestExists
    <3> QED BY <3>2 DEF Max
  <2> HIDE DEF m
  <2>2. CLikeEnum[m].index = v[1] BY <2>1
  <2>3. r.value.bytes = <<m>> BY <1>9, <1>11 DEF m
  <2>4. <<m>> # <<>> /\ <<m>>[1] = m OBVIOUS
  <2>5. w = v BY <1>2, <1>5, <2>2, <2>3, <2>4
  <2> QED BY <1>9, <2>5 DEF Aligned, at, v
<1> QED BY <1>10, <1>11

(* Where a part of a digest item ends.                                     *)
PartEnd(bs, c, p) ==
  IF p # Vector THEN Moved(bs, c, p)
  ELSE Moved(bs, c + CompactLength(SubSeq(bs, c + 1, Len(bs))[1]),
                 CompactValue(SubSeq(bs, c + 1, Len(bs))))

LEMMA PartEnds ==
  ASSUME NEW bs, NEW at, NEW v, Inside(bs, at, v), NEW c \in Nat, NEW d \in Nat, c <= d, d <= Len(v),
         NEW p \in Nat \cup {Vector}, IsPart(SubSeq(v, c + 1, d), p)
  PROVE  PartEnd(bs, at + c, p) = at + d
<1>1. at \in Nat /\ v \in Seq(Byte) BY DEF Inside
<1> DEFINE y == SubSeq(v, c + 1, d)
<1>2. Len(y) = d - c BY <1>1, Slice
<1> HIDE DEF y
<1>3. CASE p # Vector
  <2>1. p \in Nat /\ Len(y) = p BY <1>3 DEF IsPart, y
  <2>2. c + p <= Len(v) /\ at + c + p = at + d BY <1>1, <1>2, <2>1
  <2>3. Moved(bs, at + c, p) = at + c + p BY <2>1, <2>2, NextIs
  <2> QED BY <1>3, <2>2, <2>3 DEF PartEnd
<1>4. CASE p = Vector
  <2>1. PICK n \in 0..Len(y) : LengthFirst(y, n, n) BY <1>4 DEF IsPart, y
  <2>2. n \in Nat BY <1>2, <2>1
  <2> DEFINE e == Len(EncodeCompact(n))
  <2>3. PrefixAt(bs, at + c, n, e) /\ EncodeCompact(n) \in Seq(Int) /\ e + n = d - c
    BY <2>1, <2>2, LengthRead DEF y
  <2>4. e \in Nat BY <2>3
  <2>5. PartEnd(bs, at + c, p) = Moved(bs, (at + c) + e, n)
    <3> HIDE DEF e
    <3> QED BY <1>4, <2>3 DEF PartEnd, PrefixAt
  <2> DEFINE b == c + e
  <2>6. b \in Nat /\ b + n <= Len(v) /\ (at + c) + e = at + b /\ at + b + n = at + d
    BY <1>1, <2>2, <2>3, <2>4, SMTT(30)
  <2> HIDE DEF e, b
  <2>7. Moved(bs, at + b, n) = at + b + n BY <2>2, <2>6, NextIs
  <2> QED BY <2>5, <2>6, <2>7
<1> QED BY <1>3, <1>4

LEMMA DigestAligned ==
  ASSUME NEW t, IsLeaf(t), ~Misread(t), t.codec = "LogDigest", NEW r, NEW w, Reads(t, r, w)
  PROVE  Aligned(t, r, w)
<1> DEFINE bs == Around(t)  at == Len(t.before)  v == t.v
<1>1. Inside(bs, at, v) BY LeafInside
<1>2. r = DecodeDigest(bs, at) /\ w = Unset BY DEF Reads, DecodeLeaf, EncodeLeaf
<1>3. t.form = "item" /\ IsForm(t.form, v)
  <2>1. t.form \in {"root", "item"} /\ IsForm(t.form, v) BY DEF IsLeaf, Forms, Account
  <2>2. t.form # "root" BY DEF Misread
  <2> QED BY <2>1, <2>2
<1> DEFINE parts == DigestParts[bs[at + 1]]  n == Len(parts)
           D(h) == [i \in 0..n |-> IF i = 0 THEN at + 1 ELSE PartEnd(bs, h[i - 1], parts[i])]
           g == CHOOSE h : h = D(h)
           Cut(f) == /\ f \in [0..n -> 1..Len(v)] /\ f[0] = 1 /\ f[n] = Len(v)
                     /\ \A k \in 1..n : f[k - 1] <= f[k]
                                        /\ IsPart(SubSeq(v, f[k - 1] + 1, f[k]), parts[k])
<1> HIDE DEF bs, at, v
<1>4. v # <<>> /\ v[1] \in DOMAIN DigestParts BY <1>3 DEF IsForm
<1>5. bs[at + 1] = v[1] BY <1>1, <1>4, FirstIs
<1>6. parts \in Seq(Nat \cup {Vector}) /\ n \in Nat /\ DOMAIN parts = 1..n
  <2>1. parts \in Seq(Nat \cup {Vector}) BY <1>4, <1>5, LeafAssumption
  <2> QED BY <2>1
<1>7. PICK cut : Cut(cut)
  <2>1. LET q == DigestParts[v[1]]
        IN \E cut \in [0..Len(q) -> 1..Len(v)] :
             /\ cut[0] = 1 /\ cut[Len(q)] = Len(v)
             /\ \A k \in DOMAIN q : cut[k - 1] <= cut[k] /\ IsPart(SubSeq(v, cut[k - 1] + 1, cut[k]), q[k])
    BY <1>3 DEF IsForm
  <2>2. DigestParts[v[1]] = parts BY <1>5
  <2> HIDE DEF parts
  <2> QED BY <1>6, <2>1, <2>2, SMTT(30)
<1>8. at \in Nat /\ Len(v) \in Nat BY <1>1 DEF Inside
<1>9. r.at = g[n] BY <1>2 DEF DecodeDigest, PartEnd
<1> HIDE DEF parts, n
<1>10. ASSUME NEW k \in 1..n PROVE PartEnd(bs, at + cut[k - 1], parts[k]) = at + cut[k]
  <2> DEFINE c == cut[k - 1]  d == cut[k]  p == parts[k]
  <2>1. k - 1 \in 0..n /\ k \in 0..n BY <1>6
  <2>2. c \in Nat /\ d \in Nat /\ d <= Len(v) /\ c <= d BY <1>7, <1>8, <2>1
  <2>3. p \in Nat \cup {Vector} BY <1>6
  <2>4. IsPart(SubSeq(v, c + 1, d), p) BY <1>7
  <2> HIDE DEF c, d, p
  <2>5. PartEnd(bs, at + c, p) = at + d BY <1>1, <2>2, <2>3, <2>4, PartEnds
  <2> QED BY <2>5 DEF c, d, p
<1> DEFINE f == [k \in 0..n |-> at + cut[k]]
<1>11. f = D(f)
  <2>1. ASSUME NEW i \in 0..n
        PROVE  f[i] = IF i = 0 THEN at + 1 ELSE PartEnd(bs, f[i - 1], parts[i])
    <3>1. CASE i = 0 BY <1>7, <3>1
    <3>2. CASE i # 0
      <4>1. i \in 1..n /\ i - 1 \in 0..n BY <1>6, <3>2
      <4>2. f[i] = at + cut[i] /\ f[i - 1] = at + cut[i - 1] BY <4>1
      <4> HIDE DEF f
      <4> QED BY <1>10, <3>2, <4>1, <4>2
    <3> QED BY <3>1, <3>2
  <2>2. f = [i \in 0..n |-> f[i]] OBVIOUS
  <2> HIDE DEF f
  <2> QED BY <2>1, <2>2
<1> HIDE DEF f
<1>12. g = D(g)
  <2> HIDE DEF D
  <2> QED BY <1>11
<1>13. \A i \in 0..n : g[i] = IF i = 0 THEN at + 1 ELSE PartEnd(bs, g[i - 1], parts[i])
  <2> HIDE DEF g
  <2> DEFINE c == D(g)
  <2>1. \A i \in 0..n : c[i] = IF i = 0 THEN at + 1 ELSE PartEnd(bs, g[i - 1], parts[i]) OBVIOUS
  <2>2. g = c BY <1>12
  <2> HIDE DEF c
  <2> QED BY <2>1, <2>2
<1> HIDE DEF g, D
<1> DEFINE T == {k \in Nat : k <= n => g[k] = at + cut[k]}
<1>14. 0 \in T
  <2>1. 0 \in 0..n BY <1>6
  <2>2. g[0] = at + 1 BY <1>13, <2>1
  <2> QED BY <1>7, <2>2
<1>15. ASSUME NEW k \in Nat, k \in T PROVE k + 1 \in T
  <2> SUFFICES ASSUME k + 1 <= n PROVE g[k + 1] = at + cut[k + 1] OBVIOUS
  <2> DEFINE j == k + 1
  <2>1. j \in 1..n /\ j \in 0..n /\ j # 0 /\ j - 1 = k BY <1>6
  <2>2. g[k] = at + cut[k] BY <1>6, <1>15
  <2> HIDE DEF j
  <2>3. g[j] = PartEnd(bs, g[j - 1], parts[j]) BY <1>13, <2>1
  <2>4. g[j - 1] = at + cut[j - 1] BY <2>1, <2>2
  <2>5. g[j] = at + cut[j] BY <1>10, <2>1, <2>3, <2>4
  <2> QED BY <2>5 DEF j
<1>16. n \in T
  <2> HIDE DEF T
  <2> QED BY <1>6, <1>14, <1>15, SetInduction
<1>17. g[n] = at + Len(v) BY <1>6, <1>7, <1>16
<1> QED BY <1>2, <1>9, <1>17 DEF Aligned, at, v

(* Every codec ends where the value does, and writes what it read.         *)
LEMMA CodecAligned ==
  ASSUME NEW t, t.codec \in LeafCodec, IsLeaf(t), ~Misread(t), NEW r, NEW w, Reads(t, r, w)
  PROVE  Aligned(t, r, w)
<1>1. t.codec # "Float64" BY DEF Misread
<1>2. CASE t.codec \in {"Era", "H256", "AccountId", "Data", "BitVec", "LogDigest", "CLike"}
  BY <1>2, EraAligned, HashAligned, AccountIdAligned, DataAligned, BitVecAligned, DigestAligned,
     CLikeAligned
<1>3. CASE t.codec \in Account
  BY <1>3, AddressAligned, GenericAddressAligned, LookupAligned DEF Account
<1> QED BY <1>1, <1>2, <1>3 DEF LeafCodec

(* What has become of a leaf.                                              *)
LeafDone == Done(LeafCodec) => Reads(task, value, bytes)

LEMMA LeafDoneStep ==
  ASSUME LeafDone, [Next]_vars
  PROVE  LeafDone'
<1>1. task' = task
  BY DEF Next, vars, Encode, Refuse, Decode, Reencode, Divide, Format, ReadLeaf, CompareBoth
<1>2. CASE task.codec \notin LeafCodec BY <1>1, <1>2 DEF LeafDone, Done
<1>3. CASE task.codec \in LeafCodec
  <2>1. ReadLeaf \/ UNCHANGED vars
    BY <1>3 DEF Next, Number, Text, LeafCodec, Account, Encode, Refuse, Decode, Reencode, Divide, Format, CompareBoth
  <2>2. CASE ReadLeaf BY <1>1, <2>2 DEF ReadLeaf, LeafDone, Reads
  <2>3. CASE UNCHANGED vars BY <2>3 DEF vars, LeafDone, Done, Reads
  <2> QED BY <2>1, <2>2, <2>3
<1> QED BY <1>2, <1>3

(* The codecs that find out from their bytes how many they take stay in    *)
(* step with the runtime, whatever is around the value, and write what they*)
(* read (Era, H256, AccountId, the addresses, Data, BitVec, LogDigest and  *)
(* Enum).                                                                  *)
THEOREM LeavesAsWritten == Spec => []LeavesAligned
<1>1. Init => LeafDone BY DEF Init, LeafDone, Done
<1>2. LeafDone /\ [Next]_vars => LeafDone' BY LeafDoneStep
<1>3. TaskInv /\ LeafDone => LeavesAligned
  <2> SUFFICES ASSUME TaskInv, LeafDone, Done(LeafCodec), ~Misread(task)
               PROVE  Aligned(task, value, bytes)
    BY DEF LeavesAligned, Aligned
  <2>1. task.codec \in LeafCodec BY DEF Done
  <2>2. IsLeaf(task) BY <2>1 DEF TaskInv, IsTask
  <2>3. Reads(task, value, bytes) BY DEF LeafDone
  <2> QED BY <2>1, <2>2, <2>3, CodecAligned
<1> QED BY <1>1, <1>2, <1>3, TaskInvariant, PTL DEF Spec
=============================================================================
