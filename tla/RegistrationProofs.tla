------------------------- MODULE RegistrationProofs -------------------------
(***************************************************************************)
(* Proofs about the writers of the tables of CodecRegistry: RegCustomTypes *)
(* and Clean.  Built-in codecs are never lost, versioned registrations are *)
(* never dropped, and no call returns before it has reset the cache.       *)
(***************************************************************************)
EXTENDS CodecRegistryProofs

-----------------------------------------------------------------------------
(* Who writes what *)

LEMMA RegistryWriters ==
  ASSUME NEW p \in Proc, Start(p) \/ Step(p)
  PROVE  \/ UNCHANGED <<registry, built>>
         \/ PutPlain(p) \/ BeginClean(p) \/ PublishBase(p)
<1>1. CASE Start(p)
  BY <1>1 DEF Start, BeginLookup, BeginRegister, RegisterOriginCaller, tables
<1>2. CASE Step(p)
  BY <1>2 DEF Step, ReadCache, ReadSpecials, ReadRegistry, InsertCache, Pick,
              CheckV14, PutV14, Describe, Compare, ResolveAlias,
              ResolveExplained, Wrap, ReadList, PutList, Finish, DropSpecials,
              DropV14, CleanReset, tables
<1> QED BY <1>1, <1>2

LEMMA SpecialsWriters ==
  ASSUME NEW p \in Proc, Start(p) \/ Step(p)
  PROVE  UNCHANGED specials \/ PutList(p) \/ DropSpecials(p)
<1>1. CASE Start(p)
  BY <1>1 DEF Start, BeginLookup, BeginRegister, RegisterOriginCaller,
              BeginClean, tables
<1>2. CASE Step(p)
  BY <1>2 DEF Step, ReadCache, ReadSpecials, ReadRegistry, InsertCache, Pick,
              CheckV14, PutV14, Describe, Compare, ResolveAlias,
              ResolveExplained, Wrap, PutPlain, ReadList, Finish,
              DropV14, PublishBase, CleanReset, tables
<1> QED BY <1>1, <1>2

(* What a goroutine at one of the labels of Clean does next.               *)
LEMMA CleanSteps ==
  ASSUME TypeOK, NEW p \in Proc, Start(p) \/ Step(p), pc[p] \in CleanLabels
  PROVE  \/ DropSpecials(p) /\ pc'[p] = "dropv14"
         \/ DropV14(p) /\ pc'[p] = "publish"
         \/ PublishBase(p) /\ pc'[p] = "cleanreset"
         \/ CleanReset(p) /\ pc'[p] = "pick"
<1>1. DropSpecials(p) \/ DropV14(p) \/ PublishBase(p) \/ CleanReset(p)
  BY DEF CleanLabels, Start, Step, Begin, BeginLookup, BeginRegister,
         RegisterOriginCaller, BeginClean, ReadCache, ReadSpecials,
         ReadRegistry, InsertCache, Pick, CheckV14, PutV14, Describe, Compare,
         ResolveAlias, ResolveExplained, Wrap, PutPlain, ReadList, PutList,
         Finish
<1> QED
  BY <1>1 DEF DropSpecials, DropV14, PublishBase, CleanReset, Goto, TypeOK

(* A lookup goes on, answers the program, or answers the description.      *)
LEMMA LookupLabel ==
  ASSUME TypeOK, NEW p \in Proc,
         \/ \E r \in Lookups : BeginLookup(p, r)
         \/ ReadCache(p) \/ ReadSpecials(p) \/ ReadRegistry(p) \/ InsertCache(p)
  PROVE  /\ UNCHANGED <<job, unflushed>>
         /\ pc[p] \in LookupLabels \cup {"idle"}
         /\ \/ pc'[p] \in LookupLabels
            \/ job[p].agenda = <<>> /\ pc'[p] = "idle"
            \/ job[p].agenda # <<>> /\ pc'[p] = "describe"
<1> DEFINE Looked == \/ pc'[p] \in LookupLabels
                     \/ job[p].agenda = <<>> /\ pc'[p] = "idle"
                     \/ job[p].agenda # <<>> /\ pc'[p] = "describe"
<1>1. UNCHANGED <<job, unflushed>> /\ pc[p] \in LookupLabels \cup {"idle"}
  BY DEF BeginLookup, Begin, ReadCache, ReadSpecials, ReadRegistry,
         InsertCache, LookupLabels, history
<1>2. ASSUME NEW l, Deliver(p, l) PROVE Looked
  BY <1>2 DEF Deliver, Goto, TypeOK
<1>3. ASSUME NEW label \in LookupLabels, Goto(p, label) PROVE Looked
  BY <1>3 DEF Goto, TypeOK
<1>4. ASSUME NEW f, Found(p, f) PROVE Looked
  BY <1>2, <1>3, <1>4 DEF Found, LookupLabels
<1>5. ASSUME NotFound(p) PROVE Looked
  BY <1>2, <1>3, <1>5 DEF NotFound, LookupLabels
<1> HIDE DEF Looked
<1>6. Looked
  BY <1>2, <1>3, <1>4, <1>5 DEF BeginLookup, Ask, ReadCache,
     ReadSpecials, ReadRegistry, InsertCache, LookupLabels
<1> QED BY <1>1, <1>6 DEF Looked

-----------------------------------------------------------------------------
(* Built-in codecs *)

Cleaning(p) == pc[p] \in {"dropspecials", "dropv14", "publish"}

LEMMA BaseStep ==
  ASSUME TypeInv, BaseNeverLost, NEW p \in Proc, Start(p) \/ Step(p)
  PROVE  BaseNeverLost'
<1>1. TypeOK /\ LabelOK(p) BY DEF TypeInv
<1>2. ASSUME NEW q \in Proc, q # p PROVE pc'[q] = pc[q]
  BY <1>1, <1>2, OthersKept
<1>3. CASE BeginClean(p)
  BY <1>1, <1>3 DEF BeginClean, Goto, TypeOK, BaseNeverLost
<1>4. CASE PublishBase(p)
  BY <1>4 DEF PublishBase, BaseNeverLost
<1>5. CASE PutPlain(p)
  <2> DEFINE k == RegKey(job[p].cur)
  <2>1. ~ Cleaning(p) BY <1>5 DEF PutPlain, Cleaning
  <2>2. CASE \E q \in Proc : Cleaning(q)
    BY <1>2, <2>1, <2>2 DEF Cleaning, BaseNeverLost
  <2>3. CASE ~ \E q \in Proc : Cleaning(q)
    <3>1. built /\ \A x \in Key : BaseRegistry[x] # Missing => registry[x] # Missing
      BY <2>3 DEF BaseNeverLost, Cleaning
    <3>2. registry' = [registry EXCEPT ![k] = job[p].fac] /\ built' = built
      BY <1>5, <3>1 DEF PutPlain
    <3>3. job[p].fac # Missing BY <1>1, <1>5 DEF PutPlain, LabelOK
    <3> QED BY <1>1, <3>1, <3>2, <3>3 DEF BaseNeverLost, TypeOK
  <2> QED BY <2>2, <2>3
<1>6. CASE UNCHANGED <<registry, built>>
  <2>1. CASE Cleaning(p)
    <3>1. \/ Cleaning(p)'
          \/ PublishBase(p)
      BY <1>1, <2>1, CleanSteps DEF Cleaning, CleanLabels, CleanReset
    <3> QED BY <1>4, <3>1 DEF Cleaning, BaseNeverLost
  <2>2. CASE ~ Cleaning(p)
    BY <1>2, <1>6, <2>2 DEF Cleaning, BaseNeverLost
  <2> QED BY <2>1, <2>2
<1> QED BY <1>3, <1>4, <1>5, <1>6, RegistryWriters

(* A built-in codec is never lost except while a Clean is under way, and   *)
(* only then is TypeRegistry the nil map a registration panics on.         *)
THEOREM BuiltInsStay == Spec => []BaseNeverLost
<1>1. Init => BaseNeverLost
  BY RegistryAssumption DEF Init, BaseNeverLost
<1>2. TypeInv /\ BaseNeverLost /\ [Next]_vars => BaseNeverLost'
  <2>1. ASSUME BaseNeverLost, UNCHANGED vars PROVE BaseNeverLost'
    BY <2>1 DEF BaseNeverLost, vars, tables
  <2> QED BY <2>1, BaseStep DEF Next
<1> QED BY <1>1, <1>2, TypeInvariance, PTL DEF Spec

-----------------------------------------------------------------------------
(* Versioned registrations *)

(* A goroutine inside RegCustomTypes or Clean, a lookup that describes a   *)
(* type included.                                                          *)
Writer == Registrar \cup Cleaner
Writing(p) == pc[p] \in RegisterLabels \cup CleanLabels \/ job[p].agenda # <<>>

(* Between the two critical sections of regCustomKey the slice that was    *)
(* read is still the one the table holds, if nobody else registers.        *)
ListOK(p) ==
  /\ Writing(p) => p \in Writer
  /\ OneRegistrar /\ pc[p] = "putlist"
       => job[p].list = specials[RegKey(job[p].cur)]

LEMMA WritingStep ==
  ASSUME TypeInv, NEW p \in Proc, Start(p) \/ Step(p),
         Writing(p) => p \in Writer
  PROVE  Writing(p)' => p \in Writer
<1>1. TypeOK /\ LabelOK(p) BY DEF TypeInv
<1>2. CASE \/ \E b \in Bulks : BeginRegister(p, b)
           \/ \E e \in OriginCallers : RegisterOriginCaller(p, e)
           \/ BeginClean(p)
  BY <1>2 DEF BeginRegister, RegisterOriginCaller, BeginClean, Writer
<1>3. CASE \/ \E r \in Lookups : BeginLookup(p, r)
           \/ ReadCache(p) \/ ReadSpecials(p) \/ ReadRegistry(p)
           \/ InsertCache(p)
  <2>1. /\ UNCHANGED job
        /\ \/ pc'[p] \in LookupLabels \cup {"idle"}
           \/ job[p].agenda # <<>>
    BY <1>1, <1>3, LookupLabel
  <2> QED BY <2>1
        DEF Writing, RegisterLabels, CleanLabels, LookupLabels
<1>4. CASE Step(p) /\ ~ (ReadCache(p) \/ ReadSpecials(p) \/ ReadRegistry(p)
                         \/ InsertCache(p))
  <2>1. pc[p] \in RegisterLabels \cup CleanLabels
    BY <1>4 DEF Step, Pick, CheckV14, PutV14, Describe, Compare, ResolveAlias,
         ResolveExplained, Wrap, PutPlain, ReadList, PutList, Finish,
         DropSpecials, DropV14, PublishBase, CleanReset, RegisterLabels,
         CleanLabels
  <2> QED BY <2>1 DEF Writing
<1> QED BY <1>2, <1>3, <1>4 DEF Start

LEMMA ListStep ==
  ASSUME TypeInv, NEW p \in Proc, Start(p) \/ Step(p), \A q \in Proc : ListOK(q)
  PROVE  \A q \in Proc : ListOK(q)'
<1>1. TypeOK BY DEF TypeInv
<1>2. ListOK(p)'
  <2>1. Writing(p)' => p \in Writer BY WritingStep DEF ListOK
  <2>2. CASE ReadList(p)
    <3>1. UNCHANGED specials BY <2>2 DEF ReadList, tables
    <3>2. job' = [job EXCEPT ![p].list = specials[RegKey(job[p].cur)]]
      BY <2>2 DEF ReadList
    <3>3. job[p] \in JobLocals BY <1>1 DEF TypeOK
    <3>4. job'[p].list = specials[RegKey(job[p].cur)] /\ job'[p].cur = job[p].cur
      BY <1>1, <3>2, <3>3 DEF TypeOK, JobLocals
    <3> QED BY <2>1, <3>1, <3>4 DEF ListOK, RegKey
  <2>3. CASE ~ ReadList(p)
    <3>1. pc'[p] # "putlist"
      BY <1>1, <2>3 DEF Start, Step, Begin, BeginLookup, BeginRegister,
         RegisterOriginCaller, BeginClean, ReadCache, ReadSpecials,
         ReadRegistry, InsertCache, Found, NotFound, Deliver, Ask, Pick,
         CheckV14, PutV14, Describe, Compare, ResolveAlias, ResolveExplained,
         Wrap, PutPlain, PutList, Finish, DropSpecials, DropV14, PublishBase,
         CleanReset, Register, Return, PutAlias, PutLabel, Goto, TypeOK
    <3> QED BY <2>1, <3>1 DEF ListOK
  <2> QED BY <2>2, <2>3
<1>3. ASSUME NEW q \in Proc, q # p PROVE ListOK(q)'
  <2>1. pc'[q] = pc[q] /\ job'[q] = job[q] BY <1>1, <1>3, OthersKept
  <2>2. ASSUME OneRegistrar, pc[q] = "putlist"
        PROVE  UNCHANGED specials
    <3>1. q \in Writer BY <2>2 DEF ListOK, Writing, RegisterLabels
    <3>2. ~ Writing(p) BY <1>3, <2>2, <3>1 DEF ListOK, OneRegistrar, Writer
    <3>3. ~ PutList(p) /\ ~ DropSpecials(p)
      BY <3>2 DEF PutList, DropSpecials, Writing, RegisterLabels, CleanLabels
    <3> QED BY <3>3, SpecialsWriters
  <2> QED BY <2>1, <2>2 DEF ListOK, Writing, RegKey
<1> QED BY <1>2, <1>3

ListInv == TypeInv /\ \A p \in Proc : ListOK(p)

LEMMA ListInvariance == Spec => []ListInv
<1>1. Init => ListInv
  <2>1. Init => TypeInv BY InitType DEF TypeInv, LabelOK, Init
  <2> QED BY <2>1 DEF Init, ListInv, ListOK, Writing, IdleJob, RegisterLabels,
              CleanLabels
<1>2. ListInv /\ [Next]_vars => ListInv'
  <2>1. ASSUME ListInv, UNCHANGED vars PROVE ListInv'
    BY <2>1, TypeInvStep DEF ListInv, ListOK, Writing, vars, tables, RegKey
  <2>2. ASSUME ListInv, NEW p \in Proc, Start(p) \/ Step(p) PROVE ListInv'
    BY <2>2, ListStep, TypeInvStep DEF ListInv, Next
  <2> QED BY <2>1, <2>2 DEF Next
<1> QED BY <1>1, <1>2, PTL DEF Spec

ListsGrow ==
  \A k \in Key : /\ Len(specials[k]) <= Len(specials'[k])
                 /\ \A i \in 1..Len(specials[k]) :
                      specials'[k][i] = specials[k][i]

LEMMA AppendKeeps ==
  ASSUME NEW S, NEW s \in Seq(S), NEW x \in S
  PROVE  /\ Len(s) <= Len(Append(s, x))
         /\ \A i \in 1..Len(s) : Append(s, x)[i] = s[i]
<1>1. Len(s) \in Nat BY LenProperties
<1> QED BY <1>1, AppendProperties

(* A versioned registration is never dropped or replaced by a later one,   *)
(* short of Clean, when registrations do not overlap: the slice regCustomKey*)
(* writes back extends the one the table still holds.                      *)
THEOREM VersionsStay == Spec => SpecialsKept
<1> DEFINE Stays == OneRegistrar =>
                     ListsGrow \/ \E p \in Proc : pc[p] = "dropspecials"
<1>1. ListInv /\ [Next]_vars => [Stays]_vars
  <2>1. ASSUME ListInv, OneRegistrar, NEW p \in Proc, Start(p) \/ Step(p)
        PROVE  ListsGrow \/ \E q \in Proc : pc[q] = "dropspecials"
    <3>1. TypeOK /\ LabelOK(p) /\ ListOK(p) BY <2>1 DEF ListInv, TypeInv
    <3>2. \A k \in Key : specials[k] \in Seq(Special) BY <3>1 DEF TypeOK
    <3>3. CASE UNCHANGED specials
      <4>1. \A k \in Key : Len(specials[k]) \in Nat BY <3>2, LenProperties
      <4> QED BY <3>3, <4>1 DEF ListsGrow
    <3>4. CASE PutList(p)
      <4> DEFINE j == job[p]
                 e == j.cur
                 sp == [lo |-> e.lo, hi |-> e.hi, factory |-> j.fac]
      <4>1. j \in JobLocals /\ e \in Entry BY <3>1 DEF TypeOK, JobLocals
      <4>2. j.fac \in Factory
        BY <3>1, <3>4, <4>1 DEF JobLocals, LabelOK, PutList
      <4>3. sp \in Special BY <4>1, <4>2 DEF Special, Entry
      <4>4. j.list = specials[RegKey(e)]
        BY <2>1, <3>1, <3>4 DEF ListOK, PutList
      <4>5. specials' = [specials EXCEPT ![RegKey(e)] =
                           Append(specials[RegKey(e)], sp)]
        BY <3>4, <4>4 DEF PutList
      <4> HIDE DEF sp
      <4>6. RegKey(e) \in Key BY <4>1, RegistryAssumption DEF RegKey, Entry
      <4>7. \A k \in Key : specials'[k] =
              IF k = RegKey(e) THEN Append(specials[k], sp) ELSE specials[k]
        BY <3>1, <4>5, <4>6 DEF TypeOK
      <4>8. \A k \in Key : Len(specials[k]) \in Nat BY <3>2, LenProperties
      <4>9. ASSUME NEW k \in Key
            PROVE  /\ Len(specials[k]) <= Len(specials'[k])
                   /\ \A i \in 1..Len(specials[k]) :
                        specials'[k][i] = specials[k][i]
        <5>1. CASE k = RegKey(e)
          <6>1. specials'[k] = Append(specials[k], sp) BY <4>7, <5>1
          <6> QED BY <3>2, <4>3, <6>1, AppendKeeps
        <5>2. CASE k # RegKey(e) BY <4>7, <4>8, <5>2
        <5> QED BY <5>1, <5>2
      <4> QED BY <4>9 DEF ListsGrow
    <3>5. CASE DropSpecials(p) BY <3>5 DEF DropSpecials
    <3> QED BY <2>1, <3>3, <3>4, <3>5, SpecialsWriters
  <2> QED BY <2>1 DEF Next
<1>2. Stays <=> (OneRegistrar =>
       \/ \A k \in Key : /\ Len(specials[k]) <= Len(specials'[k])
                         /\ \A i \in 1..Len(specials[k]) :
                              specials'[k][i] = specials[k][i]
       \/ \E p \in Proc : pc[p] = "dropspecials")
  BY DEF ListsGrow
<1> HIDE DEF Stays
<1> QED BY <1>1, <1>2, ListInvariance, PTL DEF Spec, SpecialsKept

-----------------------------------------------------------------------------
(* Resets of the cache *)

(* What a RegCustomTypes call, or the one it is nested in, has registered  *)
(* since the last reset is noted in a flag that makes it reset the cache.  *)
Pending(j) == j.flag \/ (j.saved # <<>> /\ j.saved[1].flag)

(* Where nothing of the bulk has been registered: an early return from     *)
(* here needs no reset.                                                    *)
Untouched == {"idle", "v14check", "v14put", "describe", "compare"}
             \cup LookupLabels

(* A V14 entry is alone in its bulk and is not explained by it, so that    *)
(* its early returns are taken with nothing registered and outside of a    *)
(* nested call.                                                            *)
AloneV14(label, j) ==
  \A e \in j.bulk : e.v14 =>
    /\ j.bulk = {e} /\ j.saved = <<>>
    /\ \/ label = "pick" /\ ~ j.flag
       \/ j.todo = {} /\ j.cur.kind = e.kind

(* A nested call registers one body, and its caller no V14 entry.          *)
NestedOK(label, j) ==
  j.saved # <<>> =>
    /\ label \in {"pick", "putplain", "readlist", "putlist", "panicked"}
    /\ \A x \in j.bulk : x.kind = "body" /\ ~ x.v14
    /\ j.saved[1].todo \subseteq j.saved[1].bulk
    /\ \A x \in j.saved[1].bulk : ~ x.v14

(* due: the goroutine has changed a table since its last reset.            *)
Flushing(label, j, due) ==
  /\ j.todo \subseteq j.bulk
  /\ due => label \in CleanLabels \cup {"panicked"} \/ Pending(j)
  /\ j.agenda # <<>> => label \in LookupLabels \cup {"describe"}
  /\ label \in Untouched => ~ j.flag /\ j.saved = <<>>
  /\ label = "alias" => j.cur.kind = "alias"
  /\ NestedOK(label, j) /\ AloneV14(label, j)

FlushOK(p) == Flushing(pc[p], job[p], p \in unflushed)

(* Only its own goroutine changes and resets on behalf of a call.          *)
LEMMA UnflushedOthers ==
  ASSUME NEW p \in Proc, Start(p) \/ Step(p), NEW q \in Proc, q # p
  PROVE  q \in unflushed' <=> q \in unflushed
<1>1. CASE Start(p)
  BY <1>1 DEF Start, BeginLookup, BeginRegister, RegisterOriginCaller,
              BeginClean, history
<1>2. CASE Step(p)
  BY <1>2 DEF Step, ReadCache, ReadSpecials, ReadRegistry, InsertCache, Pick,
              CheckV14, PutV14, Describe, Compare, ResolveAlias,
              ResolveExplained, Wrap, PutPlain, ReadList, PutList, Finish,
              DropSpecials, DropV14, PublishBase, CleanReset, ResetCache,
              history
<1> QED BY <1>1, <1>2

LEMMA IdleFlushing == Flushing("idle", IdleJob, FALSE)
BY DEF Flushing, NestedOK, AloneV14, IdleJob

(* The locals of a call about to work off bulk b.                          *)
Working(b) == [IdleJob EXCEPT !.bulk = b, !.todo = b]

LEMMA BulkFlushing ==
  ASSUME NEW b, (\E e \in b : e.v14) => \A x, y \in b : x = y
  PROVE  Flushing("pick", Working(b), FALSE)
<1>1. /\ Working(b).bulk = b /\ Working(b).todo = b /\ Working(b).flag = FALSE
      /\ Working(b).saved = <<>> /\ Working(b).agenda = <<>>
  BY DEF Working, IdleJob
<1>2. "pick" \notin Untouched BY DEF Untouched, LookupLabels
<1>3. ASSUME NEW e \in b, e.v14 PROVE b = {e}
  BY <1>3
<1>4. AloneV14("pick", Working(b)) BY <1>1, <1>3 DEF AloneV14
<1>5. NestedOK("pick", Working(b)) BY <1>1 DEF NestedOK
<1> QED BY <1>1, <1>2, <1>4, <1>5 DEF Flushing

LEMMA StartFlushing ==
  ASSUME TypeInv, NEW p \in Proc, FlushOK(p), Start(p)
  PROVE  FlushOK(p)'
<1> DEFINE j == job[p]
<1>1. TypeOK /\ LabelOK(p) /\ j \in JobLocals BY DEF TypeInv, TypeOK
<1>2. /\ pc[p] = "idle" /\ ~ j.flag /\ j.saved = <<>> /\ j.agenda = <<>>
      /\ p \notin unflushed
  BY DEF Start, BeginLookup, BeginRegister, RegisterOriginCaller, BeginClean,
         Begin, FlushOK, Flushing, Untouched, Pending, LookupLabels,
         CleanLabels
<1>3. CASE \E r \in Lookups : BeginLookup(p, r)
  <2>1. UNCHANGED <<job, unflushed>> /\ pc'[p] \in LookupLabels \cup {"idle"}
    BY <1>1, <1>2, <1>3, LookupLabel
  <2> QED BY <1>2, <2>1
        DEF FlushOK, Flushing, NestedOK, AloneV14, LookupLabels
<1>4. CASE \E b \in Bulks : BeginRegister(p, b)
  <2>1. PICK b \in Bulks : BeginRegister(p, b) BY <1>4
  <2>2. job'[p] = Working(b) /\ pc'[p] = "pick"
    BY <1>1, <2>1 DEF BeginRegister, Goto, TypeOK, Working
  <2>3. p \notin unflushed' BY <1>2, <2>1 DEF BeginRegister, history
  <2>4. (\E e \in b : e.v14) => \A x, y \in b : x = y BY SingletonV14
  <2>5. Flushing("pick", Working(b), FALSE) BY <2>4, BulkFlushing
  <2> QED BY <2>2, <2>3, <2>5 DEF FlushOK, Flushing
<1>5. CASE \E e \in OriginCallers : RegisterOriginCaller(p, e)
  <2>1. PICK e \in OriginCallers : RegisterOriginCaller(p, e) BY <1>5
  <2>2. /\ job'[p] = [IdleJob EXCEPT !.cur = e, !.fac = e.body]
        /\ pc'[p] = "putplain" /\ p \notin unflushed'
    BY <1>1, <1>2, <2>1 DEF RegisterOriginCaller, Goto, TypeOK, history
  <2>3. /\ job'[p].bulk = {} /\ job'[p].todo = {} /\ job'[p].saved = <<>>
        /\ job'[p].agenda = <<>>
    BY <2>2 DEF IdleJob
  <2> QED BY <2>2, <2>3
        DEF FlushOK, Flushing, NestedOK, AloneV14, Untouched, LookupLabels
<1>6. CASE BeginClean(p)
  <2>1. job'[p] = j /\ pc'[p] = "dropspecials"
    BY <1>1, <1>6 DEF BeginClean, Goto, TypeOK
  <2> QED BY <1>2, <2>1
        DEF FlushOK, Flushing, NestedOK, AloneV14, Untouched, LookupLabels,
            CleanLabels
<1> QED BY <1>3, <1>4, <1>5, <1>6 DEF Start

LEMMA LookupFlushing ==
  ASSUME TypeInv, NEW p \in Proc, FlushOK(p),
         ReadCache(p) \/ ReadSpecials(p) \/ ReadRegistry(p) \/ InsertCache(p)
  PROVE  FlushOK(p)'
<1>1. TypeOK BY DEF TypeInv
<1>2. /\ UNCHANGED <<job, unflushed>> /\ pc[p] \in LookupLabels
      /\ \/ pc'[p] \in LookupLabels
         \/ job[p].agenda = <<>> /\ pc'[p] = "idle"
         \/ job[p].agenda # <<>> /\ pc'[p] = "describe"
  BY <1>1, LookupLabel
  DEF ReadCache, ReadSpecials, ReadRegistry, InsertCache, LookupLabels
<1> QED BY <1>2
      DEF FlushOK, Flushing, NestedOK, AloneV14, Untouched, LookupLabels,
          CleanLabels, Pending

(* Register takes entry x, of which the bulk may hold the form without a   *)
(* range, up.                                                              *)
LEMMA RegisterFlushing ==
  ASSUME TypeInv, NEW p \in Proc, FlushOK(p), pc[p] # "panicked",
         pc[p] \notin CleanLabels,
         NEW x \in Entry, Register(p, x), UNCHANGED unflushed,
         job[p].saved # <<>> => x.kind = "body",
         \A e \in job[p].bulk : e.v14 => job[p].todo \ {x} = {} /\ x.kind = e.kind
  PROVE  FlushOK(p)'
<1> DEFINE j == job[p]
           k == job'[p]
<1>1. TypeOK /\ j \in JobLocals BY DEF TypeInv, TypeOK
<1>2. k = [j EXCEPT !.cur = x, !.todo = j.todo \ {x},
                    !.fac = IF x.kind = "body" THEN x.body ELSE Missing,
                    !.agenda = <<>>, !.desc = <<>>]
  BY <1>1 DEF Register, TypeOK
<1>3. /\ k.bulk = j.bulk /\ k.todo = j.todo \ {x} /\ k.cur = x
      /\ k.flag = j.flag /\ k.saved = j.saved /\ k.agenda = <<>>
  BY <1>1, <1>2 DEF JobLocals
<1>4. /\ pc'[p] \in {"alias", "putplain", "readlist"}
      /\ x.kind = "body" => pc'[p] \in {"putplain", "readlist"}
      /\ pc'[p] = "alias" => x.kind = "alias"
  BY <1>1 DEF Register, Goto, PutLabel, TypeOK, Entry
<1>5. /\ k.saved # <<>> => j.saved # <<>> /\ x.kind = "body"
  BY <1>3 DEF FlushOK, Flushing, NestedOK
<1>6. NestedOK(pc'[p], k) BY <1>3, <1>4, <1>5 DEF FlushOK, Flushing, NestedOK
<1>7. AloneV14(pc'[p], k) BY <1>3 DEF FlushOK, Flushing, AloneV14
<1>8. /\ pc'[p] \notin Untouched /\ k.todo \subseteq k.bulk
      /\ p \in unflushed => Pending(k)
  BY <1>3, <1>4 DEF FlushOK, Flushing, Pending, Untouched, LookupLabels
<1> QED BY <1>3, <1>4, <1>6, <1>7, <1>8 DEF FlushOK, Flushing

(* Leaving a call that has nothing left to flush, by an early return or    *)
(* after the reset.                                                        *)
LEMMA ReturnFlushing ==
  ASSUME TypeInv, NEW p \in Proc, FlushOK(p), Return(p), pc[p] # "panicked",
         pc[p] \notin CleanLabels,
         p \in unflushed' => p \in unflushed /\ ~ job[p].flag,
         job[p].agenda = <<>>
  PROVE  FlushOK(p)'
<1> DEFINE j == job[p]
           f == j.saved[1]
           k == [j EXCEPT !.bulk = f.bulk, !.todo = f.todo, !.cur = f.cur,
                          !.flag = f.flag, !.saved = <<>>]
<1>1. TypeOK /\ j \in JobLocals BY DEF TypeInv, TypeOK
<1>2. CASE j.saved = <<>>
  <2>1. p \notin unflushed' BY <1>2 DEF FlushOK, Flushing, Pending
  <2>2. job'[p] = IdleJob /\ pc'[p] = "idle"
    BY <1>1, <1>2 DEF Return, Goto, TypeOK
  <2>3. Flushing("idle", IdleJob, FALSE) BY IdleFlushing
  <2> QED BY <2>1, <2>2, <2>3 DEF FlushOK, Flushing
<1>3. CASE j.saved # <<>>
  <2>1. job'[p] = k /\ pc'[p] = "wrap"
    BY <1>1, <1>3 DEF Return, Goto, TypeOK
  <2>2. /\ k.bulk = f.bulk /\ k.todo = f.todo /\ k.flag = f.flag
        /\ k.saved = <<>> /\ k.agenda = <<>>
    BY <1>1 DEF JobLocals
  <2> HIDE DEF k
  <2>3. p \in unflushed' => f.flag BY <1>3 DEF FlushOK, Flushing, Pending
  <2>4. f.todo \subseteq f.bulk /\ \A x \in f.bulk : ~ x.v14
    BY <1>3 DEF FlushOK, Flushing, NestedOK
  <2>5. NestedOK("wrap", k) /\ AloneV14("wrap", k)
    BY <2>2, <2>4 DEF NestedOK, AloneV14
  <2> QED BY <1>1, <2>1, <2>2, <2>3, <2>4, <2>5
          DEF FlushOK, Flushing, Pending, Untouched, LookupLabels
<1> QED BY <1>2, <1>3

(* A step that only moves the cursor of the call, at places where          *)
(* something may have been registered.                                     *)
LEMMA MoveFlushing ==
  ASSUME NEW p \in Proc, FlushOK(p), UNCHANGED unflushed,
         pc[p] \notin CleanLabels \cup {"panicked", "pick"},
         pc'[p] \notin Untouched \cup {"alias"},
         job[p].saved # <<>> => pc'[p] \in {"pick", "putplain", "readlist",
                                            "putlist", "panicked"},
         job'[p].bulk = job[p].bulk, job'[p].todo = job[p].todo,
         job'[p].flag = job[p].flag, job'[p].saved = job[p].saved,
         job'[p].cur = job[p].cur, job'[p].agenda = <<>>
  PROVE  FlushOK(p)'
<1>1. NestedOK(pc'[p], job'[p]) BY DEF FlushOK, Flushing, NestedOK
<1>2. AloneV14(pc'[p], job'[p]) BY DEF FlushOK, Flushing, AloneV14
<1> QED BY <1>1, <1>2 DEF FlushOK, Flushing, Pending

LEMMA PickFlushing ==
  ASSUME TypeInv, NEW p \in Proc, FlushOK(p),
         (\E e \in job[p].todo : Pick(p, e)) \/ PutV14(p)
  PROVE  FlushOK(p)'
<1> DEFINE j == job[p]
<1>1. TypeOK /\ j \in JobLocals BY DEF TypeInv, TypeOK
<1>2. j.todo \subseteq Entry /\ j.cur \in Entry BY <1>1 DEF JobLocals
<1>3. UNCHANGED unflushed BY DEF Pick, PutV14, history
<1>4. CASE \E e \in j.todo : Pick(p, e)
  <2>1. PICK e \in j.todo : Pick(p, e) BY <1>4
  <2>2. pc[p] = "pick" /\ e \in Entry /\ e \in j.bulk
    BY <1>2, <2>1 DEF Pick, FlushOK, Flushing
  <2>3. \A x \in j.bulk : x.v14 => j.bulk = {x} /\ j.todo \subseteq {x} /\ e = x
    BY <2>2 DEF FlushOK, Flushing, AloneV14
  <2>4. CASE Register(p, e)
    <3>1. j.saved # <<>> => e.kind = "body"
      BY <2>2 DEF FlushOK, Flushing, NestedOK
    <3>2. \A x \in j.bulk : x.v14 => j.todo \ {e} = {} /\ e.kind = x.kind
      BY <2>3
    <3> QED BY <1>3, <2>2, <2>4, <3>1, <3>2, RegisterFlushing DEF CleanLabels
  <2>5. CASE /\ e.v14
             /\ job' = [job EXCEPT ![p].cur = e, ![p].todo = j.todo \ {e}]
             /\ Goto(p, "v14check")
    <3>1. job'[p] = [j EXCEPT !.cur = e, !.todo = j.todo \ {e}]
          /\ pc'[p] = "v14check"
      BY <1>1, <2>5 DEF Goto, TypeOK
    <3>2. /\ job'[p].bulk = j.bulk /\ job'[p].todo = j.todo \ {e}
          /\ job'[p].cur = e /\ job'[p].flag = j.flag
          /\ job'[p].saved = j.saved /\ job'[p].agenda = j.agenda
      BY <1>1, <3>1 DEF JobLocals
    <3>3. j.bulk = {e} /\ j.saved = <<>> /\ (~ j.flag \/ j.todo = {})
      BY <2>2, <2>5 DEF FlushOK, Flushing, AloneV14
    <3>4. ~ j.flag /\ j.todo \ {e} = {} BY <2>1, <2>3, <2>5, <2>2, <3>3
    <3>5. j.agenda = <<>> /\ p \notin unflushed
      BY <2>2, <3>3, <3>4
      DEF FlushOK, Flushing, Pending, CleanLabels, LookupLabels
    <3> QED BY <1>3, <3>1, <3>2, <3>3, <3>4, <3>5
            DEF FlushOK, Flushing, NestedOK, AloneV14
  <2> QED BY <2>1, <2>4, <2>5 DEF Pick
<1>5. CASE PutV14(p)
  <2>1. Register(p, j.cur) /\ pc[p] = "v14put" BY <1>5 DEF PutV14
  <2>2. j.saved = <<>> /\ \A x \in j.bulk : x.v14 =>
                              j.todo \ {j.cur} = {} /\ j.cur.kind = x.kind
    BY <2>1 DEF FlushOK, Flushing, AloneV14, Untouched
  <2> QED BY <1>2, <1>3, <2>1, <2>2, RegisterFlushing DEF CleanLabels
<1> QED BY <1>4, <1>5

(* The description of a known V14 name: nothing is registered meanwhile.   *)
LEMMA DescriptionFlushing ==
  ASSUME TypeInv, NEW p \in Proc, FlushOK(p),
         CheckV14(p) \/ Describe(p) \/ Compare(p)
  PROVE  FlushOK(p)'
<1> DEFINE j == job[p]
           e == j.cur
<1>1. TypeOK /\ LabelOK(p) /\ j \in JobLocals BY DEF TypeInv, TypeOK
<1>2. UNCHANGED unflushed /\ pc[p] \in {"v14check", "describe", "compare"}
  BY DEF CheckV14, Describe, Compare
<1>3. ~ j.flag /\ j.saved = <<>> /\ p \notin unflushed
  BY <1>2 DEF FlushOK, Flushing, Pending, Untouched, CleanLabels
<1>4. e \in Entry BY <1>1 DEF JobLocals
<1>5. ASSUME NEW label \in LookupLabels \cup {"describe", "v14put", "compare"},
             pc'[p] = label,
             label \in {"v14put", "compare"} => job'[p].agenda = <<>>,
             job'[p].bulk = j.bulk, job'[p].todo = j.todo,
             job'[p].cur = e, job'[p].flag = j.flag, job'[p].saved = j.saved
      PROVE  FlushOK(p)'
  <2>1. AloneV14(pc'[p], job'[p])
    BY <1>2, <1>5 DEF FlushOK, Flushing, AloneV14
  <2> QED BY <1>2, <1>3, <1>5, <2>1
          DEF FlushOK, Flushing, NestedOK, LookupLabels
<1>6. ASSUME NEW a, NEW d,
             job' = [job EXCEPT ![p].agenda = a]
               \/ job' = [job EXCEPT ![p].agenda = a, ![p].desc = d]
      PROVE  /\ job'[p].agenda = a
             /\ job'[p].bulk = j.bulk /\ job'[p].todo = j.todo
             /\ job'[p].cur = e /\ job'[p].flag = j.flag
             /\ job'[p].saved = j.saved
  <2>1. \/ job'[p] = [j EXCEPT !.agenda = a]
        \/ job'[p] = [j EXCEPT !.agenda = a, !.desc = d]
    BY <1>1, <1>6 DEF TypeOK
  <2> QED BY <1>1, <2>1 DEF JobLocals
<1>7. ASSUME NEW a, NEW d, NEW t, Ask(p, Question(t)),
             job' = [job EXCEPT ![p].agenda = a]
               \/ job' = [job EXCEPT ![p].agenda = a, ![p].desc = d]
      PROVE  FlushOK(p)'
  <2>1. pc'[p] = "cache" BY <1>1, <1>7 DEF Ask, Goto, TypeOK
  <2> QED BY <1>5, <1>6, <1>7, <2>1 DEF LookupLabels
<1>8. CASE CheckV14(p)
  <2>1. j.agenda = <<>>
    BY <1>8 DEF CheckV14, FlushOK, Flushing, LookupLabels
  <2>2. CASE Goto(p, "v14put") /\ UNCHANGED job
    <3>1. pc'[p] = "v14put" BY <1>1, <2>2 DEF Goto, TypeOK
    <3> QED BY <1>5, <2>1, <2>2, <3>1
  <2>3. CASE Return(p)
    BY <1>2, <1>3, <2>1, <2>3, ReturnFlushing DEF CleanLabels
  <2> QED BY <1>7, <1>8, <2>2, <2>3 DEF CheckV14
<1>9. CASE Describe(p)
  <2>1. PICK rest \in Seq(AgendaItem), desc \in Seq(Answer \cup {Missing}) :
          /\ job' = [job EXCEPT ![p].agenda = rest, ![p].desc = desc]
          /\ IF rest # <<>>
             THEN Ask(p, Question(rest[1].type))
             ELSE Goto(p, "compare") /\ UNCHANGED <<look, fresh>>
    BY <1>1, <1>9, DescribeAgenda
  <2>2. CASE rest # <<>> BY <1>7, <2>1, <2>2
  <2>3. CASE rest = <<>>
    <3>1. pc'[p] = "compare" BY <1>1, <2>1, <2>3 DEF Goto, TypeOK
    <3>2. /\ job'[p].agenda = rest
          /\ job'[p].bulk = j.bulk /\ job'[p].todo = j.todo
          /\ job'[p].cur = e /\ job'[p].flag = j.flag
          /\ job'[p].saved = j.saved
      BY <1>6, <2>1
    <3> QED BY <1>5, <2>3, <3>1, <3>2
  <2> QED BY <2>2, <2>3
<1>10. CASE Compare(p)
  <2> DEFINE ofSpec == [e EXCEPT !.ranged = TRUE, !.lo = e.spec, !.hi = e.spec]
  <2>1. j.agenda = <<>>
    BY <1>10 DEF Compare, FlushOK, Flushing, LookupLabels
  <2>2. CASE Return(p)
    BY <1>2, <1>3, <2>1, <2>2, ReturnFlushing DEF CleanLabels
  <2>3. CASE Register(p, ofSpec)
    <3>1. e.spec \in Int BY <1>4, RegistryAssumption DEF Entry
    <3>2. ofSpec \in Entry /\ ofSpec.kind = e.kind BY <1>4, <3>1 DEF Entry
    <3>3. \A x \in j.bulk : x.v14 => j.todo = {} /\ e.kind = x.kind
      BY <1>2 DEF FlushOK, Flushing, AloneV14
    <3> HIDE DEF ofSpec
    <3>4. \A x \in j.bulk : x.v14 =>
             j.todo \ {ofSpec} = {} /\ ofSpec.kind = x.kind
      BY <3>2, <3>3
    <3> QED BY <1>2, <1>3, <2>3, <3>2, <3>4, RegisterFlushing DEF CleanLabels
  <2>4. CASE /\ job' = [job EXCEPT ![p].agenda =
                                     <<Whole(e.to)>>]
             /\ Ask(p, Question(e.to))
    BY <1>7, <2>4
  <2> QED BY <1>10, <2>2, <2>3, <2>4 DEF Compare
<1> QED BY <1>8, <1>9, <1>10

LEMMA AliasFlushing ==
  ASSUME TypeInv, NEW p \in Proc, FlushOK(p),
         ResolveAlias(p) \/ ResolveExplained(p) \/ Wrap(p)
  PROVE  FlushOK(p)'
<1> DEFINE j == job[p]
           e == j.cur
<1>1. TypeOK /\ LabelOK(p) /\ j \in JobLocals BY DEF TypeInv, TypeOK
<1>2. UNCHANGED unflushed /\ pc[p] \in {"alias", "alias2", "wrap"}
  BY DEF ResolveAlias, ResolveExplained, Wrap, history
<1>3. j.saved = <<>> /\ j.agenda = <<>>
  BY <1>2 DEF FlushOK, Flushing, NestedOK, LookupLabels
<1>4. pc[p] \notin CleanLabels \cup {"panicked", "pick"}
  BY <1>2 DEF CleanLabels
<1>5. ASSUME NEW label \in {"alias2", "wrap", "pick"}, Goto(p, label),
             UNCHANGED job
      PROVE  FlushOK(p)'
  <2>1. pc'[p] = label BY <1>1, <1>5 DEF Goto, TypeOK
  <2>2. pc'[p] \notin Untouched \cup {"alias"}
    BY <2>1 DEF Untouched, LookupLabels
  <2> QED BY <1>2, <1>3, <1>4, <1>5, <2>2, MoveFlushing
<1>6. ASSUME NEW f, PutAlias(p, f) PROVE FlushOK(p)'
  <2>1. pc'[p] \in {"putplain", "readlist"}
    BY <1>1, <1>6 DEF PutAlias, PutLabel, Goto, TypeOK
  <2>2. pc'[p] \notin Untouched \cup {"alias"}
    BY <2>1 DEF Untouched, LookupLabels
  <2>3. job'[p] = [j EXCEPT !.fac = f] BY <1>1, <1>6 DEF PutAlias, TypeOK
  <2>4. /\ job'[p].bulk = j.bulk /\ job'[p].todo = j.todo
        /\ job'[p].cur = e /\ job'[p].flag = j.flag
        /\ job'[p].saved = j.saved /\ job'[p].agenda = j.agenda
    BY <1>1, <2>3 DEF JobLocals
  <2> QED BY <1>2, <1>3, <1>4, <2>2, <2>4, MoveFlushing
<1>7. CASE ResolveAlias(p)
  <2> DEFINE x == Explanation(j, e)
             nested == [x EXCEPT !.name = RegKey(e), !.ranged = e.ranged,
                                 !.lo = e.lo, !.hi = e.hi]
             saved == <<[bulk |-> j.bulk, todo |-> j.todo, cur |-> e,
                         flag |-> j.flag]>>
             k == [IdleJob EXCEPT !.bulk = {nested}, !.todo = {nested},
                                  !.saved = saved]
  <2>1. CASE /\ Explained(j, e) /\ x.kind = "body"
             /\ job' = [job EXCEPT ![p] = k]
             /\ Goto(p, "pick")
    <3>1. x \in j.bulk BY <2>1 DEF Explained, Explanation
    <3>2. x \in Entry BY <1>1, <3>1 DEF JobLocals
    <3>3. job'[p] = k /\ pc'[p] = "pick" BY <1>1, <2>1 DEF Goto, TypeOK
    <3>4. /\ nested.kind = "body" /\ nested.v14 = x.v14
      BY <2>1, <3>2 DEF Entry
    <3>5. /\ k.bulk = {nested} /\ k.todo = {nested} /\ k.saved = saved
          /\ k.flag = FALSE /\ k.agenda = <<>>
      BY DEF IdleJob
    <3>6. /\ saved # <<>> /\ saved[1].bulk = j.bulk /\ saved[1].todo = j.todo
          /\ saved[1].flag = j.flag
      OBVIOUS
    <3>7. ASSUME NEW y \in j.bulk, y.v14 PROVE FALSE
      <4>1. j.bulk = {y} /\ e.kind = y.kind
        BY <1>2, <3>7 DEF FlushOK, Flushing, AloneV14
      <4>2. x = y BY <3>1, <4>1
      <4>3. e.kind = "alias" BY <1>7 DEF ResolveAlias, FlushOK, Flushing
      <4> QED BY <2>1, <4>1, <4>2, <4>3
    <3>8. p \in unflushed' => j.flag
      BY <1>2, <1>3 DEF FlushOK, Flushing, Pending, CleanLabels
    <3>9. j.todo \subseteq j.bulk BY DEF FlushOK, Flushing
    <3> HIDE DEF k, nested, saved, x
    <3>10. NestedOK("pick", k)
      BY <3>1, <3>4, <3>5, <3>6, <3>7, <3>9 DEF NestedOK
    <3>11. AloneV14("pick", k)
      BY <3>1, <3>4, <3>5, <3>7 DEF AloneV14
    <3>12. p \in unflushed' => Pending(k) BY <3>5, <3>6, <3>8 DEF Pending
    <3>13. "pick" \notin Untouched BY DEF Untouched, LookupLabels
    <3> QED BY <3>3, <3>5, <3>10, <3>11, <3>12, <3>13 DEF FlushOK, Flushing
  <2> QED BY <1>5, <1>6, <1>7, <2>1 DEF ResolveAlias
<1>8. CASE ResolveExplained(p)
  BY <1>5, <1>6, <1>8 DEF ResolveExplained
<1>9. CASE Wrap(p)
  BY <1>5, <1>6, <1>9 DEF Wrap
<1> QED BY <1>7, <1>8, <1>9

LEMMA PutFlushing ==
  ASSUME TypeInv, NEW p \in Proc, FlushOK(p),
         PutPlain(p) \/ ReadList(p) \/ PutList(p)
  PROVE  FlushOK(p)'
<1> DEFINE j == job[p]
<1>1. TypeOK /\ j \in JobLocals BY DEF TypeInv, TypeOK
<1>2. pc[p] \in {"putplain", "readlist", "putlist"}
  BY DEF PutPlain, ReadList, PutList
<1>3. j.agenda = <<>> /\ pc[p] \notin CleanLabels \cup {"panicked", "pick"}
  BY <1>2 DEF FlushOK, Flushing, LookupLabels, CleanLabels
<1>4. CASE job' = [job EXCEPT ![p].flag = TRUE] /\ Goto(p, "pick")
  <2>1. job'[p] = [j EXCEPT !.flag = TRUE] /\ pc'[p] = "pick"
    BY <1>1, <1>4 DEF Goto, TypeOK
  <2>2. /\ job'[p].bulk = j.bulk /\ job'[p].todo = j.todo
        /\ job'[p].cur = j.cur /\ job'[p].flag = TRUE
        /\ job'[p].saved = j.saved /\ job'[p].agenda = j.agenda
    BY <1>1, <2>1 DEF JobLocals
  <2>3. NestedOK("pick", job'[p]) BY <2>2 DEF FlushOK, Flushing, NestedOK
  <2>4. AloneV14("pick", job'[p])
    BY <1>3, <2>2 DEF FlushOK, Flushing, AloneV14
  <2>5. Pending(job'[p]) /\ "pick" \notin Untouched \cup {"alias"}
    BY <2>2 DEF Pending, Untouched, LookupLabels
  <2> QED BY <1>3, <2>1, <2>2, <2>3, <2>4, <2>5 DEF FlushOK, Flushing
<1>5. CASE UNCHANGED <<job, unflushed>> /\ Goto(p, "panicked")
  <2>1. pc'[p] = "panicked" BY <1>1, <1>5 DEF Goto, TypeOK
  <2> QED BY <1>3, <1>5, <2>1, MoveFlushing DEF Untouched, LookupLabels
<1>6. CASE ReadList(p)
  <2> DEFINE l == specials[RegKey(j.cur)]
  <2>1. job'[p] = [j EXCEPT !.list = l] /\ pc'[p] = "putlist"
    BY <1>1, <1>6 DEF ReadList, Goto, TypeOK
  <2>2. UNCHANGED unflushed BY <1>6 DEF ReadList, history
  <2>3. /\ job'[p].bulk = j.bulk /\ job'[p].todo = j.todo
        /\ job'[p].cur = j.cur /\ job'[p].flag = j.flag
        /\ job'[p].saved = j.saved /\ job'[p].agenda = j.agenda
    BY <1>1, <2>1 DEF JobLocals
  <2> QED BY <1>3, <2>1, <2>2, <2>3, MoveFlushing DEF Untouched, LookupLabels
<1> QED BY <1>4, <1>5, <1>6 DEF PutPlain, PutList

LEMMA FinishFlushing ==
  ASSUME TypeInv, NEW p \in Proc, FlushOK(p), Finish(p)
  PROVE  FlushOK(p)'
<1>1. pc[p] = "pick" /\ Return(p) BY DEF Finish
<1>2. job[p].agenda = <<>> BY <1>1 DEF FlushOK, Flushing, LookupLabels
<1>3. p \in unflushed' => p \in unflushed /\ ~ job[p].flag
  BY DEF Finish, ResetCache
<1> QED BY <1>1, <1>2, <1>3, ReturnFlushing DEF CleanLabels

LEMMA CleanFlushing ==
  ASSUME TypeInv, NEW p \in Proc, FlushOK(p),
         DropSpecials(p) \/ DropV14(p) \/ PublishBase(p) \/ CleanReset(p)
  PROVE  FlushOK(p)'
<1>1. TypeOK BY DEF TypeInv
<1>2. CASE DropSpecials(p) \/ DropV14(p) \/ PublishBase(p)
  <2>1. pc[p] \in CleanLabels /\ UNCHANGED <<job, unflushed>>
    BY <1>2 DEF DropSpecials, DropV14, PublishBase, history, CleanLabels
  <2>2. pc'[p] \in CleanLabels
    BY <1>1, <1>2 DEF DropSpecials, DropV14, PublishBase, Goto, TypeOK,
                      CleanLabels
  <2> QED BY <2>1, <2>2 DEF FlushOK, Flushing, NestedOK, AloneV14, Untouched,
                            LookupLabels, CleanLabels
<1>3. CASE CleanReset(p)
  <2>1. job'[p] = Working(BaseTypes) /\ pc'[p] = "pick" /\ p \notin unflushed'
    BY <1>1, <1>3 DEF CleanReset, ResetCache, Goto, TypeOK, Working
  <2>2. Flushing("pick", Working(BaseTypes), FALSE)
    BY BulkFlushing, RegistryAssumption
  <2> QED BY <2>1, <2>2 DEF FlushOK, Flushing
<1> QED BY <1>2, <1>3

FlushInv == TypeInv /\ \A p \in Proc : FlushOK(p)

LEMMA FlushStep ==
  ASSUME FlushInv, NEW p \in Proc, Start(p) \/ Step(p)
  PROVE  FlushInv'
<1>1. TypeInv /\ TypeOK /\ TypeInv'
  BY TypeInvStep DEF FlushInv, TypeInv, Next
<1>2. FlushOK(p)'
  BY <1>1, StartFlushing, LookupFlushing, PickFlushing, DescriptionFlushing,
     AliasFlushing, PutFlushing, FinishFlushing, CleanFlushing
     DEF FlushInv, Step
<1>3. ASSUME NEW q \in Proc, q # p PROVE FlushOK(q)'
  <2>1. pc'[q] = pc[q] /\ job'[q] = job[q] BY <1>1, <1>3, OthersKept
  <2>2. q \in unflushed' <=> q \in unflushed BY <1>3, UnflushedOthers
  <2> QED BY <2>1, <2>2 DEF FlushInv, FlushOK, Flushing
<1> QED BY <1>1, <1>2, <1>3 DEF FlushInv

LEMMA FlushInvariance == Spec => []FlushInv
<1>1. Init => FlushInv
  <2>1. Init => TypeInv BY InitType DEF TypeInv, LabelOK, Init
  <2>2. ASSUME Init, NEW p \in Proc PROVE FlushOK(p)
    <3>1. pc[p] = "idle" /\ job[p] = IdleJob /\ p \notin unflushed
      BY <2>2 DEF Init
    <3> QED BY <3>1, IdleFlushing DEF FlushOK, Flushing
  <2> QED BY <2>1, <2>2 DEF FlushInv
<1>2. FlushInv /\ UNCHANGED vars => FlushInv'
  BY TypeInvStep DEF FlushInv, FlushOK, vars, tables, history
<1>3. FlushInv /\ [Next]_vars => FlushInv'
  BY <1>2, FlushStep DEF Next
<1> QED BY <1>1, <1>3, PTL DEF Spec

(* RegCustomTypes and Clean return to the program only after the cache has *)
(* been reset for everything they changed: neither the early returns for   *)
(* V14 names already registered nor those of nested calls skip the reset.  *)
THEOREM Flushed == Spec => []ReturnsFlushed
<1>1. FlushInv => ReturnsFlushed
  BY DEF FlushInv, FlushOK, Flushing, Pending, Untouched, CleanLabels,
         ReturnsFlushed
<1> QED BY <1>1, FlushInvariance, PTL

-----------------------------------------------------------------------------
(* The inductive invariant *)

Named(a) == a # Missing /\ a.factory \notin Unnamed

(* What a settled type resolves to: its versioned form, or the plain one.  *)
Kept(e) == HasSpecial(RegKey(e), e.spec) \/ registry[RegKey(e)] = e.body

(* A key may have no codec though V14Types has its name: while Clean works *)
(* or between the insertion in V14Types and that in TypeRegistry.          *)
Emptied(p) == pc[p] \in {"dropspecials", "dropv14"}
Due(p, k) == pc[p] = "putplain" /\ RegKey(job[p].cur) = k

KeyOK(e) ==
  LET k == RegKey(e) IN
  /\ \A i \in DOMAIN specials[k] : \E x \in Hist :
       RegKey(x) = k /\ specials[k][i] =
                          [lo |-> x.spec, hi |-> x.spec, factory |-> x.body]
  /\ registry[k] \notin Unnamed
  /\ e.name \in v14 => \/ registry[k] # Missing
                       \/ \E p \in Proc : Emptied(p) \/ Due(p, k)
  /\ Question(e.name) \in DOMAIN cache
       => cache[Question(e.name)].factory \notin Unnamed

SettledOK ==
  \A e \in settled :
    e.kind = "body" /\ e.spec # 0 => e \in Hist /\ e.name \in v14 /\ Kept(e)

CleanOK(p) ==
  /\ pc[p] \in CleanLabels => settled = {}
  /\ pc[p] \in {"publish", "cleanreset"} => v14 = {}

(* A lookup of the name of a history type asks for its key only.           *)
LookNamed(p) ==
  \A e \in Hist : look[p].req = Question(e.name) =>
    /\ pc[p] \in {"special", "plain", "insert"} => look[p].attempt = "head"
    /\ pc[p] = "insert" => look[p].found.factory \notin Unnamed

(* A RegCustomTypes call registers one history type or none.               *)
Foreign(x) == RegKey(x) \notin HistoryKey
              /\ ~ (x.v14 /\ x.kind = "body" /\ x.spec # 0)

ForeignCall(p) ==
  LET j == job[p] IN
  /\ \A x \in j.bulk : Foreign(x)
  /\ pc[p] # "pick" => Foreign(j.cur)
  /\ j.saved # <<>> => /\ Foreign(j.saved[1].cur)
                       /\ \A x \in j.saved[1].bulk : Foreign(x)

(* The description of the type known under the name: a lookup of the name, *)
(* that finds a codec, then lookups of its parts.                          *)
Described(p, n) ==
  LET j == job[p] IN
  \/ /\ j.desc = <<>> /\ j.agenda = <<Whole(n)>>
     /\ pc[p] \in LookupLabels => look[p].req = Question(n)
     /\ pc[p] = "describe" => Named(look[p].answer)
     /\ pc[p] # "compare"
  \/ /\ Len(j.desc) = 1 /\ Named(j.desc[1])
     /\ \A i \in DOMAIN j.agenda : ~ j.agenda[i].top

OfSpec(e) == [e EXCEPT !.ranged = TRUE, !.lo = e.spec, !.hi = e.spec]

NoneSettled(k) ==
  \A e \in settled : e.kind = "body" /\ e.spec # 0 => RegKey(e) # k

(* How far the call that registers history type x is.                      *)
Registering(p, x) ==
  LET j == job[p] IN
  \/ pc[p] = "pick" /\ j.todo = {x} /\ j.desc = <<>>
  \/ pc[p] = "v14check" /\ j.cur = x /\ j.desc = <<>>
  \/ pc[p] = "v14put" /\ j.cur = x /\ x.name \notin v14
  \/ /\ pc[p] \in LookupLabels \cup {"describe", "compare"}
     /\ j.cur = x /\ x.name \in v14 /\ x.spec # 0 /\ Described(p, x.name)
  \/ /\ pc[p] = "putplain" /\ j.cur = x /\ j.fac = x.body
     /\ x.name \in v14 /\ NoneSettled(RegKey(x))
  \/ /\ pc[p] \in {"readlist", "putlist"} /\ j.cur = OfSpec(x)
     /\ j.fac = x.body /\ x.name \in v14 /\ x.spec # 0
  \/ /\ pc[p] = "pick" /\ j.todo = {} /\ x.name \in v14
     /\ x.spec # 0 => Kept(x)

HistoryCall(p) ==
  \E x \in UNION Bulks :
    /\ RegKey(x) \in HistoryKey
    /\ job[p].bulk = {x} /\ job[p].saved = <<>>
    /\ Registering(p, x)

CallOK(p) ==
  Writing(p) /\ pc[p] \notin CleanLabels => ForeignCall(p) \/ HistoryCall(p)

KeysOK == \A e \in Hist : KeyOK(e)

HistoryInv ==
  /\ FlushInv /\ ListInv /\ BaseNeverLost
  /\ KeysOK /\ SettledOK
  /\ \A p \in Proc : CleanOK(p) /\ LookNamed(p) /\ CallOK(p)

-----------------------------------------------------------------------------
(* Entries and keys *)

LEMMA HistEntry ==
  ASSUME NEW e \in Hist
  PROVE  /\ e \in Entry /\ e.name \in Type /\ RegKey(e) \in Key
         /\ e.v14 /\ e.kind = "body" /\ e.spec # 0 /\ e.spec \in Int
         /\ e.body \in Factory /\ e.body # Missing
         /\ RegKey(e) \in HistoryKey /\ e \in UNION Bulks
         /\ Question(e.name) \in Request /\ Lower[RegKey(e)] = RegKey(e)
<1>1. e \in Entry BY RegistryAssumption DEF Hist
<1>2. e.name \in Type /\ e.spec \in Int /\ e.body \in Factory
  BY <1>1, RegistryAssumption DEF Entry, Factory
<1>3. RegKey(e) \in Key BY <1>2, RegistryAssumption DEF RegKey
<1> QED BY <1>1, <1>2, <1>3, QuestionType, RegistryAssumption
        DEF Hist, HistoryKey

(* Whatever is registered under the key of a history type is metadata's.   *)
LEMMA BoundEntry ==
  ASSUME OrderlyHistory, NEW x \in (UNION Bulks) \cup BaseTypes \cup OriginCallers,
         RegKey(x) \in HistoryKey
  PROVE  /\ x \in UNION Bulks /\ x.v14 /\ ~ x.ranged /\ x.kind = "body"
         /\ x.body \notin Unnamed
         /\ x.spec # 0 => x \in Hist
         /\ \A e \in Hist : RegKey(e) = RegKey(x) =>
              x.name = e.name /\ (x.spec = e.spec => x.body = e.body)
<1>1. PICK e \in Hist : RegKey(e) = RegKey(x) BY DEF HistoryKey
<1>2. x.v14 /\ ~ x.ranged /\ x.kind = "body" /\ x.body \notin Unnamed
  BY <1>1 DEF OrderlyHistory
<1>3. x \in UNION Bulks
  <2>1. \A y \in BaseTypes \cup OriginCallers : ~ y.v14
    BY RegistryAssumption
  <2>2. ASSUME x \in BaseTypes \cup OriginCallers PROVE FALSE
    BY <1>2, <2>1, <2>2
  <2>3. x \in UNION Bulks \/ x \in BaseTypes \cup OriginCallers BY Zenon
  <2> QED BY <2>2, <2>3, Zenon
<1>4. ASSUME NEW h \in Hist, RegKey(h) = RegKey(x)
      PROVE  x.name = h.name /\ (x.spec = h.spec => x.body = h.body)
  BY <1>4 DEF OrderlyHistory
<1> QED BY <1>2, <1>3, <1>4 DEF Hist

(* A bulk of RegCustomTypes is one history type or has none.               *)
LEMMA BulkKinds ==
  ASSUME OrderlyHistory, NEW b \in Bulks
  PROVE  \/ \A x \in b : Foreign(x)
         \/ \E x \in UNION Bulks : RegKey(x) \in HistoryKey /\ b = {x}
<1>1. ASSUME NEW x \in b, ~ Foreign(x)
      PROVE  RegKey(x) \in HistoryKey /\ x \in UNION Bulks /\ b = {x}
  <2>1. x \in UNION Bulks OBVIOUS
  <2>2. RegKey(x) \in HistoryKey BY <1>1, <2>1 DEF Foreign, Hist, HistoryKey
  <2>3. x.v14 BY <2>1, <2>2, BoundEntry
  <2>4. \A y, z \in b : y = z BY <2>3, SingletonV14
  <2> QED BY <2>1, <2>2, <2>4
<1> QED BY <1>1

(* A name has the key of a history type only if it is its name.            *)
LEMMA NamesOfKeys ==
  ASSUME OrderlyHistory, NEW e \in Hist, NEW x \in Hist, RegKey(x) = RegKey(e)
  PROVE  x.name = e.name
BY BoundEntry, HistEntry

(* The lookups of a history type reach its key.                            *)
LEMMA HistProbe ==
  ASSUME OrderlyHistory, NEW e \in Hist, NEW s \in Int
  PROVE  LET r == [type |-> e.name, module |-> NoModule, spec |-> s] IN
         /\ Probe(r, "head") = RegKey(e)
         /\ FirstAttempt(r) = "head"
         /\ r.type \notin Generic \cup Tuple
         /\ \A f : Outcome(r, "head", f) = [factory |-> f, sub |-> Missing]
<1>1. e.name \notin Generic \cup Tuple BY DEF OrderlyHistory
<1>2. ModuleType(Lower[e.name], NoModule) = RegKey(e)
  BY DEF OrderlyHistory, RegKey
<1> QED BY <1>1, <1>2 DEF Probe, FirstAttempt, Outcome

LEMMA HistPlain ==
  ASSUME OrderlyHistory, NEW e \in Hist
  PROVE  Plain(RegKey(e)) = registry[RegKey(e)]
BY HistEntry DEF Plain, OrderlyHistory

(* A special that covers a spec is the type of that spec.                  *)
LEMMA HistSpecial ==
  ASSUME OrderlyHistory, TypeOK, NEW e \in Hist, KeyOK(e), NEW s \in Int,
         HasSpecial(RegKey(e), s)
  PROVE  \E x \in Hist : /\ RegKey(x) = RegKey(e) /\ x.spec = s
                         /\ FirstSpecial(RegKey(e), s).factory = x.body
<1> DEFINE k == RegKey(e)
           sp == FirstSpecial(k, s)
<1>1. k \in Key /\ k \in Type BY HistEntry, RegistryAssumption
<1>2. Covers(sp, s) /\ \E i \in DOMAIN specials[k] : sp = specials[k][i]
  BY <1>1, FirstSpecialType DEF TypeOK
<1>3. PICK x \in Hist : RegKey(x) = k /\ sp = [lo |-> x.spec, hi |-> x.spec,
                                               factory |-> x.body]
  BY <1>2 DEF KeyOK
<1>4. x.spec \in Int BY HistEntry
<1>5. x.spec = s BY <1>2, <1>3, <1>4 DEF Covers
<1> QED BY <1>3, <1>5

LEMMA NotAtZero ==
  ASSUME OrderlyHistory, TypeOK, NEW e \in Hist, KeyOK(e)
  PROVE  ~ HasSpecial(RegKey(e), 0)
BY HistSpecial, HistEntry

(* The invariant gives the property.                                       *)
LEMMA HistResolved ==
  ASSUME OrderlyHistory, TypeOK, KeysOK, SettledOK, NEW e \in settled,
         e.kind = "body", e.spec # 0
  PROVE  Resolve([type |-> e.name, module |-> NoModule, spec |-> e.spec])
           = [factory |-> e.body, sub |-> Missing]
<1> DEFINE r == [type |-> e.name, module |-> NoModule, spec |-> e.spec]
           k == RegKey(e)
           a == [factory |-> e.body, sub |-> Missing]
<1>1. e \in Hist /\ Kept(e) /\ KeyOK(e) BY DEF SettledOK, KeysOK
<1>2. e.spec \in Int /\ e.body # Missing /\ e.body \in Factory
  BY <1>1, HistEntry
<1>3. /\ Probe(r, "head") = k
      /\ e.name \notin Generic \cup Tuple
      /\ \A f : Outcome(r, "head", f) = [factory |-> f, sub |-> Missing]
  BY <1>1, <1>2, HistProbe
<1>4. Instant(k, e.spec) = e.body
  <2>1. CASE HasSpecial(k, e.spec)
    <3>1. PICK x \in Hist : /\ RegKey(x) = k /\ x.spec = e.spec
                            /\ FirstSpecial(k, e.spec).factory = x.body
      BY <1>1, <1>2, <2>1, HistSpecial
    <3>2. x.body = e.body BY <1>1, <3>1, BoundEntry, HistEntry
    <3> QED BY <2>1, <3>1, <3>2 DEF Instant
  <2>2. CASE ~ HasSpecial(k, e.spec)
    BY <1>1, <2>2, HistPlain DEF Instant, Kept
  <2> QED BY <2>1, <2>2
<1>5. Try(r, "head") = a BY <1>2, <1>3, <1>4 DEF Try
<1>6. a # Missing
  <2>1. a \in Answer BY <1>2 DEF Answer
  <2> QED BY <2>1, RegistryAssumption
<1>7. Direct(r) = a BY <1>3, <1>5, <1>6 DEF Direct
<1> QED BY <1>6, <1>7 DEF Resolve

-----------------------------------------------------------------------------
(* Steps *)

(* What a step of goroutine p has to leave behind; the rest is Others.     *)
Advanced(p) == KeysOK' /\ SettledOK' /\ CleanOK(p)' /\ LookNamed(p)'
               /\ CallOK(p)'

(* While a registration or a Clean is under way, nobody else registers.    *)
LEMMA SoleWriter ==
  ASSUME OrderlyHistory, ListInv, NEW p \in Writer, NEW q \in Proc, q # p
  PROVE  ~ Writing(q)
BY DEF OrderlyHistory, OneRegistrar, ListInv, ListOK, Writer

(* Who is no registrar leaves the tables alone.                            *)
LEMMA OnlyWriters ==
  ASSUME ListInv, NEW p \in Proc \ Writer, Start(p) \/ Step(p)
  PROVE  UNCHANGED <<registry, specials, v14, settled>>
<1>1. ~ Writing(p) BY DEF ListInv, ListOK
<1>2. CASE Start(p)
  BY <1>2 DEF Start, BeginLookup, BeginRegister, RegisterOriginCaller,
              BeginClean, Writer, tables, history
<1>3. CASE Step(p)
  BY <1>1, <1>3
     DEF Step, ReadCache, ReadSpecials, ReadRegistry, InsertCache, Pick,
         CheckV14, PutV14, Describe, Compare, ResolveAlias,
         ResolveExplained, Wrap, PutPlain, ReadList, PutList, Finish,
         DropSpecials, DropV14, PublishBase, CleanReset, tables, history,
         Writing, RegisterLabels, CleanLabels
<1> QED BY <1>2, <1>3

LEMMA Others ==
  ASSUME OrderlyHistory, HistoryInv, NEW p \in Proc, Start(p) \/ Step(p),
         NEW q \in Proc, q # p
  PROVE  CleanOK(q)' /\ LookNamed(q)' /\ CallOK(q)'
<1>1. TypeOK /\ ListInv BY DEF HistoryInv, ListInv, TypeInv
<1>2. pc'[q] = pc[q] /\ look'[q] = look[q] /\ job'[q] = job[q]
  BY <1>1, OthersKept
<1>3. LookNamed(q)' BY <1>2 DEF HistoryInv, LookNamed
<1>4. CASE p \in Writer
  <2>1. ~ Writing(q) BY <1>1, <1>4, SoleWriter
  <2>2. ~ Writing(q)' /\ pc'[q] \notin CleanLabels
    BY <1>2, <2>1 DEF Writing
  <2> QED BY <1>3, <2>2 DEF CleanOK, CallOK, CleanLabels
<1>5. CASE p \notin Writer
  <2>1. UNCHANGED <<registry, specials, v14, settled>>
    BY <1>1, <1>5, OnlyWriters
  <2>2. CleanOK(q)' BY <1>2, <2>1 DEF HistoryInv, CleanOK
  <2>3. CallOK(q) BY DEF HistoryInv
  <2>4. ForeignCall(q) => ForeignCall(q)'
    BY <1>2, <2>1 DEF ForeignCall, Foreign, RegKey
  <2>5. ASSUME NEW x, Registering(q, x) PROVE Registering(q, x)'
    BY <1>2, <2>1, <2>5
       DEF Registering, Described, NoneSettled, Kept, HasSpecial, RegKey
  <2>6. HistoryCall(q) => HistoryCall(q)'
    BY <1>2, <2>5 DEF HistoryCall, RegKey
  <2> QED BY <1>2, <1>3, <2>2, <2>3, <2>4, <2>6 DEF CallOK, Writing
<1> QED BY <1>4, <1>5

(* A key stays in order if the step leaves its codecs alone.               *)
LEMMA KeyFrame ==
  ASSUME TypeOK, NEW p \in Proc, Start(p) \/ Step(p), NEW e \in Hist, KeyOK(e),
         registry'[RegKey(e)] = registry[RegKey(e)],
         specials'[RegKey(e)] = specials[RegKey(e)],
         e.name \in v14' => e.name \in v14,
         Emptied(p) \/ Due(p, RegKey(e)) => Emptied(p)' \/ Due(p, RegKey(e))',
         Question(e.name) \in DOMAIN cache'
           => cache'[Question(e.name)].factory \notin Unnamed
  PROVE  KeyOK(e)'
<1> DEFINE k == RegKey(e)
<1>1. ASSUME NEW q \in Proc, Emptied(q) \/ Due(q, k)
      PROVE  Emptied(q)' \/ Due(q, k)'
  BY <1>1, OthersKept DEF Emptied, Due
<1> QED BY <1>1 DEF KeyOK

-----------------------------------------------------------------------------
(* Lookups *)

(* A step of a lookup of the name of a history type: it reaches the key of *)
(* the type, and misses only if nothing is registered under it.            *)
LEMMA NamedLookup ==
  ASSUME OrderlyHistory, TypeInv, NEW p \in Proc, NEW e \in Hist, KeyOK(e),
         LookNamed(p), look[p].req = Question(e.name),
         ReadCache(p) \/ ReadSpecials(p) \/ ReadRegistry(p) \/ InsertCache(p)
  PROVE  \/ /\ registry[RegKey(e)] = Missing
            /\ pc'[p] \in {"cache", "idle", "describe"}
         \/ /\ look'[p].req = look[p].req
            /\ pc'[p] \in {"special", "plain", "insert"}
            /\ look'[p].attempt = "head"
            /\ pc'[p] = "insert" => look'[p].found.factory \notin Unnamed
         \/ pc'[p] \in {"idle", "describe"} /\ Named(look'[p].answer)
<1> DEFINE l == look[p]
           k == RegKey(e)
<1>1. TypeOK /\ LabelOK(p) /\ l \in LookLocals BY DEF TypeInv, TypeOK
<1>2. /\ l.req.type = e.name /\ l.req.module = NoModule /\ l.req.spec = 0
      /\ l.req = [type |-> e.name, module |-> NoModule, spec |-> 0]
  BY DEF Question
<1>3. /\ Probe(l.req, "head") = k /\ FirstAttempt(l.req) = "head"
      /\ l.req.type \notin Generic \cup Tuple
      /\ \A f : Outcome(l.req, "head", f) = [factory |-> f, sub |-> Missing]
  BY <1>2, HistProbe
<1>4. k \in Key /\ k \in Type BY HistEntry, RegistryAssumption
<1>5. ASSUME NEW m, Deliver(p, m)
      PROVE  look'[p] = m /\ pc'[p] \in {"idle", "describe"}
  BY <1>1, <1>5 DEF Deliver, Goto, TypeOK
<1>6. ASSUME NEW f \in Factory, f \notin Unnamed, Found(p, f), l.attempt = "head"
      PROVE  /\ look'[p].req = l.req /\ look'[p].attempt = "head"
             /\ pc'[p] = "insert" /\ look'[p].found.factory \notin Unnamed
  <2> DEFINE a == [factory |-> f, sub |-> Missing]
  <2>1. Outcome(l.req, l.attempt, f) = a BY <1>3, <1>6
  <2>2. a # Missing
    <3>1. a \in Answer BY DEF Answer
    <3> QED BY <3>1, RegistryAssumption
  <2>3. look' = [look EXCEPT ![p].found = a] /\ Goto(p, "insert")
    BY <1>6, <2>1, <2>2 DEF Found
  <2>4. look'[p] = [l EXCEPT !.found = a] /\ pc'[p] = "insert"
    BY <1>1, <2>3 DEF TypeOK, Goto
  <2> QED BY <1>1, <1>6, <2>4 DEF LookLocals
<1>7. CASE ReadCache(p)
  <2>1. CASE l.req \in DOMAIN cache
    <3>1. cache[l.req].factory \notin Unnamed BY <2>1 DEF KeyOK
    <3>2. cache[l.req] # Missing
      BY <1>1, <2>1, RegistryAssumption DEF TypeOK
    <3>3. Deliver(p, [l EXCEPT !.answer = cache[l.req]])
      BY <1>7, <2>1 DEF ReadCache
    <3>4. look'[p].answer = cache[l.req] /\ pc'[p] \in {"idle", "describe"}
      BY <1>1, <1>5, <3>3 DEF LookLocals
    <3> QED BY <3>1, <3>2, <3>4 DEF Named
  <2>2. CASE l.req \notin DOMAIN cache
    <3>1. look' = [look EXCEPT ![p].attempt = "head"] /\ Goto(p, "special")
      BY <1>3, <1>7, <2>2 DEF ReadCache
    <3>2. look'[p] = [l EXCEPT !.attempt = "head"] /\ pc'[p] = "special"
      BY <1>1, <3>1 DEF TypeOK, Goto
    <3> QED BY <1>1, <3>2 DEF LookLocals
  <2> QED BY <2>1, <2>2
<1>8. CASE ReadSpecials(p)
  <2>1. l.attempt = "head" BY <1>8 DEF ReadSpecials, LookNamed
  <2>2. ~ HasSpecial(k, 0) BY <1>1, NotAtZero
  <2>3. UNCHANGED look /\ Goto(p, "plain")
    BY <1>2, <1>3, <1>8, <2>1, <2>2 DEF ReadSpecials
  <2> QED BY <1>1, <2>1, <2>3 DEF Goto, TypeOK
<1>9. CASE ReadRegistry(p)
  <2>1. l.attempt = "head" BY <1>9 DEF ReadRegistry, LookNamed
  <2>2. Plain(Probe(l.req, l.attempt)) = registry[k] BY <1>3, <2>1, HistPlain
  <2>3. CASE registry[k] # Missing
    <3>1. registry[k] \in Factory /\ registry[k] \notin Unnamed
      BY <1>1, <1>4, <2>3 DEF TypeOK, KeyOK
    <3>2. Found(p, registry[k]) BY <1>9, <2>2, <2>3 DEF ReadRegistry
    <3> QED BY <1>6, <2>1, <3>1, <3>2
  <2>4. CASE registry[k] = Missing
    <3>1. NotFound(p) BY <1>9, <2>2, <2>4 DEF ReadRegistry
    <3>2. \/ Goto(p, "cache")
          \/ Deliver(p, [l EXCEPT !.answer = Missing])
      BY <1>3, <2>1, <3>1 DEF NotFound
    <3>3. pc'[p] \in {"cache", "idle", "describe"}
      BY <1>1, <1>5, <3>2 DEF Goto, TypeOK
    <3> QED BY <2>4, <3>3
  <2> QED BY <2>3, <2>4
<1>10. CASE InsertCache(p)
  <2>1. l.found.factory \notin Unnamed BY <1>10 DEF InsertCache, LookNamed
  <2>2. l.found # Missing BY <1>1, <1>10 DEF InsertCache, LabelOK
  <2>3. Deliver(p, [l EXCEPT !.answer = l.found]) BY <1>10 DEF InsertCache
  <2>4. look'[p].answer = l.found /\ pc'[p] \in {"idle", "describe"}
    BY <1>1, <1>5, <2>3 DEF LookLocals
  <2> QED BY <2>1, <2>2, <2>4 DEF Named
<1> QED BY <1>7, <1>8, <1>9, <1>10

(* A lookup leaves its question alone, or asks a new one at the cache.     *)
LEMMA SameRequest ==
  ASSUME TypeOK, NEW p \in Proc,
         ReadCache(p) \/ ReadSpecials(p) \/ ReadRegistry(p) \/ InsertCache(p)
  PROVE  look'[p].req = look[p].req \/ pc'[p] = "cache"
<1> DEFINE l == look[p]
           Same == look'[p].req = l.req \/ pc'[p] = "cache"
<1>1. l \in LookLocals BY DEF TypeOK
<1>2. ASSUME NEW x, \/ look' = [look EXCEPT ![p].attempt = x]
                    \/ look' = [look EXCEPT ![p].found = x]
                    \/ Deliver(p, [l EXCEPT !.answer = x])
                    \/ UNCHANGED look
      PROVE  Same
  <2>1. \/ look'[p] = [l EXCEPT !.attempt = x]
        \/ look'[p] = [l EXCEPT !.found = x]
        \/ look'[p] = [l EXCEPT !.answer = x]
        \/ look'[p] = l
    BY <1>2 DEF Deliver, TypeOK
  <2> QED BY <1>1, <2>1 DEF LookLocals
<1>3. ASSUME Goto(p, "cache") PROVE Same BY <1>3 DEF Goto, TypeOK
<1> HIDE DEF Same
<1>4. ASSUME NEW f, Found(p, f) PROVE Same BY <1>2, <1>4 DEF Found
<1>5. ASSUME NotFound(p) PROVE Same BY <1>2, <1>3, <1>5 DEF NotFound
<1>6. Same
  BY <1>2, <1>4, <1>5 DEF ReadCache, ReadSpecials, ReadRegistry, InsertCache
<1> QED BY <1>6 DEF Same

(* The registrar's own question about a known name of a history type.      *)
LEMMA OwnQuestion ==
  ASSUME OrderlyHistory, HistoryInv, NEW p \in Proc, Writing(p),
         NEW e \in Hist, e.name \in v14, ~ Emptied(p), ~ Due(p, RegKey(e))
  PROVE  registry[RegKey(e)] # Missing
<1>1. p \in Writer /\ KeyOK(e) BY DEF HistoryInv, ListInv, ListOK, KeysOK
<1>2. ASSUME NEW q \in Proc, q # p PROVE ~ Emptied(q) /\ ~ Due(q, RegKey(e))
  <2>1. ~ Writing(q) BY <1>1, <1>2, SoleWriter DEF HistoryInv
  <2> QED BY <2>1 DEF Writing, Emptied, Due, RegisterLabels, CleanLabels
<1> QED BY <1>1, <1>2 DEF KeyOK

LEMMA LookupAdvances ==
  ASSUME OrderlyHistory, HistoryInv, NEW p \in Proc,
         ReadCache(p) \/ ReadSpecials(p) \/ ReadRegistry(p) \/ InsertCache(p)
  PROVE  Advanced(p)
<1> DEFINE l == look[p]
           j == job[p]
<1>1. /\ TypeInv /\ TypeOK /\ LabelOK(p) /\ FlushOK(p) /\ ListInv
      /\ KeysOK /\ SettledOK /\ LookNamed(p) /\ CallOK(p)
  BY DEF HistoryInv, FlushInv, TypeInv
<1>2. /\ UNCHANGED <<registry, specials, v14, settled, job>>
      /\ pc[p] \in LookupLabels /\ Step(p)
  BY DEF ReadCache, ReadSpecials, ReadRegistry, InsertCache, LookupLabels,
         tables, history, Step
<1>3. \/ pc'[p] \in LookupLabels
      \/ j.agenda = <<>> /\ pc'[p] = "idle"
      \/ j.agenda # <<>> /\ pc'[p] = "describe"
  BY <1>1, LookupLabel
<1>4. KeysOK'
  <2>1. ASSUME NEW e \in Hist PROVE KeyOK(e)'
    <3>1. KeyOK(e) /\ ~ Emptied(p) /\ ~ Due(p, RegKey(e))
      BY <1>1, <1>2 DEF KeysOK, Emptied, Due, LookupLabels
    <3>2. Question(e.name) \in DOMAIN cache'
            => cache'[Question(e.name)].factory \notin Unnamed
      <4>1. CASE UNCHANGED cache BY <3>1, <4>1 DEF KeyOK
      <4>2. CASE InsertCache(p)
        <5>1. pc[p] = "insert"
              /\ cache' = [r \in DOMAIN cache \cup {l.req} |->
                            IF r = l.req THEN l.found ELSE cache[r]]
          BY <4>2 DEF InsertCache
        <5> QED BY <1>1, <3>1, <5>1 DEF KeyOK, LookNamed
      <4> QED BY <4>1, <4>2 DEF ReadCache, ReadSpecials, ReadRegistry
    <3> QED BY <1>1, <1>2, <3>1, <3>2, KeyFrame
  <2> QED BY <2>1 DEF KeysOK
<1>5. SettledOK' BY <1>1, <1>2 DEF SettledOK, Kept, HasSpecial
<1>6. CleanOK(p)' BY <1>3 DEF CleanOK, CleanLabels, LookupLabels
<1>7. LookNamed(p)'
  <2>1. ASSUME NEW e \in Hist, look'[p].req = Question(e.name),
               pc'[p] \in {"special", "plain", "insert"}
        PROVE  /\ look'[p].attempt = "head"
               /\ pc'[p] = "insert" => look'[p].found.factory \notin Unnamed
    <3>1. l.req = Question(e.name) BY <1>1, <2>1, SameRequest
    <3>2. KeyOK(e) BY <1>1 DEF KeysOK
    <3> QED BY <1>1, <2>1, <3>1, <3>2, NamedLookup
  <2> QED BY <2>1 DEF LookNamed
<1>8. CallOK(p)'
  <2>1. CASE j.agenda = <<>>
    BY <1>2, <1>3, <2>1
       DEF CallOK, Writing, RegisterLabels, CleanLabels, LookupLabels
  <2>2. CASE j.agenda # <<>>
    <3>1. Writing(p) /\ pc[p] \notin CleanLabels \cup {"pick"}
      BY <1>2, <2>2 DEF Writing, LookupLabels, CleanLabels
    <3>2. ForeignCall(p) \/ HistoryCall(p) BY <1>1, <3>1 DEF CallOK
    <3>3. ForeignCall(p) => ForeignCall(p)'
      BY <1>2, <3>1 DEF ForeignCall, Foreign, RegKey
    <3>4. ASSUME HistoryCall(p) PROVE HistoryCall(p)'
      <4>1. PICK x \in UNION Bulks :
              /\ RegKey(x) \in HistoryKey
              /\ j.bulk = {x} /\ j.saved = <<>> /\ Registering(p, x)
        BY <3>4 DEF HistoryCall
      <4>2. j.cur = x /\ x.name \in v14 /\ x.spec # 0 /\ Described(p, x.name)
        BY <1>2, <4>1 DEF Registering, LookupLabels
      <4>3. x \in Hist BY <4>1, <4>2, BoundEntry
      <4>4. KeyOK(x) BY <1>1, <4>3 DEF KeysOK
      <4>5. registry[RegKey(x)] # Missing
        BY <1>2, <3>1, <4>2, <4>3, OwnQuestion DEF Emptied, Due, LookupLabels
      <4>6. Described(p, x.name)'
        <5>1. CASE /\ j.desc = <<>> /\ j.agenda = <<Whole(x.name)>>
                   /\ l.req = Question(x.name)
          <6>1. \/ /\ look'[p].req = l.req
                   /\ pc'[p] \in {"special", "plain", "insert"}
                \/ pc'[p] \in {"idle", "describe"} /\ Named(look'[p].answer)
            BY <1>1, <4>3, <4>4, <4>5, <5>1, NamedLookup
          <6> QED BY <1>2, <5>1, <6>1 DEF Described, LookupLabels, Named
        <5>2. CASE /\ Len(j.desc) = 1 /\ Named(j.desc[1])
                   /\ \A i \in DOMAIN j.agenda : ~ j.agenda[i].top
          BY <1>2, <5>2 DEF Described, Named
        <5> QED BY <1>2, <4>2, <5>1, <5>2 DEF Described
      <4>7. pc'[p] \in LookupLabels \cup {"describe", "compare"}
        BY <1>3, <2>2
      <4>8. Registering(p, x)' BY <1>2, <4>2, <4>6, <4>7 DEF Registering
      <4> QED BY <1>2, <4>1, <4>8 DEF HistoryCall, RegKey
    <3> QED BY <3>2, <3>3, <3>4 DEF CallOK
  <2> QED BY <2>1, <2>2
<1> QED BY <1>4, <1>5, <1>6, <1>7, <1>8 DEF Advanced

-----------------------------------------------------------------------------
(* Starts *)

(* A step that leaves the tables alone, up to a reset of the cache.        *)
LEMMA TablesAlone ==
  ASSUME HistoryInv, NEW p \in Proc, Start(p) \/ Step(p),
         UNCHANGED <<registry, specials, v14>>,
         cache' = cache \/ DOMAIN cache' = {},
         pc[p] \notin {"dropspecials", "dropv14", "putplain"}
  PROVE  /\ KeysOK'
         /\ UNCHANGED settled => SettledOK'
<1>1. TypeOK /\ KeysOK /\ SettledOK
  BY DEF HistoryInv, FlushInv, TypeInv
<1>2. ASSUME NEW e \in Hist PROVE KeyOK(e)'
  <2>1. KeyOK(e) /\ ~ Emptied(p) /\ ~ Due(p, RegKey(e))
    BY <1>1 DEF KeysOK, Emptied, Due
  <2>2. Question(e.name) \in DOMAIN cache'
          => cache'[Question(e.name)].factory \notin Unnamed
    BY <2>1 DEF KeyOK
  <2> QED BY <1>1, <2>1, <2>2, KeyFrame
<1> QED BY <1>1, <1>2 DEF KeysOK, SettledOK, Kept, HasSpecial

(* The locals of a call that begins.                                       *)
LEMMA WorkingLocals ==
  ASSUME NEW b
  PROVE  /\ Working(b).bulk = b /\ Working(b).todo = b
         /\ Working(b).saved = <<>> /\ Working(b).desc = <<>>
         /\ Working(b).agenda = <<>>
BY DEF Working, IdleJob

LEMMA StartAdvances ==
  ASSUME OrderlyHistory, HistoryInv, NEW p \in Proc, Start(p)
  PROVE  Advanced(p)
<1>1. /\ TypeInv /\ TypeOK /\ FlushOK(p) /\ ListInv /\ KeysOK /\ SettledOK
  BY DEF HistoryInv, FlushInv, TypeInv
<1>2. pc[p] = "idle" /\ job[p].agenda = <<>>
  BY <1>1 DEF Start, BeginLookup, BeginRegister, RegisterOriginCaller,
     BeginClean, Begin, FlushOK, Flushing, LookupLabels
<1>3. CASE \E r \in Lookups : BeginLookup(p, r)
  <2>1. UNCHANGED <<registry, specials, v14, settled, cache, job>>
        /\ pc'[p] = "cache"
    BY <1>1, <1>3 DEF BeginLookup, Ask, Goto, tables, TypeOK
  <2>2. KeysOK' /\ SettledOK' BY <1>2, <2>1, TablesAlone
  <2>3. LookNamed(p)' /\ CleanOK(p)' BY <2>1 DEF LookNamed, CleanOK, CleanLabels
  <2>4. CallOK(p)'
    BY <1>2, <2>1 DEF CallOK, Writing, RegisterLabels, CleanLabels
  <2> QED BY <2>2, <2>3, <2>4 DEF Advanced
<1>4. CASE \E b \in Bulks : BeginRegister(p, b)
  <2>1. PICK b \in Bulks : BeginRegister(p, b) BY <1>4
  <2>2. /\ UNCHANGED <<registry, specials, v14, settled, cache>>
        /\ pc'[p] = "pick" /\ job'[p] = Working(b)
    BY <1>1, <2>1 DEF BeginRegister, Goto, Working, tables, history, TypeOK
  <2>3. KeysOK' /\ SettledOK' BY <1>2, <2>2, TablesAlone
  <2>4. LookNamed(p)' /\ CleanOK(p)' BY <2>2 DEF LookNamed, CleanOK, CleanLabels
  <2>5. CASE \A x \in b : Foreign(x)
    <3>1. ForeignCall(p)'
      BY <2>2, <2>5, WorkingLocals DEF ForeignCall, Foreign, RegKey
    <3> QED BY <2>3, <2>4, <3>1 DEF Advanced, CallOK
  <2>6. CASE \E x \in UNION Bulks : RegKey(x) \in HistoryKey /\ b = {x}
    <3>1. PICK x \in UNION Bulks : RegKey(x) \in HistoryKey /\ b = {x}
      BY <2>6
    <3>2. Registering(p, x)' BY <2>2, <3>1, WorkingLocals DEF Registering
    <3>3. HistoryCall(p)'
      BY <2>2, <3>1, <3>2, WorkingLocals DEF HistoryCall, RegKey
    <3> QED BY <2>3, <2>4, <3>3 DEF Advanced, CallOK
  <2> QED BY <2>5, <2>6, BulkKinds
<1>5. CASE \E e \in OriginCallers : RegisterOriginCaller(p, e)
  <2>1. PICK e \in OriginCallers : RegisterOriginCaller(p, e) BY <1>5
  <2>2. /\ UNCHANGED <<registry, specials, v14, settled, cache>>
        /\ pc'[p] = "putplain"
        /\ job'[p] = [IdleJob EXCEPT !.cur = e, !.fac = e.body]
    BY <1>1, <2>1 DEF RegisterOriginCaller, Goto, tables, history, TypeOK
  <2>3. KeysOK' /\ SettledOK' BY <1>2, <2>2, TablesAlone
  <2>4. LookNamed(p)' /\ CleanOK(p)' BY <2>2 DEF LookNamed, CleanOK, CleanLabels
  <2>5. ~ e.v14 BY RegistryAssumption
  <2>6. Foreign(e) BY <2>5, BoundEntry DEF Foreign
  <2>7. job'[p].bulk = {} /\ job'[p].saved = <<>> /\ job'[p].cur = e
    BY <2>2 DEF IdleJob
  <2>8. ForeignCall(p)' BY <2>6, <2>7 DEF ForeignCall, Foreign, RegKey
  <2> QED BY <2>3, <2>4, <2>8 DEF Advanced, CallOK
<1>6. CASE BeginClean(p)
  <2>1. /\ UNCHANGED <<specials, v14, cache>> /\ pc'[p] = "dropspecials"
        /\ registry' = [k \in Key |-> Missing] /\ settled' = {}
    BY <1>1, <1>6 DEF BeginClean, Goto, TypeOK
  <2>2. Missing \notin Unnamed BY RegistryAssumption DEF Factory
  <2>3. ASSUME NEW e \in Hist PROVE KeyOK(e)'
    BY <1>1, <2>1, <2>2, <2>3, HistEntry DEF KeysOK, KeyOK, Emptied
  <2>4. LookNamed(p)' /\ CleanOK(p)' /\ CallOK(p)' /\ SettledOK'
    BY <2>1 DEF LookNamed, CleanOK, CallOK, SettledOK, CleanLabels
  <2> QED BY <2>3, <2>4 DEF Advanced, KeysOK
<1> QED BY <1>3, <1>4, <1>5, <1>6 DEF Start

-----------------------------------------------------------------------------
(* Clean *)

LEMMA CleanAdvances ==
  ASSUME OrderlyHistory, HistoryInv, NEW p \in Proc,
         DropSpecials(p) \/ DropV14(p) \/ PublishBase(p) \/ CleanReset(p)
  PROVE  Advanced(p)
<1>1. TypeOK /\ KeysOK /\ CleanOK(p) BY DEF HistoryInv, FlushInv, TypeInv
<1>2. settled = {} /\ settled' = {}
  BY <1>1 DEF DropSpecials, DropV14, PublishBase, CleanReset, history, CleanOK,
              CleanLabels
<1>3. SettledOK' BY <1>2 DEF SettledOK
<1>4. CASE DropSpecials(p)
  <2>1. /\ UNCHANGED <<registry, v14, cache>> /\ pc'[p] = "dropv14"
        /\ specials' = [k \in Key |-> <<>>]
    BY <1>1, <1>4 DEF DropSpecials, Goto, TypeOK
  <2>2. \A e \in Hist : KeyOK(e)'
    BY <1>1, <2>1, HistEntry DEF KeysOK, KeyOK, Emptied
  <2>3. LookNamed(p)' /\ CleanOK(p)' /\ CallOK(p)'
    BY <1>2, <2>1 DEF LookNamed, CleanOK, CallOK, CleanLabels
  <2> QED BY <1>3, <2>2, <2>3 DEF Advanced, KeysOK
<1>5. CASE DropV14(p)
  <2>1. UNCHANGED <<registry, specials, cache>> /\ pc'[p] = "publish" /\ v14' = {}
    BY <1>1, <1>5 DEF DropV14, Goto, TypeOK
  <2>2. \A e \in Hist : KeyOK(e)' BY <1>1, <2>1 DEF KeysOK, KeyOK
  <2>3. LookNamed(p)' /\ CleanOK(p)' /\ CallOK(p)'
    BY <1>2, <2>1 DEF LookNamed, CleanOK, CallOK, CleanLabels
  <2> QED BY <1>3, <2>2, <2>3 DEF Advanced, KeysOK
<1>6. CASE PublishBase(p)
  <2>1. /\ UNCHANGED <<specials, v14, cache>> /\ pc'[p] = "cleanreset"
        /\ registry' = BaseRegistry /\ v14 = {}
    BY <1>1, <1>6 DEF PublishBase, Goto, TypeOK, CleanOK
  <2>2. \A e \in Hist : KeyOK(e)'
    BY <1>1, <2>1 DEF KeysOK, KeyOK, OrderlyHistory
  <2>3. LookNamed(p)' /\ CleanOK(p)' /\ CallOK(p)'
    BY <1>2, <2>1 DEF LookNamed, CleanOK, CallOK, CleanLabels
  <2> QED BY <1>3, <2>2, <2>3 DEF Advanced, KeysOK
<1>7. CASE CleanReset(p)
  <2>1. /\ UNCHANGED <<registry, specials, v14>> /\ pc'[p] = "pick"
        /\ DOMAIN cache' = {} /\ v14 = {}
        /\ job'[p] = Working(BaseTypes)
    BY <1>1, <1>7 DEF CleanReset, ResetCache, Goto, TypeOK, CleanOK, Working,
                      tables
  <2>2. \A e \in Hist : KeyOK(e)' BY <1>1, <2>1 DEF KeysOK, KeyOK
  <2>3. \A x \in BaseTypes : Foreign(x)
    BY RegistryAssumption, BoundEntry DEF Foreign
  <2>4. ForeignCall(p)'
    BY <2>1, <2>3, WorkingLocals DEF ForeignCall, Foreign, RegKey
  <2>5. LookNamed(p)' /\ CleanOK(p)' /\ CallOK(p)'
    BY <2>1, <2>4 DEF LookNamed, CleanOK, CallOK, CleanLabels
  <2> QED BY <1>3, <2>2, <2>5 DEF Advanced, KeysOK
<1> QED BY <1>4, <1>5, <1>6, <1>7

-----------------------------------------------------------------------------
(* RegCustomTypes *)

(* A step within a call that touches its locals only.                      *)
LEMMA LocalAdvances ==
  ASSUME HistoryInv, NEW p \in Proc, Start(p) \/ Step(p),
         UNCHANGED <<registry, specials, v14, settled, cache>>,
         pc[p] \notin {"dropspecials", "dropv14", "putplain"},
         pc'[p] \in RegisterLabels \cup {"cache", "idle"},
         CallOK(p)'
  PROVE  Advanced(p)
<1>1. KeysOK' /\ SettledOK' BY TablesAlone
<1>2. CleanOK(p)' /\ LookNamed(p)'
  BY DEF CleanOK, LookNamed, CleanLabels, RegisterLabels
<1> QED BY <1>1, <1>2 DEF Advanced

(* Leaving a call: a history type it registered resolves as it should.     *)
LEMMA ReturnAdvances ==
  ASSUME OrderlyHistory, HistoryInv, NEW p \in Proc, Step(p), Return(p),
         UNCHANGED <<registry, specials, v14>>,
         cache' = cache \/ DOMAIN cache' = {},
         pc[p] \in {"v14check", "compare", "pick"}, job[p].agenda = <<>>,
         \/ ForeignCall(p)
         \/ \E x \in UNION Bulks :
              /\ RegKey(x) \in HistoryKey
              /\ job[p].bulk = {x} /\ job[p].saved = <<>>
              /\ x.spec # 0 => x.name \in v14 /\ Kept(x)
  PROVE  Advanced(p)
<1> DEFINE j == job[p]
           f == j.saved[1]
           k == [j EXCEPT !.bulk = f.bulk, !.todo = f.todo, !.cur = f.cur,
                          !.flag = f.flag, !.saved = <<>>]
<1>1. TypeOK /\ j \in JobLocals /\ SettledOK
  BY DEF HistoryInv, FlushInv, TypeInv, TypeOK
<1>2. KeysOK' /\ (UNCHANGED settled => SettledOK') BY TablesAlone
<1>3. CASE j.saved = <<>>
  <2>1. /\ settled' = settled \cup {e \in j.bulk : e.v14}
        /\ job'[p] = IdleJob /\ pc'[p] = "idle"
    BY <1>1, <1>3 DEF Return, Goto, TypeOK
  <2>2. ASSUME NEW e \in j.bulk, e.v14, e.kind = "body", e.spec # 0
        PROVE  e \in Hist /\ e.name \in v14 /\ Kept(e)
    <3>1. ~ ForeignCall(p) BY <2>2 DEF ForeignCall, Foreign
    <3>2. PICK x \in UNION Bulks :
              /\ RegKey(x) \in HistoryKey
              /\ job[p].bulk = {x} /\ job[p].saved = <<>>
              /\ x.spec # 0 => x.name \in v14 /\ Kept(x)
      BY <3>1
    <3> QED BY <2>2, <3>2, BoundEntry
  <2>3. SettledOK'
    BY <1>1, <2>1, <2>2 DEF SettledOK, Kept, HasSpecial
  <2>4. CleanOK(p)' /\ LookNamed(p)' /\ CallOK(p)'
    BY <2>1 DEF CleanOK, LookNamed, CallOK, Writing, CleanLabels,
                RegisterLabels, IdleJob
  <2> QED BY <1>2, <2>3, <2>4 DEF Advanced
<1>4. CASE j.saved # <<>>
  <2>1. job'[p] = k /\ pc'[p] = "wrap" /\ UNCHANGED settled
    BY <1>1, <1>4 DEF Return, Goto, TypeOK
  <2>2. k.bulk = f.bulk /\ k.cur = f.cur /\ k.saved = <<>>
    BY <1>1 DEF JobLocals
  <2>3. ForeignCall(p) BY <1>4
  <2> HIDE DEF k
  <2>4. ForeignCall(p)'
    BY <1>4, <2>1, <2>2, <2>3 DEF ForeignCall, Foreign, RegKey
  <2>5. CleanOK(p)' /\ LookNamed(p)' /\ CallOK(p)'
    BY <2>1, <2>4 DEF CleanOK, LookNamed, CallOK, CleanLabels
  <2> QED BY <1>2, <2>1, <2>5 DEF Advanced
<1> QED BY <1>3, <1>4

(* What Register makes of the locals.                                      *)
LEMMA RegisterLocals ==
  ASSUME TypeOK, NEW p \in Proc, NEW x \in Entry, Register(p, x)
  PROVE  /\ job'[p].cur = x /\ job'[p].bulk = job[p].bulk
         /\ job'[p].todo = job[p].todo \ {x} /\ job'[p].saved = job[p].saved
         /\ job'[p].desc = <<>> /\ job'[p].agenda = <<>>
         /\ x.kind = "body" => job'[p].fac = x.body
         /\ x.kind = "body" /\ ~ x.ranged => pc'[p] = "putplain"
         /\ x.kind = "body" /\ x.ranged => pc'[p] = "readlist"
         /\ pc'[p] \in {"alias", "putplain", "readlist"}
<1> DEFINE k == [job[p] EXCEPT !.cur = x, !.todo = job[p].todo \ {x},
                               !.fac = IF x.kind = "body" THEN x.body ELSE Missing,
                               !.agenda = <<>>, !.desc = <<>>]
<1>1. job[p] \in JobLocals BY DEF TypeOK
<1>2. job'[p] = k BY DEF Register, TypeOK
<1>3. /\ k.cur = x /\ k.bulk = job[p].bulk /\ k.todo = job[p].todo \ {x}
      /\ k.saved = job[p].saved /\ k.desc = <<>> /\ k.agenda = <<>>
      /\ x.kind = "body" => k.fac = x.body
  BY <1>1 DEF JobLocals
<1>4. /\ pc'[p] \in {"alias", "putplain", "readlist"}
      /\ x.kind = "body" => pc'[p] = IF x.ranged THEN "readlist" ELSE "putplain"
  BY DEF Register, Goto, PutLabel, TypeOK, Entry
<1> QED BY <1>2, <1>3, <1>4

(* What a step makes of the locals that only turns to another entry.       *)
LEMMA CursorLocals ==
  ASSUME TypeOK, NEW p \in Proc, NEW x, NEW S,
         job' = [job EXCEPT ![p].cur = x, ![p].todo = S]
  PROVE  /\ job'[p].cur = x /\ job'[p].bulk = job[p].bulk
         /\ job'[p].todo = S /\ job'[p].saved = job[p].saved
         /\ job'[p].desc = job[p].desc /\ job'[p].agenda = job[p].agenda
<1> DEFINE k == [job[p] EXCEPT !.cur = x, !.todo = S]
<1>1. job[p] \in JobLocals BY DEF TypeOK
<1>2. job'[p] = k BY DEF TypeOK
<1>3. /\ k.cur = x /\ k.bulk = job[p].bulk /\ k.todo = S
      /\ k.saved = job[p].saved /\ k.desc = job[p].desc
      /\ k.agenda = job[p].agenda
  BY <1>1 DEF JobLocals
<1> HIDE DEF k
<1> QED BY <1>2, <1>3

LEMMA PickAdvances ==
  ASSUME OrderlyHistory, HistoryInv, NEW p \in Proc, NEW e \in job[p].todo,
         Pick(p, e)
  PROVE  Advanced(p)
<1> DEFINE j == job[p]
<1>1. /\ TypeOK /\ j \in JobLocals /\ FlushOK(p) /\ CallOK(p)
  BY DEF HistoryInv, FlushInv, TypeInv, TypeOK
<1>2. /\ UNCHANGED <<registry, specials, v14, settled, cache>> /\ pc[p] = "pick"
      /\ Step(p)
  BY DEF Pick, tables, history, Step
<1>3. e \in j.bulk /\ e \in Entry
  BY <1>1 DEF FlushOK, Flushing, JobLocals
<1>4. ForeignCall(p) \/ HistoryCall(p)
  BY <1>1, <1>2 DEF CallOK, Writing, RegisterLabels, CleanLabels
<1>5. /\ job'[p].cur = e /\ job'[p].bulk = j.bulk /\ job'[p].saved = j.saved
      /\ \/ ~ e.v14 /\ pc'[p] \in {"alias", "putplain", "readlist"}
         \/ e.v14 /\ pc'[p] = "v14check" /\ job'[p].desc = j.desc
  <2>1. CASE ~ e.v14 /\ Register(p, e) BY <1>1, <1>3, <2>1, RegisterLocals
  <2>2. CASE /\ e.v14
             /\ job' = [job EXCEPT ![p].cur = e, ![p].todo = j.todo \ {e}]
             /\ Goto(p, "v14check")
    <3>1. pc'[p] = "v14check" BY <1>1, <2>2 DEF Goto, TypeOK
    <3> QED BY <1>1, <2>2, <3>1, CursorLocals
  <2> QED BY <2>1, <2>2 DEF Pick
<1>6. ForeignCall(p) => ForeignCall(p)'
  BY <1>2, <1>3, <1>5 DEF ForeignCall, Foreign, RegKey
<1>7. ASSUME HistoryCall(p) PROVE HistoryCall(p)'
  <2>1. PICK x \in UNION Bulks :
          /\ RegKey(x) \in HistoryKey
          /\ j.bulk = {x} /\ j.saved = <<>> /\ Registering(p, x)
    BY <1>7 DEF HistoryCall
  <2>2. e = x /\ x.v14 BY <1>3, <2>1, BoundEntry
  <2>3. j.desc = <<>>
    BY <1>2, <2>1 DEF Registering, LookupLabels
  <2>4. Registering(p, x)' BY <1>5, <2>2, <2>3 DEF Registering
  <2> QED BY <1>5, <2>1, <2>4 DEF HistoryCall, RegKey
<1>8. pc'[p] \in RegisterLabels BY <1>5 DEF RegisterLabels
<1> QED BY <1>2, <1>4, <1>6, <1>7, <1>8, LocalAdvances DEF CallOK

(* An update of the agenda of a description.                               *)
LEMMA AgendaLocals ==
  ASSUME TypeOK, NEW p \in Proc, NEW a, NEW d,
         \/ job' = [job EXCEPT ![p].agenda = a] /\ d = job[p].desc
         \/ job' = [job EXCEPT ![p].agenda = a, ![p].desc = d]
  PROVE  /\ job'[p].agenda = a /\ job'[p].desc = d
         /\ job'[p].cur = job[p].cur /\ job'[p].bulk = job[p].bulk
         /\ job'[p].saved = job[p].saved /\ job'[p].todo = job[p].todo
<1> DEFINE j == job[p]
<1>1. j \in JobLocals BY DEF TypeOK
<1>2. CASE job' = [job EXCEPT ![p].agenda = a] /\ d = job[p].desc
  <2>1. job'[p] = [j EXCEPT !.agenda = a] BY <1>2 DEF TypeOK
  <2> QED BY <1>1, <1>2, <2>1 DEF JobLocals
<1>3. CASE job' = [job EXCEPT ![p].agenda = a, ![p].desc = d]
  <2>1. job'[p] = [j EXCEPT !.agenda = a, !.desc = d] BY <1>3 DEF TypeOK
  <2> QED BY <1>1, <2>1 DEF JobLocals
<1> QED BY <1>2, <1>3

(* A call outside of the history types stays outside of them.              *)
LEMMA ForeignSame ==
  ASSUME NEW p \in Proc, ForeignCall(p), job'[p].bulk = job[p].bulk,
         job'[p].saved = job[p].saved, job'[p].cur = job[p].cur,
         pc[p] # "pick" \/ pc'[p] = "pick"
  PROVE  ForeignCall(p)'
BY DEF ForeignCall, Foreign, RegKey

LEMMA CheckAdvances ==
  ASSUME OrderlyHistory, HistoryInv, NEW p \in Proc, CheckV14(p)
  PROVE  Advanced(p)
<1> DEFINE j == job[p]
           e == j.cur
<1>1. /\ TypeOK /\ j \in JobLocals /\ FlushOK(p) /\ CallOK(p)
  BY DEF HistoryInv, FlushInv, TypeInv, TypeOK
<1>2. /\ UNCHANGED <<registry, specials, v14, cache>> /\ pc[p] = "v14check"
      /\ Step(p)
  BY DEF CheckV14, tables, Step
<1>3. j.agenda = <<>> BY <1>1, <1>2 DEF FlushOK, Flushing, LookupLabels
<1>4. ForeignCall(p) \/ HistoryCall(p)
  BY <1>1, <1>2 DEF CallOK, Writing, RegisterLabels, CleanLabels
<1>5. ASSUME HistoryCall(p)
      PROVE  \E x \in UNION Bulks :
               /\ RegKey(x) \in HistoryKey
               /\ j.bulk = {x} /\ j.saved = <<>>
               /\ e = x /\ j.desc = <<>>
  <2>1. PICK x \in UNION Bulks :
          /\ RegKey(x) \in HistoryKey
          /\ j.bulk = {x} /\ j.saved = <<>> /\ Registering(p, x)
    BY <1>5 DEF HistoryCall
  <2> QED BY <1>2, <2>1 DEF Registering, LookupLabels
<1>6. CASE /\ e.name \notin v14
           /\ Goto(p, "v14put")
           /\ UNCHANGED <<job, look, fresh, settled>>
  <2>1. pc'[p] = "v14put" /\ UNCHANGED <<job, settled>>
    BY <1>1, <1>6 DEF Goto, TypeOK
  <2>2. ForeignCall(p) => ForeignCall(p)' BY <1>2, <2>1, ForeignSame
  <2>3. ASSUME HistoryCall(p) PROVE HistoryCall(p)'
    <3>1. PICK x \in UNION Bulks :
               /\ RegKey(x) \in HistoryKey
               /\ j.bulk = {x} /\ j.saved = <<>>
               /\ e = x /\ j.desc = <<>>
      BY <1>5, <2>3
    <3>2. Registering(p, x)' BY <1>2, <1>6, <2>1, <3>1 DEF Registering
    <3> QED BY <2>1, <3>1, <3>2 DEF HistoryCall, RegKey
  <2>4. CallOK(p)' BY <1>4, <2>2, <2>3 DEF CallOK
  <2> QED BY <1>2, <2>1, <2>4, LocalAdvances DEF RegisterLabels
<1>7. CASE e.name \in v14 /\ e.spec = 0 /\ Return(p)
  <2>1. \/ ForeignCall(p)
        \/ \E x \in UNION Bulks :
              /\ RegKey(x) \in HistoryKey
              /\ j.bulk = {x} /\ j.saved = <<>>
              /\ x.spec # 0 => x.name \in v14 /\ Kept(x)
    BY <1>4, <1>5, <1>7
  <2> QED BY <1>2, <1>3, <1>7, <2>1, ReturnAdvances
<1>8. CASE /\ e.name \in v14 /\ e.spec # 0
           /\ job' = [job EXCEPT ![p].agenda = <<Whole(e.name)>>]
           /\ Ask(p, Question(e.name))
           /\ UNCHANGED settled
  <2>1. /\ pc'[p] = "cache" /\ look'[p].req = Question(e.name)
    BY <1>1, <1>8 DEF Ask, Goto, TypeOK, IdleLook
  <2>2. /\ job'[p].agenda = <<Whole(e.name)>>
        /\ job'[p].desc = j.desc
        /\ job'[p].cur = e /\ job'[p].bulk = j.bulk
        /\ job'[p].saved = j.saved
    <3>1. ASSUME NEW a, job' = [job EXCEPT ![p].agenda = a]
          PROVE  /\ job'[p].agenda = a /\ job'[p].desc = j.desc
                 /\ job'[p].cur = e /\ job'[p].bulk = j.bulk
                 /\ job'[p].saved = j.saved
      <4>1. job'[p] = [j EXCEPT !.agenda = a] BY <1>1, <3>1 DEF TypeOK
      <4> QED BY <1>1, <4>1 DEF JobLocals
    <3> QED BY <1>8, <3>1
  <2>3. ForeignCall(p) => ForeignCall(p)' BY <1>2, <2>1, <2>2, ForeignSame
  <2>4. ASSUME HistoryCall(p) PROVE HistoryCall(p)'
    <3>1. PICK x \in UNION Bulks :
               /\ RegKey(x) \in HistoryKey
               /\ j.bulk = {x} /\ j.saved = <<>>
               /\ e = x /\ j.desc = <<>>
      BY <1>5, <2>4
    <3>2. Described(p, x.name)' BY <2>1, <2>2, <3>1 DEF Described, Question
    <3>3. Registering(p, x)'
      BY <1>2, <1>8, <2>1, <2>2, <3>1, <3>2 DEF Registering, LookupLabels
    <3> QED BY <2>2, <3>1, <3>3 DEF HistoryCall, RegKey
  <2>5. CallOK(p)' BY <1>4, <2>3, <2>4 DEF CallOK
  <2> QED BY <1>2, <1>8, <2>1, <2>5, LocalAdvances
<1> QED BY <1>6, <1>7, <1>8 DEF CheckV14

LEMMA PutV14Advances ==
  ASSUME OrderlyHistory, HistoryInv, NEW p \in Proc, PutV14(p)
  PROVE  Advanced(p)
<1> DEFINE j == job[p]
           e == j.cur
<1>1. /\ TypeOK /\ j \in JobLocals /\ e \in Entry
      /\ KeysOK /\ SettledOK /\ CallOK(p)
  BY DEF HistoryInv, FlushInv, TypeInv, TypeOK, JobLocals
<1>2. /\ UNCHANGED <<registry, specials, cache, settled>> /\ pc[p] = "v14put"
      /\ v14' = v14 \cup {e.name} /\ Register(p, e) /\ Step(p)
  BY DEF PutV14, history, Step
<1>3. ForeignCall(p) \/ HistoryCall(p)
  BY <1>1, <1>2 DEF CallOK, Writing, RegisterLabels, CleanLabels
<1>4. /\ job'[p].cur = e /\ job'[p].bulk = j.bulk /\ job'[p].saved = j.saved
      /\ e.kind = "body" => job'[p].fac = e.body
      /\ e.kind = "body" /\ ~ e.ranged => pc'[p] = "putplain"
      /\ pc'[p] \in {"alias", "putplain", "readlist"}
  BY <1>1, <1>2, RegisterLocals
<1>5. SettledOK' BY <1>1, <1>2 DEF SettledOK, Kept, HasSpecial
<1>6. CleanOK(p)' /\ LookNamed(p)' BY <1>4 DEF CleanOK, LookNamed, CleanLabels
<1>7. ~ Emptied(p) /\ \A k : ~ Due(p, k) BY <1>2 DEF Emptied, Due
<1>8. CASE ForeignCall(p)
  <2>1. Foreign(e) BY <1>2, <1>8 DEF ForeignCall
  <2>2. ASSUME NEW h \in Hist PROVE KeyOK(h)'
    <3>1. h.name # e.name BY <2>1, HistEntry DEF Foreign, RegKey
    <3>2. KeyOK(h) BY <1>1 DEF KeysOK
    <3>3. Question(h.name) \in DOMAIN cache'
            => cache'[Question(h.name)].factory \notin Unnamed
      BY <1>2, <3>2 DEF KeyOK
    <3> QED BY <1>1, <1>2, <1>7, <3>1, <3>2, <3>3, KeyFrame
  <2>3. ForeignCall(p)' BY <1>2, <1>4, <1>8, ForeignSame
  <2> QED BY <1>5, <1>6, <2>2, <2>3 DEF Advanced, KeysOK, CallOK
<1>9. CASE HistoryCall(p)
  <2>1. PICK x \in UNION Bulks :
          /\ RegKey(x) \in HistoryKey
          /\ j.bulk = {x} /\ j.saved = <<>> /\ Registering(p, x)
    BY <1>9 DEF HistoryCall
  <2>2. e = x /\ x.name \notin v14
    BY <1>2, <2>1 DEF Registering, LookupLabels
  <2>3. x.kind = "body" /\ ~ x.ranged BY <2>1, BoundEntry
  <2>4. pc'[p] = "putplain" /\ job'[p].fac = x.body /\ job'[p].cur = x
    BY <1>4, <2>2, <2>3
  <2>5. ASSUME NEW h \in Hist PROVE KeyOK(h)'
    <3>1. KeyOK(h) BY <1>1 DEF KeysOK
    <3>2. CASE h.name = x.name
      <4>1. Due(p, RegKey(h))' BY <2>4, <3>2 DEF Due, RegKey
      <4> QED BY <1>2, <3>1, <4>1 DEF KeyOK
    <3>3. CASE h.name # x.name
      <4>1. Question(h.name) \in DOMAIN cache'
              => cache'[Question(h.name)].factory \notin Unnamed
        BY <1>2, <3>1 DEF KeyOK
      <4> QED BY <1>1, <1>2, <1>7, <2>2, <3>1, <3>3, <4>1, KeyFrame
    <3> QED BY <3>2, <3>3
  <2>6. NoneSettled(RegKey(x))
    <3>1. ASSUME NEW h \in settled, h.kind = "body", h.spec # 0,
                 RegKey(h) = RegKey(x)
          PROVE  FALSE
      <4>1. h \in Hist /\ h.name \in v14 BY <1>1, <3>1 DEF SettledOK
      <4>2. x.name = h.name BY <2>1, <3>1, <4>1, BoundEntry
      <4> QED BY <2>2, <4>1, <4>2
    <3> QED BY <3>1 DEF NoneSettled
  <2>7. Registering(p, x)'
    BY <1>2, <2>2, <2>4, <2>6 DEF Registering, NoneSettled, RegKey
  <2>8. HistoryCall(p)' BY <1>4, <2>1, <2>7 DEF HistoryCall, RegKey
  <2> QED BY <1>5, <1>6, <2>5, <2>8 DEF Advanced, KeysOK, CallOK
<1> QED BY <1>3, <1>8, <1>9

(* The parts of a type are described after its name.                       *)
LEMMA DescribeParts ==
  ASSUME TypeOK, NEW p \in Proc, LabelOK(p), Describe(p),
         Tail(job[p].agenda) \in Seq(PartItem)
  PROVE  /\ job'[p].agenda \in Seq(PartItem)
         /\ job'[p].desc = IF Head(job[p].agenda).top
                           THEN Append(job[p].desc, look[p].answer)
                           ELSE job[p].desc
         /\ job'[p].cur = job[p].cur /\ job'[p].bulk = job[p].bulk
         /\ job'[p].saved = job[p].saved /\ job'[p].todo = job[p].todo
         /\ pc'[p] \in {"cache", "compare"}
<1> DEFINE j == job[p]
           a == look[p].answer
           item == Head(j.agenda)
           rest == SubTypes(a, item.depth) \o Tail(j.agenda)
           desc == IF item.top THEN Append(j.desc, a) ELSE j.desc
<1>1. a \in Answer \cup {Missing} BY DEF TypeOK, LookLocals
<1>2. /\ j.agenda \in Seq(AgendaItem) /\ j.agenda # <<>>
  BY DEF TypeOK, JobLocals, LabelOK, Describe
<1>3. SubTypes(a, item.depth) \in Seq(PartItem)
  <2>1. item \in AgendaItem BY <1>2, HeadTailProperties
  <2> QED BY <1>1, <2>1, SubTypesType DEF AgendaItem
<1>4. rest \in Seq(PartItem) BY <1>3, ConcatProperties
<1>5. /\ job' = [job EXCEPT ![p].agenda = rest, ![p].desc = desc]
      /\ Ask(p, Question(rest[1].type)) \/ Goto(p, "compare")
  BY DEF Describe
<1>6. pc'[p] \in {"cache", "compare"} BY <1>5 DEF Ask, Goto, TypeOK
<1> HIDE DEF rest, desc
<1>7. /\ job'[p].agenda = rest /\ job'[p].desc = desc
      /\ job'[p].cur = j.cur /\ job'[p].bulk = j.bulk
      /\ job'[p].saved = j.saved /\ job'[p].todo = j.todo
  BY <1>5, AgendaLocals
<1> QED BY <1>4, <1>6, <1>7 DEF desc

LEMMA DescribeAdvances ==
  ASSUME OrderlyHistory, HistoryInv, NEW p \in Proc, Describe(p)
  PROVE  Advanced(p)
<1> DEFINE j == job[p]
<1>1. /\ TypeOK /\ LabelOK(p) /\ j \in JobLocals /\ CallOK(p)
  BY DEF HistoryInv, FlushInv, TypeInv, TypeOK
<1>2. /\ UNCHANGED <<registry, specials, v14, cache, settled>>
      /\ pc[p] = "describe" /\ Step(p)
  BY DEF Describe, tables, Step
<1>3. /\ j.agenda \in Seq(AgendaItem) /\ j.agenda # <<>>
      /\ j.desc \in Seq(Answer \cup {Missing})
      /\ look[p].answer \in Answer \cup {Missing}
  BY <1>1, <1>2 DEF JobLocals, LabelOK, TypeOK, LookLocals
<1>4. ForeignCall(p) \/ HistoryCall(p)
  BY <1>1, <1>2 DEF CallOK, Writing, RegisterLabels, CleanLabels
<1>5. /\ pc'[p] \in {"cache", "compare"}
      /\ job'[p].cur = j.cur /\ job'[p].bulk = j.bulk
      /\ job'[p].saved = j.saved
  <2>1. PICK rest \in Seq(AgendaItem), desc \in Seq(Answer \cup {Missing}) :
          /\ job' = [job EXCEPT ![p].agenda = rest, ![p].desc = desc]
          /\ Ask(p, Question(rest[1].type)) \/ Goto(p, "compare")
    BY <1>1, DescribeAgenda
  <2>2. pc'[p] \in {"cache", "compare"} BY <1>1, <2>1 DEF Ask, Goto, TypeOK
  <2> QED BY <1>1, <2>1, <2>2, AgendaLocals
<1>6. ForeignCall(p) => ForeignCall(p)' BY <1>2, <1>5, ForeignSame
<1>7. ASSUME HistoryCall(p) PROVE HistoryCall(p)'
  <2>1. PICK x \in UNION Bulks :
          /\ RegKey(x) \in HistoryKey
          /\ j.bulk = {x} /\ j.saved = <<>> /\ Registering(p, x)
    BY <1>7 DEF HistoryCall
  <2>2. /\ j.cur = x /\ x.name \in v14 /\ x.spec # 0
        /\ Described(p, x.name)
    BY <1>2, <2>1 DEF Registering, LookupLabels
  <2>3. Described(p, x.name)'
    <3>1. CASE /\ j.desc = <<>>
               /\ j.agenda = <<Whole(x.name)>>
               /\ Named(look[p].answer)
      <4>1. Len(j.agenda) = 1 /\ Head(j.agenda).top BY <3>1 DEF Whole
      <4>2. Tail(j.agenda) \in Seq(PartItem)
        <5>1. Tail(j.agenda) \in Seq(AgendaItem) /\ Len(Tail(j.agenda)) = 0
          BY <1>3, <4>1, HeadTailProperties
        <5>2. DOMAIN Tail(j.agenda) = 1..Len(Tail(j.agenda))
          BY <5>1, LenProperties
        <5>3. \A i \in DOMAIN Tail(j.agenda) : ~ Tail(j.agenda)[i].top
          BY <5>1, <5>2
        <5> QED BY <5>1, <5>3, PartsOnly
      <4>3. /\ job'[p].agenda \in Seq(PartItem)
            /\ job'[p].desc = Append(j.desc, look[p].answer)
        BY <1>1, <4>1, <4>2, DescribeParts
      <4>4. Len(job'[p].desc) = 1 /\ job'[p].desc[1] = look[p].answer
        BY <3>1, <4>3
      <4>5. job'[p].agenda \in Seq(AgendaItem)
        BY <4>3 DEF PartItem
      <4>6. \A i \in DOMAIN job'[p].agenda : ~ job'[p].agenda[i].top
        BY <4>3, <4>5, PartsOnly
      <4> QED BY <3>1, <4>4, <4>6 DEF Described, Named
    <3>2. CASE /\ Len(j.desc) = 1 /\ Named(j.desc[1])
               /\ \A i \in DOMAIN j.agenda : ~ j.agenda[i].top
      <4>1. j.agenda \in Seq(PartItem) BY <1>3, <3>2, PartsOnly
      <4>2. Tail(j.agenda) \in Seq(PartItem) /\ Head(j.agenda) \in PartItem
        BY <1>3, <4>1, HeadTailProperties
      <4>3. job'[p].agenda \in Seq(PartItem) /\ job'[p].desc = j.desc
        BY <1>1, <4>2, DescribeParts DEF PartItem
      <4>4. job'[p].agenda \in Seq(AgendaItem)
        BY <4>3 DEF PartItem
      <4>5. \A i \in DOMAIN job'[p].agenda : ~ job'[p].agenda[i].top
        BY <4>3, <4>4, PartsOnly
      <4> QED BY <3>2, <4>3, <4>5 DEF Described, Named
    <3> QED BY <1>2, <2>2, <3>1, <3>2 DEF Described
  <2>4. Registering(p, x)'
    BY <1>2, <1>5, <2>2, <2>3 DEF Registering, LookupLabels
  <2> QED BY <1>5, <2>1, <2>4 DEF HistoryCall, RegKey
<1>8. CallOK(p)' BY <1>4, <1>6, <1>7 DEF CallOK
<1> QED BY <1>2, <1>5, <1>8, LocalAdvances DEF RegisterLabels

LEMMA CompareAdvances ==
  ASSUME OrderlyHistory, HistoryInv, NEW p \in Proc, Compare(p)
  PROVE  Advanced(p)
<1> DEFINE j == job[p]
           e == j.cur
           askTarget == <<Whole(e.to)>>
<1>1. /\ TypeOK /\ j \in JobLocals /\ FlushOK(p) /\ CallOK(p) /\ e \in Entry
  BY DEF HistoryInv, FlushInv, TypeInv, TypeOK, JobLocals
<1>2. /\ UNCHANGED <<registry, specials, v14, cache>> /\ pc[p] = "compare"
      /\ Step(p)
  BY DEF Compare, tables, Step
<1>3. j.agenda = <<>> BY <1>1, <1>2 DEF FlushOK, Flushing, LookupLabels
<1>4. ForeignCall(p) \/ HistoryCall(p)
  BY <1>1, <1>2 DEF CallOK, Writing, RegisterLabels, CleanLabels
<1>5. OfSpec(e) \in Entry /\ RegKey(OfSpec(e)) = RegKey(e)
      /\ OfSpec(e).kind = e.kind /\ OfSpec(e).v14 = e.v14
      /\ OfSpec(e).spec = e.spec /\ OfSpec(e).body = e.body
      /\ OfSpec(e).ranged
  <2>1. e.spec \in Int BY <1>1, RegistryAssumption DEF Entry
  <2> QED BY <1>1, <2>1 DEF OfSpec, Entry, RegKey
<1>6. CASE ForeignCall(p)
  <2>1. Foreign(e) BY <1>2, <1>6 DEF ForeignCall
  <2>2. CASE Return(p) BY <1>2, <1>3, <1>6, <2>2, ReturnAdvances
  <2>3. CASE Register(p, OfSpec(e)) /\ UNCHANGED settled
    <3>1. /\ job'[p].cur = OfSpec(e) /\ job'[p].bulk = j.bulk
          /\ job'[p].saved = j.saved /\ pc'[p] \in {"alias", "putplain", "readlist"}
      BY <1>1, <1>5, <2>3, RegisterLocals
    <3>2. Foreign(OfSpec(e)) BY <1>5, <2>1 DEF Foreign
    <3>3. ForeignCall(p)' BY <1>6, <3>1, <3>2 DEF ForeignCall, Foreign, RegKey
    <3> QED BY <1>2, <2>3, <3>1, <3>3, LocalAdvances DEF CallOK, RegisterLabels
  <2>4. CASE /\ job' = [job EXCEPT ![p].agenda = askTarget]
             /\ Ask(p, Question(e.to)) /\ UNCHANGED settled
    <3>1. pc'[p] = "cache" BY <1>1, <2>4 DEF Ask, Goto, TypeOK
    <3>2. job'[p] = [j EXCEPT !.agenda = askTarget] BY <1>1, <2>4 DEF TypeOK
    <3>3. job'[p].cur = e /\ job'[p].bulk = j.bulk /\ job'[p].saved = j.saved
      BY <1>1, <3>2 DEF JobLocals
    <3>4. ForeignCall(p)' BY <1>2, <1>6, <3>1, <3>3, ForeignSame
    <3> QED BY <1>2, <2>4, <3>1, <3>4, LocalAdvances DEF CallOK
  <2> QED BY <2>2, <2>3, <2>4 DEF Compare, OfSpec
<1>7. CASE HistoryCall(p)
  <2>1. PICK x \in UNION Bulks :
          /\ RegKey(x) \in HistoryKey
          /\ j.bulk = {x} /\ j.saved = <<>> /\ Registering(p, x)
    BY <1>7 DEF HistoryCall
  <2>2. /\ e = x /\ x.name \in v14 /\ x.spec # 0
        /\ Len(j.desc) = 1 /\ Named(j.desc[1])
    BY <1>2, <2>1 DEF Registering, LookupLabels, Described
  <2>3. x.kind = "body" BY <2>1, BoundEntry
  <2>4. Register(p, OfSpec(x)) /\ UNCHANGED settled
    BY <2>2, <2>3 DEF Compare, Nameless, Named, OfSpec
  <2>5. /\ job'[p].cur = OfSpec(x) /\ job'[p].bulk = j.bulk
        /\ job'[p].saved = j.saved /\ job'[p].fac = x.body
        /\ pc'[p] = "readlist"
    BY <1>1, <1>5, <2>2, <2>3, <2>4, RegisterLocals
  <2>6. Registering(p, x)' BY <1>2, <2>2, <2>5 DEF Registering, OfSpec
  <2>7. HistoryCall(p)' BY <2>1, <2>5, <2>6 DEF HistoryCall, RegKey
  <2> QED BY <1>2, <2>4, <2>5, <2>7, LocalAdvances DEF CallOK, RegisterLabels
<1> QED BY <1>4, <1>6, <1>7

(* History types are no aliases: these steps belong to other calls.        *)
LEMMA AliasAdvances ==
  ASSUME OrderlyHistory, HistoryInv, NEW p \in Proc,
         ResolveAlias(p) \/ ResolveExplained(p) \/ Wrap(p)
  PROVE  Advanced(p)
<1> DEFINE j == job[p]
           e == j.cur
<1>1. /\ TypeOK /\ j \in JobLocals /\ FlushOK(p) /\ CallOK(p) /\ e \in Entry
  BY DEF HistoryInv, FlushInv, TypeInv, TypeOK, JobLocals
<1>2. /\ UNCHANGED <<registry, specials, v14, cache, settled>>
      /\ pc[p] \in {"alias", "alias2", "wrap"} /\ Step(p)
  BY DEF ResolveAlias, ResolveExplained, Wrap, tables, history, Step
<1>3. ForeignCall(p)
  <2>1. ForeignCall(p) \/ HistoryCall(p)
    BY <1>1, <1>2 DEF CallOK, Writing, RegisterLabels, CleanLabels
  <2>2. ~ HistoryCall(p)
    BY <1>2 DEF HistoryCall, Registering, LookupLabels
  <2> QED BY <2>1, <2>2
<1>4. Foreign(e) BY <1>2, <1>3 DEF ForeignCall
<1>5. ASSUME NEW label \in {"alias2", "wrap", "pick"}, Goto(p, label),
             UNCHANGED job
      PROVE  Advanced(p)
  <2>1. pc'[p] = label BY <1>1, <1>5 DEF Goto, TypeOK
  <2>2. ForeignCall(p)' BY <1>2, <1>3, <1>5, ForeignSame
  <2> QED BY <1>2, <2>1, <2>2, LocalAdvances DEF CallOK, RegisterLabels
<1>6. ASSUME NEW f, PutAlias(p, f) PROVE Advanced(p)
  <2>1. pc'[p] \in {"putplain", "readlist"}
    BY <1>1, <1>6 DEF PutAlias, PutLabel, Goto, TypeOK
  <2>2. job'[p] = [j EXCEPT !.fac = f] BY <1>1, <1>6 DEF PutAlias, TypeOK
  <2>3. job'[p].bulk = j.bulk /\ job'[p].cur = e /\ job'[p].saved = j.saved
    BY <1>1, <2>2 DEF JobLocals
  <2>4. ForeignCall(p)' BY <1>2, <1>3, <2>3, ForeignSame
  <2> QED BY <1>2, <2>1, <2>4, LocalAdvances DEF CallOK, RegisterLabels
<1>7. CASE ResolveAlias(p)
  <2> DEFINE x == Explanation(j, e)
             nested == [x EXCEPT !.name = RegKey(e), !.ranged = e.ranged,
                                 !.lo = e.lo, !.hi = e.hi]
             saved == <<[bulk |-> j.bulk, todo |-> j.todo, cur |-> e,
                         flag |-> j.flag]>>
             k == [IdleJob EXCEPT !.bulk = {nested}, !.todo = {nested},
                                  !.saved = saved]
  <2>1. CASE /\ Explained(j, e) /\ x.kind = "body"
             /\ job' = [job EXCEPT ![p] = k]
             /\ Goto(p, "pick")
    <3>1. x \in j.bulk BY <2>1 DEF Explained, Explanation
    <3>2. x \in Entry /\ Foreign(x) BY <1>1, <1>3, <3>1 DEF JobLocals, ForeignCall
    <3>3. job'[p] = k /\ pc'[p] = "pick" BY <1>1, <2>1 DEF Goto, TypeOK
    <3>4. /\ nested.kind = x.kind /\ nested.v14 = x.v14 /\ nested.spec = x.spec
          /\ nested.name = RegKey(e)
      BY <3>2 DEF Entry
    <3>5. RegKey(nested) = RegKey(e)
      BY <1>1, <3>4, RegistryAssumption DEF RegKey, Entry
    <3>6. k.bulk = {nested} /\ k.saved = saved BY DEF IdleJob
    <3>7. saved[1].cur = e /\ saved[1].bulk = j.bulk OBVIOUS
    <3> HIDE DEF nested, saved, x, k
    <3>8. Foreign(nested) BY <1>4, <3>2, <3>4, <3>5 DEF Foreign
    <3>9. \A y \in j.bulk : Foreign(y) BY <1>3 DEF ForeignCall
    <3>10. ForeignCall(p)'
      BY <1>4, <3>3, <3>6, <3>7, <3>8, <3>9 DEF ForeignCall, Foreign, RegKey
    <3> QED BY <1>2, <3>3, <3>10, LocalAdvances DEF CallOK, RegisterLabels
  <2> QED BY <1>5, <1>6, <1>7, <2>1 DEF ResolveAlias
<1>8. CASE ResolveExplained(p)
  BY <1>5, <1>6, <1>8 DEF ResolveExplained
<1>9. CASE Wrap(p)
  BY <1>5, <1>6, <1>9 DEF Wrap
<1> QED BY <1>7, <1>8, <1>9

LEMMA FinishAdvances ==
  ASSUME OrderlyHistory, HistoryInv, NEW p \in Proc, Finish(p)
  PROVE  Advanced(p)
<1>1. TypeOK /\ FlushOK(p) /\ CallOK(p)
  BY DEF HistoryInv, FlushInv, TypeInv
<1>2. /\ UNCHANGED <<registry, specials, v14>> /\ pc[p] = "pick" /\ Step(p)
      /\ cache' = cache \/ DOMAIN cache' = {}
      /\ Return(p) /\ job[p].todo = {}
  BY DEF Finish, ResetCache, tables, Step
<1>3. job[p].agenda = <<>> BY <1>1, <1>2 DEF FlushOK, Flushing, LookupLabels
<1>4. ForeignCall(p) \/ HistoryCall(p)
  BY <1>1, <1>2 DEF CallOK, Writing, RegisterLabels, CleanLabels
<1>5. HistoryCall(p) => \E x \in UNION Bulks :
              /\ RegKey(x) \in HistoryKey
              /\ job[p].bulk = {x} /\ job[p].saved = <<>>
              /\ x.spec # 0 => x.name \in v14 /\ Kept(x)
  BY <1>2 DEF HistoryCall, Registering, LookupLabels
<1> QED BY <1>2, <1>3, <1>4, <1>5, ReturnAdvances

(* An update of a local of the registration.                               *)
LEMMA PutLocals ==
  ASSUME TypeOK, NEW p \in Proc, NEW x,
         \/ job' = [job EXCEPT ![p].flag = x]
         \/ job' = [job EXCEPT ![p].list = x]
  PROVE  /\ job'[p].cur = job[p].cur /\ job'[p].bulk = job[p].bulk
         /\ job'[p].saved = job[p].saved /\ job'[p].todo = job[p].todo
         /\ job'[p].fac = job[p].fac
<1>1. job[p] \in JobLocals BY DEF TypeOK
<1>2. \/ job'[p] = [job[p] EXCEPT !.flag = x]
      \/ job'[p] = [job[p] EXCEPT !.list = x]
  BY DEF TypeOK
<1> QED BY <1>1, <1>2 DEF JobLocals

(* The registrar of a history type has nothing else to do.                 *)
LEMMA NothingLeft ==
  ASSUME OrderlyHistory, HistoryInv, NEW p \in Proc, NEW x \in UNION Bulks,
         RegKey(x) \in HistoryKey, job[p].bulk = {x}, pc[p] # "pick"
  PROVE  job[p].todo = {}
<1>1. FlushOK(p) BY DEF HistoryInv, FlushInv
<1>2. x.v14 BY BoundEntry
<1> QED BY <1>1, <1>2 DEF FlushOK, Flushing, AloneV14

LEMMA PutPlainAdvances ==
  ASSUME OrderlyHistory, HistoryInv, NEW p \in Proc, PutPlain(p)
  PROVE  Advanced(p)
<1> DEFINE j == job[p]
           e == j.cur
<1>1. /\ TypeOK /\ j \in JobLocals /\ FlushOK(p) /\ CallOK(p) /\ ListInv
      /\ KeysOK /\ SettledOK /\ e \in Entry
  BY DEF HistoryInv, FlushInv, TypeInv, TypeOK, JobLocals
<1>2. pc[p] = "putplain" /\ Writing(p) /\ Step(p)
  BY DEF PutPlain, Writing, RegisterLabels, Step
<1>3. built
  <2>1. p \in Writer BY <1>1, <1>2 DEF ListInv, ListOK
  <2>2. ASSUME NEW q \in Proc, Cleaning(q) PROVE FALSE
    <3>1. q # p BY <1>2, <2>2 DEF Cleaning
    <3>2. ~ Writing(q) BY <1>1, <2>1, <3>1, SoleWriter
    <3> QED BY <2>2, <3>2 DEF Cleaning, Writing, CleanLabels
  <2> QED BY <2>2 DEF HistoryInv, BaseNeverLost, Cleaning
<1>4. /\ registry' = [registry EXCEPT ![RegKey(e)] = j.fac]
      /\ settled' = StillSettled(e) /\ UNCHANGED <<specials, v14, cache>>
      /\ job' = [job EXCEPT ![p].flag = TRUE]
      /\ pc'[p] = "pick"
  BY <1>1, <1>3 DEF PutPlain, Goto, TypeOK
<1>5. /\ job'[p].bulk = j.bulk /\ job'[p].saved = j.saved
      /\ job'[p].todo = j.todo /\ job'[p].cur = e
  BY <1>1, <1>4, PutLocals
<1>6. CleanOK(p)' /\ LookNamed(p)' BY <1>4 DEF CleanOK, LookNamed, CleanLabels
<1>7. ForeignCall(p) \/ HistoryCall(p)
  BY <1>1, <1>2 DEF CallOK, Writing, RegisterLabels, CleanLabels
<1>8. RegKey(e) \in Key BY <1>1, RegistryAssumption DEF RegKey, Entry
<1>9. ASSUME NEW h \in Hist, RegKey(h) # RegKey(e) PROVE KeyOK(h)'
  <2>1. KeyOK(h) BY <1>1 DEF KeysOK
  <2>2. registry'[RegKey(h)] = registry[RegKey(h)]
    BY <1>1, <1>4, <1>9, HistEntry DEF TypeOK
  <2>3. ~ Emptied(p) /\ ~ Due(p, RegKey(h)) BY <1>2, <1>9 DEF Emptied, Due
  <2>4. Question(h.name) \in DOMAIN cache'
          => cache'[Question(h.name)].factory \notin Unnamed
    BY <1>4, <2>1 DEF KeyOK
  <2> QED BY <1>1, <1>2, <1>4, <2>1, <2>2, <2>3, <2>4, KeyFrame
<1>10. CASE ForeignCall(p)
  <2>1. Foreign(e) BY <1>2, <1>10 DEF ForeignCall
  <2>2. \A h \in Hist : RegKey(h) # RegKey(e)
    BY <2>1, HistEntry DEF Foreign
  <2>3. KeysOK' BY <1>9, <2>2 DEF KeysOK
  <2>4. settled' \subseteq settled BY <1>4 DEF StillSettled
  <2>5. SettledOK'
    BY <1>1, <1>4, <2>2, <2>4, HistEntry
       DEF SettledOK, Kept, HasSpecial, TypeOK, RegKey
  <2>6. ForeignCall(p)' BY <1>4, <1>5, <1>10, ForeignSame
  <2> QED BY <1>6, <2>3, <2>5, <2>6 DEF Advanced, CallOK
<1>11. CASE HistoryCall(p)
  <2>1. PICK x \in UNION Bulks :
          /\ RegKey(x) \in HistoryKey
          /\ j.bulk = {x} /\ j.saved = <<>> /\ Registering(p, x)
    BY <1>11 DEF HistoryCall
  <2>2. e = x /\ j.fac = x.body /\ x.name \in v14 /\ NoneSettled(RegKey(x))
    BY <1>2, <2>1 DEF Registering, LookupLabels
  <2>3. x.v14 /\ x.body \notin Unnamed BY <2>1, BoundEntry
  <2>4. x.body # Missing
    BY <1>1, <2>2, RegistryAssumption DEF Entry, Factory
  <2>5. registry'[RegKey(x)] = x.body /\ settled' = settled
    BY <1>1, <1>4, <1>8, <2>2, <2>3 DEF TypeOK, StillSettled
  <2>6. ASSUME NEW h \in Hist PROVE KeyOK(h)'
    <3>1. CASE RegKey(h) = RegKey(x)
      <4>1. KeyOK(h) BY <1>1 DEF KeysOK
      <4> QED BY <1>4, <2>3, <2>4, <2>5, <3>1, <4>1 DEF KeyOK
    <3> QED BY <1>9, <2>2, <3>1
  <2>7. SettledOK'
    <3>1. ASSUME NEW h \in settled, h.kind = "body", h.spec # 0
          PROVE  h \in Hist /\ h.name \in v14 /\ Kept(h)'
      <4>1. h \in Hist /\ h.name \in v14 /\ Kept(h) BY <1>1, <3>1 DEF SettledOK
      <4>2. RegKey(h) # RegKey(x) BY <2>2, <3>1 DEF NoneSettled
      <4>3. registry'[RegKey(h)] = registry[RegKey(h)]
        BY <1>1, <1>4, <2>2, <4>1, <4>2, HistEntry DEF TypeOK
      <4> QED BY <1>4, <4>1, <4>3 DEF Kept, HasSpecial, RegKey
    <3> QED BY <1>4, <2>5, <3>1 DEF SettledOK
  <2>8. Kept(x)' BY <2>5 DEF Kept, RegKey
  <2>9. j.todo = {} BY <1>2, <2>1, NothingLeft
  <2>10. Registering(p, x)' BY <1>4, <1>5, <2>2, <2>8, <2>9 DEF Registering
  <2>11. HistoryCall(p)' BY <1>5, <2>1, <2>10 DEF HistoryCall, RegKey
  <2> QED BY <1>6, <2>6, <2>7, <2>11 DEF Advanced, KeysOK, CallOK
<1> QED BY <1>7, <1>10, <1>11

LEMMA ReadListAdvances ==
  ASSUME OrderlyHistory, HistoryInv, NEW p \in Proc, ReadList(p)
  PROVE  Advanced(p)
<1> DEFINE j == job[p]
           e == j.cur
<1>1. TypeOK /\ CallOK(p) BY DEF HistoryInv, FlushInv, TypeInv
<1>2. /\ UNCHANGED <<registry, specials, v14, cache, settled>>
      /\ pc[p] = "readlist" /\ Step(p) /\ pc'[p] = "putlist"
      /\ job' = [job EXCEPT ![p].list = specials[RegKey(e)]]
  BY <1>1 DEF ReadList, tables, history, Step, Goto, TypeOK
<1>3. /\ job'[p].bulk = j.bulk /\ job'[p].saved = j.saved
      /\ job'[p].cur = e /\ job'[p].fac = j.fac
  BY <1>1, <1>2, PutLocals
<1>4. ForeignCall(p) \/ HistoryCall(p)
  BY <1>1, <1>2 DEF CallOK, Writing, RegisterLabels, CleanLabels
<1>5. ForeignCall(p) => ForeignCall(p)' BY <1>2, <1>3, ForeignSame
<1>6. ASSUME HistoryCall(p) PROVE HistoryCall(p)'
  <2>1. PICK x \in UNION Bulks :
          /\ RegKey(x) \in HistoryKey
          /\ j.bulk = {x} /\ j.saved = <<>> /\ Registering(p, x)
    BY <1>6 DEF HistoryCall
  <2>2. Registering(p, x)'
    BY <1>2, <1>3, <2>1 DEF Registering, LookupLabels, OfSpec
  <2> QED BY <1>3, <2>1, <2>2 DEF HistoryCall, RegKey
<1> QED BY <1>2, <1>4, <1>5, <1>6, LocalAdvances DEF CallOK, RegisterLabels

LEMMA PutListAdvances ==
  ASSUME OrderlyHistory, HistoryInv, NEW p \in Proc, PutList(p)
  PROVE  Advanced(p)
<1> DEFINE j == job[p]
           e == j.cur
           sp == [lo |-> e.lo, hi |-> e.hi, factory |-> j.fac]
           list == specials[RegKey(e)]
<1>1. /\ TypeOK /\ LabelOK(p) /\ j \in JobLocals /\ CallOK(p) /\ ListOK(p)
      /\ KeysOK /\ SettledOK /\ e \in Entry
  BY DEF HistoryInv, FlushInv, ListInv, TypeInv, TypeOK, JobLocals
<1>2. /\ UNCHANGED <<registry, v14, cache>> /\ settled' = StillSettled(e)
      /\ pc[p] = "putlist" /\ Step(p) /\ pc'[p] = "pick"
      /\ specials' = [specials EXCEPT ![RegKey(e)] = Append(list, sp)]
      /\ job' = [job EXCEPT ![p].flag = TRUE]
  BY <1>1 DEF PutList, ListOK, OrderlyHistory, Step, Goto, TypeOK
<1>3. /\ job'[p].bulk = j.bulk /\ job'[p].saved = j.saved
      /\ job'[p].todo = j.todo /\ job'[p].cur = e
  BY <1>1, <1>2, PutLocals
<1>4. ForeignCall(p) \/ HistoryCall(p)
  BY <1>1, <1>2 DEF CallOK, Writing, RegisterLabels, CleanLabels
<1>5. CleanOK(p)' /\ LookNamed(p)' BY <1>2 DEF CleanOK, LookNamed, CleanLabels
<1>6. RegKey(e) \in Key BY <1>1, RegistryAssumption DEF RegKey, Entry
<1>7. /\ \A k \in Key : k # RegKey(e) => specials'[k] = specials[k]
      /\ specials'[RegKey(e)] = Append(list, sp)
  BY <1>1, <1>2, <1>6 DEF TypeOK
<1>8. list \in Seq(Special) /\ sp \in Special
  <2>1. j.fac \in Factory BY <1>1, <1>2 DEF JobLocals, LabelOK
  <2> QED BY <1>1, <1>6, <2>1 DEF TypeOK, Special, Entry
<1> HIDE DEF sp, list
<1>9. ASSUME NEW h \in Hist, RegKey(h) # RegKey(e) PROVE KeyOK(h)'
  <2>1. KeyOK(h) /\ RegKey(h) \in Key BY <1>1, HistEntry DEF KeysOK
  <2>2. ~ Emptied(p) /\ ~ Due(p, RegKey(h)) BY <1>2 DEF Emptied, Due
  <2>3. Question(h.name) \in DOMAIN cache'
          => cache'[Question(h.name)].factory \notin Unnamed
    BY <1>2, <2>1 DEF KeyOK
  <2> QED BY <1>1, <1>2, <1>7, <1>9, <2>1, <2>2, <2>3, KeyFrame
<1>10. CASE ForeignCall(p)
  <2>1. Foreign(e) BY <1>2, <1>10 DEF ForeignCall
  <2>2. \A h \in Hist : RegKey(h) # RegKey(e)
    BY <2>1, HistEntry DEF Foreign
  <2>3. KeysOK' BY <1>9, <2>2 DEF KeysOK
  <2>4. settled' \subseteq settled BY <1>2 DEF StillSettled
  <2>5. \A h \in Hist : Kept(h) => Kept(h)'
    BY <1>2, <1>7, <2>2, HistEntry DEF Kept, HasSpecial, RegKey
  <2>6. SettledOK' BY <1>1, <1>2, <2>4, <2>5 DEF SettledOK
  <2>7. ForeignCall(p)' BY <1>2, <1>3, <1>10, ForeignSame
  <2> QED BY <1>5, <2>3, <2>6, <2>7 DEF Advanced, CallOK
<1>11. CASE HistoryCall(p)
  <2>1. PICK x \in UNION Bulks :
          /\ RegKey(x) \in HistoryKey
          /\ j.bulk = {x} /\ j.saved = <<>> /\ Registering(p, x)
    BY <1>11 DEF HistoryCall
  <2>2. e = OfSpec(x) /\ j.fac = x.body /\ x.name \in v14 /\ x.spec # 0
    BY <1>2, <2>1 DEF Registering, LookupLabels
  <2>3. x \in Hist /\ x \in Entry /\ x.spec \in Int /\ x.v14
    BY <2>1, <2>2, BoundEntry, HistEntry
  <2>4. /\ RegKey(e) = RegKey(x) /\ e.v14
        /\ sp = [lo |-> x.spec, hi |-> x.spec, factory |-> x.body]
    BY <2>2, <2>3 DEF OfSpec, RegKey, Entry, sp
  <2>5. settled' = settled BY <1>2, <2>4 DEF StillSettled
  <2>6. /\ Len(list) \in Nat /\ DOMAIN list = 1..Len(list)
        /\ DOMAIN Append(list, sp) = 1..(Len(list) + 1)
        /\ \A i \in 1..Len(list) : Append(list, sp)[i] = list[i]
        /\ Append(list, sp)[Len(list) + 1] = sp
    BY <1>8, LenProperties, AppendProperties
  <2>7. list = specials[RegKey(x)] BY <2>4 DEF list
  <2>8. ASSUME NEW h \in Hist PROVE KeyOK(h)'
    <3>1. CASE RegKey(h) = RegKey(x)
      <4>1. KeyOK(h) BY <1>1 DEF KeysOK
      <4>2. ASSUME NEW i \in DOMAIN Append(list, sp)
            PROVE  \E y \in Hist : RegKey(y) = RegKey(h) /\ Append(list, sp)[i] =
                     [lo |-> y.spec, hi |-> y.spec, factory |-> y.body]
        <5>1. CASE i = Len(list) + 1 BY <2>3, <2>4, <2>6, <3>1, <5>1
        <5>2. CASE i # Len(list) + 1
          <6>1. i \in DOMAIN list /\ Append(list, sp)[i] = list[i]
            BY <2>6, <4>2, <5>2
          <6> QED BY <2>7, <3>1, <4>1, <6>1 DEF KeyOK
        <5> QED BY <5>1, <5>2
      <4>3. ASSUME NEW q \in Proc, Emptied(q) \/ Due(q, RegKey(h))
            PROVE  Emptied(q)' \/ Due(q, RegKey(h))'
        BY <1>1, <1>2, <4>3, OthersKept DEF Emptied, Due
      <4>4. specials'[RegKey(h)] = Append(list, sp) BY <1>7, <2>4, <3>1
      <4> HIDE DEF KeyOK
      <4>5. \A i \in DOMAIN specials'[RegKey(h)] : \E y \in Hist :
              RegKey(y) = RegKey(h) /\ specials'[RegKey(h)][i] =
                [lo |-> y.spec, hi |-> y.spec, factory |-> y.body]
        BY <4>2, <4>4
      <4>6. /\ registry'[RegKey(h)] \notin Unnamed
            /\ h.name \in v14' => \/ registry'[RegKey(h)] # Missing
                                  \/ \E q \in Proc : \/ Emptied(q)'
                                                     \/ Due(q, RegKey(h))'
            /\ Question(h.name) \in DOMAIN cache'
                 => cache'[Question(h.name)].factory \notin Unnamed
        BY <1>2, <4>1, <4>3 DEF KeyOK
      <4> QED BY <4>5, <4>6 DEF KeyOK
    <3> QED BY <1>9, <2>4, <3>1
  <2>9. ASSUME NEW h \in Hist, HasSpecial(RegKey(h), h.spec)
        PROVE  HasSpecial(RegKey(h), h.spec)'
    <3>1. CASE RegKey(h) = RegKey(x)
      <4>1. PICK i \in DOMAIN list : Covers(list[i], h.spec)
        BY <2>7, <2>9, <3>1 DEF HasSpecial
      <4>2. i \in DOMAIN Append(list, sp) /\ Append(list, sp)[i] = list[i]
        BY <2>6, <4>1
      <4> QED BY <1>6, <1>7, <2>4, <3>1, <4>1, <4>2 DEF HasSpecial, RegKey
    <3>2. CASE RegKey(h) # RegKey(x)
      BY <1>7, <2>4, <2>9, <3>2, HistEntry DEF HasSpecial, RegKey
    <3> QED BY <3>1, <3>2
  <2>10. SettledOK'
    BY <1>1, <1>2, <2>5, <2>9 DEF SettledOK, Kept, RegKey
  <2>11. HasSpecial(RegKey(x), x.spec)'
    <3>1. Covers(sp, x.spec) BY <2>3, <2>4 DEF Covers
    <3>2. Len(list) + 1 \in DOMAIN Append(list, sp) BY <2>6
    <3> QED BY <1>6, <1>7, <2>4, <2>6, <3>1, <3>2 DEF HasSpecial, RegKey
  <2>12. j.todo = {} BY <1>2, <2>1, NothingLeft
  <2>13. Registering(p, x)'
    BY <1>2, <1>3, <2>2, <2>11, <2>12 DEF Registering, Kept, RegKey
  <2>14. HistoryCall(p)' BY <1>3, <2>1, <2>13 DEF HistoryCall, RegKey
  <2> QED BY <1>5, <2>8, <2>10, <2>14 DEF Advanced, KeysOK, CallOK
<1> QED BY <1>4, <1>10, <1>11

-----------------------------------------------------------------------------
LEMMA HistoryStep ==
  ASSUME OrderlyHistory, HistoryInv, NEW p \in Proc, Start(p) \/ Step(p)
  PROVE  HistoryInv'
<1>1. FlushInv' BY FlushStep DEF HistoryInv
<1>2. ListInv' BY ListStep, TypeInvStep DEF HistoryInv, ListInv, Next
<1>3. BaseNeverLost' BY BaseStep DEF HistoryInv, ListInv
<1>4. Advanced(p)
  BY StartAdvances, LookupAdvances, PickAdvances, CheckAdvances,
     PutV14Advances, DescribeAdvances, CompareAdvances, AliasAdvances,
     PutPlainAdvances, ReadListAdvances, PutListAdvances, FinishAdvances,
     CleanAdvances DEF Step
<1>5. \A q \in Proc : CleanOK(q)' /\ LookNamed(q)' /\ CallOK(q)'
  BY <1>4, Others DEF Advanced
<1> QED BY <1>1, <1>2, <1>3, <1>4, <1>5 DEF HistoryInv, Advanced

HistoryPart ==
  /\ KeysOK /\ SettledOK
  /\ \A p \in Proc : CleanOK(p) /\ LookNamed(p) /\ CallOK(p)

LEMMA HistoryInit == ASSUME OrderlyHistory PROVE Init => HistoryPart
<1> SUFFICES ASSUME Init PROVE HistoryPart OBVIOUS
<1>1. \A e \in Hist : KeyOK(e)
  <2>1. ASSUME NEW e \in Hist PROVE KeyOK(e)
    <3>1. specials[RegKey(e)] = <<>> /\ DOMAIN cache = {} /\ v14 = {}
          /\ registry = Booted
      BY HistEntry DEF Init
    <3> QED BY <3>1 DEF KeyOK, OrderlyHistory
  <2> QED BY <2>1
<1>2. ASSUME NEW p \in Proc PROVE CleanOK(p) /\ LookNamed(p) /\ CallOK(p)
  BY DEF Init, CleanOK, LookNamed, CallOK, Writing, CleanLabels,
         RegisterLabels, IdleJob
<1> QED BY <1>1, <1>2 DEF Init, HistoryPart, KeysOK, SettledOK

(* The history types: once the registration of a struct or enum of the     *)
(* metadata of a spec has returned, lookups at that spec resolve to it,    *)
(* whatever other specs and types are registered later, whether the name   *)
(* was new (a plain registration), known with another type (a versioned    *)
(* one) or emptied meanwhile by Clean.  It takes registrations that do not *)
(* overlap and names that are the metadata's own.                          *)
THEOREM HistoryStays ==
  ASSUME OrderlyHistory
  PROVE  Spec => []HistoryKept
<1>1. Init => HistoryPart BY HistoryInit
<1>2. FlushInv /\ ListInv /\ BaseNeverLost /\ HistoryPart /\ [Next]_vars
        => HistoryPart'
  <2>1. ASSUME HistoryPart, UNCHANGED vars PROVE HistoryPart'
    <3>1. UNCHANGED <<registry, specials, v14, cache, pc, look, job, settled>>
      BY <2>1 DEF vars, tables, history
    <3>2. KeysOK' /\ SettledOK'
      BY <2>1, <3>1 DEF HistoryPart, KeysOK, KeyOK, SettledOK, Kept, HasSpecial,
                        Emptied, Due
    <3>3. ASSUME NEW p \in Proc PROVE CleanOK(p)' /\ LookNamed(p)' /\ CallOK(p)'
      <4>1. CleanOK(p)' /\ LookNamed(p)'
        BY <2>1, <3>1 DEF HistoryPart, CleanOK, LookNamed
      <4>2. ForeignCall(p) => ForeignCall(p)'
        BY <3>1 DEF ForeignCall, Foreign, RegKey
      <4>3. ASSUME NEW x, Registering(p, x) PROVE Registering(p, x)'
        BY <3>1, <4>3
           DEF Registering, Described, NoneSettled, Kept, HasSpecial, RegKey
      <4>4. HistoryCall(p) => HistoryCall(p)'
        BY <3>1, <4>3 DEF HistoryCall, RegKey
      <4> QED BY <2>1, <3>1, <4>1, <4>2, <4>4 DEF HistoryPart, CallOK, Writing
    <3> QED BY <3>2, <3>3 DEF HistoryPart
  <2>2. ASSUME FlushInv, ListInv, BaseNeverLost, HistoryPart,
               NEW p \in Proc, Start(p) \/ Step(p)
        PROVE  HistoryPart'
    BY <2>2, HistoryStep DEF HistoryInv, HistoryPart
  <2> QED BY <2>1, <2>2 DEF Next
<1>3. FlushInv /\ HistoryPart => HistoryKept
  BY HistResolved DEF FlushInv, TypeInv, HistoryPart, HistoryKept
<1> QED BY <1>1, <1>2, <1>3, FlushInvariance, ListInvariance, BuiltInsStay, PTL
        DEF Spec
=============================================================================
