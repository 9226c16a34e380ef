------------------------ MODULE CodecRegistryProofs ------------------------
(***************************************************************************)
(* Proofs about CodecRegistry: type correctness, coherence of the codec    *)
(* cache, the answers of GetCodec, and that no operation returns with      *)
(* unflushed changes.                                                      *)
(***************************************************************************)
EXTENDS CodecRegistry, WellFoundedInduction, SequenceTheorems, TLAPS

-----------------------------------------------------------------------------
(* Every non-empty set of naturals has a least element: the loop over the  *)
(* specials of a key stops at a first match.                               *)
LEMMA LeastElement ==
  ASSUME NEW T \in SUBSET Nat, T # {}
  PROVE  \E i \in T : \A j \in T : i <= j
<1>1. \E R : /\ IsWellFoundedOn(R, Nat)
             /\ \A x, y \in Nat : y < x => <<y, x>> \in R
  <2>1. IsWellFoundedOn(OpToRel(<, Nat), Nat) BY NatLessThanWellFounded
  <2>2. \A x, y \in Nat : y < x => <<y, x>> \in OpToRel(<, Nat)
    BY DEF OpToRel
  <2>3. QED BY <2>1, <2>2, Zenon
<1>2. PICK R : /\ IsWellFoundedOn(R, Nat)
             /\ \A x, y \in Nat : y < x => <<y, x>> \in R
  BY <1>1, Zenon
<1>3. PICK x \in T : \A y \in T : ~ (<<y, x>> \in R)
  BY <1>2, WFMin, Zenon
<1>4. \A y \in T : y \in Nat /\ ~ (y < x)
  BY <1>2, <1>3, Zenon
<1>5. \A y \in T : x <= y
  BY <1>4, SMT
<1> QED BY <1>5

LEMMA ProbeType ==
  ASSUME NEW r \in Request, NEW a \in {"full", "head", "tuple"}
  PROVE  Probe(r, a) \in Type
<1>1. \A t \in Key, m \in ModuleName : ModuleType(t, m) \in Type
  BY RegistryAssumption DEF ModuleType
<1>2. (IF a = "tuple" THEN StructType
       ELSE IF a = "head" /\ r.type \in Generic THEN HeadOf[r.type]
       ELSE r.type) \in Type
  BY RegistryAssumption DEF Request
<1>3. r.module \in ModuleName BY DEF Request
<1> QED BY <1>1, <1>2, <1>3, RegistryAssumption DEF Probe

LEMMA PlainType ==
  ASSUME registry \in [Key -> Factory \cup {Missing}], NEW n \in Type
  PROVE  Plain(n) \in Factory \cup {Missing}
BY RegistryAssumption DEF Plain, Factory

(* The first matching special is one of the key's specials and covers the  *)
(* spec.                                                                   *)
LEMMA FirstSpecialType ==
  ASSUME specials \in [Key -> Seq(Special)], NEW n \in Type, NEW s \in Int,
         HasSpecial(n, s)
  PROVE  /\ FirstSpecial(n, s) \in Special /\ Covers(FirstSpecial(n, s), s)
         /\ \E i \in DOMAIN specials[n] : FirstSpecial(n, s) = specials[n][i]
<1> DEFINE hits == {i \in DOMAIN specials[n] : Covers(specials[n][i], s)}
           first(i) == /\ Covers(specials[n][i], s)
                       /\ \A j \in 1..(i - 1) : ~ Covers(specials[n][j], s)
<1>1. n \in Key /\ specials[n] \in Seq(Special)
  BY DEF HasSpecial
<1>2. DOMAIN specials[n] = 1..Len(specials[n]) /\ Len(specials[n]) \in Nat
  BY <1>1
<1>3. hits \in SUBSET Nat /\ hits # {}
  BY <1>2 DEF HasSpecial
<1>4. PICK i \in hits : \A j \in hits : i <= j
  BY <1>3, LeastElement
<1>5. i \in DOMAIN specials[n] /\ first(i)
  <2>1. ASSUME NEW j \in 1..(i - 1)
        PROVE  ~ Covers(specials[n][j], s)
    <3>1. i \in 1..Len(specials[n]) /\ j \in 1..Len(specials[n]) /\ j < i
      BY <1>2, <1>4, <2>1
    <3>2. j \notin hits BY <1>3, <1>4, <3>1
    <3> QED BY <3>1, <3>2, <1>2
  <2> QED BY <1>4, <2>1
<1> DEFINE c == CHOOSE k \in DOMAIN specials[n] : first(k)
<1>6. c \in DOMAIN specials[n] /\ first(c)
  BY <1>5
<1>7. specials[n][c] \in Special
  BY <1>1, <1>2, <1>6, ElementOfSeq
<1>8. FirstSpecial(n, s) = specials[n][c]
  BY DEF FirstSpecial
<1> QED BY <1>6, <1>7, <1>8

LEMMA OutcomeType ==
  ASSUME NEW r \in Request, NEW a \in {"full", "head", "tuple"},
         NEW f \in Factory
  PROVE  Outcome(r, a, f) \in Answer \cup {Missing}
BY RegistryAssumption DEF Outcome, Answer, Request, Factory

LEMMA TryType ==
  ASSUME TypeOK, NEW r \in Request, NEW a \in {"full", "head", "tuple"}
  PROVE  Try(r, a) \in Answer \cup {Missing}
<1> DEFINE n == Probe(r, a)
<1>1. n \in Type BY ProbeType
<1>2. Instant(n, r.spec) \in Factory \cup {Missing}
  <2>1. CASE HasSpecial(n, r.spec)
    <3>1. r.spec \in Int BY RegistryAssumption DEF Request
    <3>2. FirstSpecial(n, r.spec) \in Special
      BY <1>1, <2>1, <3>1, FirstSpecialType DEF TypeOK
    <3> QED BY <2>1, <3>2 DEF Instant, Special
  <2>2. CASE ~ HasSpecial(n, r.spec)
    BY <1>1, <2>2, PlainType DEF Instant, TypeOK
  <2> QED BY <2>1, <2>2
<1> QED BY <1>2, OutcomeType DEF Try

-----------------------------------------------------------------------------
(* Type correctness.  TypeOK is not inductive: what a goroutine is about to *)
(* insert, describe or register has to be there.                           *)

LabelOK(p) ==
  /\ pc[p] = "insert" => look[p].found # Missing
  /\ pc[p] = "describe" => job[p].agenda # <<>>
  /\ pc[p] = "alias2" => Explained(job[p], job[p].cur)
  /\ pc[p] \in {"putplain", "readlist", "putlist"} => job[p].fac # Missing

LEMMA InitType == Init => TypeOK
<1> SUFFICES ASSUME Init PROVE TypeOK OBVIOUS
<1>1. Booted \in [Key -> Factory \cup {Missing}]
  BY RegistryAssumption
<1>2. specials \in [Key -> Seq(Special)]
  BY DEF Init
<1>3. cache \in [DOMAIN cache -> Answer] /\ DOMAIN cache \subseteq Request
  BY DEF Init
<1>4. pc \in [Proc -> Labels] /\ ops \in [Proc -> Nat]
      /\ \A p \in Proc : ops[p] <= MaxOps[p]
  BY RegistryAssumption DEF Init, Labels
<1>5. IdleLook \in LookLocals
  BY RegistryAssumption DEF IdleLook, LookLocals
<1>6. IdleJob \in JobLocals
  BY RegistryAssumption DEF IdleJob, JobLocals
<1> QED
  BY <1>1, <1>2, <1>3, <1>4, <1>5, <1>6 DEF Init, TypeOK

LEMMA AskType ==
  ASSUME TypeOK, NEW p \in Proc, NEW r \in Request, Ask(p, r)
  PROVE  /\ look' \in [Proc -> LookLocals]
         /\ fresh' \in [Proc -> BOOLEAN]
         /\ pc' \in [Proc -> Labels]
         /\ pc'[p] = "cache"
<1>1. [IdleLook EXCEPT !.asked = r, !.req = r] \in LookLocals
  BY RegistryAssumption DEF IdleLook, LookLocals
<1> QED BY <1>1 DEF Ask, Goto, TypeOK, Labels, LookupLabels

LEMMA DeliverType ==
  ASSUME TypeOK, NEW p \in Proc, NEW l \in LookLocals, Deliver(p, l)
  PROVE  /\ look' \in [Proc -> LookLocals]
         /\ pc' \in [Proc -> Labels]
         /\ pc'[p] \in {"idle", "describe"}
         /\ pc'[p] = "describe" => job[p].agenda # <<>>
BY DEF Deliver, Goto, TypeOK, Labels, RegisterLabels

LEMMA FoundType ==
  ASSUME TypeOK, NEW p \in Proc, NEW f \in Factory, Found(p, f)
  PROVE  /\ look' \in [Proc -> LookLocals]
         /\ pc' \in [Proc -> Labels]
         /\ pc'[p] \in {"idle", "describe", "insert"}
         /\ pc'[p] = "insert" => look'[p].found # Missing
         /\ pc'[p] = "describe" => job[p].agenda # <<>>
<1> DEFINE l == look[p]
           a == Outcome(l.req, l.attempt, f)
<1>1. l \in LookLocals BY DEF TypeOK
<1>2. a \in Answer \cup {Missing}
  BY <1>1, OutcomeType DEF LookLocals
<1>3. CASE a = Missing
  <2>1. [l EXCEPT !.answer = Missing] \in LookLocals BY <1>1 DEF LookLocals
  <2>2. Deliver(p, [l EXCEPT !.answer = Missing]) BY <1>3 DEF Found
  <2> QED BY <2>1, <2>2, DeliverType
<1>4. CASE a # Missing
  <2>1. [l EXCEPT !.found = a] \in LookLocals BY <1>1, <1>2 DEF LookLocals
  <2>2. look' = [look EXCEPT ![p] = [l EXCEPT !.found = a]]
    BY <1>4 DEF Found, TypeOK
  <2>3. Goto(p, "insert") BY <1>4 DEF Found
  <2>4. look' \in [Proc -> LookLocals] BY <2>1, <2>2 DEF TypeOK
  <2>5. look'[p] = [l EXCEPT !.found = a] BY <2>2 DEF TypeOK
  <2>6. look'[p].found = a BY <2>5, <1>1 DEF LookLocals
  <2>7. pc' \in [Proc -> Labels] /\ pc'[p] = "insert"
    BY <2>3 DEF Goto, TypeOK, Labels, LookupLabels
  <2> HIDE DEF a
  <2> QED BY <1>4, <2>4, <2>6, <2>7
<1> QED BY <1>3, <1>4

(* A goroutine leaves RegCustomTypes with well-formed locals. *)
LEMMA ReturnType ==
  ASSUME TypeOK, NEW p \in Proc, Return(p)
  PROVE  /\ job' \in [Proc -> JobLocals]
         /\ pc' \in [Proc -> Labels]
         /\ pc'[p] \in {"idle", "wrap"}
         /\ settled' \subseteq Entry
<1> DEFINE j == job[p]
<1>1. j \in JobLocals BY DEF TypeOK
<1>2. CASE j.saved = <<>>
  <2>1. IdleJob \in JobLocals
    BY RegistryAssumption DEF IdleJob, JobLocals
  <2>2. job' = [job EXCEPT ![p] = IdleJob] /\ Goto(p, "idle")
        /\ settled' = settled \cup {e \in j.bulk : e.v14}
    BY <1>2 DEF Return
  <2>3. j.bulk \subseteq Entry BY <1>1 DEF JobLocals
  <2> QED BY <2>1, <2>2, <2>3 DEF Goto, TypeOK, Labels
<1>3. CASE j.saved # <<>>
  <2> DEFINE f == j.saved[1]
             k == [j EXCEPT !.bulk = f.bulk, !.todo = f.todo, !.cur = f.cur,
                            !.flag = f.flag, !.saved = <<>>]
  <2>1. f \in Frame
    BY <1>1, <1>3, EmptySeq, ElementOfSeq DEF JobLocals
  <2>2. k \in JobLocals
    <3>1. [j EXCEPT !.bulk = f.bulk, !.todo = f.todo] \in JobLocals
      BY <1>1, <2>1 DEF JobLocals, Frame
    <3>2. [j EXCEPT !.bulk = f.bulk, !.todo = f.todo, !.cur = f.cur,
                    !.flag = f.flag] \in JobLocals
      BY <3>1, <2>1 DEF JobLocals, Frame
    <3>3. \A s \in Seq(Frame) :
             [j EXCEPT !.bulk = f.bulk, !.todo = f.todo, !.cur = f.cur,
                       !.flag = f.flag, !.saved = s] \in JobLocals
      BY <3>2 DEF JobLocals
    <3> QED BY <3>3, EmptySeq
  <2>3. job' = [job EXCEPT ![p] = k] /\ Goto(p, "wrap") /\ settled' = settled
    BY <1>3 DEF Return
  <2> QED BY <2>2, <2>3 DEF Goto, TypeOK, Labels, RegisterLabels
<1> QED BY <1>2, <1>3

LEMMA RegisterType ==
  ASSUME TypeOK, NEW p \in Proc, NEW e \in Entry, Register(p, e)
  PROVE  /\ job' \in [Proc -> JobLocals]
         /\ pc' \in [Proc -> Labels]
         /\ pc'[p] \in {"alias", "putplain", "readlist"}
         /\ pc'[p] # "alias" => job'[p].fac # Missing
<1>1. job[p] \in JobLocals BY DEF TypeOK
<1> DEFINE j == [job[p] EXCEPT !.cur = e, !.todo = job[p].todo \ {e},
                   !.fac = IF e.kind = "body" THEN e.body ELSE Missing,
                   !.agenda = <<>>, !.desc = <<>>]
<1>2. e.body \in Factory BY DEF Entry, Factory
<1>3. j \in JobLocals
  <2> DEFINE f == IF e.kind = "body" THEN e.body ELSE Missing
  <2>1. f \in Factory \cup {Missing} BY <1>2
  <2>2. [job[p] EXCEPT !.cur = e, !.todo = job[p].todo \ {e}] \in JobLocals
    BY <1>1 DEF JobLocals
  <2>3. [job[p] EXCEPT !.cur = e, !.todo = job[p].todo \ {e}, !.fac = f]
          \in JobLocals
    BY <2>1, <2>2 DEF JobLocals
  <2>4. \A s \in Seq(AgendaItem), d \in Seq(Answer \cup {Missing}) :
           [job[p] EXCEPT !.cur = e, !.todo = job[p].todo \ {e}, !.fac = f,
                          !.agenda = s, !.desc = d] \in JobLocals
    BY <2>3 DEF JobLocals
  <2> QED BY <2>4, EmptySeq
<1>4. job' = [job EXCEPT ![p] = j] BY DEF Register, TypeOK
<1>5. pc' \in [Proc -> Labels]
  BY DEF Register, Goto, PutLabel, TypeOK, Labels, RegisterLabels
<1>6. /\ pc'[p] \in {"alias", "putplain", "readlist"}
      /\ pc'[p] # "alias" => e.kind = "body"
  BY DEF Register, Goto, PutLabel, TypeOK, Entry
<1>7. e.kind = "body" => j.fac # Missing
  BY <1>2, RegistryAssumption DEF JobLocals
<1> HIDE DEF j
<1>8. job' \in [Proc -> JobLocals] /\ job'[p] = j
  BY <1>3, <1>4 DEF TypeOK
<1> QED BY <1>5, <1>6, <1>7, <1>8

LEMMA BeginType ==
  ASSUME TypeOK, NEW p \in Proc, Begin(p)
  PROVE  ops' \in [Proc -> Nat] /\ \A q \in Proc : ops'[q] <= MaxOps[q]
<1>1. MaxOps \in [Proc -> Nat] BY RegistryAssumption
<1>2. ops \in [Proc -> Nat] /\ \A q \in Proc : ops[q] <= MaxOps[q]
  BY DEF TypeOK
<1>3. ops[p] < MaxOps[p] /\ ops' = [ops EXCEPT ![p] = ops[p] + 1]
  BY DEF Begin
<1>4. ops' \in [Proc -> Nat] BY <1>2, <1>3
<1>5. ASSUME NEW q \in Proc PROVE ops'[q] <= MaxOps[q]
  BY <1>1, <1>2, <1>3
<1> QED BY <1>4, <1>5

LEMMA LookupStepType ==
  ASSUME TypeOK, NEW p \in Proc, LabelOK(p),
         \/ \E r \in Lookups : BeginLookup(p, r)
         \/ ReadCache(p) \/ ReadSpecials(p) \/ ReadRegistry(p) \/ InsertCache(p)
  PROVE  TypeOK' /\ LabelOK(p)'
<1> DEFINE l == look[p]
<1>1. l \in LookLocals BY DEF TypeOK
<1>2. \A a \in Answer \cup {Missing} : [l EXCEPT !.answer = a] \in LookLocals
  BY <1>1 DEF LookLocals
<1>3. l.req \in Request /\ l.attempt \in {"full", "head", "tuple"}
      /\ l.found \in Answer \cup {Missing}
  BY <1>1 DEF LookLocals
<1>4. Probe(l.req, l.attempt) \in Type
  BY <1>3, ProbeType
<1>5. ASSUME NEW r \in Lookups, BeginLookup(p, r) PROVE TypeOK' /\ LabelOK(p)'
  <2>1. r \in Request BY RegistryAssumption
  <2>2. Ask(p, r) /\ Begin(p) BY <1>5 DEF BeginLookup
  <2>3. UNCHANGED <<tables, cache, job, suspect, unflushed, settled>>
    BY <1>5 DEF BeginLookup
  <2> QED BY <2>1, <2>2, <2>3, AskType, BeginType DEF TypeOK, tables, LabelOK
<1>6. CASE ReadCache(p)
  <2>1. CASE l.req \in DOMAIN cache
    <3>1. Deliver(p, [l EXCEPT !.answer = cache[l.req]])
      BY <1>6, <2>1 DEF ReadCache
    <3>2. cache[l.req] \in Answer BY <2>1 DEF TypeOK
    <3>3. /\ look' \in [Proc -> LookLocals] /\ pc' \in [Proc -> Labels]
          /\ pc'[p] \in {"idle", "describe"}
          /\ pc'[p] = "describe" => job[p].agenda # <<>>
      BY <3>1, <3>2, <1>2, DeliverType
    <3>4. UNCHANGED <<tables, cache, ops, job, history>>
      BY <1>6 DEF ReadCache
    <3> QED BY <3>3, <3>4 DEF TypeOK, tables, history, LabelOK
  <2>2. CASE l.req \notin DOMAIN cache
    <3>1. look' = [look EXCEPT ![p].attempt = FirstAttempt(l.req)]
          /\ Goto(p, "special")
      BY <1>6, <2>2 DEF ReadCache
    <3>2. [l EXCEPT !.attempt = FirstAttempt(l.req)] \in LookLocals
      BY <1>1 DEF LookLocals, FirstAttempt
    <3>3. look' \in [Proc -> LookLocals] BY <3>1, <3>2 DEF TypeOK
    <3> QED BY <3>1, <3>3, <1>6
          DEF ReadCache, Goto, TypeOK, tables, history, Labels, LookupLabels,
              LabelOK
  <2> QED BY <2>1, <2>2
<1>7. CASE ReadSpecials(p)
  <2> DEFINE n == Probe(l.req, l.attempt)
  <2>1. CASE HasSpecial(n, l.req.spec)
    <3>1. l.req.spec \in Int BY <1>3, RegistryAssumption DEF Request
    <3>2. FirstSpecial(n, l.req.spec) \in Special
      BY <1>4, <2>1, <3>1, FirstSpecialType DEF TypeOK
    <3>3. FirstSpecial(n, l.req.spec).factory \in Factory
      BY <3>2 DEF Special
    <3>4. Found(p, FirstSpecial(n, l.req.spec).factory)
      BY <1>7, <2>1 DEF ReadSpecials
    <3>5. /\ look' \in [Proc -> LookLocals] /\ pc' \in [Proc -> Labels]
          /\ pc'[p] \in {"idle", "describe", "insert"}
          /\ pc'[p] = "insert" => look'[p].found # Missing
          /\ pc'[p] = "describe" => job[p].agenda # <<>>
      BY <3>3, <3>4, FoundType
    <3> QED BY <3>5, <1>7 DEF ReadSpecials, TypeOK, tables, history, LabelOK
  <2>2. CASE ~ HasSpecial(n, l.req.spec)
    <3>1. Goto(p, "plain") /\ look' = look
      BY <1>7, <2>2 DEF ReadSpecials
    <3> QED BY <3>1, <1>7
          DEF ReadSpecials, Goto, TypeOK, tables, history, Labels, LookupLabels,
              LabelOK
  <2> QED BY <2>1, <2>2
<1>8. CASE ReadRegistry(p)
  <2> DEFINE f == Plain(Probe(l.req, l.attempt))
  <2>1. f \in Factory \cup {Missing}
    BY <1>4, PlainType DEF TypeOK
  <2>2. /\ look' \in [Proc -> LookLocals] /\ pc' \in [Proc -> Labels]
        /\ pc'[p] \in LookupLabels \cup {"idle", "describe"}
        /\ pc'[p] = "insert" => look'[p].found # Missing
        /\ pc'[p] = "describe" => job[p].agenda # <<>>
    <3>1. CASE f # Missing
      BY <1>8, <2>1, <3>1, FoundType DEF ReadRegistry, LookupLabels
    <3>2. CASE f = Missing
      <4>1. NotFound(p) BY <1>8, <3>2 DEF ReadRegistry
      <4>2. \A a \in {"full", "head", "tuple"} :
               [l EXCEPT !.attempt = a] \in LookLocals
        BY <1>1 DEF LookLocals
      <4>3. CASE Deliver(p, [l EXCEPT !.answer = Missing])
        BY <4>3, <1>2, DeliverType DEF LookupLabels
      <4>4. CASE \E a \in {"head", "tuple"} :
                   look' = [look EXCEPT ![p].attempt = a] /\ Goto(p, "special")
        <5>1. look' \in [Proc -> LookLocals]
          BY <4>2, <4>4 DEF TypeOK
        <5> QED BY <4>4, <5>1 DEF Goto, TypeOK, Labels, LookupLabels
      <4>5. CASE /\ InNamespace(l.req)
                 /\ look' = [look EXCEPT ![p].req = Short(l.req)]
                 /\ Goto(p, "cache")
        <5>1. Short(l.req) \in Request
          BY <1>3, <4>5, RegistryAssumption DEF Short, InNamespace, Request
        <5>2. [l EXCEPT !.req = Short(l.req)] \in LookLocals
          BY <1>1, <5>1 DEF LookLocals
        <5>3. look' \in [Proc -> LookLocals]
          BY <4>5, <5>2 DEF TypeOK
        <5> QED BY <4>5, <5>3 DEF Goto, TypeOK, Labels, LookupLabels
      <4> QED BY <4>1, <4>3, <4>4, <4>5 DEF NotFound
    <3> QED BY <3>1, <3>2
  <2> QED BY <2>2, <1>8 DEF ReadRegistry, TypeOK, tables, history, LabelOK,
               LookupLabels
<1>9. CASE InsertCache(p)
  <2>1. /\ look' \in [Proc -> LookLocals] /\ pc' \in [Proc -> Labels]
        /\ pc'[p] \in {"idle", "describe"}
        /\ pc'[p] = "describe" => job[p].agenda # <<>>
    BY <1>2, <1>3, <1>9, DeliverType DEF InsertCache
  <2>2. suspect' \subseteq Request
    BY <1>3, <1>9 DEF InsertCache, TypeOK
  <2>3. DOMAIN cache' \subseteq Request /\ cache' \in [DOMAIN cache' -> Answer]
    BY <1>3, <1>9 DEF InsertCache, TypeOK, LabelOK
  <2> QED BY <2>1, <2>2, <2>3, <1>9 DEF InsertCache, TypeOK, tables, LabelOK
<1> QED BY <1>5, <1>6, <1>7, <1>8, <1>9

(* The locals of a registration with one field replaced. *)
LEMMA JobUpdate ==
  ASSUME NEW j \in JobLocals
  PROVE  /\ \A x \in Entry : [j EXCEPT !.cur = x] \in JobLocals
         /\ \A x \in SUBSET Entry : [j EXCEPT !.todo = x] \in JobLocals
         /\ \A x \in Factory \cup {Missing} : [j EXCEPT !.fac = x] \in JobLocals
         /\ \A x \in BOOLEAN : [j EXCEPT !.flag = x] \in JobLocals
         /\ \A x \in Seq(Special) : [j EXCEPT !.list = x] \in JobLocals
         /\ \A x \in Seq(AgendaItem) : [j EXCEPT !.agenda = x] \in JobLocals
         /\ \A x \in Seq(Answer \cup {Missing}) :
               [j EXCEPT !.desc = x] \in JobLocals
BY DEF JobLocals

LEMMA RegisterStartType ==
  ASSUME TypeOK, NEW p \in Proc, LabelOK(p),
         \/ \E b \in Bulks : BeginRegister(p, b)
         \/ \E e \in OriginCallers : RegisterOriginCaller(p, e)
  PROVE  TypeOK' /\ LabelOK(p)'
<1>1. IdleJob \in JobLocals BY RegistryAssumption DEF IdleJob, JobLocals
<1>2. ASSUME NEW b \in Bulks, BeginRegister(p, b) PROVE TypeOK' /\ LabelOK(p)'
  <2>1. b \subseteq Entry BY RegistryAssumption
  <2>2. [IdleJob EXCEPT !.bulk = b, !.todo = b] \in JobLocals
    BY <1>1, <2>1 DEF JobLocals
  <2>3. job' \in [Proc -> JobLocals]
    BY <1>2, <2>2 DEF BeginRegister, TypeOK
  <2>4. pc' \in [Proc -> Labels] /\ pc'[p] = "pick"
    BY <1>2 DEF BeginRegister, Goto, TypeOK, Labels, RegisterLabels
  <2>5. Begin(p) /\ UNCHANGED <<tables, cache, look, history>>
    BY <1>2 DEF BeginRegister
  <2> QED BY <2>3, <2>4, <2>5, BeginType DEF TypeOK, tables, history, LabelOK
<1>3. ASSUME NEW e \in OriginCallers, RegisterOriginCaller(p, e)
      PROVE  TypeOK' /\ LabelOK(p)'
  <2>1. e \in Entry /\ e.body \in Factory
    BY RegistryAssumption DEF Entry, Factory
  <2> DEFINE j == [IdleJob EXCEPT !.cur = e, !.fac = e.body]
  <2>2. j \in JobLocals BY <1>1, <2>1 DEF JobLocals
  <2>3. j.fac = e.body BY <1>1 DEF JobLocals
  <2>4. job' = [job EXCEPT ![p] = j]
    BY <1>3 DEF RegisterOriginCaller
  <2> HIDE DEF j
  <2>5. job' \in [Proc -> JobLocals] /\ job'[p].fac # Missing
    BY <2>1, <2>2, <2>3, <2>4, RegistryAssumption DEF TypeOK
  <2>6. pc' \in [Proc -> Labels] /\ pc'[p] = "putplain"
    BY <1>3 DEF RegisterOriginCaller, Goto, TypeOK, Labels, RegisterLabels
  <2>7. Begin(p) /\ UNCHANGED <<tables, cache, look, history>>
    BY <1>3 DEF RegisterOriginCaller
  <2> QED BY <2>5, <2>6, <2>7, BeginType DEF TypeOK, tables, history, LabelOK
<1> QED BY <1>2, <1>3

LEMMA PickType ==
  ASSUME TypeOK, NEW p \in Proc, LabelOK(p),
         \/ \E e \in job[p].todo : Pick(p, e)
         \/ PutV14(p)
  PROVE  TypeOK' /\ LabelOK(p)'
<1> DEFINE j == job[p]
<1>1. j \in JobLocals BY DEF TypeOK
<1>2. j.todo \subseteq Entry /\ j.cur \in Entry BY <1>1 DEF JobLocals
<1>3. ASSUME NEW e \in j.todo, Pick(p, e) PROVE TypeOK' /\ LabelOK(p)'
  <2>1. e \in Entry BY <1>2
  <2>2. UNCHANGED <<tables, cache, ops, look, history>>
    BY <1>3 DEF Pick
  <2>3. CASE Register(p, e)
    BY <2>1, <2>2, <2>3, RegisterType DEF TypeOK, tables, history, LabelOK
  <2>4. CASE /\ job' = [job EXCEPT ![p].cur = e, ![p].todo = job[p].todo \ {e}]
             /\ Goto(p, "v14check")
    <3>1. [j EXCEPT !.cur = e, !.todo = j.todo \ {e}] \in JobLocals
      BY <1>1, <1>2 DEF JobLocals
    <3>2. job' \in [Proc -> JobLocals] BY <2>4, <3>1 DEF TypeOK
    <3>3. pc' \in [Proc -> Labels] /\ pc'[p] = "v14check"
      BY <2>4 DEF Goto, TypeOK, Labels, RegisterLabels
    <3> QED BY <2>2, <3>2, <3>3 DEF TypeOK, tables, history, LabelOK
  <2> QED BY <1>3, <2>3, <2>4 DEF Pick
<1>4. CASE PutV14(p)
  <2>1. Register(p, j.cur) /\ v14' = v14 \cup {j.cur.name}
        /\ UNCHANGED <<registry, built, specials, cache, ops, look, history>>
    BY <1>4 DEF PutV14
  <2>2. j.cur.name \in Type BY <1>2 DEF Entry
  <2> QED BY <1>2, <2>1, <2>2, RegisterType DEF TypeOK, history, LabelOK
<1> QED BY <1>3, <1>4

LEMMA QuestionType ==
  ASSUME NEW t \in Type
  PROVE  Question(t) \in Request
BY RegistryAssumption DEF Question, Request

LEMMA CheckV14Type ==
  ASSUME TypeOK, NEW p \in Proc, LabelOK(p), CheckV14(p)
  PROVE  TypeOK' /\ LabelOK(p)'
<1> DEFINE j == job[p]
           e == job[p].cur
           s == <<Whole(e.name)>>
<1>1. j \in JobLocals BY DEF TypeOK
<1>2. e \in Entry /\ e.name \in Type BY <1>1 DEF JobLocals, Entry
<1>3. UNCHANGED <<tables, cache, ops, suspect, unflushed>>
  BY DEF CheckV14
<1>4. CASE Goto(p, "v14put") /\ UNCHANGED <<job, look, fresh, settled>>
  <2>1. pc' \in [Proc -> Labels] /\ pc'[p] = "v14put"
    BY <1>4 DEF Goto, TypeOK, Labels, RegisterLabels
  <2> QED BY <1>3, <1>4, <2>1 DEF TypeOK, tables, LabelOK
<1>5. CASE Return(p) /\ UNCHANGED <<look, fresh>>
  BY <1>3, <1>5, ReturnType DEF TypeOK, tables, LabelOK
<1>6. CASE /\ job' = [job EXCEPT ![p].agenda = s]
           /\ Ask(p, Question(e.name))
           /\ UNCHANGED settled
  <2>1. s \in Seq(AgendaItem) BY <1>2 DEF AgendaItem, Whole, Entry
  <2> HIDE DEF s
  <2>2. [j EXCEPT !.agenda = s] \in JobLocals
    BY <1>1, <2>1, JobUpdate
  <2>3. job' \in [Proc -> JobLocals] BY <1>6, <2>2 DEF TypeOK
  <2>4. Question(e.name) \in Request BY <1>2, QuestionType
  <2> QED BY <1>3, <1>6, <2>3, <2>4, AskType DEF TypeOK, tables, LabelOK
<1> QED BY <1>4, <1>5, <1>6 DEF CheckV14

PartItem == {i \in AgendaItem : ~ i.top}

LEMMA PartsOnly ==
  ASSUME NEW s \in Seq(AgendaItem)
  PROVE  (\A i \in DOMAIN s : ~ s[i].top) <=> s \in Seq(PartItem)
<1>1. Len(s) \in Nat /\ DOMAIN s = 1..Len(s)
      /\ \A i \in 1..Len(s) : s[i] \in AgendaItem
  BY LenProperties, ElementOfSeq
<1>2. ASSUME \A i \in DOMAIN s : ~ s[i].top PROVE s \in Seq(PartItem)
  <2>1. s \in [1..Len(s) -> PartItem]
    BY <1>1, <1>2, LenProperties DEF PartItem
  <2> QED BY <1>1, <2>1, SeqDef
<1>3. ASSUME s \in Seq(PartItem), NEW i \in DOMAIN s PROVE ~ s[i].top
  <2>1. s[i] \in PartItem BY <1>1, <1>3, ElementOfSeq
  <2> QED BY <2>1 DEF PartItem
<1> QED BY <1>2, <1>3

LEMMA SubTypesType ==
  ASSUME NEW a \in Answer \cup {Missing}, NEW d \in Nat
  PROVE  SubTypes(a, d) \in Seq(PartItem) /\ SubTypes(a, d) \in Seq(AgendaItem)
<1> DEFINE counted == a # Missing /\ a.factory \in Nesting
           parts == IF a = Missing \/ (counted /\ d >= limitRecursiveTime)
                    THEN <<>> ELSE Parts[a]
           below == IF counted THEN d + 1
                    ELSE IF a # Missing /\ a.factory \in Restarting THEN 0
                    ELSE d
           items == [i \in 1..Len(parts) |->
                       [type |-> parts[i], top |-> FALSE, depth |-> below]]
<1>1. a # Missing => Parts[a] \in Seq(Type) BY RegistryAssumption
<1>2. parts \in Seq(Type) BY <1>1
<1>3. below \in Nat OBVIOUS
<1>4. SubTypes(a, d) = items BY DEF SubTypes
<1> HIDE DEF parts, below
<1>5. Len(parts) \in Nat /\ \A i \in 1..Len(parts) : parts[i] \in Type
  BY <1>2, LenProperties, ElementOfSeq
<1>6. items \in [1..Len(parts) -> PartItem] /\ items \in [1..Len(parts) -> AgendaItem]
  BY <1>3, <1>5 DEF PartItem, AgendaItem
<1> HIDE DEF items
<1> QED BY <1>4, <1>5, <1>6, SeqDef

(* Describe asks about the next type string, or is done. *)
LEMMA DescribeAgenda ==
  ASSUME TypeOK, NEW p \in Proc, LabelOK(p), Describe(p)
  PROVE  \E rest \in Seq(AgendaItem), desc \in Seq(Answer \cup {Missing}) :
           /\ job' = [job EXCEPT ![p].agenda = rest, ![p].desc = desc]
           /\ IF rest # <<>>
              THEN Ask(p, Question(rest[1].type))
              ELSE Goto(p, "compare") /\ UNCHANGED <<look, fresh>>
           /\ UNCHANGED <<tables, cache, ops, suspect, unflushed, settled>>
<1> DEFINE j == job[p]
           a == look[p].answer
           item == Head(j.agenda)
           rest == SubTypes(a, item.depth) \o Tail(j.agenda)
           desc == IF item.top THEN Append(j.desc, a) ELSE j.desc
<1>1. j \in JobLocals /\ look[p] \in LookLocals BY DEF TypeOK
<1>2. a \in Answer \cup {Missing} BY <1>1 DEF LookLocals
<1>5. j.agenda \in Seq(AgendaItem) /\ j.agenda # <<>>
      /\ j.desc \in Seq(Answer \cup {Missing})
  BY <1>1 DEF JobLocals, LabelOK, Describe
<1>6. Tail(j.agenda) \in Seq(AgendaItem) /\ item \in AgendaItem
  BY <1>5, HeadTailProperties
<1>3. item.depth \in Nat BY <1>6 DEF AgendaItem
<1>4. SubTypes(a, item.depth) \in Seq(AgendaItem)
  BY <1>2, <1>3, SubTypesType
<1>7. rest \in Seq(AgendaItem) BY <1>4, <1>6, ConcatProperties
<1>8. desc \in Seq(Answer \cup {Missing})
  BY <1>2, <1>5, AppendProperties
<1>9. /\ job' = [job EXCEPT ![p].agenda = rest, ![p].desc = desc]
      /\ IF rest # <<>>
         THEN Ask(p, Question(rest[1].type))
         ELSE Goto(p, "compare") /\ UNCHANGED <<look, fresh>>
      /\ UNCHANGED <<tables, cache, ops, suspect, unflushed, settled>>
  BY DEF Describe
<1> HIDE DEF rest, desc
<1> QED BY <1>7, <1>8, <1>9

LEMMA DescribeType ==
  ASSUME TypeOK, NEW p \in Proc, LabelOK(p), Describe(p)
  PROVE  TypeOK' /\ LabelOK(p)'
<1> DEFINE j == job[p]
<1>1. PICK rest \in Seq(AgendaItem), desc \in Seq(Answer \cup {Missing}) :
        /\ job' = [job EXCEPT ![p].agenda = rest, ![p].desc = desc]
        /\ IF rest # <<>>
           THEN Ask(p, Question(rest[1].type))
           ELSE Goto(p, "compare") /\ UNCHANGED <<look, fresh>>
        /\ UNCHANGED <<tables, cache, ops, suspect, unflushed, settled>>
  BY DescribeAgenda
<1>2. j \in JobLocals BY DEF TypeOK
<1>3. [j EXCEPT !.agenda = rest, !.desc = desc] \in JobLocals
  BY <1>2 DEF JobLocals
<1>4. job' \in [Proc -> JobLocals] BY <1>1, <1>3 DEF TypeOK
<1>5. CASE rest # <<>>
  <2>1. rest[1] \in AgendaItem BY <1>5, EmptySeq, ElementOfSeq
  <2>2. Question(rest[1].type) \in Request
    BY <2>1, QuestionType DEF AgendaItem
  <2> QED BY <1>1, <1>4, <1>5, <2>2, AskType DEF TypeOK, tables, LabelOK
<1>6. CASE rest = <<>>
  <2>1. pc' \in [Proc -> Labels] /\ pc'[p] = "compare"
    BY <1>1, <1>6 DEF Goto, TypeOK, Labels, RegisterLabels
  <2> QED BY <1>1, <1>4, <1>6, <2>1 DEF TypeOK, tables, LabelOK
<1> QED BY <1>5, <1>6

LEMMA CompareType ==
  ASSUME TypeOK, NEW p \in Proc, LabelOK(p), Compare(p)
  PROVE  TypeOK' /\ LabelOK(p)'
<1> DEFINE j == job[p]
           e == j.cur
           s == <<Whole(e.to)>>
           ofSpec == [e EXCEPT !.ranged = TRUE, !.lo = e.spec, !.hi = e.spec]
<1>1. j \in JobLocals BY DEF TypeOK
<1>2. e \in Entry BY <1>1 DEF JobLocals
<1>3. UNCHANGED <<tables, cache, ops, suspect, unflushed>>
  BY DEF Compare
<1>4. CASE /\ job' = [job EXCEPT ![p].agenda = s]
           /\ Ask(p, Question(e.to))
           /\ UNCHANGED settled
  <2>1. e.to \in Type BY <1>2 DEF Entry
  <2>2. s \in Seq(AgendaItem) BY <2>1 DEF AgendaItem, Whole
  <2> HIDE DEF s
  <2>3. [j EXCEPT !.agenda = s] \in JobLocals BY <1>1, <2>2, JobUpdate
  <2>4. job' \in [Proc -> JobLocals] BY <1>4, <2>3 DEF TypeOK
  <2> QED BY <1>3, <1>4, <2>1, <2>4, QuestionType, AskType
          DEF TypeOK, tables, LabelOK
<1>5. CASE Return(p) /\ UNCHANGED <<look, fresh>>
  BY <1>3, <1>5, ReturnType DEF TypeOK, tables, LabelOK
<1>6. CASE Register(p, ofSpec) /\ UNCHANGED <<look, fresh, settled>>
  <2>1. e.spec \in Int BY <1>2, RegistryAssumption DEF Entry
  <2>2. ofSpec \in Entry BY <1>2, <2>1 DEF Entry
  <2> HIDE DEF ofSpec
  <2> QED BY <1>3, <1>6, <2>2, RegisterType DEF TypeOK, tables, LabelOK
<1> QED BY <1>4, <1>5, <1>6 DEF Compare

LEMMA PutAliasType ==
  ASSUME TypeOK, NEW p \in Proc, NEW f \in Factory, PutAlias(p, f)
  PROVE  /\ job' \in [Proc -> JobLocals]
         /\ pc' \in [Proc -> Labels]
         /\ pc'[p] \in {"putplain", "readlist"}
         /\ job'[p].fac # Missing
<1> DEFINE j == [job[p] EXCEPT !.fac = f]
<1>1. job[p] \in JobLocals BY DEF TypeOK
<1>2. j \in JobLocals BY <1>1, JobUpdate
<1>3. j.fac = f BY <1>1 DEF JobLocals
<1>4. job' = [job EXCEPT ![p] = j] BY DEF PutAlias, TypeOK
<1> HIDE DEF j
<1>5. job' \in [Proc -> JobLocals] /\ job'[p] = j BY <1>2, <1>4 DEF TypeOK
<1>6. pc' \in [Proc -> Labels] /\ pc'[p] \in {"putplain", "readlist"}
  BY DEF PutAlias, Goto, PutLabel, TypeOK, Labels, RegisterLabels
<1> QED BY <1>3, <1>5, <1>6, RegistryAssumption

LEMMA AliasType ==
  ASSUME TypeOK, NEW p \in Proc, LabelOK(p),
         ResolveAlias(p) \/ ResolveExplained(p) \/ Wrap(p)
  PROVE  TypeOK' /\ LabelOK(p)'
<1> DEFINE j == job[p]
           e == j.cur
           x == Explanation(j, e)
<1>1. j \in JobLocals BY DEF TypeOK
<1>2. e \in Entry /\ j.bulk \subseteq Entry /\ j.todo \subseteq Entry
      /\ j.flag \in BOOLEAN
  BY <1>1 DEF JobLocals
<1>3. e.to \in Type /\ e.name \in Type /\ e.ranged \in BOOLEAN
      /\ e.lo \in Int /\ e.hi \in Int
  BY <1>2 DEF Entry
<1>4. \A t \in Type : registry[Lower[t]] \in Factory \cup {Missing}
  BY RegistryAssumption DEF TypeOK
<1>5. Explained(j, e) => x \in Entry
  BY <1>2 DEF Explained, Explanation
<1>6. UNCHANGED <<tables, cache, ops, look, history>>
  BY DEF ResolveAlias, ResolveExplained, Wrap
<1>7. ASSUME NEW f \in Factory, PutAlias(p, f) PROVE TypeOK' /\ LabelOK(p)'
  BY <1>6, <1>7, PutAliasType DEF TypeOK, tables, history, LabelOK
<1>8. ASSUME NEW label \in {"wrap", "alias2", "pick"},
             Goto(p, label), UNCHANGED job,
             label = "alias2" => Explained(j, e)
      PROVE  TypeOK' /\ LabelOK(p)'
  <2>1. pc' \in [Proc -> Labels] /\ pc'[p] = label
    BY <1>8 DEF Goto, TypeOK, Labels, RegisterLabels
  <2>2. pc[p] \in {"alias", "alias2", "wrap"}
    BY DEF ResolveAlias, ResolveExplained, Wrap
  <2> QED BY <1>6, <1>8, <2>1, <2>2
        DEF TypeOK, tables, history, LabelOK, Explained
<1>9. CASE ResolveAlias(p)
  <2> DEFINE f == registry[Lower[e.to]]
             nested == [x EXCEPT !.name = RegKey(e), !.ranged = e.ranged,
                                 !.lo = e.lo, !.hi = e.hi]
             saved == <<[bulk |-> j.bulk, todo |-> j.todo, cur |-> e,
                         flag |-> j.flag]>>
  <2>1. CASE f # Missing /\ PutAlias(p, f)
    BY <1>3, <1>4, <1>7, <2>1
  <2>2. CASE Goto(p, "wrap") /\ UNCHANGED job
    BY <1>8, <2>2
  <2>3. CASE Explained(j, e) /\ Goto(p, "alias2") /\ UNCHANGED job
    BY <1>8, <2>3
  <2>4. CASE /\ Explained(j, e)
             /\ job' = [job EXCEPT ![p] =
                  [IdleJob EXCEPT !.bulk = {nested}, !.todo = {nested},
                     !.saved = saved]]
             /\ Goto(p, "pick")
    <3>1. RegKey(e) \in Type BY <1>3, RegistryAssumption DEF RegKey
    <3>2. nested \in Entry
      <4>1. [x EXCEPT !.name = RegKey(e), !.ranged = e.ranged] \in Entry
        BY <1>3, <1>5, <2>4, <3>1 DEF Entry
      <4> QED BY <1>3, <4>1 DEF Entry
    <3>3. saved \in Seq(Frame) BY <1>2 DEF Frame
    <3>4. IdleJob \in JobLocals BY RegistryAssumption DEF IdleJob, JobLocals
    <3> HIDE DEF nested, saved
    <3>5. [IdleJob EXCEPT !.bulk = {nested}, !.todo = {nested},
                          !.saved = saved] \in JobLocals
      BY <3>2, <3>3, <3>4 DEF JobLocals
    <3>6. job' \in [Proc -> JobLocals] BY <2>4, <3>5 DEF TypeOK
    <3>7. pc' \in [Proc -> Labels] /\ pc'[p] = "pick"
      BY <2>4 DEF Goto, TypeOK, Labels, RegisterLabels
    <3> QED BY <1>6, <3>6, <3>7 DEF TypeOK, tables, history, LabelOK
  <2> QED BY <1>9, <2>1, <2>2, <2>3, <2>4 DEF ResolveAlias
<1>10. CASE ResolveExplained(p)
  <2>1. Explained(j, e) BY <1>10 DEF ResolveExplained, LabelOK
  <2>2. x.to \in Type BY <1>5, <2>1 DEF Entry
  <2> DEFINE f == registry[Lower[x.to]]
  <2>3. CASE f # Missing /\ PutAlias(p, f)
    BY <1>4, <1>7, <2>2, <2>3
  <2>4. CASE Goto(p, "wrap") /\ UNCHANGED job
    BY <1>8, <2>4
  <2> QED BY <1>10, <2>3, <2>4 DEF ResolveExplained
<1>11. CASE Wrap(p)
  <2>1. e.to \in Factory BY <1>3 DEF Factory
  <2>2. CASE PutAlias(p, e.to) BY <1>7, <2>1, <2>2
  <2>3. CASE Goto(p, "pick") /\ UNCHANGED job BY <1>8, <2>3
  <2> QED BY <1>11, <2>2, <2>3 DEF Wrap
<1> QED BY <1>9, <1>10, <1>11

LEMMA PutType ==
  ASSUME TypeOK, NEW p \in Proc, LabelOK(p),
         PutPlain(p) \/ ReadList(p) \/ PutList(p)
  PROVE  TypeOK' /\ LabelOK(p)'
<1> DEFINE j == job[p]
           e == j.cur
           k == RegKey(e)
<1>1. j \in JobLocals BY DEF TypeOK
<1>2. e \in Entry /\ e.lo \in Int /\ e.hi \in Int BY <1>1 DEF JobLocals, Entry
<1>3. k \in Key BY <1>2, RegistryAssumption DEF RegKey, Entry
<1>4. j.fac \in Factory
  BY <1>1 DEF JobLocals, LabelOK, PutPlain, ReadList, PutList
<1>5. StillSettled(e) \subseteq Entry BY DEF StillSettled, TypeOK
<1>6. [j EXCEPT !.flag = TRUE] \in JobLocals BY <1>1, JobUpdate
<1>7. CASE PutPlain(p)
  <2>1. UNCHANGED <<built, specials, v14, cache, ops, look, fresh, suspect>>
    BY <1>7 DEF PutPlain
  <2>2. CASE /\ Goto(p, "panicked")
             /\ UNCHANGED <<registry, job, unflushed, settled>>
    <3>1. pc' \in [Proc -> Labels] /\ pc'[p] = "panicked"
      BY <2>2 DEF Goto, TypeOK, Labels
    <3> QED BY <2>1, <2>2, <3>1 DEF TypeOK, LabelOK
  <2>3. CASE /\ registry' = [registry EXCEPT ![k] = j.fac]
             /\ job' = [job EXCEPT ![p].flag = TRUE]
             /\ unflushed' = unflushed \cup {p}
             /\ settled' = StillSettled(e)
             /\ Goto(p, "pick")
    <3>1. pc' \in [Proc -> Labels] /\ pc'[p] = "pick"
      BY <2>3 DEF Goto, TypeOK, Labels, RegisterLabels
    <3>2. job' \in [Proc -> JobLocals] BY <1>6, <2>3 DEF TypeOK
    <3>3. registry' \in [Key -> Factory \cup {Missing}]
      BY <1>3, <1>4, <2>3 DEF TypeOK
    <3> QED BY <1>5, <2>1, <2>3, <3>1, <3>2, <3>3 DEF TypeOK, LabelOK
  <2> QED BY <1>7, <2>2, <2>3 DEF PutPlain
<1>8. CASE ReadList(p)
  <2>1. specials[k] \in Seq(Special) BY <1>3 DEF TypeOK
  <2>2. [j EXCEPT !.list = specials[k]] \in JobLocals
    BY <1>1, <2>1, JobUpdate
  <2>3. job' = [job EXCEPT ![p] = [j EXCEPT !.list = specials[k]]]
    BY <1>8 DEF ReadList, TypeOK
  <2>4. job'[p].fac = j.fac BY <1>1, <2>3 DEF TypeOK, JobLocals
  <2>5. job' \in [Proc -> JobLocals] BY <2>2, <2>3 DEF TypeOK
  <2>6. pc' \in [Proc -> Labels] /\ pc'[p] = "putlist"
    BY <1>8 DEF ReadList, Goto, TypeOK, Labels, RegisterLabels
  <2>7. UNCHANGED <<tables, cache, ops, look, history>>
    BY <1>8 DEF ReadList
  <2>8. j.fac # Missing BY <1>8 DEF ReadList, LabelOK
  <2> QED BY <2>4, <2>5, <2>6, <2>7, <2>8
        DEF TypeOK, tables, history, LabelOK
<1>9. CASE PutList(p)
  <2> DEFINE sp == [lo |-> e.lo, hi |-> e.hi, factory |-> j.fac]
  <2>1. sp \in Special /\ j.list \in Seq(Special)
    BY <1>1, <1>2, <1>4 DEF Special, JobLocals
  <2>2. Append(j.list, sp) \in Seq(Special) BY <2>1, AppendProperties
  <2>3. specials' = [specials EXCEPT ![k] = Append(j.list, sp)]
    BY <1>9 DEF PutList
  <2> HIDE DEF sp
  <2>4. specials' \in [Key -> Seq(Special)]
    BY <1>3, <2>2, <2>3 DEF TypeOK
  <2>5. pc' \in [Proc -> Labels] /\ pc'[p] = "pick"
    BY <1>9 DEF PutList, Goto, TypeOK, Labels, RegisterLabels
  <2>6. job' \in [Proc -> JobLocals] BY <1>6, <1>9 DEF PutList, TypeOK
  <2>7. /\ unflushed' = unflushed \cup {p}
        /\ settled' = StillSettled(e)
        /\ UNCHANGED <<registry, built, v14, cache, ops, look, fresh, suspect>>
    BY <1>9 DEF PutList
  <2> QED BY <1>5, <2>4, <2>5, <2>6, <2>7 DEF TypeOK, LabelOK
<1> QED BY <1>7, <1>8, <1>9

LEMMA ResetType ==
  ASSUME TypeOK, NEW p \in Proc, ResetCache(p)
  PROVE  /\ DOMAIN cache' \subseteq Request
         /\ cache' \in [DOMAIN cache' -> Answer]
         /\ fresh' \in [Proc -> BOOLEAN]
         /\ suspect' \subseteq Request
         /\ unflushed' \subseteq Proc
BY DEF ResetCache, TypeOK

LEMMA FinishType ==
  ASSUME TypeOK, NEW p \in Proc, LabelOK(p), Finish(p)
  PROVE  TypeOK' /\ LabelOK(p)'
<1>1. /\ DOMAIN cache' \subseteq Request
      /\ cache' \in [DOMAIN cache' -> Answer]
      /\ fresh' \in [Proc -> BOOLEAN]
      /\ suspect' \subseteq Request
      /\ unflushed' \subseteq Proc
  BY ResetType DEF Finish, TypeOK
<1>2. Return(p) /\ UNCHANGED <<tables, ops, look>> BY DEF Finish
<1> QED BY <1>1, <1>2, ReturnType DEF TypeOK, tables, LabelOK

LEMMA CleanType ==
  ASSUME TypeOK, NEW p \in Proc, LabelOK(p),
         \/ BeginClean(p) \/ DropSpecials(p) \/ DropV14(p) \/ PublishBase(p)
         \/ CleanReset(p)
  PROVE  TypeOK' /\ LabelOK(p)'
<1>1. CASE BeginClean(p)
  <2>1. pc' \in [Proc -> Labels] /\ pc'[p] = "dropspecials"
    BY <1>1 DEF BeginClean, Goto, TypeOK, Labels, CleanLabels
  <2>2. Begin(p) BY <1>1 DEF BeginClean
  <2>3. registry' \in [Key -> Factory \cup {Missing}]
    BY <1>1 DEF BeginClean
  <2> QED BY <1>1, <2>1, <2>2, <2>3, BeginType
        DEF BeginClean, TypeOK, LabelOK
<1>2. CASE DropSpecials(p)
  <2>1. pc' \in [Proc -> Labels] /\ pc'[p] = "dropv14"
    BY <1>2 DEF DropSpecials, Goto, TypeOK, Labels, CleanLabels
  <2>2. specials' \in [Key -> Seq(Special)] BY <1>2 DEF DropSpecials
  <2> QED BY <1>2, <2>1, <2>2 DEF DropSpecials, TypeOK, LabelOK, history
<1>3. CASE DropV14(p)
  <2>1. pc' \in [Proc -> Labels] /\ pc'[p] = "publish"
    BY <1>3 DEF DropV14, Goto, TypeOK, Labels, CleanLabels
  <2> QED BY <1>3, <2>1 DEF DropV14, TypeOK, LabelOK, history
<1>4. CASE PublishBase(p)
  <2>1. pc' \in [Proc -> Labels] /\ pc'[p] = "cleanreset"
    BY <1>4 DEF PublishBase, Goto, TypeOK, Labels, CleanLabels
  <2>2. registry' \in [Key -> Factory \cup {Missing}]
    BY <1>4, RegistryAssumption DEF PublishBase
  <2> QED BY <1>4, <2>1, <2>2 DEF PublishBase, TypeOK, LabelOK, history
<1>5. CASE CleanReset(p)
  <2>1. pc' \in [Proc -> Labels] /\ pc'[p] = "pick"
    BY <1>5 DEF CleanReset, Goto, TypeOK, Labels, RegisterLabels
  <2>2. IdleJob \in JobLocals BY RegistryAssumption DEF IdleJob, JobLocals
  <2>3. BaseTypes \in SUBSET Entry BY RegistryAssumption
  <2>4. [IdleJob EXCEPT !.bulk = BaseTypes, !.todo = BaseTypes] \in JobLocals
    BY <2>2, <2>3 DEF JobLocals
  <2>5. job' \in [Proc -> JobLocals] BY <1>5, <2>4 DEF CleanReset, TypeOK
  <2>6. ResetCache(p) /\ UNCHANGED <<tables, ops, look, settled>>
    BY <1>5 DEF CleanReset
  <2> QED BY <2>1, <2>5, <2>6, ResetType DEF TypeOK, LabelOK, tables
<1> QED BY <1>1, <1>2, <1>3, <1>4, <1>5

(* A step of one goroutine leaves the locals of the others alone. *)
LEMMA OthersKept ==
  ASSUME TypeOK, NEW p \in Proc, Start(p) \/ Step(p),
         NEW q \in Proc, q # p
  PROVE  pc'[q] = pc[q] /\ look'[q] = look[q] /\ job'[q] = job[q]
<1> USE DEF TypeOK, Goto, Begin
<1>1. ASSUME NEW l, Deliver(p, l)
      PROVE  pc'[q] = pc[q] /\ look'[q] = look[q]
  BY <1>1 DEF Deliver
<1>2. ASSUME NEW r, Ask(p, r) PROVE pc'[q] = pc[q] /\ look'[q] = look[q]
  BY <1>2 DEF Ask
<1>3. ASSUME NEW f, Found(p, f) PROVE pc'[q] = pc[q] /\ look'[q] = look[q]
  BY <1>1, <1>3 DEF Found
<1>4. ASSUME Return(p) PROVE pc'[q] = pc[q] /\ job'[q] = job[q]
  BY <1>4 DEF Return
<1>5. ASSUME NEW e, Register(p, e) PROVE pc'[q] = pc[q] /\ job'[q] = job[q]
  BY <1>5 DEF Register
<1>6. ASSUME NEW f, PutAlias(p, f) PROVE pc'[q] = pc[q] /\ job'[q] = job[q]
  BY <1>6 DEF PutAlias
<1>7. ASSUME \/ \E r \in Lookups : BeginLookup(p, r)
             \/ ReadCache(p) \/ ReadSpecials(p) \/ InsertCache(p)
      PROVE  pc'[q] = pc[q] /\ look'[q] = look[q] /\ job'[q] = job[q]
  BY <1>1, <1>2, <1>3, <1>7
  DEF BeginLookup, ReadCache, ReadSpecials, InsertCache
<1>8. ASSUME ReadRegistry(p)
      PROVE  pc'[q] = pc[q] /\ look'[q] = look[q] /\ job'[q] = job[q]
  BY <1>1, <1>3, <1>8 DEF ReadRegistry, NotFound
<1>9. ASSUME \/ \E b \in Bulks : BeginRegister(p, b)
             \/ \E e \in OriginCallers : RegisterOriginCaller(p, e)
             \/ \E e \in job[p].todo : Pick(p, e)
             \/ CheckV14(p) \/ PutV14(p)
      PROVE  pc'[q] = pc[q] /\ look'[q] = look[q] /\ job'[q] = job[q]
  BY <1>2, <1>4, <1>5, <1>9
  DEF BeginRegister, RegisterOriginCaller, Pick, CheckV14, PutV14
<1>10. ASSUME Describe(p) \/ Compare(p)
       PROVE  pc'[q] = pc[q] /\ look'[q] = look[q] /\ job'[q] = job[q]
  BY <1>2, <1>4, <1>5, <1>10 DEF Describe, Compare
<1>11. ASSUME ResolveAlias(p) \/ ResolveExplained(p) \/ Wrap(p)
       PROVE  pc'[q] = pc[q] /\ look'[q] = look[q] /\ job'[q] = job[q]
  BY <1>6, <1>11 DEF ResolveAlias, ResolveExplained, Wrap
<1>12. ASSUME PutPlain(p) \/ ReadList(p) \/ PutList(p) \/ Finish(p)
       PROVE  pc'[q] = pc[q] /\ look'[q] = look[q] /\ job'[q] = job[q]
  BY <1>4, <1>12 DEF PutPlain, ReadList, PutList, Finish
<1>13. ASSUME \/ BeginClean(p) \/ DropSpecials(p) \/ DropV14(p)
              \/ PublishBase(p) \/ CleanReset(p)
       PROVE  pc'[q] = pc[q] /\ look'[q] = look[q] /\ job'[q] = job[q]
  BY <1>13 DEF BeginClean, DropSpecials, DropV14, PublishBase, CleanReset
<1> QED
  BY <1>7, <1>8, <1>9, <1>10, <1>11, <1>12, <1>13 DEF Start, Step

TypeInv == TypeOK /\ \A p \in Proc : LabelOK(p)

LEMMA TypeInvStep == TypeInv /\ [Next]_vars => TypeInv'
<1>1. ASSUME TypeInv, NEW p \in Proc, Start(p) \/ Step(p)
      PROVE  TypeInv'
  <2>1. TypeOK /\ LabelOK(p) BY <1>1 DEF TypeInv
  <2>2. TypeOK' /\ LabelOK(p)'
    BY <1>1, <2>1, LookupStepType, RegisterStartType, PickType, CheckV14Type,
       DescribeType, CompareType, AliasType, PutType, FinishType, CleanType
       DEF Start, Step
  <2>3. ASSUME NEW q \in Proc, q # p PROVE LabelOK(q)'
    <3>1. LabelOK(q) BY <1>1 DEF TypeInv
    <3>2. pc'[q] = pc[q] /\ look'[q] = look[q] /\ job'[q] = job[q]
      BY <1>1, <2>1, <2>3, OthersKept
    <3> QED BY <3>1, <3>2 DEF LabelOK, Explained
  <2> QED BY <2>2, <2>3 DEF TypeInv
<1>2. ASSUME TypeInv, UNCHANGED vars PROVE TypeInv'
  BY <1>2 DEF TypeInv, TypeOK, LabelOK, Explained, vars, tables, history
<1> QED BY <1>1, <1>2 DEF Next

LEMMA TypeInvariance == Spec => []TypeInv
<1>1. Init => TypeInv
  BY InitType DEF TypeInv, LabelOK, Init
<1> QED BY <1>1, TypeInvStep, PTL DEF Spec

(* The tables hold factories under lower-case keys, the cache answers under *)
(* requests, and goroutines are at one of the program's lock points with    *)
(* well-formed locals: for any number of goroutines, any types, any tables. *)
THEOREM TypeCorrect == Spec => []TypeOK
<1>1. TypeInv => TypeOK BY DEF TypeInv
<1> QED BY <1>1, TypeInvariance, PTL

-----------------------------------------------------------------------------
(* What a lookup no reset overtook has established so far. *)

Narrowed(l) ==
  \/ l.req = l.asked
  \/ InNamespace(l.asked) /\ Direct(l.asked) = Missing /\ l.req = Short(l.asked)

Tried(r, a) ==
  /\ a = "full" => r.type \in Generic
  /\ a # "full" /\ r.type \in Generic => Try(r, "full") = Missing
  /\ a = "tuple" => r.type \in Tuple /\ Try(r, "head") = Missing

LookOK(p) ==
  LET l == look[p] IN
  /\ pc[p] \in LookupLabels => Narrowed(l)
  /\ pc[p] \in {"special", "plain"} => Tried(l.req, l.attempt)
  /\ pc[p] = "plain" => ~ HasSpecial(Probe(l.req, l.attempt), l.req.spec)
  /\ pc[p] = "insert" => l.found = Direct(l.req)

Undisturbed(p) == fresh[p] /\ unflushed = {}

LooksOK == \A p \in Proc : Undisturbed(p) => LookOK(p)
CleanUnflushed == \A p \in Proc : pc[p] \in CleanLabels => p \in unflushed
CoherenceInv == TypeInv /\ CacheCoherent /\ CleanUnflushed /\ LooksOK

-----------------------------------------------------------------------------
(* Resolution is a function of the two tables it reads. *)
LEMMA TablesFix ==
  ASSUME UNCHANGED <<registry, specials>>
  PROVE  /\ \A n, s : HasSpecial(n, s)' <=> HasSpecial(n, s)
         /\ \A r, a : Try(r, a)' = Try(r, a)
         /\ \A r : Direct(r)' = Direct(r)
         /\ \A r : Resolve(r)' = Resolve(r)
         /\ \A l : Narrowed(l)' <=> Narrowed(l)
         /\ \A r, a : Tried(r, a)' <=> Tried(r, a)
<1>1. \A n, s : HasSpecial(n, s)' <=> HasSpecial(n, s)
  BY DEF HasSpecial
<1>2. \A n, s : Instant(n, s)' = Instant(n, s)
  BY <1>1 DEF Instant, FirstSpecial, Plain
<1>3. \A r, a : Try(r, a)' = Try(r, a)
  BY <1>2 DEF Try
<1>4. \A r : Direct(r)' = Direct(r)
  BY <1>3 DEF Direct
<1>5. \A r : Resolve(r)' = Resolve(r)
  BY <1>4 DEF Resolve
<1>6. \A l : Narrowed(l)' <=> Narrowed(l)
  BY <1>4 DEF Narrowed
<1>7. \A r, a : Tried(r, a)' <=> Tried(r, a)
  BY <1>3 DEF Tried
<1> QED BY <1>1, <1>3, <1>4, <1>5, <1>6, <1>7

(* The first attempt that succeeds is the answer. *)
LEMMA TriedFound ==
  ASSUME NEW r, NEW a \in {"full", "head", "tuple"}, Tried(r, a),
         Try(r, a) # Missing
  PROVE  Direct(r) = Try(r, a)
<1>1. CASE a = "full" BY <1>1 DEF Tried, Direct
<1>2. CASE a = "head" BY <1>2 DEF Tried, Direct
<1>3. CASE a = "tuple" BY <1>3 DEF Tried, Direct
<1> QED BY <1>1, <1>2, <1>3

(* There is none when the last attempt fails. *)
LEMMA TriedLast ==
  ASSUME NEW r, NEW a \in {"head", "tuple"}, Tried(r, a),
         Try(r, a) = Missing, a = "tuple" \/ r.type \notin Tuple
  PROVE  Direct(r) = Missing
<1>1. CASE a = "head" BY <1>1 DEF Tried, Direct
<1>2. CASE a = "tuple" BY <1>2 DEF Tried, Direct
<1> QED BY <1>1, <1>2

(* The last segment of a path has no namespace of its own. *)
LEMMA ShortNotInNamespace ==
  ASSUME NEW r \in Request, InNamespace(r)
  PROVE  Short(r) \in Request /\ ~ InNamespace(Short(r))
<1>1. r.type \in Path /\ LastOf[r.type] \in Type \ Path
  BY RegistryAssumption DEF InNamespace
<1>2. Short(r) \in Request /\ Short(r).type = LastOf[r.type]
  BY <1>1 DEF Short, Request
<1> QED BY <1>1, <1>2 DEF InNamespace

(* Narrowing a request to its last segment keeps its answer. *)
LEMMA NarrowedSame ==
  ASSUME NEW l, l.asked \in Request, Narrowed(l)
  PROVE  Resolve(l.asked) = Resolve(l.req)
<1>1. CASE l.req = l.asked BY <1>1
<1>2. CASE /\ InNamespace(l.asked) /\ Direct(l.asked) = Missing
           /\ l.req = Short(l.asked)
  <2>1. ~ InNamespace(l.req) BY <1>2, ShortNotInNamespace
  <2> QED BY <1>2, <2>1 DEF Resolve
<1> QED BY <1>1, <1>2 DEF Narrowed

LEMMA NarrowedCopy ==
  ASSUME NEW l, NEW m, m.asked = l.asked, m.req = l.req, Narrowed(l)
  PROVE  Narrowed(m)
BY DEF Narrowed

(* An attempt that found a factory. *)
LEMMA FoundCoherent ==
  ASSUME TypeOK, NEW p \in Proc, LookOK(p), pc[p] \in {"special", "plain"},
         NEW f \in Factory,
         f = Instant(Probe(look[p].req, look[p].attempt), look[p].req.spec),
         Found(p, f), UNCHANGED <<registry, specials>>
  PROVE  /\ LookOK(p)'
         /\ Answered(p) => look'[p].answer = Resolve(look[p].asked)
<1> DEFINE l == look[p]
           a == Outcome(l.req, l.attempt, f)
<1>1. l \in LookLocals BY DEF TypeOK
<1>2. /\ l.req \in Request /\ l.asked \in Request
      /\ l.attempt \in {"full", "head", "tuple"}
  BY <1>1 DEF LookLocals
<1>3. Narrowed(l) /\ Tried(l.req, l.attempt)
  BY DEF LookOK, LookupLabels
<1>4. a = Try(l.req, l.attempt)
  BY RegistryAssumption DEF Try
<1>5. CASE a = Missing
  <2>1. l.attempt = "tuple"
    <3>1. l.attempt # "tuple" => a \in Answer
      BY <1>2, RegistryAssumption DEF Outcome, Answer, Request, Factory
    <3> QED BY <1>2, <1>5, <3>1, RegistryAssumption
  <2>2. Direct(l.req) = Missing
    BY <1>3, <1>4, <1>5, <2>1, TriedLast
  <2>3. ~ InNamespace(l.req) BY <1>3, <2>1 DEF Tried, InNamespace
  <2>4. Resolve(l.asked) = Missing
    BY <1>2, <1>3, <2>2, <2>3, NarrowedSame DEF Resolve
  <2>5. Deliver(p, [l EXCEPT !.answer = Missing]) BY <1>5 DEF Found
  <2>6. pc'[p] \in {"idle", "describe"} /\ look'[p].answer = Missing
    BY <1>1, <2>5 DEF Deliver, Goto, TypeOK, LookLocals
  <2> QED BY <2>4, <2>6 DEF LookOK, LookupLabels
<1>6. CASE a # Missing
  <2>1. look' = [look EXCEPT ![p] = [l EXCEPT !.found = a]]
        /\ pc' = [pc EXCEPT ![p] = "insert"]
    BY <1>6 DEF Found, Goto, TypeOK
  <2>2. look'[p] = [l EXCEPT !.found = a] /\ pc'[p] = "insert"
    BY <2>1 DEF TypeOK
  <2> HIDE DEF a
  <2>3. /\ look'[p].found = a
        /\ look'[p].req = l.req /\ look'[p].asked = l.asked
    BY <1>1, <2>2 DEF LookLocals
  <2>4. a = Direct(l.req)
    BY <1>2, <1>3, <1>4, <1>6, TriedFound
  <2>5. Narrowed(look'[p]) BY <1>3, <2>3, NarrowedCopy
  <2>6. Narrowed(look[p])' BY <2>5, TablesFix
  <2>7. (look[p].found = Direct(look[p].req))' BY <2>3, <2>4, TablesFix
  <2> QED BY <2>2, <2>6, <2>7 DEF LookOK, Answered
<1> QED BY <1>5, <1>6

AnswerOf(p) ==
  Answered(p) /\ fresh[p] /\ unflushed = {} /\ look[p].req \notin suspect'
    => look'[p].answer = Resolve(look[p].asked)

LEMMA ReadCacheCoherent ==
  ASSUME CoherenceInv, NEW p \in Proc, ReadCache(p)
  PROVE  (Undisturbed(p)' => LookOK(p)') /\ AnswerOf(p)
<1> DEFINE l == look[p]
<1>1. l \in LookLocals /\ TypeOK
  BY DEF CoherenceInv, TypeInv, TypeOK
<1>2. l.req \in Request /\ l.asked \in Request
  BY <1>1 DEF LookLocals
<1>3. UNCHANGED <<registry, specials, fresh, unflushed, suspect>>
  BY DEF ReadCache, tables, history
<1>4. Undisturbed(p) => LookOK(p)
  BY DEF CoherenceInv, LooksOK
<1>5. pc[p] = "cache" BY DEF ReadCache
<1>6. CASE l.req \in DOMAIN cache
  <2>1. Deliver(p, [l EXCEPT !.answer = cache[l.req]])
    BY <1>6 DEF ReadCache
  <2>2. pc'[p] \in {"idle", "describe"} /\ look'[p].answer = cache[l.req]
    BY <1>1, <2>1 DEF Deliver, Goto, TypeOK, LookLocals
  <2>3. ASSUME Undisturbed(p), l.req \notin suspect
        PROVE  cache[l.req] = Resolve(l.asked)
    <3>1. cache[l.req] = Resolve(l.req)
      BY <1>6, <2>3 DEF CoherenceInv, CacheCoherent, Undisturbed
    <3>2. Narrowed(l) BY <1>4, <1>5, <2>3 DEF LookOK, LookupLabels
    <3>3. Resolve(l.asked) = Resolve(l.req)
      BY <1>2, <3>2, NarrowedSame
    <3> QED BY <3>1, <3>3
  <2> QED BY <1>3, <2>2, <2>3 DEF LookOK, LookupLabels, AnswerOf, Undisturbed
<1>7. CASE l.req \notin DOMAIN cache
  <2>1. look' = [look EXCEPT ![p].attempt = FirstAttempt(l.req)]
        /\ Goto(p, "special")
    BY <1>7 DEF ReadCache
  <2>2. /\ pc'[p] = "special"
        /\ look'[p].asked = l.asked /\ look'[p].req = l.req
        /\ look'[p].attempt = FirstAttempt(l.req)
    BY <1>1, <2>1 DEF Goto, TypeOK, LookLocals
  <2>3. Tried(l.req, FirstAttempt(l.req)) BY DEF Tried, FirstAttempt
  <2>4. Tried(look[p].req, look[p].attempt)'
    BY <1>3, <2>2, <2>3, TablesFix
  <2>5. Undisturbed(p) => Narrowed(look[p])'
    BY <1>3, <1>4, <1>5, <2>2, NarrowedCopy, TablesFix DEF LookOK, LookupLabels
  <2> QED BY <1>3, <2>2, <2>4, <2>5 DEF LookOK, Answered, AnswerOf, Undisturbed
<1> QED BY <1>6, <1>7

LEMMA ReadSpecialsCoherent ==
  ASSUME CoherenceInv, NEW p \in Proc, ReadSpecials(p)
  PROVE  (Undisturbed(p)' => LookOK(p)') /\ AnswerOf(p)
<1> DEFINE l == look[p]
           n == Probe(l.req, l.attempt)
           f == FirstSpecial(n, l.req.spec).factory
<1>1. l \in LookLocals /\ TypeOK
  BY DEF CoherenceInv, TypeInv, TypeOK
<1>2. l.req \in Request /\ l.req.spec \in Int /\ n \in Type
  BY <1>1, ProbeType, RegistryAssumption DEF LookLocals, Request
<1>3. UNCHANGED <<registry, specials, fresh, unflushed, suspect>>
  BY DEF ReadSpecials, tables, history
<1>4. Undisturbed(p) => LookOK(p)
  BY DEF CoherenceInv, LooksOK
<1>5. pc[p] = "special" BY DEF ReadSpecials
<1>6. CASE HasSpecial(n, l.req.spec)
  <2>1. FirstSpecial(n, l.req.spec) \in Special
    BY <1>1, <1>2, <1>6, FirstSpecialType DEF TypeOK
  <2>2. f \in Factory BY <2>1 DEF Special
  <2>3. f = Instant(n, l.req.spec) BY <1>6 DEF Instant
  <2>4. Found(p, f) BY <1>6 DEF ReadSpecials
  <2>5. Undisturbed(p) =>
          /\ LookOK(p)'
          /\ Answered(p) => look'[p].answer = Resolve(look[p].asked)
    BY <1>1, <1>3, <1>4, <1>5, <2>2, <2>3, <2>4, FoundCoherent
  <2> QED BY <1>3, <2>5 DEF Undisturbed, AnswerOf
<1>7. CASE ~ HasSpecial(n, l.req.spec)
  <2>1. pc'[p] = "plain" /\ look' = look
    BY <1>1, <1>7 DEF ReadSpecials, Goto, TypeOK
  <2>2. (~ HasSpecial(Probe(look[p].req, look[p].attempt), look[p].req.spec))'
    BY <1>3, <1>7, <2>1, TablesFix DEF Probe, ModuleType
  <2>3. Undisturbed(p) => /\ Narrowed(look[p])'
                          /\ Tried(look[p].req, look[p].attempt)'
    BY <1>3, <1>4, <1>5, <2>1, TablesFix DEF LookOK, LookupLabels
  <2> QED BY <1>3, <2>1, <2>2, <2>3 DEF LookOK, Answered, AnswerOf, Undisturbed
<1> QED BY <1>6, <1>7

(* An attempt that found nothing. *)
LEMMA NotFoundCoherent ==
  ASSUME TypeOK, NEW p \in Proc, LookOK(p), pc[p] = "plain",
         Try(look[p].req, look[p].attempt) = Missing,
         NotFound(p), UNCHANGED <<registry, specials>>
  PROVE  /\ LookOK(p)'
         /\ Answered(p) => look'[p].answer = Resolve(look[p].asked)
<1> DEFINE l == look[p]
<1>1. l \in LookLocals BY DEF TypeOK
<1>2. /\ l.req \in Request /\ l.asked \in Request
      /\ l.attempt \in {"full", "head", "tuple"}
  BY <1>1 DEF LookLocals
<1>3. Narrowed(l) /\ Tried(l.req, l.attempt)
  BY DEF LookOK, LookupLabels
<1>4. ASSUME NEW a \in {"head", "tuple"}, Tried(l.req, a),
             look' = [look EXCEPT ![p].attempt = a], Goto(p, "special")
      PROVE  LookOK(p)' /\ ~ Answered(p)
  <2>1. /\ pc'[p] = "special" /\ look'[p].attempt = a
        /\ look'[p].asked = l.asked /\ look'[p].req = l.req
    BY <1>1, <1>4 DEF Goto, TypeOK, LookLocals
  <2>2. Tried(look[p].req, look[p].attempt)' BY <1>4, <2>1, TablesFix
  <2>3. Narrowed(look[p])' BY <1>3, <2>1, NarrowedCopy, TablesFix
  <2> QED BY <2>1, <2>2, <2>3 DEF LookOK, Answered
<1>5. CASE /\ l.attempt = "full"
           /\ look' = [look EXCEPT ![p].attempt = "head"]
           /\ Goto(p, "special")
  <2>1. Tried(l.req, "head") BY <1>5 DEF Tried
  <2> QED BY <1>4, <1>5, <2>1
<1>6. CASE /\ l.attempt = "head" /\ l.req.type \in Tuple
           /\ look' = [look EXCEPT ![p].attempt = "tuple"]
           /\ Goto(p, "special")
  <2>1. Tried(l.req, "tuple") BY <1>3, <1>6 DEF Tried
  <2> QED BY <1>4, <1>6, <2>1
<1>7. CASE /\ l.attempt = "head" /\ InNamespace(l.req)
           /\ look' = [look EXCEPT ![p].req = Short(l.req)]
           /\ Goto(p, "cache")
  <2>1. /\ pc'[p] = "cache"
        /\ look'[p].asked = l.asked /\ look'[p].req = Short(l.req)
    BY <1>1, <1>7 DEF Goto, TypeOK, LookLocals
  <2>2. Direct(l.req) = Missing
    BY <1>2, <1>3, <1>7, TriedLast DEF InNamespace
  <2>3. l.req = l.asked
    BY <1>2, <1>3, <1>7, ShortNotInNamespace DEF Narrowed
  <2>4. Narrowed(look'[p]) BY <1>7, <2>1, <2>2, <2>3 DEF Narrowed
  <2>5. Narrowed(look[p])' BY <2>4, TablesFix
  <2> QED BY <2>1, <2>5 DEF LookOK, Answered
<1>8. CASE /\ l.attempt = "tuple" \/ l.req.type \notin Tuple \cup Path
           /\ l.attempt # "full"
           /\ Deliver(p, [l EXCEPT !.answer = Missing])
  <2>1. Direct(l.req) = Missing
    BY <1>2, <1>3, <1>8, TriedLast
  <2>2. ~ InNamespace(l.req) BY <1>3, <1>8 DEF Tried, InNamespace
  <2>3. Resolve(l.req) = Missing BY <2>1, <2>2 DEF Resolve
  <2>4. Resolve(l.asked) = Missing BY <1>2, <1>3, <2>3, NarrowedSame
  <2>5. pc'[p] \in {"idle", "describe"} /\ look'[p].answer = Missing
    BY <1>1, <1>8 DEF Deliver, Goto, TypeOK, LookLocals
  <2> QED BY <2>4, <2>5 DEF LookOK, LookupLabels
<1> QED BY <1>5, <1>6, <1>7, <1>8 DEF NotFound

LEMMA ReadRegistryCoherent ==
  ASSUME CoherenceInv, NEW p \in Proc, ReadRegistry(p)
  PROVE  (Undisturbed(p)' => LookOK(p)') /\ AnswerOf(p)
<1> DEFINE l == look[p]
           n == Probe(l.req, l.attempt)
           f == Plain(n)
<1>1. l \in LookLocals /\ TypeOK
  BY DEF CoherenceInv, TypeInv, TypeOK
<1>2. n \in Type /\ f \in Factory \cup {Missing}
  BY <1>1, ProbeType, PlainType DEF LookLocals, TypeOK
<1>3. UNCHANGED <<registry, specials, fresh, unflushed, suspect>>
  BY DEF ReadRegistry, tables, history
<1>4. Undisturbed(p) => LookOK(p)
  BY DEF CoherenceInv, LooksOK
<1>5. pc[p] = "plain" BY DEF ReadRegistry
<1>6. Undisturbed(p) => f = Instant(n, l.req.spec)
  BY <1>4, <1>5 DEF LookOK, Instant
<1>7. Undisturbed(p) =>
        /\ LookOK(p)'
        /\ Answered(p) => look'[p].answer = Resolve(look[p].asked)
  <2>1. CASE f # Missing
    <3>1. Found(p, f) BY <2>1 DEF ReadRegistry
    <3> QED BY <1>1, <1>2, <1>3, <1>4, <1>5, <1>6, <2>1, <3>1, FoundCoherent
  <2>2. CASE f = Missing
    <3>1. NotFound(p) BY <2>2 DEF ReadRegistry
    <3>2. Undisturbed(p) => Try(l.req, l.attempt) = Missing
      BY <1>6, <2>2 DEF Try
    <3> QED BY <1>1, <1>3, <1>4, <1>5, <3>1, <3>2, NotFoundCoherent
  <2> QED BY <2>1, <2>2
<1> QED BY <1>3, <1>7 DEF Undisturbed, AnswerOf

LEMMA InsertCacheCoherent ==
  ASSUME CoherenceInv, NEW p \in Proc, InsertCache(p)
  PROVE  /\ CacheCoherent'
         /\ Undisturbed(p)' => LookOK(p)'
         /\ AnswerOf(p)
<1> DEFINE l == look[p]
<1>1. l \in LookLocals /\ TypeOK /\ LabelOK(p)
  BY DEF CoherenceInv, TypeInv, TypeOK
<1>2. l.req \in Request /\ l.asked \in Request
  BY <1>1 DEF LookLocals
<1>3. UNCHANGED <<registry, specials, fresh, unflushed>>
  BY DEF InsertCache, tables
<1>4. pc[p] = "insert" /\ l.found # Missing
  BY <1>1 DEF InsertCache, LabelOK
<1>5. Undisturbed(p) => l.found = Resolve(l.req) /\ Narrowed(l)
  BY <1>4 DEF CoherenceInv, LooksOK, LookOK, LookupLabels, Resolve
<1>6. CacheCoherent'
  <2>1. SUFFICES ASSUME unflushed = {}, NEW r \in DOMAIN cache' \ suspect'
                 PROVE  cache'[r] = Resolve(r)
    BY <1>3, TablesFix DEF CacheCoherent
  <2>2. /\ cache' = [x \in DOMAIN cache \cup {l.req} |->
                       IF x = l.req THEN l.found ELSE cache[x]]
        /\ suspect' = IF fresh[p] THEN suspect \ {l.req}
                                  ELSE suspect \cup {l.req}
    BY DEF InsertCache
  <2>3. CASE r = l.req
    <3>1. fresh[p] BY <2>1, <2>2, <2>3
    <3> QED BY <1>5, <2>1, <2>2, <2>3, <3>1 DEF Undisturbed
  <2>4. CASE r # l.req
    <3>1. r \in DOMAIN cache \ suspect BY <2>1, <2>2, <2>4
    <3>2. cache[r] = Resolve(r)
      BY <2>1, <3>1 DEF CoherenceInv, CacheCoherent
    <3> QED BY <2>1, <2>2, <2>4, <3>2
  <2> QED BY <2>3, <2>4
<1>7. pc'[p] \in {"idle", "describe"} /\ look'[p].answer = l.found
  BY <1>1 DEF InsertCache, Deliver, Goto, TypeOK, LookLocals
<1>8. Undisturbed(p) => look'[p].answer = Resolve(l.asked)
  BY <1>2, <1>5, <1>7, NarrowedSame
<1>9. LookOK(p)' BY <1>7 DEF LookOK, LookupLabels
<1> QED BY <1>6, <1>8, <1>9 DEF AnswerOf, Undisturbed

-----------------------------------------------------------------------------
(* Registrations and Clean. *)

(* Asking a new question starts a lookup that has established nothing yet. *)
LEMMA AskCoherent ==
  ASSUME TypeOK, NEW p \in Proc, NEW r \in Request, Ask(p, r)
  PROVE  LookOK(p)' /\ pc'[p] = "cache"
<1>1. pc'[p] = "cache" BY DEF Ask, Goto, TypeOK
<1>2. look'[p] = [IdleLook EXCEPT !.asked = r, !.req = r]
  BY DEF Ask, TypeOK
<1>3. look'[p].asked = r /\ look'[p].req = r BY <1>2 DEF IdleLook
<1>4. Narrowed(look'[p]) BY <1>3 DEF Narrowed
<1>5. Narrowed(look[p])' BY <1>3 DEF Narrowed
<1> QED BY <1>1, <1>5 DEF LookOK

(* What a step can do to the cache and the tables behind it: fill nothing  *)
(* and leave the tables alone, empty the cache, or leave its goroutine     *)
(* with changes to flush.                                                  *)
Quiet == UNCHANGED <<registry, specials, cache, suspect, unflushed>>
Reset == /\ cache' = [r \in {} |-> Missing]
         /\ \A q \in Proc : ~ fresh'[q]
Dirty == unflushed' # {}

StepShape(p) ==
  /\ \/ Dirty /\ UNCHANGED fresh
     \/ Reset
     \/ Quiet /\ LookOK(p)' /\ \A q \in Proc \ {p} : fresh'[q] = fresh[q]
  /\ unflushed \ {p} \subseteq unflushed'
  /\ pc'[p] \in CleanLabels => p \in unflushed'
  /\ ~ Answered(p)

LEMMA RegisterShape ==
  ASSUME CoherenceInv, NEW p \in Proc,
         \/ \E r \in Lookups : BeginLookup(p, r)
         \/ \E b \in Bulks : BeginRegister(p, b)
         \/ \E e \in OriginCallers : RegisterOriginCaller(p, e)
         \/ \E e \in job[p].todo : Pick(p, e)
         \/ CheckV14(p) \/ PutV14(p) \/ Describe(p) \/ Compare(p)
         \/ ResolveAlias(p) \/ ResolveExplained(p) \/ Wrap(p) \/ ReadList(p)
  PROVE  StepShape(p)
<1> DEFINE j == job[p]
<1>1. TypeOK /\ LabelOK(p) /\ j \in JobLocals
  BY DEF CoherenceInv, TypeInv, TypeOK
<1>2. /\ UNCHANGED <<registry, specials, cache, suspect, unflushed>>
      /\ pc[p] \notin LookupLabels
  BY DEF BeginLookup, BeginRegister, RegisterOriginCaller, Pick, CheckV14,
         PutV14, Describe, Compare, ResolveAlias, ResolveExplained, Wrap,
         ReadList, Begin, LookupLabels, tables, history
<1>3. ASSUME NEW r \in Request, Ask(p, r) PROVE StepShape(p)
  <2>1. LookOK(p)' /\ pc'[p] = "cache" BY <1>1, <1>3, AskCoherent
  <2>2. \A q \in Proc \ {p} : fresh'[q] = fresh[q]
    BY <1>1, <1>3 DEF Ask, TypeOK
  <2> QED BY <1>2, <2>1, <2>2 DEF StepShape, Quiet, Answered, CleanLabels
<1>4. ASSUME UNCHANGED fresh, pc'[p] \in RegisterLabels \cup {"idle"}
      PROVE  StepShape(p)
  <2>1. LookOK(p)' BY <1>4 DEF LookOK, LookupLabels, RegisterLabels
  <2> QED BY <1>2, <1>4, <2>1
        DEF StepShape, Quiet, Answered, CleanLabels, RegisterLabels
<1>5. ASSUME NEW e \in Entry, Register(p, e)
      PROVE  pc'[p] \in RegisterLabels
  BY <1>1, <1>5, RegisterType DEF RegisterLabels
<1>6. ASSUME NEW label \in RegisterLabels, Goto(p, label)
      PROVE  pc'[p] \in RegisterLabels
  BY <1>1, <1>6 DEF Goto, TypeOK
<1>7. ASSUME Return(p) PROVE pc'[p] \in RegisterLabels \cup {"idle"}
  BY <1>1, <1>7, ReturnType DEF RegisterLabels
<1>8. j.cur \in Entry /\ j.todo \subseteq Entry BY <1>1 DEF JobLocals
<1>9. CASE \E r \in Lookups : BeginLookup(p, r)
  BY <1>3, <1>9, RegistryAssumption DEF BeginLookup
<1>10. CASE \E b \in Bulks : BeginRegister(p, b)
  BY <1>4, <1>6, <1>10 DEF BeginRegister, history, RegisterLabels
<1>11. CASE \E e \in OriginCallers : RegisterOriginCaller(p, e)
  BY <1>4, <1>6, <1>11 DEF RegisterOriginCaller, history, RegisterLabels
<1>12. CASE \E e \in job[p].todo : Pick(p, e)
  BY <1>4, <1>5, <1>6, <1>8, <1>12 DEF Pick, history, RegisterLabels
<1>13. CASE PutV14(p)
  BY <1>4, <1>5, <1>8, <1>13 DEF PutV14, history
<1>14. CASE CheckV14(p)
  <2>1. j.cur.name \in Type BY <1>8 DEF Entry
  <2>2. Question(j.cur.name) \in Request BY <2>1, QuestionType
  <2>3. \/ Ask(p, Question(j.cur.name))
        \/ UNCHANGED fresh /\ (Goto(p, "v14put") \/ Return(p))
    BY <1>14 DEF CheckV14
  <2> QED BY <1>3, <1>4, <1>6, <1>7, <2>2, <2>3 DEF RegisterLabels
<1>15. CASE Compare(p)
  <2> DEFINE e == j.cur
             ofSpec == [e EXCEPT !.ranged = TRUE, !.lo = e.spec, !.hi = e.spec]
  <2>1. e.to \in Type BY <1>8 DEF Entry
  <2>2. Question(e.to) \in Request BY <2>1, QuestionType
  <2>3. e.spec \in Int BY <1>8, RegistryAssumption DEF Entry
  <2>4. ofSpec \in Entry BY <1>8, <2>3 DEF Entry
  <2>5. \/ Ask(p, Question(e.to))
        \/ UNCHANGED fresh /\ (Register(p, ofSpec) \/ Return(p))
    BY <1>15 DEF Compare
  <2> HIDE DEF ofSpec
  <2> QED BY <1>3, <1>4, <1>5, <1>7, <2>2, <2>4, <2>5
<1>16. CASE Describe(p)
  <2>1. PICK rest \in Seq(AgendaItem) :
          IF rest # <<>>
          THEN Ask(p, Question(rest[1].type))
          ELSE Goto(p, "compare") /\ UNCHANGED <<look, fresh>>
    BY <1>1, <1>16, DescribeAgenda
  <2>2. CASE rest # <<>>
    <3>1. rest[1] \in AgendaItem BY <2>2, EmptySeq, ElementOfSeq
    <3>2. Question(rest[1].type) \in Request
      BY <3>1, QuestionType DEF AgendaItem
    <3> QED BY <1>3, <2>1, <2>2, <3>2
  <2>3. CASE rest = <<>>
    BY <1>4, <1>6, <2>1, <2>3 DEF RegisterLabels
  <2> QED BY <2>2, <2>3
<1>17. CASE ResolveAlias(p) \/ ResolveExplained(p) \/ Wrap(p) \/ ReadList(p)
  <2>1. UNCHANGED fresh
    BY <1>17 DEF ResolveAlias, ResolveExplained, Wrap, ReadList, history
  <2>2. \E label \in RegisterLabels : Goto(p, label)
    BY <1>17 DEF ResolveAlias, ResolveExplained, Wrap, ReadList, PutAlias,
                 PutLabel, RegisterLabels
  <2> QED BY <1>4, <1>6, <2>1, <2>2
<1> QED BY <1>9, <1>10, <1>11, <1>12, <1>13, <1>14, <1>15, <1>16, <1>17

LEMMA WriteShape ==
  ASSUME CoherenceInv, NEW p \in Proc,
         \/ PutPlain(p) \/ PutList(p) \/ Finish(p) \/ BeginClean(p)
         \/ DropSpecials(p) \/ DropV14(p) \/ PublishBase(p) \/ CleanReset(p)
  PROVE  StepShape(p)
<1> DEFINE j == job[p]
<1>1. TypeOK /\ CleanUnflushed BY DEF CoherenceInv, TypeInv
<1>2. pc[p] \notin LookupLabels
  BY DEF PutPlain, PutList, Finish, BeginClean, DropSpecials, DropV14,
         PublishBase, CleanReset, Begin, LookupLabels
<1>3. CASE PutPlain(p)
  <2>1. CASE /\ UNCHANGED <<registry, unflushed>>
             /\ Goto(p, "panicked")
    <3>1. pc'[p] = "panicked" BY <1>1, <2>1 DEF Goto, TypeOK
    <3>2. UNCHANGED <<specials, cache, suspect, fresh>>
      BY <1>3 DEF PutPlain
    <3>3. LookOK(p)' BY <3>1 DEF LookOK, LookupLabels
    <3> QED BY <1>2, <2>1, <3>1, <3>2, <3>3
          DEF StepShape, Quiet, Answered, CleanLabels
  <2>2. CASE unflushed' = unflushed \cup {p} /\ Goto(p, "pick")
    <3>1. pc'[p] = "pick" BY <1>1, <2>2 DEF Goto, TypeOK
    <3>2. UNCHANGED fresh BY <1>3 DEF PutPlain
    <3> QED BY <1>2, <2>2, <3>1, <3>2
          DEF StepShape, Dirty, Answered, CleanLabels
  <2> QED BY <1>3, <2>1, <2>2 DEF PutPlain
<1>4. CASE PutList(p)
  <2>1. pc'[p] = "pick" BY <1>1, <1>4 DEF PutList, Goto, TypeOK
  <2> QED BY <1>2, <1>4, <2>1
        DEF PutList, StepShape, Dirty, Answered, CleanLabels
<1>5. CASE Finish(p)
  <2>1. pc'[p] \in {"idle", "wrap"}
    BY <1>1, <1>5, ReturnType DEF Finish
  <2>2. UNCHANGED <<registry, specials>> BY <1>5 DEF Finish, tables
  <2>3. CASE ResetCache(p)
    BY <1>2, <2>1, <2>3
    DEF StepShape, Reset, ResetCache, Answered, CleanLabels
  <2>4. CASE UNCHANGED <<cache, fresh, suspect, unflushed>>
    <3>1. LookOK(p)' BY <2>1 DEF LookOK, LookupLabels
    <3> QED BY <1>2, <2>1, <2>2, <2>4, <3>1
          DEF StepShape, Quiet, Answered, CleanLabels
  <2> QED BY <1>5, <2>3, <2>4 DEF Finish
<1>6. CASE BeginClean(p)
  BY <1>2, <1>6 DEF BeginClean, StepShape, Dirty, Answered
<1>7. CASE DropSpecials(p) \/ DropV14(p) \/ PublishBase(p)
  <2>1. pc[p] \in CleanLabels /\ UNCHANGED <<unflushed, fresh>>
    BY <1>7 DEF DropSpecials, DropV14, PublishBase, CleanLabels, history
  <2>2. p \in unflushed BY <1>1, <2>1 DEF CleanUnflushed
  <2> QED BY <1>2, <2>1, <2>2 DEF StepShape, Dirty, Answered
<1>8. CASE CleanReset(p)
  <2>1. pc'[p] = "pick" BY <1>1, <1>8 DEF CleanReset, Goto, TypeOK
  <2> QED BY <1>2, <1>8, <2>1
        DEF CleanReset, ResetCache, StepShape, Reset, Answered, CleanLabels
<1> QED BY <1>3, <1>4, <1>5, <1>6, <1>7, <1>8

LEMMA OtherLook ==
  ASSUME NEW q \in Proc, LookOK(q), UNCHANGED <<registry, specials>>,
         pc'[q] = pc[q], look'[q] = look[q]
  PROVE  LookOK(q)'
<1>1. Narrowed(look[q]) => Narrowed(look[q])' BY TablesFix
<1>2. Tried(look[q].req, look[q].attempt)
        => Tried(look[q].req, look[q].attempt)'
  BY TablesFix
<1>3. (look[q].found = Direct(look[q].req))
        => (look[q].found = Direct(look[q].req))'
  BY TablesFix
<1>4. (~ HasSpecial(Probe(look[q].req, look[q].attempt), look[q].req.spec))
        => (~ HasSpecial(Probe(look[q].req, look[q].attempt), look[q].req.spec))'
  BY TablesFix DEF Probe, ModuleType
<1> QED BY <1>1, <1>2, <1>3, <1>4 DEF LookOK

(* Every step keeps the invariant, and a lookup it ends is answered from   *)
(* the tables.                                                             *)
LEMMA CoherenceStep ==
  ASSUME CoherenceInv, NEW p \in Proc, Start(p) \/ Step(p)
  PROVE  CoherenceInv' /\ AnswerOf(p)
<1>1. TypeInv' BY TypeInvStep DEF CoherenceInv, Next
<1>2. TypeOK BY DEF CoherenceInv, TypeInv
<1>3. \A q \in Proc \ {p} : pc'[q] = pc[q] /\ look'[q] = look[q]
  BY <1>2, OthersKept
<1>4. CASE \/ ReadCache(p) \/ ReadSpecials(p) \/ ReadRegistry(p)
           \/ InsertCache(p)
  <2>1. UNCHANGED <<registry, specials, fresh, unflushed>>
    BY <1>4 DEF ReadCache, ReadSpecials, ReadRegistry, InsertCache, tables,
                history
  <2>2. (Undisturbed(p)' => LookOK(p)') /\ AnswerOf(p)
    BY <1>4, ReadCacheCoherent, ReadSpecialsCoherent, ReadRegistryCoherent,
       InsertCacheCoherent
  <2>3. CacheCoherent'
    <3>1. CASE InsertCache(p) BY <3>1, InsertCacheCoherent
    <3>2. CASE ReadCache(p) \/ ReadSpecials(p) \/ ReadRegistry(p)
      <4>1. UNCHANGED <<cache, suspect, unflushed>>
        BY <3>2 DEF ReadCache, ReadSpecials, ReadRegistry, history
      <4> QED BY <2>1, <4>1, TablesFix DEF CoherenceInv, CacheCoherent
    <3> QED BY <1>4, <3>1, <3>2
  <2>4. LooksOK'
    BY <1>3, <2>1, <2>2, OtherLook DEF CoherenceInv, LooksOK, Undisturbed
  <2>5. pc'[p] \notin CleanLabels
    BY <1>1, <1>2, <1>4
    DEF ReadCache, ReadSpecials, ReadRegistry, InsertCache, Found, NotFound,
        Deliver, Goto, TypeOK, CleanLabels
  <2>6. CleanUnflushed'
    BY <1>3, <2>1, <2>5 DEF CoherenceInv, CleanUnflushed
  <2> QED BY <1>1, <2>2, <2>3, <2>4, <2>6 DEF CoherenceInv
<1>5. CASE StepShape(p)
  <2>1. AnswerOf(p) BY <1>5 DEF StepShape, AnswerOf
  <2>2. CleanUnflushed'
    BY <1>3, <1>5 DEF CoherenceInv, CleanUnflushed, StepShape
  <2>3. CacheCoherent' /\ LooksOK'
    <3>1. CASE Dirty
      BY <3>1 DEF Dirty, CacheCoherent, LooksOK, Undisturbed
    <3>2. CASE Reset
      BY <3>2 DEF Reset, CacheCoherent, LooksOK, Undisturbed
    <3>3. CASE Quiet /\ LookOK(p)' /\ \A q \in Proc \ {p} : fresh'[q] = fresh[q]
      <4>1. CacheCoherent'
        BY <3>3, TablesFix DEF Quiet, CoherenceInv, CacheCoherent
      <4>2. LooksOK'
        BY <1>3, <3>3, OtherLook DEF Quiet, CoherenceInv, LooksOK, Undisturbed
      <4> QED BY <4>1, <4>2
    <3> QED BY <1>5, <3>1, <3>2, <3>3 DEF StepShape
  <2> QED BY <1>1, <2>1, <2>2, <2>3 DEF CoherenceInv
<1> QED BY <1>4, <1>5, RegisterShape, WriteShape DEF Start, Step

LEMMA CoherenceInit == Init => CoherenceInv
<1>1. Init => TypeInv BY InitType DEF TypeInv, LabelOK, Init
<1> QED
  BY <1>1
  DEF CoherenceInv, CacheCoherent, CleanUnflushed, LooksOK, LookOK,
      LookupLabels, CleanLabels, Init

LEMMA CoherenceStutter == CoherenceInv /\ UNCHANGED vars => CoherenceInv'
<1> SUFFICES ASSUME CoherenceInv, UNCHANGED vars PROVE CoherenceInv'
  OBVIOUS
<1>1. TypeInv' BY TypeInvStep DEF CoherenceInv
<1>2. UNCHANGED <<registry, specials, cache, suspect, unflushed, fresh, pc,
                  look>>
  BY DEF vars, tables, history
<1>3. CacheCoherent' BY <1>2, TablesFix DEF CoherenceInv, CacheCoherent
<1>4. CleanUnflushed' BY <1>2 DEF CoherenceInv, CleanUnflushed
<1>5. LooksOK'
  BY <1>2, OtherLook DEF CoherenceInv, LooksOK, Undisturbed
<1> QED BY <1>1, <1>3, <1>4, <1>5 DEF CoherenceInv

LEMMA CoherenceInvariance == Spec => []CoherenceInv
<1>1. CoherenceInv /\ [Next]_vars => CoherenceInv'
  BY CoherenceStep, CoherenceStutter DEF Next
<1> QED BY <1>1, CoherenceInit, PTL DEF Spec

(* The cache agrees with the tables whenever no registration or Clean has  *)
(* still to reset it, except at keys inserted by a lookup a reset          *)
(* overtook.                                                               *)
THEOREM CacheCoherence == Spec => []CacheCoherent
<1>1. CoherenceInv => CacheCoherent BY DEF CoherenceInv
<1> QED BY <1>1, CoherenceInvariance, PTL

(* GetCodec answers what the tables hold when it returns, if no reset      *)
(* overtook it, none is due and it did not hit an entry such a lookup left *)
(* behind.                                                                 *)
THEOREM LookupsCurrent == Spec => AnswersCurrent
<1>1. CoherenceInv /\ [Next]_vars => [AnswerCurrent]_vars
  <2>1. ASSUME CoherenceInv, NEW p \in Proc, Start(p) \/ Step(p)
        PROVE  AnswerCurrent
    <3>1. AnswerOf(p) BY <2>1, CoherenceStep
    <3>2. TypeOK BY <2>1 DEF CoherenceInv, TypeInv
    <3>3. ASSUME NEW q \in Proc, q # p PROVE ~ Answered(q)
      BY <2>1, <3>2, <3>3, OthersKept DEF Answered, LookupLabels
    <3> QED BY <3>1, <3>3 DEF AnswerCurrent, AnswerOf
  <2> QED BY <2>1 DEF Next
<1> QED BY <1>1, CoherenceInvariance, PTL DEF Spec, AnswersCurrent
=============================================================================
