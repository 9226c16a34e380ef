--------------------------- MODULE CodecRegistry ---------------------------
(***************************************************************************)
(* The process-global type registry of package types: TypeRegistry,        *)
(* specialRegistry, V14Types and codecCache, and the three operations      *)
(* goroutines run against them: GetCodec, RegCustomTypes and Clean.        *)
(*                                                                         *)
(* Every table has a lock of its own and every critical section is one map *)
(* access, so one action below is one critical section (or one unlocked    *)
(* assignment of Clean) with the local code up to the next one.            *)
(*                                                                         *)
(* Type strings are opaque: what the code parses out of them is given by   *)
(* the constant functions Lower, HeadOf, ArgOf, LastOf and the sets       *)
(* Generic, Tuple, Array, Path, Wrapper.  A factory is either a Body (a    *)
(* struct, enum, set or built-in codec) or the type string a wrapper,      *)
(* tuple or fixed-array factory was built from.                            *)
(***************************************************************************)
EXTENDS Integers, Sequences, FiniteSets

CONSTANTS
  Proc,          \* goroutines
  Reader,        \* those that decode or encode: they call GetCodec
  Registrar,     \* those that call RegCustomTypes or register OriginCaller
  Cleaner,       \* those that call Clean
  Type,          \* type strings, as ConvertType leaves them
  Key,           \* the lower-case ones, under which codecs are registered
  Lower,         \* strings.ToLower on type strings
  Generic, HeadOf, ArgOf,   \* "Head<Arg>" strings and their two parts
  Tuple,         \* "(...)" strings
  Array,         \* lower-case "[T; n]" strings
  Path, LastOf,  \* "a::b" strings and their last segment
  Wrapper,       \* strings RegCustomTypes itself can turn into a factory
  StructType,    \* the type string "Struct"
  StructBody,    \* the codec registered for it
  ModuleName, LowerModule,  \* module names and strings.ToLower on them
  NoModule,      \* the empty module name
  Overrides,     \* typesModules: module -> lower-case type -> type
  SpecVersion,   \* runtime spec versions lookups are made for
  Body,          \* codec bodies
  Unnamed,       \* bodies whose TypeStructString is "" (field-less structs)
  Parts,         \* answer -> the type strings TypeStructString descends into
  Nesting,       \* structs, enums and tuples: a description counts them
  Restarting,    \* maps, results and arrays: it counts from 0 inside them
  BaseRegistry,  \* the table regBaseType publishes
  BaseTypes,     \* the bulk of source.BaseType
  Booted,        \* the table once package init() has registered that bulk
  Bulks,         \* the maps passed to RegCustomTypes
  OriginCallers, \* the entries registerOriginCaller registers
  Lookups,       \* the requests readers make
  Missing,       \* no codec, no string
  NoRequest, NoEntry,  \* fillers for locals that are not in use
  MaxOps         \* bound: the operations each goroutine may start

VARIABLES
  registry,   \* TypeRegistry: Key -> factory or Missing
  built,      \* FALSE while TypeRegistry is the nil map
  specials,   \* specialRegistry: Key -> sequence of ranged factories
  v14,        \* the names in V14Types
  cache,      \* codecCache: request -> answer
  pc,         \* what each goroutine does next
  ops,        \* operations each goroutine has started
  look,       \* locals of GetCodec
  job,        \* locals of RegCustomTypes
  fresh,      \* history: no cache reset since this lookup began
  suspect,    \* history: keys cached by a lookup a reset overtook
  unflushed,  \* history: goroutines that changed a table since their last reset
  settled     \* history: V14 entries whose registration has returned

tables == <<registry, built, specials, v14>>
history == <<fresh, suspect, unflushed, settled>>
vars == <<tables, cache, pc, ops, look, job, history>>

-----------------------------------------------------------------------------
(* Values *)

Factory == Body \cup Type
Special == [lo : Int, hi : Int, factory : Factory]
Request == [type : Type, module : ModuleName, spec : SpecVersion]
Answer  == [factory : Factory, sub : Type \cup {Missing}]

(* source.TypeStruct with its map key: name, and the "#lo-hi" suffix.      *)
Entry == [name : Type, ranged : BOOLEAN, lo : Int, hi : Int,
          v14 : BOOLEAN, spec : SpecVersion,
          kind : {"alias", "body"}, to : Type, body : Body]

(* The locals of a RegCustomTypes call suspended by the nested call of     *)
(* line 71.                                                                *)
Frame == [bulk : SUBSET Entry, todo : SUBSET Entry, cur : Entry,
          flag : BOOLEAN]

RegKey(e) == Lower[e.name]

ASSUME RegistryAssumption ==
  /\ Key \subseteq Type /\ Lower \in [Type -> Key]
  /\ \A k \in Key : Lower[k] = k
  /\ Generic \subseteq Type /\ HeadOf \in [Generic -> Type]
  /\ ArgOf \in [Generic -> Type]
  /\ Path \subseteq Type /\ LastOf \in [Path -> Type \ Path]
  /\ StructType \in Type /\ StructBody \in Body
  /\ LowerModule \in [ModuleName -> ModuleName] /\ NoModule \in ModuleName
  /\ \A m \in DOMAIN Overrides :
        DOMAIN Overrides[m] \subseteq Key /\ Overrides[m] \in [DOMAIN Overrides[m] -> Type]
  /\ SpecVersion \subseteq Int /\ 0 \in SpecVersion
  /\ Unnamed \subseteq Body /\ Parts \in [Answer -> Seq(Type)]
  /\ Nesting \subseteq Factory /\ Restarting \subseteq Factory \ Nesting
  /\ BaseRegistry \in [Key -> Factory \cup {Missing}]
  /\ Booted \in [Key -> Factory \cup {Missing}]
  /\ \A k \in Key : BaseRegistry[k] # Missing => Booted[k] # Missing
  /\ Missing \notin Factory /\ Missing \notin Answer
  /\ BaseTypes \subseteq Entry /\ OriginCallers \subseteq Entry
  /\ \A b \in Bulks : b \subseteq Entry
  /\ \A e \in BaseTypes \cup OriginCallers : ~ e.ranged /\ ~ e.v14
  /\ \A e \in OriginCallers : e.kind = "body"
  /\ NoRequest \in Request /\ NoEntry \in Entry
  /\ Lookups \subseteq Request /\ MaxOps \in [Proc -> Nat]

(* TypeStruct.V14 has no JSON name: only ScaleInfo sets it, and it passes  *)
(* RegCustomTypes one type at a time.                                      *)
ASSUME SingletonV14 ==
  \A b \in Bulks : (\E e \in b : e.v14) => \A x, y \in b : x = y

-----------------------------------------------------------------------------
(* Resolution of a request against given tables, without the cache.        *)

ModuleType(t, m) ==
  LET lm == LowerModule[m] IN
  IF lm \in DOMAIN Overrides /\ t \in DOMAIN Overrides[lm]
  THEN Overrides[lm][t] ELSE t

(* Definitions named ...Bug are mutated forms: no action uses them, they    *)
(* show which slip each property would notice.                             *)
CoversBug(sp, s) == sp.lo <= s /\ s < sp.hi

Covers(sp, s) == sp.lo <= s /\ s <= sp.hi

HasSpecial(n, s) ==
  n \in Key /\ \E i \in DOMAIN specials[n] : Covers(specials[n][i], s)

FirstSpecial(n, s) ==
  specials[n][CHOOSE i \in DOMAIN specials[n] :
                /\ Covers(specials[n][i], s)
                /\ \A j \in 1..(i - 1) : ~ Covers(specials[n][j], s)]

Plain(n) ==
  IF registry[Lower[n]] # Missing THEN registry[Lower[n]]
  ELSE IF n \in Array THEN n ELSE Missing

(* The name attempt a of a GetCodec call asks getCodecInstant for.         *)
Probe(r, a) ==
  ModuleType(Lower[IF a = "tuple" THEN StructType
                   ELSE IF a = "head" /\ r.type \in Generic THEN HeadOf[r.type]
                   ELSE r.type],
             r.module)

FirstAttempt(r) == IF r.type \in Generic THEN "full" ELSE "head"

(* What GetCodec returns, and caches, when attempt a finds factory f.      *)
Outcome(r, a, f) ==
  IF a = "tuple"
  THEN IF f = StructBody THEN [factory |-> r.type, sub |-> Missing] ELSE Missing
  ELSE [factory |-> f,
        sub |-> IF a = "head" /\ r.type \in Generic THEN ArgOf[r.type]
                ELSE Missing]

Instant(n, s) ==
  IF HasSpecial(n, s) THEN FirstSpecial(n, s).factory ELSE Plain(n)

Try(r, a) ==
  LET f == Instant(Probe(r, a), r.spec) IN
  IF f = Missing THEN Missing ELSE Outcome(r, a, f)

Direct(r) ==
  IF r.type \in Generic /\ Try(r, "full") # Missing THEN Try(r, "full")
  ELSE IF Try(r, "head") # Missing THEN Try(r, "head")
  ELSE IF r.type \in Tuple THEN Try(r, "tuple")
  ELSE Missing

InNamespace(r) == r.type \in Path \ Tuple
Short(r) == [r EXCEPT !.type = LastOf[r.type]]

Resolve(r) ==
  IF Direct(r) # Missing \/ ~ InNamespace(r) THEN Direct(r)
  ELSE Direct(Short(r))

-----------------------------------------------------------------------------
(* Initial state: package init() has run regBaseType. *)

IdleLook == [asked |-> NoRequest, req |-> NoRequest, attempt |-> "head",
             found |-> Missing, answer |-> Missing]
IdleJob  == [bulk |-> {}, todo |-> {}, cur |-> NoEntry, flag |-> FALSE,
             saved |-> <<>>, fac |-> Missing, list |-> <<>>,
             agenda |-> <<>>, desc |-> <<>>]

Init ==
  /\ registry = Booted
  /\ built = TRUE
  /\ specials = [k \in Key |-> <<>>]
  /\ v14 = {}
  /\ cache = [r \in {} |-> Missing]
  /\ pc = [p \in Proc |-> "idle"]
  /\ ops = [p \in Proc |-> 0]
  /\ look = [p \in Proc |-> IdleLook]
  /\ job = [p \in Proc |-> IdleJob]
  /\ fresh = [p \in Proc |-> TRUE]
  /\ suspect = {}
  /\ unflushed = {}
  /\ settled = {}

Goto(p, label) == pc' = [pc EXCEPT ![p] = label]

Begin(p) ==
  /\ pc[p] = "idle"
  /\ ops[p] < MaxOps[p]
  /\ ops' = [ops EXCEPT ![p] = @ + 1]

-----------------------------------------------------------------------------
(* GetCodec.  A registrar runs it too, to describe a type (job.agenda not  *)
(* empty), and then carries on with its description.                       *)

Ask(p, r) ==
  /\ look' = [look EXCEPT ![p] = [IdleLook EXCEPT !.asked = r, !.req = r]]
  /\ fresh' = [fresh EXCEPT ![p] = TRUE]
  /\ Goto(p, "cache")

BeginLookup(p, r) ==
  /\ p \in Reader
  /\ Begin(p)
  /\ Ask(p, r)
  /\ UNCHANGED <<tables, cache, job, suspect, unflushed, settled>>

Deliver(p, l) ==
  /\ look' = [look EXCEPT ![p] = l]
  /\ Goto(p, IF job[p].agenda = <<>> THEN "idle" ELSE "describe")

(* The cache lookup under codecCacheLock.RLock. *)
ReadCache(p) ==
  LET l == look[p] IN
  /\ pc[p] = "cache"
  /\ IF l.req \in DOMAIN cache
     THEN Deliver(p, [l EXCEPT !.answer = cache[l.req]])
     ELSE /\ look' = [look EXCEPT ![p].attempt = FirstAttempt(l.req)]
          /\ Goto(p, "special")
  /\ UNCHANGED <<tables, cache, ops, job, history>>

Found(p, f) ==
  LET l == look[p]
      a == Outcome(l.req, l.attempt, f)
  IN IF a = Missing
     THEN Deliver(p, [l EXCEPT !.answer = Missing])
     ELSE /\ look' = [look EXCEPT ![p].found = a]
          /\ Goto(p, "insert")

(* specialVersionCodec: the slice is read under specialRegistryLock.RLock. *)
ReadSpecials(p) ==
  LET l == look[p]
      n == Probe(l.req, l.attempt)
  IN /\ pc[p] = "special"
     /\ IF HasSpecial(n, l.req.spec)
        THEN Found(p, FirstSpecial(n, l.req.spec).factory)
        ELSE Goto(p, "plain") /\ UNCHANGED look
     /\ UNCHANGED <<tables, cache, ops, job, history>>

NotFoundBug(p) ==
  IF look[p].attempt = "full"
  THEN Deliver(p, [look[p] EXCEPT !.answer = Missing])
  ELSE look[p].attempt # "full" /\ UNCHANGED <<look, pc>>

NotFound(p) ==
  LET l == look[p] IN
  \/ /\ l.attempt = "full"
     /\ look' = [look EXCEPT ![p].attempt = "head"]
     /\ Goto(p, "special")
  \/ /\ l.attempt = "head"
     /\ l.req.type \in Tuple
     /\ look' = [look EXCEPT ![p].attempt = "tuple"]
     /\ Goto(p, "special")
  \/ /\ l.attempt = "head"
     /\ InNamespace(l.req)
     /\ look' = [look EXCEPT ![p].req = Short(l.req)]
     /\ Goto(p, "cache")
  \/ /\ l.attempt = "tuple" \/ l.req.type \notin Tuple \cup Path
     /\ l.attempt # "full"
     /\ Deliver(p, [l EXCEPT !.answer = Missing])

(* The table read under TypeRegistryLock.RLock, and the fixed-array form.  *)
ReadRegistry(p) ==
  LET f == Plain(Probe(look[p].req, look[p].attempt)) IN
  /\ pc[p] = "plain"
  /\ IF f # Missing THEN Found(p, f) ELSE NotFound(p)
  /\ UNCHANGED <<tables, cache, ops, job, history>>

(* The insertion under codecCacheLock.Lock. *)
InsertCache(p) ==
  LET l == look[p] IN
  /\ pc[p] = "insert"
  /\ cache' = [r \in DOMAIN cache \cup {l.req} |->
                 IF r = l.req THEN l.found ELSE cache[r]]
  /\ suspect' = IF fresh[p] THEN suspect \ {l.req} ELSE suspect \cup {l.req}
  /\ Deliver(p, [l EXCEPT !.answer = l.found])
  /\ UNCHANGED <<tables, ops, job, fresh, unflushed, settled>>

-----------------------------------------------------------------------------
(* RegCustomTypes *)

PutLabel(e) == IF e.ranged THEN "readlist" ELSE "putplain"

(* Leaving a RegCustomTypes call: back to the caller of the nested one, or *)
(* to the program.                                                         *)
Return(p) ==
  LET j == job[p] IN
  \/ /\ j.saved = <<>>
     /\ job' = [job EXCEPT ![p] = IdleJob]
     /\ settled' = settled \cup {e \in j.bulk : e.v14}
     /\ Goto(p, "idle")
  \/ /\ j.saved # <<>>
     /\ LET f == j.saved[1] IN
        job' = [job EXCEPT ![p] =
                  [j EXCEPT !.bulk = f.bulk, !.todo = f.todo, !.cur = f.cur,
                            !.flag = f.flag, !.saved = <<>>]]
     /\ Goto(p, "wrap")
     /\ UNCHANGED settled

BeginRegister(p, b) ==
  /\ p \in Registrar
  /\ Begin(p)
  /\ job' = [job EXCEPT ![p] = [IdleJob EXCEPT !.bulk = b, !.todo = b]]
  /\ Goto(p, "pick")
  /\ UNCHANGED <<tables, cache, look, history>>

(* registerOriginCaller: one regCustomKey that resets the cache itself. *)
RegisterOriginCaller(p, e) ==
  /\ p \in Registrar
  /\ Begin(p)
  /\ job' = [job EXCEPT ![p] = [IdleJob EXCEPT !.cur = e, !.fac = e.body]]
  /\ Goto(p, "putplain")
  /\ UNCHANGED <<tables, cache, look, history>>

(* What becomes of entry e once its key is known. *)
Register(p, e) ==
  /\ job' = [job EXCEPT ![p] =
               [job[p] EXCEPT !.cur = e, !.todo = job[p].todo \ {e},
                              !.fac = IF e.kind = "body" THEN e.body ELSE Missing,
                              !.agenda = <<>>, !.desc = <<>>]]
  /\ Goto(p, IF e.kind = "alias" THEN "alias" ELSE PutLabel(e))

(* The next entry in Go's random map order. *)
Pick(p, e) ==
  /\ pc[p] = "pick"
  /\ e \in job[p].todo
  /\ \/ ~ e.v14 /\ Register(p, e)
     \/ /\ e.v14
        /\ job' = [job EXCEPT ![p].cur = e, ![p].todo = job[p].todo \ {e}]
        /\ Goto(p, "v14check")
  /\ UNCHANGED <<tables, cache, ops, look, history>>

Question(t) == [type |-> t, module |-> NoModule, spec |-> 0]

(* A type to be described, not as a part of another one. *)
Whole(t) == [type |-> t, top |-> TRUE, depth |-> 0]

(* Known V14 name: compare with what it resolves to at spec 0 first. *)
CheckV14(p) ==
  LET e == job[p].cur IN
  /\ pc[p] = "v14check"
  /\ \/ /\ e.name \notin v14
        /\ Goto(p, "v14put")
        /\ UNCHANGED <<job, look, fresh, settled>>
     \/ /\ e.name \in v14 /\ e.spec = 0
        /\ Return(p)
        /\ UNCHANGED <<look, fresh>>
     \/ /\ e.name \in v14 /\ e.spec # 0
        /\ job' = [job EXCEPT ![p].agenda = <<Whole(e.name)>>]
        /\ Ask(p, Question(e.name))
        /\ UNCHANGED settled
  /\ UNCHANGED <<tables, cache, ops, suspect, unflushed>>

PutV14(p) ==
  /\ pc[p] = "v14put"
  /\ v14' = v14 \cup {job[p].cur.name}
  /\ Register(p, job[p].cur)
  /\ UNCHANGED <<registry, built, specials, cache, ops, look, history>>

limitRecursiveTime == 5


SubTypes(a, d) ==
  LET counted == a # Missing /\ a.factory \in Nesting
      parts == IF a = Missing \/ (counted /\ d >= limitRecursiveTime)
               THEN <<>> ELSE Parts[a]
      below == IF counted THEN d + 1
               ELSE IF a # Missing /\ a.factory \in Restarting THEN 0 ELSE d
  IN [i \in 1..Len(parts) |->
        [type |-> parts[i], top |-> FALSE, depth |-> below]]

(* getTypeStructString: one more lookup of the description done. *)
Describe(p) ==
  LET j == job[p]
      a == look[p].answer
      item == Head(j.agenda)
      rest == SubTypes(a, item.depth) \o Tail(j.agenda)
      desc == IF item.top THEN Append(j.desc, a) ELSE j.desc
  IN /\ pc[p] = "describe"
     /\ job' = [job EXCEPT ![p].agenda = rest, ![p].desc = desc]
     /\ IF rest # <<>>
        THEN Ask(p, Question(rest[1].type))
        ELSE Goto(p, "compare") /\ UNCHANGED <<look, fresh>>
     /\ UNCHANGED <<tables, cache, ops, suspect, unflushed, settled>>

(* TypeStructString names a generic codec by its head and argument however *)
(* the codec was reached.                                                  *)
Shape(a) ==
  IF a = Missing THEN a
  ELSE IF a.factory \in Generic
       THEN [factory |-> BaseRegistry[Lower[HeadOf[a.factory]]],
             sub |-> ArgOf[a.factory]]
       ELSE a

Nameless(a) == IF a = Missing THEN TRUE ELSE a.factory \in Unnamed

(* EqTypeStringWithTypeStruct: equal, or not distinguishable, leaves the   *)
(* whole RegCustomTypes call; different makes this a type of that spec.    *)
Compare(p) ==
  LET j == job[p]
      e == j.cur
      ofSpec == [e EXCEPT !.ranged = TRUE, !.lo = e.spec, !.hi = e.spec]
      same == IF Nameless(j.desc[1]) THEN TRUE
              ELSE Len(j.desc) = 2 /\ Shape(j.desc[1]) = Shape(j.desc[2])
      askTarget == e.kind = "alias" /\ Len(j.desc) = 1 /\ ~ same
  IN /\ pc[p] = "compare"
     /\ \/ /\ askTarget
           /\ job' = [job EXCEPT ![p].agenda = <<Whole(e.to)>>]
           /\ Ask(p, Question(e.to))
           /\ UNCHANGED settled
        \/ same /\ Return(p) /\ UNCHANGED <<look, fresh>>
        \/ /\ ~ askTarget /\ ~ same
           /\ Register(p, ofSpec)
           /\ UNCHANGED <<look, fresh, settled>>
     /\ UNCHANGED <<tables, cache, ops, suspect, unflushed>>

Explained(j, e) == \E x \in j.bulk : ~ x.ranged /\ x.name = e.to
Explanation(j, e) == CHOOSE x \in j.bulk : ~ x.ranged /\ x.name = e.to

PutAlias(p, f) ==
  /\ job' = [job EXCEPT ![p].fac = f]
  /\ Goto(p, PutLabel(job[p].cur))

ResolveAliasBug(p) ==
  LET f == registry[Lower[job[p].cur.to]] IN
  /\ pc[p] = "alias"
  /\ IF f # Missing THEN PutAlias(p, f) ELSE Goto(p, "wrap") /\ UNCHANGED job
  /\ UNCHANGED <<tables, cache, ops, look, history>>

(* A "string" entry copies the factory its target has now; failing that,   *)
(* the entry of this very bulk that explains the target.                   *)
ResolveAlias(p) ==
  LET j == job[p]
      e == j.cur
      f == registry[Lower[e.to]]
      x == Explanation(j, e)
      nested == [x EXCEPT !.name = RegKey(e), !.ranged = e.ranged,
                          !.lo = e.lo, !.hi = e.hi]
  IN /\ pc[p] = "alias"
     /\ \/ f # Missing /\ PutAlias(p, f)
        \/ /\ f = Missing /\ ~ Explained(j, e)
           /\ Goto(p, "wrap") /\ UNCHANGED job
        \/ /\ f = Missing /\ Explained(j, e) /\ x.kind = "alias"
           /\ Goto(p, "alias2") /\ UNCHANGED job
        \/ /\ f = Missing /\ Explained(j, e) /\ x.kind = "body"
           /\ job' = [job EXCEPT ![p] =
                [IdleJob EXCEPT !.bulk = {nested}, !.todo = {nested},
                   !.saved = <<[bulk |-> j.bulk, todo |-> j.todo,
                                cur |-> e, flag |-> j.flag]>>]]
           /\ Goto(p, "pick")
     /\ UNCHANGED <<tables, cache, ops, look, history>>

ResolveExplained(p) ==
  LET j == job[p]
      f == registry[Lower[Explanation(j, j.cur).to]]
  IN /\ pc[p] = "alias2"
     /\ IF f # Missing THEN PutAlias(p, f) ELSE Goto(p, "wrap") /\ UNCHANGED job
     /\ UNCHANGED <<tables, cache, ops, look, history>>

(* Vec, Option, Compact, BTreeMap, BTreeSet, Result, tuples and arrays get *)
(* a factory that resolves the inner string when it runs; any other string *)
(* registers nothing.                                                      *)
Wrap(p) ==
  LET e == job[p].cur IN
  /\ pc[p] = "wrap"
  /\ IF e.to \in Wrapper THEN PutAlias(p, e.to)
                         ELSE Goto(p, "pick") /\ UNCHANGED job
  /\ UNCHANGED <<tables, cache, ops, look, history>>

(* History: an entry that is not V14 takes its key from V14 entries.       *)
StillSettled(e) ==
  IF e.v14 THEN settled ELSE {x \in settled : RegKey(x) # RegKey(e)}

PutPlainBug(p) ==
  /\ pc[p] = "putplain"
  /\ built
  /\ registry' = [registry EXCEPT ![RegKey(job[p].cur)] = job[p].fac]
  /\ unflushed' = unflushed \cup {p}
  /\ settled' = StillSettled(job[p].cur)
  /\ Goto(p, "pick")
  /\ UNCHANGED <<built, specials, v14, cache, ops, look, job, fresh, suspect>>

(* regCustomKey, plain key; writing to the nil map panics. *)
PutPlain(p) ==
  LET e == job[p].cur IN
  /\ pc[p] = "putplain"
  /\ \/ /\ ~ built
        /\ Goto(p, "panicked")
        /\ UNCHANGED <<registry, job, unflushed, settled>>
     \/ /\ built
        /\ registry' = [registry EXCEPT ![RegKey(e)] = job[p].fac]
        /\ job' = [job EXCEPT ![p].flag = TRUE]
        /\ unflushed' = unflushed \cup {p}
        /\ settled' = StillSettled(e)
        /\ Goto(p, "pick")
  /\ UNCHANGED <<built, specials, v14, cache, ops, look, fresh, suspect>>

ReadListBug(p) ==
  /\ pc[p] = "readlist"
  /\ job' = [job EXCEPT ![p].list = <<>>]
  /\ Goto(p, "putlist")
  /\ UNCHANGED <<tables, cache, ops, look, history>>

(* regCustomKey, "#" key: the slice is read in one critical section and    *)
(* its extension written back in another.                                  *)
ReadList(p) ==
  /\ pc[p] = "readlist"
  /\ job' = [job EXCEPT ![p].list = specials[RegKey(job[p].cur)]]
  /\ Goto(p, "putlist")
  /\ UNCHANGED <<tables, cache, ops, look, history>>

PutList(p) ==
  LET j == job[p]
      e == j.cur
  IN /\ pc[p] = "putlist"
     /\ specials' = [specials EXCEPT ![RegKey(e)] =
                       Append(j.list, [lo |-> e.lo, hi |-> e.hi,
                                       factory |-> j.fac])]
     /\ job' = [job EXCEPT ![p].flag = TRUE]
     /\ unflushed' = unflushed \cup {p}
     /\ settled' = StillSettled(e)
     /\ Goto(p, "pick")
     /\ UNCHANGED <<registry, built, v14, cache, ops, look, fresh, suspect>>

ResetCacheBug(p) ==
  /\ fresh' = [q \in Proc |-> FALSE]
  /\ suspect' = {}
  /\ unflushed' = unflushed \ {p}
  /\ UNCHANGED cache

(* resetCodecCache. *)
ResetCache(p) ==
  /\ cache' = [r \in {} |-> Missing]
  /\ fresh' = [q \in Proc |-> FALSE]
  /\ suspect' = {}
  /\ unflushed' = unflushed \ {p}

(* The end of the loop: reset the cache if anything was registered. *)
Finish(p) ==
  /\ pc[p] = "pick"
  /\ job[p].todo = {}
  /\ IF job[p].flag THEN ResetCache(p)
                    ELSE UNCHANGED <<cache, fresh, suspect, unflushed>>
  /\ Return(p)
  /\ UNCHANGED <<tables, ops, look>>

-----------------------------------------------------------------------------
(* Clean: three unlocked assignments, then regBaseType. *)

BeginClean(p) ==
  /\ p \in Cleaner
  /\ Begin(p)
  /\ registry' = [k \in Key |-> Missing]
  /\ built' = FALSE
  /\ unflushed' = unflushed \cup {p}
  /\ settled' = {}
  /\ Goto(p, "dropspecials")
  /\ UNCHANGED <<specials, v14, cache, look, job, fresh, suspect>>

DropSpecialsBug(p) ==
  /\ pc[p] = "dropspecials"
  /\ specials' = [k \in {} |-> <<>>]
  /\ Goto(p, "dropv14")
  /\ UNCHANGED <<registry, built, v14, cache, ops, look, job, history>>

DropSpecials(p) ==
  /\ pc[p] = "dropspecials"
  /\ specials' = [k \in Key |-> <<>>]
  /\ Goto(p, "dropv14")
  /\ UNCHANGED <<registry, built, v14, cache, ops, look, job, history>>

DropV14(p) ==
  /\ pc[p] = "dropv14"
  /\ v14' = {}
  /\ Goto(p, "publish")
  /\ UNCHANGED <<registry, built, specials, cache, ops, look, job, history>>

PublishBaseBug(p) ==
  /\ pc[p] = "publish"
  /\ built' = TRUE
  /\ Goto(p, "cleanreset")
  /\ UNCHANGED <<registry, specials, v14, cache, ops, look, job, history>>

PublishBase(p) ==
  /\ pc[p] = "publish"
  /\ registry' = BaseRegistry
  /\ built' = TRUE
  /\ Goto(p, "cleanreset")
  /\ UNCHANGED <<specials, v14, cache, ops, look, job, history>>

CleanReset(p) ==
  /\ pc[p] = "cleanreset"
  /\ ResetCache(p)
  /\ job' = [job EXCEPT ![p] = [IdleJob EXCEPT !.bulk = BaseTypes,
                                               !.todo = BaseTypes]]
  /\ Goto(p, "pick")
  /\ UNCHANGED <<tables, ops, look, settled>>

-----------------------------------------------------------------------------
Step(p) ==
  \/ ReadCache(p) \/ ReadSpecials(p) \/ ReadRegistry(p) \/ InsertCache(p)
  \/ \E e \in job[p].todo : Pick(p, e)
  \/ CheckV14(p) \/ PutV14(p) \/ Describe(p) \/ Compare(p)
  \/ ResolveAlias(p) \/ ResolveExplained(p) \/ Wrap(p)
  \/ PutPlain(p) \/ ReadList(p) \/ PutList(p) \/ Finish(p)
  \/ DropSpecials(p) \/ DropV14(p) \/ PublishBase(p) \/ CleanReset(p)

Start(p) ==
  \/ \E r \in Lookups : BeginLookup(p, r)
  \/ \E b \in Bulks : BeginRegister(p, b)
  \/ \E e \in OriginCallers : RegisterOriginCaller(p, e)
  \/ BeginClean(p)

Next == \E p \in Proc : Start(p) \/ Step(p)

(* A goroutine that has started an operation is scheduled until it ends:   *)
(* no lock is held across a step, so every step stays enabled.             *)
Spec == Init /\ [][Next]_vars /\ \A p \in Proc : WF_vars(Step(p))

-----------------------------------------------------------------------------
(* Properties *)

LookupLabels == {"cache", "special", "plain", "insert"}
RegisterLabels == {"pick", "v14check", "v14put", "describe", "compare", "alias",
                   "alias2", "wrap", "putplain", "readlist", "putlist"}
CleanLabels == {"dropspecials", "dropv14", "publish", "cleanreset"}

Labels == {"idle", "panicked"} \cup LookupLabels \cup RegisterLabels
          \cup CleanLabels

AgendaItem == [type : Type, top : BOOLEAN, depth : Nat]
LookLocals == [asked : Request, req : Request,
               attempt : {"full", "head", "tuple"},
               found : Answer \cup {Missing}, answer : Answer \cup {Missing}]
JobLocals == [bulk : SUBSET Entry, todo : SUBSET Entry, cur : Entry,
              flag : BOOLEAN, saved : Seq(Frame), fac : Factory \cup {Missing},
              list : Seq(Special), agenda : Seq(AgendaItem),
              desc : Seq(Answer \cup {Missing})]

(* The tables hold factories under lower-case keys, the cache answers under *)
(* requests, and every goroutine is at one of the program's lock points.    *)
TypeOK ==
  /\ registry \in [Key -> Factory \cup {Missing}]
  /\ built \in BOOLEAN
  /\ specials \in [Key -> Seq(Special)]
  /\ v14 \subseteq Type
  /\ DOMAIN cache \subseteq Request /\ cache \in [DOMAIN cache -> Answer]
  /\ pc \in [Proc -> Labels]
  /\ ops \in [Proc -> Nat] /\ \A p \in Proc : ops[p] <= MaxOps[p]
  /\ look \in [Proc -> LookLocals]
  /\ job \in [Proc -> JobLocals]
  /\ fresh \in [Proc -> BOOLEAN]
  /\ suspect \subseteq Request
  /\ unflushed \subseteq Proc
  /\ settled \subseteq Entry

(* The cache never disagrees with the tables it was filled from, except    *)
(* while a registration has yet to reset it and for the keys inserted by a *)
(* lookup that a reset overtook between its first read and its insertion   *)
(* (the entry then stays stale until the next reset).                      *)
CacheCoherent ==
  unflushed = {} => \A r \in DOMAIN cache \ suspect : cache[r] = Resolve(r)

Answered(p) == pc[p] \in LookupLabels /\ pc'[p] \in {"idle", "describe"}

(* GetCodec answers, found or not, what the tables hold when it returns,   *)
(* if no reset overtook it, no registration is waiting for its reset and   *)
(* it did not hit such a stale key.                                        *)
AnswerCurrent ==
  \A p \in Proc :
    Answered(p) /\ fresh[p] /\ unflushed = {} /\ look[p].req \notin suspect'
      => look'[p].answer = Resolve(look[p].asked)

AnswersCurrent == [][AnswerCurrent]_vars

(* RegCustomTypes and Clean never return to the program with changes the   *)
(* cache was not reset for, the nested registration of line 71 included.   *)
ReturnsFlushed ==
  \A p \in Proc : pc[p] = "idle" => p \notin unflushed

(* A built-in codec is never lost, whatever is registered over it, except  *)
(* while a Clean is under way; and only then can a registration panic.     *)
BaseNeverLost ==
  \/ \E p \in Proc : pc[p] \in {"dropspecials", "dropv14", "publish"}
  \/ /\ built
     /\ \A k \in Key : BaseRegistry[k] # Missing => registry[k] # Missing

OneRegistrar == \A p, q \in Registrar \cup Cleaner : p = q

(* A versioned registration is never dropped or replaced by a later one,   *)
(* short of Clean, when registrations do not overlap: the read and the     *)
(* write of regCustomKey are separate critical sections.                   *)
SpecialsKept ==
  [][OneRegistrar =>
       \/ \A k \in Key : /\ Len(specials[k]) <= Len(specials'[k])
                         /\ \A i \in 1..Len(specials[k]) :
                              specials'[k][i] = specials[k][i]
       \/ \E p \in Proc : pc[p] = "dropspecials"]_vars

(* The history types: once the registration of a V14 type for a spec has   *)
(* returned, lookups at that spec resolve to it, whatever other specs and  *)
(* types are registered later.                                             *)
HistoryKept ==
  (\A p \in Registrar : pc[p] = "idle") =>
    \A e \in settled : e.kind = "body" /\ e.spec # 0 =>
      Resolve([type |-> e.name, module |-> NoModule, spec |-> e.spec])
        = [factory |-> e.body, sub |-> Missing]

(* The same of a V14 alias: once registered for a spec at which its target *)
(* is known, it resolves at that spec, if at all, to what the target does. *)
HistoryAlias ==
  [][\A e \in settled' \ settled :
       LET at(t) == Resolve([type |-> t, module |-> NoModule, spec |-> e.spec])
       IN (/\ e.kind = "alias"
           /\ \E x \in settled : x.name = e.to /\ x.spec = e.spec
           /\ at(e.name)' # Missing)
          => at(e.name)' = at(e.to)']_vars

(* A key only bulk b binds. *)
OnlyIn(b, k) ==
  /\ Booted[k] = Missing
  /\ \A c \in Bulks \ {b} : \A e \in c : RegKey(e) # k

(* The outcome of a bulk does not depend on the order Go's map iteration   *)
(* takes: an alias of a type the same bulk explains is that type, whether  *)
(* the alias or its target is visited first.  Not so for a target that is  *)
(* spelled as a tuple or a generic: visited after its alias, it leaves the *)
(* alias the plain wrapper, for Wrap follows the explanation.              *)
BulkExplained ==
  [][\A p \in Proc :
       pc[p] = "pick" /\ pc'[p] = "idle" /\ OneRegistrar =>
         \A e, x \in {y \in job[p].bulk : ~ y.ranged} :
           (/\ e.kind = "alias" /\ x.name = e.to
            /\ x.kind = "body" /\ e.to \notin Wrapper
            /\ OnlyIn(job[p].bulk, RegKey(x)))
           => registry'[RegKey(e)] = x.body]_vars


(* The types metadata registers for the specs they come from.              *)
Hist == {e \in UNION Bulks : e.v14 /\ e.kind = "body" /\ e.spec # 0}
HistoryKey == {RegKey(e) : e \in Hist}

(* Registrations do not overlap, and the name of a history type is that of *)
(* a struct or enum of the metadata: it is no generic, tuple or array      *)
(* string, no override touches it, nothing but metadata registers a codec  *)
(* under its key, no other name has that key, a spec has one type of that  *)
(* name, and the comparison with the type already known, which takes       *)
(* field-less structs for equal to anything, finds no such struct.         *)
OrderlyHistory ==
  /\ OneRegistrar
  /\ \A e \in Hist :
       /\ e.name \notin Generic \cup Tuple /\ RegKey(e) \notin Array
       /\ ModuleType(RegKey(e), NoModule) = RegKey(e)
       /\ Booted[RegKey(e)] \notin Unnamed
       /\ BaseRegistry[RegKey(e)] \notin Unnamed
       /\ \A x \in (UNION Bulks) \cup BaseTypes \cup OriginCallers :
            RegKey(x) = RegKey(e) =>
              /\ x.v14 /\ ~ x.ranged /\ x.kind = "body" /\ x.body \notin Unnamed
              /\ x.name = e.name
              /\ x.spec = e.spec => x.body = e.body
=============================================================================
