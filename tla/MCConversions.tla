----------------------------- MODULE MCConversions -----------------------------
(* Instances of Conversions for TLC: bytes of eight values, words of four bits. *)
EXTENDS Conversions

(* Divisors: every small one, and those that need a correction.             *)
Divisors == {u \in TwoWords : u # Zero /\ (u.hi < 3 \/ u.lo \in {0, 1, 7, 15})}

HexOf == ("0" :> <<"3", "0">>) @@ ("x" :> <<"7", "8">>) @@ ("a" :> <<"6", "1">>)
           @@ ("high" :> <<"f", "f">>) @@ ("nul" :> <<"0", "0">>)
           @@ [d \in {"1", "3", "6", "7", "8"} |-> <<"3", d>>] @@ ("f" :> <<"6", "6">>)
MCHex(b) == HexOf[b]
Texts == UNION {[1..n -> {"0", "x", "a", "high", "nul"}] : n \in 0..4}

(* Leaves as a runtime writes them, in the middle of other bytes.           *)
Bs == {0, 1, 4, 7}
Accounts == [1..4 -> Bs]
MCDigestParts == <<<<Vector>>, <<Vector>>, <<3, 4>>, <<2, Vector>>, <<>>>>
MCDigest == [i \in 0..4 |-> MCDigestParts[i + 1]]
VectorOf == {EncodeCompact(Len(s)) \o s : s \in UNION {[1..n -> {0, 5}] : n \in 0..3}}
Written ==
  {<<"Era", "era", s>> : s \in {<<0>>} \cup {<<a, b>> : a \in 1..7, b \in 0..7}}
  \cup {<<c, "account", s>> : c \in {"H256", "AccountId"}, s \in Accounts}
  \cup {<<c, "account", s>> : c \in {"Address", "GenericAddress", "GenericLookupSource"}, s \in Accounts}
  \cup {<<c, "prefixed", <<7>> \o s>> : c \in {"Address", "GenericAddress", "GenericLookupSource"}, s \in Accounts}
  \cup {<<c, "index", s>> : c \in {"Address", "GenericAddress", "GenericLookupSource"},
          s \in {<<b>> : b \in 0..3} \cup UNION {{<<f>> \o t : t \in [1..(2 ^ (f - 3)) -> {0, 5}]} : f \in 4..6}}
  \cup {<<"Float64", "float", s>> : s \in [1..2 -> Bs]}
  \cup {<<"Data", "none", <<0>>>>} \cup {<<"Data", "raw", <<1 + Len(s)>> \o s>> : s \in UNION {[1..n -> Bs] : n \in 0..2}}
  \cup {<<"Data", "hash", <<i>> \o s>> : i \in 4..7, s \in Accounts}
  \cup {<<"BitVec", "bits", EncodeCompact(n) \o [i \in 1..Whole(n) |-> b]>> : n \in 0..20, b \in Bs}
  \cup {<<"LogDigest", "item", <<0>> \o s>> : s \in VectorOf}
  \cup {<<"LogDigest", "root", <<1>> \o s>> : s \in [1..4 -> {0, 1, 4}]}
  \cup {<<"LogDigest", "item", <<2>> \o s>> : s \in [1..7 -> {0, 5}]}
  \cup {<<"LogDigest", "item", <<3, 1, 2>> \o s>> : s \in VectorOf} \cup {<<"LogDigest", "item", <<4>>>>}
  \cup {<<"CLike", "name", <<i>>>> : i \in 0..7}
MCUtf8 == UNION {[1..n -> {1, 4}] : n \in 0..2}
MCCLike == <<[name |-> "a", index |-> 0], [name |-> "b", index |-> 5], [name |-> "c", index |-> 2]>>

(* Metadata of a module or two, each list empty, changed or longer.         *)
Fn(n, args) == [name |-> n, args |-> args]
Item(n, o, v) == [name |-> n, origin |-> o, value |-> v]
Calls == {<<>>, <<Fn("f", <<>>)>>, <<Fn("f", <<"u8">>)>>, <<Fn("f", <<"alias">>)>>, <<Fn("f", <<"u16">>)>>,
          <<Fn("f", <<"u8", "u16">>)>>, <<Fn("f", <<"u16", "u8">>)>>, <<Fn("g", <<"u8">>), Fn("f", <<"u8">>)>>}
Stored == {<<>>, <<Item("s", "PlainType", "u8")>>, <<Item("s", "PlainType", "alias")>>,
           <<Item("s", "MapType", "u16")>>, <<Item("s", "NMapType", "u8")>>, <<Item("s", "NMapType", "u16")>>}
Module(n, c, e, s) == [name |-> n, calls |-> c, events |-> e, storage |-> s]
One == {<<Module("A", c, <<>>, s)>> : c \in Calls, s \in Stored}
         \cup {<<Module("A", <<>>, e, <<>>)>> : e \in Calls}
Two == {<<>>} \cup {<<Module(n, c, <<>>, <<>>)>> : n \in {"A", "B"}, c \in {<<Fn("f", <<"u8">>)>>, <<Fn("f", <<>>)>>}}
         \cup {<<Module(IF up THEN "A" ELSE "B", c, <<>>, <<>>), Module(IF up THEN "B" ELSE "A", <<>>, d, <<>>)>> :
                  up \in BOOLEAN, c \in Calls, d \in {<<>>, <<Fn("f", <<"u8">>)>>}}
MCTypeStruct(t) == IF t = "alias" THEN "u8" ELSE t

Near(n) == {Size(n) - 1, Size(n) \div 4 - 1, Size(n) \div 4, Size(n) \div 2}
MCTask ==
<<{[codec |-> c, n |-> n, v |-> v] : c \in {"int", "wide"}, n \in {1, 2, 4}, v \in -80..80},
  {[codec |-> "int", n |-> 2, v |-> v] : v \in -33..33},
  {[codec |-> c, n |-> n, v |-> v] : c \in {"U", "alias", "U128"}, n \in {1, 2, 4}, v \in -70..70},
  {[codec |-> "U256", n |-> n, v |-> v] : n \in {4}, v \in 0..300 \cup {-1}},
  {[codec |-> "compact", n |-> n, v |-> v] :
          n \in {1, 2, 4, 8}, v \in -1..70 \cup UNION {Near(k) : k \in 2..6}},
  {[codec |-> "set", n |-> n, v |-> v, list |-> <<"a", "b", "c", "d">>] :
          n \in {2, 4}, v \in 0..63},
  {[codec |-> "set", n |-> 1, v |-> v, list |-> <<"a", "b", "c", "d">>] : v \in 0..7},
  {[codec |-> "set", n |-> 8, v |-> v, list |-> <<"a", "b", "c", "d">>] :
          v \in UNION {m..(m + 20) :
                          m \in {0, Size(8) \div 4, Size(8) \div 2 - 20, Size(8) \div 2 + 1, Size(8) - 21}}},
  {[codec |-> "set", n |-> 8, v |-> v, list |-> [k \in 1..24 |-> k]] :
          v \in {2 ^ i + 2 ^ j : i, j \in 0..22} \cup {Size(8) \div 2 - 1}},
  {[codec |-> c, v |-> v] : c \in {"Bytes", "HexBytes", "String"}, v \in Texts},
  {[codec |-> "divide", u |-> u, v |-> v] : u \in TwoWords, v \in Divisors},
  {[codec |-> "print", u |-> u] : u \in TwoWords},
  {[codec |-> w[1], form |-> w[2], v |-> w[3], before |-> b, after |-> a] :
          w \in Written, b \in {<<>>, <<3>>, <<7, 6>>}, a \in {<<>>, <<1>>, <<7, 0, 2>>}},
  {[codec |-> "compare", a |-> a, b |-> b] : a \in One, b \in One},
  {[codec |-> "compare", a |-> a, b |-> b] : a \in Two, b \in Two}>>
=============================================================================
