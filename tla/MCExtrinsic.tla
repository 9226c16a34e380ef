------------------------------ MODULE MCExtrinsic ------------------------------
(* Instances of ExtrinsicClient for TLC.                                    *)
EXTENDS ExtrinsicClient

(* Type names with a width; a compact of any width is the same bytes.       *)
Widths == [t \in {"ExtrinsicSigner", "Address"} |-> 33] @@ [t \in {"AccountId", "Holder"} |-> 32]
            @@ ("ExtrinsicSignature" :> 65) @@ ("call" :> 2) @@ ("Part12" :> 12) @@ ("Hash" :> 64)
            @@ ("Part58" :> 58)
MCWidth(tok) == IF tok.kind \in DOMAIN Widths THEN Widths[tok.kind] ELSE 1
Version2Byte == ("04" :> 4) @@ ("05" :> 5) @@ ("84" :> 132) @@ ("85" :> 133) @@ ("45" :> 69)
                  @@ ("c5" :> 197)
MCByte(tok) == CASE tok.kind = "version" -> Version2Byte[tok.val]
                 [] tok.kind = "call" -> tok.val[1]
                 [] tok.kind = "U8" -> tok.val
                 [] tok.kind = "AccountId" -> IF tok.val = "bob" THEN 2 ELSE 0
                 [] OTHER -> 0

(* Only the assets pallet gives Balance a meaning of its own.               *)
MCModuleType(m, t) == IF m = "Assets" /\ t = "Balance" THEN "TAssetBalance" ELSE t

X(id, t) == [identifier |-> id, type |-> t]
Weight == X("CheckWeight", "NULL")
Era == X(Mortality, "EraExtrinsic")
Count == X(Nonce, "Compact<U64>")
Tip == X(Payment, "Compact<Balance>")
AssetTip == X(AssetPayment, "AssetTip")
Meta == X("CheckMetadataHash", "Mode")
Extra2 == X("StorageWeightReclaim", "Option<U8>")
Auth == X(Verify, "Verify")

Standard == <<Weight, Era, Count, Tip, Meta>>
Layouts ==
  {<<>>, Standard, <<Era, Count, Weight, AssetTip, Meta>>, <<Count, Era, Tip>>,
   <<Era, Count, Tip, Extra2>>, <<Era, Count, Meta>>}
General == {<<Auth, Weight, Era, Count, Tip, Meta>>, <<Auth, Era, Count, AssetTip>>, <<Extra2>>,
            <<Era, Count, Tip>>}

Lists(s) == [signed |-> s, catalog |-> <<>>, layouts |-> <<>>, versioned |-> FALSE,
             identifiers |-> Identifiers(s)]
(* Version 16: layout zero is s0, layout one s1, of one catalog.            *)
Two(s0, s1) ==
  [signed |-> s0, catalog |-> s0 \o s1, versioned |-> TRUE, identifiers |-> Identifiers(s0),
   layouts |-> <<[version |-> 0, indexes |-> [i \in DOMAIN s0 |-> i - 1]],
                 [version |-> 1, indexes |-> [i \in DOMAIN s1 |-> Len(s0) + i - 1]]>>]

MCCalls ==
  (<<0, 0>> :> [module |-> "System", args |-> <<>>]) @@
  (<<1, 2>> :> [module |-> "Balances", args |-> <<"AccountId", "Balance">>]) @@
  (<<2, 0>> :> [module |-> "Assets", args |-> <<"Balance">>]) @@
  (<<0, 3>> :> [module |-> "System", args |-> <<"Part12">>]) @@
  (<<1, 1>> :> [module |-> "System", args |-> <<"Hash">>]) @@
  (<<0, 4>> :> [module |-> "System", args |-> <<"Part58">>])

M(v, x, s, a) ==
  [version |-> v, extrinsic |-> x, calls |-> MCCalls, hasSigner |-> s, address |-> a,
   signedExtensions |-> <<>>, additionalCheck |-> {}]
Old == [name |-> "ChargeOther", additional |-> <<X("other", "U32")>>]

Metas0 ==
  {[M(11, None, FALSE, a) EXCEPT !.signedExtensions = o] :
     a \in {"Address", "AccountId"}, o \in {<<>>, <<Old>>}}
  \cup {[M(13, [Lists(<<>>) EXCEPT !.identifiers = i], FALSE, a) EXCEPT !.signedExtensions = <<Old>>] :
          i \in {<<Mortality, Nonce>>, <<Mortality, Nonce, Payment, "ChargeOther">>},
          a \in {"Address", "AccountId"}}

Tx(form, call, l, n, signer, value, prefixed) ==
  [form |-> form, call |-> call,
   args |-> IF call \in DOMAIN MCCalls THEN MCCalls[call].args ELSE <<>>,
   module |-> IF call \in DOMAIN MCCalls THEN MCCalls[call].module ELSE NoModule,
   extensions |-> l, version |-> n, signer |-> signer, signature |-> "sig",
   era |-> "mortal", nonce |-> 7, tip |-> 3, value |-> value, prefixed |-> prefixed]

Call2 == DOMAIN MCCalls \cup {<<9, 9>>}
Bare(m) == {[meta |-> m, tx |-> Tx(f, c, <<>>, 0, None, None, p)] :
              f \in {"04", "05", "c5"}, c \in Call2, p \in BOOLEAN}
Legacies ==
  {[meta |-> m, tx |-> Tx(f, c, <<>>, 0, "alice", "x", p)] :
     m \in Metas0, f \in {"84", "85", "45"}, c \in {<<1, 2>>, <<2, 0>>}, p \in BOOLEAN}
Signed14 ==
  UNION {{[meta |-> [M(14, Lists(l), h, a) EXCEPT !.additionalCheck = k],
           tx |-> Tx(f, c, l, 0, "alice", x, p)] :
             h \in BOOLEAN, a \in {"Address", "AccountId"}, k \in {{}, {"StorageWeightReclaim"}},
             f \in {"84", "85"}, c \in {<<0, 0>>, <<2, 0>>}, x \in {None, "x"}, p \in BOOLEAN} :
           l \in Layouts}
(* A signer that is not tagged may begin with any byte.                    *)
Untagged ==
  {[meta |-> M(14, Lists(<<Era, Count, Tip>>), FALSE, "AccountId"),
    tx |-> Tx(f, c, <<Era, Count, Tip>>, 0, "bob", "x", p)] :
     f \in {"84", "85"}, c \in Call2, p \in BOOLEAN}
(* The client of version 14 knows layout zero only; that of version 16 both.*)
Metas16(l) ==
  {M(14, Lists(Standard), TRUE, "AccountId"), M(16, Two(Standard, l), TRUE, "AccountId"),
   [M(16, Two(Standard, l), TRUE, "AccountId") EXCEPT
      !.extrinsic.catalog[6].type = Unresolved]}
General16 ==
  UNION {{[meta |-> m, tx |-> Tx("45", c, IF n = 1 THEN l ELSE Standard, n, s, x, p)] :
            m \in Metas16(l), c \in Call2, n \in {0, 1, 2}, s \in {None, "alice"},
            x \in {None, "x"}, p \in BOOLEAN} : l \in General}
  \cup {[meta |-> M(16, Two(l, Standard), TRUE, "AccountId"),
          tx |-> Tx("84", c, l, 0, "alice", "x", p)] :
            l \in General, c \in {<<1, 2>>, <<2, 0>>}, p \in BOOLEAN}

MCClient == Bare(M(11, None, FALSE, "Address")) \cup Legacies \cup Signed14 \cup Untagged \cup General16

(* The sizes are those the theorem about lengths is for.                    *)
ASSUME MCSizes == Sizes
=============================================================================
