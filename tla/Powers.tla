--------------------------------- MODULE Powers ---------------------------------
(***************************************************************************)
(* Powers as a recursive function, which can be reasoned about by          *)
(* induction on the exponent.                                              *)
(***************************************************************************)
EXTENDS Integers

Power(b, n) == LET power[i \in 0..n] == IF i = 0 THEN 1 ELSE b * power[i - 1] IN power[n]
=============================================================================
