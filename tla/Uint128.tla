-------------------------------- MODULE Uint128 --------------------------------
(***************************************************************************)
(* utiles/uint128: numbers of two machine words, of W bits each (the code's*)
(* 64), by the operations of math/bits on one word.                        *)
(***************************************************************************)
EXTENDS Powers, Sequences

CONSTANT W
ASSUME WordBits == W \in Nat /\ W >= 4

Radix == Power(2, W)
TwoWords == [lo : 0..(Radix - 1), hi : 0..(Radix - 1)]
U(lo, hi) == [lo |-> lo, hi |-> hi]
Zero == U(0, 0)

(* math/bits on words.                                                     *)
Add64(x, y, c) == [sum |-> (x + y + c) % Radix, carry |-> (x + y + c) \div Radix]
Sub64(x, y, b) == [diff |-> (x - y - b) % Radix, borrow |-> IF x < y + b THEN 1 ELSE 0]
Mul64(x, y) == U((x * y) % Radix, (x * y) \div Radix)
(* It panics unless hi < y: the quotient must fit a word.                  *)
Div64(hi, lo, y) ==
  IF hi >= y THEN [q |-> -1, r |-> -1]
  ELSE [q |-> (hi * Radix + lo) \div y, r |-> (hi * Radix + lo) % y]
LeadingZeros(x) == CHOOSE n \in 0..W : x < Power(2, W - n) /\ (n = W \/ x >= Power(2, W - n - 1))

Cmp(u, v) == IF u = v THEN 0 ELSE IF u.hi < v.hi \/ (u.hi = v.hi /\ u.lo < v.lo) THEN -1 ELSE 1

Add(u, v) ==
  LET lo == Add64(u.lo, v.lo, 0) IN U(lo.sum, Add64(u.hi, v.hi, lo.carry).sum)
Sub(u, v) ==
  LET lo == Sub64(u.lo, v.lo, 0) IN U(lo.diff, Sub64(u.hi, v.hi, lo.borrow).diff)
Mul(u, v) ==
  LET m == Mul64(u.lo, v.lo) IN U(m.lo, (m.hi + u.hi * v.lo + u.lo * v.hi) % Radix)

Lsh(u, n) ==
  IF n > W THEN U(0, (u.lo * Power(2, n - W)) % Radix)
  ELSE U((u.lo * Power(2, n)) % Radix, ((u.hi * Power(2, n)) % Radix) + u.lo \div Power(2, W - n))
Rsh(u, n) ==
  IF n > W THEN U(u.hi \div Power(2, n - W), 0)
  ELSE U(u.lo \div Power(2, n) + ((u.hi * Power(2, W - n)) % Radix), u.hi \div Power(2, n))

(* By one word: in one division, or the high word first.                   *)
QuoRem64(u, v) ==
  IF u.hi < v
  THEN LET d == Div64(u.hi, u.lo, v) IN [q |-> U(d.q, 0), r |-> d.r]
  ELSE LET h == Div64(0, u.hi, v)
           l == Div64(h.r, u.lo, v)
       IN [q |-> U(l.q, h.q), r |-> l.r]

(* The trial quotient of both numbers' high bits.                          *)
Trial(u, v) ==
  LET n == LeadingZeros(v.hi)
      u1 == Rsh(u, 1)
      tq == Div64(u1.hi, u1.lo, Lsh(v, n).hi).q \div Power(2, W - 1 - n)
  IN IF tq # 0 THEN tq - 1 ELSE tq

(* Mutant: the quotient is corrected only when the remainder is larger than*)
(* the divisor.                                                            *)
QuoRemBug(u, v) ==
  IF v.hi = 0 THEN LET d == QuoRem64(u, v.lo) IN [q |-> d.q, r |-> U(d.r, 0)]
  ELSE LET r == Sub(u, Mul(v, U(Trial(u, v), 0)))
           q == U(Trial(u, v), 0)
       IN IF Cmp(r, v) > 0 THEN [q |-> Add(q, U(1, 0)), r |-> Sub(r, v)] ELSE [q |-> q, r |-> r]

(* It is at most one too small, and corrected by the remainder.            *)
QuoRem(u, v) ==
  IF v.hi = 0 THEN LET d == QuoRem64(u, v.lo) IN [q |-> d.q, r |-> U(d.r, 0)]
  ELSE LET r == Sub(u, Mul(v, U(Trial(u, v), 0)))
           q == U(Trial(u, v), 0)
       IN IF Cmp(r, v) >= 0 THEN [q |-> Add(q, U(1, 0)), r |-> Sub(r, v)] ELSE [q |-> q, r |-> r]

-----------------------------------------------------------------------------
(* String: the largest power of ten in a word at a time (the code's 10^19).*)
ChunkDigits == CHOOSE d \in 1..W : Power(10, d) <= Radix /\ Power(10, d + 1) > Radix
Chunk == Power(10, ChunkDigits)
Digit10(r, d) == [i \in 1..d |-> (r \div Power(10, d - i)) % 10]
NumDigits(r) == IF r = 0 THEN 0 ELSE CHOOSE n \in 1..W : Power(10, n) > r /\ Power(10, n - 1) <= r

(* The buffer is full of zeros: only the first chunk is cut to its digits. *)
Chunks[u \in TwoWords] ==
  LET d == QuoRem64(u, Chunk)
  IN IF d.q = Zero THEN Digit10(d.r, NumDigits(d.r))
     ELSE Chunks[d.q] \o Digit10(d.r, ChunkDigits)

String(u) == IF u = Zero THEN <<0>> ELSE Chunks[u]
=============================================================================
