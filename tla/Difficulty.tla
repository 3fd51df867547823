------------------------------ MODULE Difficulty ------------------------------
(***************************************************************************)
(* The 128-bit arithmetic of p2pool/types.go: a difficulty is two words,   *)
(* and every operation on a word wraps.  The word is a parameter: the code *)
(* has HalfWord = 2^32 and WordBits = 64.                                  *)
(*                                                                         *)
(* Value is the number a pair of words stands for, and the reference the   *)
(* operations are compared with.                                           *)
(***************************************************************************)
EXTENDS Integers

CONSTANTS
  HalfWord,   \* what half a word can count up to
  WordBits    \* the bits of a word

Word == HalfWord * HalfWord

(* 1 << k.                                                                 *)
Pow2[k \in 0..(2 * WordBits)] == IF k = 0 THEN 1 ELSE 2 * Pow2[k - 1]

ASSUME WordAssumption ==
  /\ HalfWord \in Nat /\ HalfWord > 1
  /\ WordBits \in Nat
  /\ Word = Pow2[WordBits]

Digit == 0..(Word - 1)

TwoWords == [hi : Digit, lo : Digit]

Value(d) == d.hi * Word + d.lo

(* DifficultyFromUint64, and the pair of words of any number below Word^2. *)
FromUint64(v) == [hi |-> 0, lo |-> v]
Words(n) == [hi |-> n \div Word, lo |-> n % Word]

Zero == FromUint64(0)

-----------------------------------------------------------------------------
(* Cmp: -1, 0 or 1, by the high words first.                               *)
Cmp(d, e) ==
  CASE d.hi < e.hi -> -1
    [] d.hi > e.hi -> 1
    [] d.hi = e.hi /\ d.lo < e.lo -> -1
    [] d.hi = e.hi /\ d.lo > e.lo -> 1
    [] d = e -> 0

(* Mutation: the carry of the low words is lost.                           *)
AddNoCarry(d, e) == [hi |-> (d.hi + e.hi) % Word, lo |-> (d.lo + e.lo) % Word]

(* Add: the low words wrapped if their sum is less than one of them.       *)
Add(d, e) ==
  LET lo == (d.lo + e.lo) % Word IN
    [hi |-> (d.hi + e.hi + (IF lo < d.lo THEN 1 ELSE 0)) % Word, lo |-> lo]

(* Sub assumes d >= e, as the code does.                                   *)
Sub(d, e) ==
  [hi |-> (d.hi - e.hi - (IF d.lo < e.lo THEN 1 ELSE 0)) % Word,
   lo |-> (d.lo - e.lo) % Word]

(* Mul64: four products of half words, put together column by column; what *)
(* passes the high word is cut off.                                        *)
Mul64(d, v) ==
  LET low(x)  == x % HalfWord
      high(x) == x \div HalfWord
      loLo == low(d.lo) * low(v)
      loHi == high(d.lo) * low(v)
      hiLo == low(d.lo) * high(v)
      hiHi == high(d.lo) * high(v)
      mid  == high(loLo) + low(loHi) + low(hiLo)
  IN [hi |-> (high(loHi) + high(hiLo) + hiHi + high(mid) + d.hi * v) % Word,
      lo |-> low(loLo) + low(mid) * HalfWord]

(* Div64: one digit at a time, the remainder of the high one carried into  *)
(* the low one (bits.Div64).  Division by zero gives zero.                 *)
Div64(d, v) ==
  IF v = 0 THEN Zero
  ELSE [hi |-> d.hi \div v, lo |-> ((d.hi % v) * Word + d.lo) \div v]

(* Bit i of a difficulty, and d with that bit set.                         *)
Bit(d, i) == IF i >= WordBits THEN (d.hi \div Pow2[i - WordBits]) % 2
                              ELSE (d.lo \div Pow2[i]) % 2

SetBit(d, i) == IF i >= WordBits THEN [d EXCEPT !.hi = @ + Pow2[i - WordBits]]
                                 ELSE [d EXCEPT !.lo = @ + Pow2[i]]

(* The remainder shifted left by one bit, b brought down.                  *)
ShiftIn(r, b) ==
  [hi |-> (2 * r.hi + (2 * r.lo) \div Word) % Word, lo |-> ((2 * r.lo) % Word) + b]

(* Mutation: a remainder equal to the divisor is left for the next bit.    *)
DivStepLate(qr, d, e, i) ==
  LET r == ShiftIn(qr.r, Bit(d, i)) IN
    IF Cmp(r, e) > 0 THEN [q |-> SetBit(qr.q, i), r |-> Sub(r, e)]
                     ELSE [q |-> qr.q, r |-> r]

(* One round of the long division of d by e, for bit i.                    *)
DivStep(qr, d, e, i) ==
  LET r == ShiftIn(qr.r, Bit(d, i)) IN
    IF Cmp(r, e) >= 0 THEN [q |-> SetBit(qr.q, i), r |-> Sub(r, e)]
                      ELSE [q |-> qr.q, r |-> r]

(* Quotient and remainder after j rounds, from the highest bit down.       *)
Rounds(d, e) ==
  LET after[j \in 0..(2 * WordBits)] ==
        IF j = 0 THEN [q |-> Zero, r |-> Zero]
                 ELSE DivStep(after[j - 1], d, e, 2 * WordBits - j)
  IN after

LongDiv(d, e) == Rounds(d, e)[2 * WordBits].q

(* Div: by zero gives zero, by one word is Div64.                          *)
Div(d, e) == CASE e = Zero                  -> Zero
               [] e.hi = 0 /\ e.lo # 0      -> Div64(d, e.lo)
               [] e.hi # 0                  -> LongDiv(d, e)
=============================================================================
