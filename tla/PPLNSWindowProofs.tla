-------------------------- MODULE PPLNSWindowProofs --------------------------
(***************************************************************************)
(* Proofs about Difficulty, PPLNSWindow and PPLNSWords.  For words of any  *)
(* width: comparing, adding, subtracting, multiplying by a word and        *)
(* dividing by one or two words agree with the numbers the pairs of words  *)
(* stand for.  For every share map the side chain's rules allow, every     *)
(* difficulty and every length of the window: what the result covers, that *)
(* its weights and positions account for each share and uncle once, that a *)
(* reward is split exactly and within one atomic unit, and that the share  *)
(* keys and the hashrate agree with it.                                    *)
(***************************************************************************)
EXTENDS PPLNSWords, InductionLemmas, TLAPS

-----------------------------------------------------------------------------
(***************************************************************************)
(* The 128-bit arithmetic.                                                 *)
(***************************************************************************)
(* A word counts further than one.                                         *)
LEMMA WordNat == Word \in Nat /\ Word > 1
<1>1. HalfWord \in Nat /\ HalfWord > 1
  BY WordAssumption
<1>2. \A h \in Nat : h > 1 => h * h \in Nat /\ h * h > 1
  BY SMT
<1>3. QED
  BY <1>1, <1>2 DEF Word

(* The parts of a pair of words, and the number it stands for.             *)
LEMMA WordsOf ==
  ASSUME NEW d \in TwoWords
  PROVE  /\ d.hi \in Int /\ 0 <= d.hi /\ d.hi < Word
         /\ d.lo \in Int /\ 0 <= d.lo /\ d.lo < Word
         /\ Value(d) \in Int
BY WordNat DEF TwoWords, Digit, Value

(* A pair of words with the higher first word is the greater number.       *)
LEMMA HighFirst ==
  ASSUME NEW w \in Nat, NEW a \in Int, NEW b \in Int, NEW x \in 0..(w - 1), NEW y \in 0..(w - 1),
         a < b
  PROVE  a * w + x < b * w + y
<1>1. (b - a - 1) * w >= 0
  BY SMT
<1>2. b * w - a * w - w >= 0
  BY <1>1, SMT
<1>3. QED
  BY <1>2, SMT

(* Cmp compares the numbers (types.go:37).                                 *)
THEOREM CmpOrders ==
  ASSUME NEW d \in TwoWords, NEW e \in TwoWords
  PROVE  /\ Cmp(d, e) = -1 <=> Value(d) < Value(e)
         /\ Cmp(d, e) = 0 <=> Value(d) = Value(e)
         /\ Cmp(d, e) = 1 <=> Value(d) > Value(e)
<1> USE WordNat, WordsOf
<1>1. CASE d.hi < e.hi
  <2>1. Cmp(d, e) = -1
    BY <1>1 DEF Cmp
  <2>2. Value(d) < Value(e)
    <3>1. d.lo \in 0..(Word - 1) /\ e.lo \in 0..(Word - 1)
      OBVIOUS
    <3>2. d.hi * Word + d.lo < e.hi * Word + e.lo
      BY <3>1, <1>1, HighFirst
    <3>3. QED
      BY <3>2 DEF Value
  <2>3. QED
    BY <2>1, <2>2
<1>2. CASE d.hi > e.hi
  <2>1. Cmp(d, e) = 1
    BY <1>2 DEF Cmp
  <2>2. Value(e) < Value(d)
    <3>1. d.lo \in 0..(Word - 1) /\ e.lo \in 0..(Word - 1)
      OBVIOUS
    <3>2. e.hi * Word + e.lo < d.hi * Word + d.lo
      BY <3>1, <1>2, HighFirst
    <3>3. QED
      BY <3>2 DEF Value
  <2>3. QED
    BY <2>1, <2>2
<1>3. CASE d.hi = e.hi
  <2>1. CASE d.lo < e.lo
    BY <1>3, <2>1 DEF Cmp, Value
  <2>2. CASE d.lo > e.lo
    BY <1>3, <2>2 DEF Cmp, Value
  <2>3. CASE d.lo = e.lo
    <3>1. d = e
      BY <1>3, <2>3 DEF TwoWords
    <3>2. QED
      BY <3>1 DEF Cmp
  <2>4. QED
    BY <2>1, <2>2, <2>3
<1>4. QED
  BY <1>1, <1>2, <1>3

(* What Add and Sub make of a sum or a difference that may be one word off.*)
LEMMA WrapOnce ==
  ASSUME NEW w \in Nat, w > 0, NEW a \in Int
  PROVE  /\ 0 <= a /\ a < w => a % w = a
         /\ w <= a /\ a < 2 * w => a % w = a - w
         /\ -w <= a /\ a < 0 => a % w = a + w
         /\ a % w \in 0..(w - 1)
  BY SMT

(* Columns add up: c is carried from the low ones.                         *)
LEMMA Columns ==
  ASSUME NEW w \in Int, NEW a \in Int, NEW b \in Int, NEW c \in Int, NEW x \in Int,
         NEW y \in Int, NEW l \in Int, l + c * w = x + y
  PROVE  (a + b + c) * w + l = (a * w + x) + (b * w + y)
<1>1. (a + b + c) * w = a * w + b * w + c * w
  BY SMT
<1>2. a * w \in Int /\ b * w \in Int /\ c * w \in Int /\ (a + b + c) * w \in Int
  BY SMT
<1>3. QED
  BY <1>1, <1>2, SMT

(* A number that is at least w, times w.                                   *)
LEMMA TooGreat ==
  ASSUME NEW w \in Nat, NEW a \in Int, a >= w
  PROVE  a * w >= w * w
<1>1. (a - w) * w >= 0
  BY SMT
<1>2. QED
  BY <1>1, SMT

(* Add is the sum as long as the sum fits in two words: the wrap of the low*)
(* words is seen by comparing with one of them (types.go:224).             *)
THEOREM AddExact ==
  ASSUME NEW d \in TwoWords, NEW e \in TwoWords, Value(d) + Value(e) < Word * Word
  PROVE  Add(d, e) \in TwoWords /\ Value(Add(d, e)) = Value(d) + Value(e)
<1> USE WordNat, WordsOf
<1> DEFINE lo == (d.lo + e.lo) % Word
           carry == IF lo < d.lo THEN 1 ELSE 0
           hi == (d.hi + e.hi + carry) % Word
<1>1. lo \in Digit /\ carry \in 0..1 /\ lo + carry * Word = d.lo + e.lo
  <2>1. CASE d.lo + e.lo < Word
    BY <2>1, WrapOnce DEF Digit
  <2>2. CASE d.lo + e.lo >= Word
    BY <2>2, WrapOnce DEF Digit
  <2>3. QED
    BY <2>1, <2>2
<1>2. Add(d, e) = [hi |-> hi, lo |-> lo]
  BY DEF Add
<1> HIDE DEF lo, carry
<1>3. lo \in Int /\ 0 <= lo /\ lo < Word /\ carry \in Int /\ 0 <= carry
  BY <1>1 DEF Digit
<1>4. (d.hi + e.hi + carry) * Word + lo = Value(d) + Value(e)
  <2>1. d.hi \in Int /\ d.lo \in Int /\ e.hi \in Int /\ e.lo \in Int /\ Word \in Int
    OBVIOUS
  <2>2. lo \in Int /\ carry \in Int /\ lo + carry * Word = d.lo + e.lo
    BY <1>1, <1>3
  <2>3. (d.hi + e.hi + carry) * Word + lo = (d.hi * Word + d.lo) + (e.hi * Word + e.lo)
    BY ONLY <2>1, <2>2, Columns
  <2>4. QED
    BY <2>3 DEF Value
<1>5. d.hi + e.hi + carry < Word
  <2>1. ASSUME d.hi + e.hi + carry >= Word PROVE FALSE
    <3>1. (d.hi + e.hi + carry) * Word >= Word * Word
      BY <2>1, <1>3, TooGreat
    <3>2. QED
      BY <3>1, <1>3, <1>4
  <2>2. QED
    BY <2>1, <1>3
<1>6. hi \in Digit /\ hi = d.hi + e.hi + carry
  <2>1. d.hi + e.hi + carry \in Int /\ 0 <= d.hi + e.hi + carry
    BY <1>3
  <2>2. QED
    BY <2>1, <1>5, WrapOnce DEF Digit
<1> HIDE DEF hi
<1>7. QED
  BY <1>1, <1>2, <1>4, <1>6 DEF TwoWords, Value

(* Sub is the difference when there is one: a borrow is taken exactly when *)
(* the low words wrap (types.go:234).                                      *)
THEOREM SubExact ==
  ASSUME NEW d \in TwoWords, NEW e \in TwoWords, Value(e) <= Value(d)
  PROVE  Sub(d, e) \in TwoWords /\ Value(Sub(d, e)) = Value(d) - Value(e)
<1> USE WordNat, WordsOf
<1> DEFINE lo == (d.lo - e.lo) % Word
           borrow == IF d.lo < e.lo THEN 1 ELSE 0
           hi == (d.hi - e.hi - borrow) % Word
<1>1. lo \in Digit /\ lo = d.lo - e.lo + borrow * Word
  <2>1. CASE d.lo < e.lo
    BY <2>1, WrapOnce DEF Digit
  <2>2. CASE d.lo >= e.lo
    BY <2>2, WrapOnce DEF Digit
  <2>3. QED
    BY <2>1, <2>2
<1>2. d.hi - e.hi - borrow >= 0
  <2>1. (d.hi - e.hi - borrow) * Word + lo = Value(d) - Value(e)
    BY <1>1 DEF Value, Digit
  <2>2. ASSUME d.hi - e.hi - borrow < 0 PROVE FALSE
    <3>1. (-1 - (d.hi - e.hi - borrow)) * Word >= 0
      BY <2>2
    <3>2. QED
      BY <2>1, <3>1, <1>1 DEF Digit
  <2>3. QED
    BY <2>2
<1>3. hi \in Digit /\ hi = d.hi - e.hi - borrow
  BY <1>2, WrapOnce DEF Digit
<1>4. Sub(d, e) = [hi |-> hi, lo |-> lo]
  BY DEF Sub
<1> HIDE DEF lo, borrow, hi
<1>5. QED
  BY <1>1, <1>3, <1>4 DEF TwoWords, Value, Digit, borrow

(* The digits of a number in half words.                                   *)
LEMMA HalfWords ==
  ASSUME NEW h \in Nat, h > 0, NEW x \in Nat
  PROVE  /\ x = (x \div h) * h + (x % h)
         /\ x \div h \in Int /\ x \div h >= 0
         /\ x % h \in Int /\ 0 <= x % h /\ x % h < h
<1>1. PICK q \in Int, r \in 0..(h - 1) : q = x \div h /\ r = x % h /\ x = h * q + r
  BY SMT
<1>2. q * h = h * q
  BY SMT
<1>3. ASSUME q < 0 PROVE FALSE
  <2>1. h * (-1 - q) >= 0
    BY <1>3, SMT
  <2>2. QED
    BY <1>1, <2>1, SMT
<1>4. q >= 0 /\ x = q * h + r
  BY <1>1, <1>2, <1>3
<1>5. QED
  BY <1>1, <1>4

(* A product of two numbers of two digits in base h, column by column.     *)
LEMMA FourProducts ==
  ASSUME NEW h \in Int, NEW a \in Int, NEW b \in Int, NEW c \in Int, NEW d \in Int
  PROVE  (a * h + b) * (c * h + d) = (a * c) * (h * h) + (a * d + b * c) * h + b * d
BY SMT

(* A number of two digits in base h is less than h squared.                *)
LEMMA TwoDigits ==
  ASSUME NEW h \in Int, NEW a \in Int, NEW b \in Int, 0 <= a, a < h, 0 <= b, b < h
  PROVE  0 <= a + b * h /\ a + b * h < h * h
<1>1. b * h >= 0 /\ (h - 1 - b) * h >= 0
  BY SMT
<1>2. QED
  BY <1>1, SMT

(* Mul64 is the product as long as the product fits in two words: no carry *)
(* between the four products of half words is lost (types.go:244).         *)
THEOREM Mul64Exact ==
  ASSUME NEW d \in TwoWords, NEW v \in Digit, Value(d) * v < Word * Word
  PROVE  Mul64(d, v) \in TwoWords /\ Value(Mul64(d, v)) = Value(d) * v
<1> USE WordNat, WordsOf
<1>1. HalfWord \in Nat /\ HalfWord > 0 /\ v \in Nat /\ d.lo \in Nat
  BY WordAssumption DEF Digit
<1> DEFINE low(x)  == x % HalfWord
           high(x) == x \div HalfWord
           loLo == low(d.lo) * low(v)
           loHi == high(d.lo) * low(v)
           hiLo == low(d.lo) * high(v)
           hiHi == high(d.lo) * high(v)
           mid  == high(loLo) + low(loHi) + low(hiLo)
           top  == high(loHi) + high(hiLo) + hiHi + high(mid)
           lo   == low(loLo) + low(mid) * HalfWord
           hi   == (top + d.hi * v) % Word
<1>2. Mul64(d, v) = [hi |-> hi, lo |-> lo]
  BY DEF Mul64
<1>3. ASSUME NEW x \in Nat
      PROVE  /\ x = high(x) * HalfWord + low(x)
             /\ high(x) \in Nat /\ low(x) \in Nat /\ low(x) < HalfWord
  BY <1>1, HalfWords
<1> HIDE DEF low, high
<1>4. loLo \in Nat /\ loHi \in Nat /\ hiLo \in Nat /\ hiHi \in Nat
  <2>1. \A x \in Nat, y \in Nat : x * y \in Nat
    BY SMT
  <2>2. QED
    BY <2>1, <1>1, <1>3
<1>5. d.lo * v = hiHi * (HalfWord * HalfWord) + (loHi + hiLo) * HalfWord + loLo
  <2>1. d.lo = high(d.lo) * HalfWord + low(d.lo) /\ v = high(v) * HalfWord + low(v)
    BY <1>1, <1>3
  <2>2. high(d.lo) \in Int /\ low(d.lo) \in Int /\ high(v) \in Int /\ low(v) \in Int
    <3>1. high(d.lo) \in Nat /\ low(d.lo) \in Nat
      BY <1>1, <1>3, Zenon
    <3>2. high(v) \in Nat /\ low(v) \in Nat
      BY <1>1, <1>3, Zenon
    <3>3. QED
      BY ONLY <3>1, <3>2
  <2>3. QED
    BY <2>1, <2>2, <1>1, FourProducts
<1> HIDE DEF loLo, loHi, hiLo, hiHi
<1>6. mid \in Nat
  BY <1>3, <1>4
<1>7. top * Word + lo = d.lo * v
  <2>1. high(mid) * HalfWord + low(mid) = high(loLo) + low(loHi) + low(hiLo)
    BY <1>3, <1>6
  <2>2. /\ low(loLo) \in Int /\ high(loLo) \in Int /\ low(loHi) \in Int /\ high(loHi) \in Int
        /\ low(hiLo) \in Int /\ high(hiLo) \in Int /\ low(mid) \in Int /\ high(mid) \in Int
        /\ hiHi \in Int /\ HalfWord \in Int
    BY <1>1, <1>3, <1>4, <1>6
  <2> HIDE DEF mid
  <2>3. /\ high(loHi) * HalfWord + low(loHi) = loHi
        /\ high(hiLo) * HalfWord + low(hiLo) = hiLo
        /\ high(loLo) * HalfWord + low(loLo) = loLo
    BY <1>3, <1>4
  <2> DEFINE h   == HalfWord      m1  == high(mid)    m0  == low(mid)
             ll1 == high(loLo)    ll0 == low(loLo)    hh  == hiHi
             lh1 == high(loHi)    lh0 == low(loHi)
             hl1 == high(hiLo)    hl0 == low(hiLo)
  <2>4. /\ ll0 \in Int /\ ll1 \in Int /\ lh0 \in Int /\ lh1 \in Int /\ hl0 \in Int /\ hl1 \in Int
        /\ m0 \in Int /\ m1 \in Int /\ hh \in Int /\ h \in Int
        /\ m1 * h + m0 = ll1 + lh0 + hl0
        /\ top = lh1 + hl1 + hh + m1 /\ lo = ll0 + m0 * h
    BY <2>1, <2>2
  <2>5. d.lo * v = hh * (h * h) + ((lh1 * h + lh0) + (hl1 * h + hl0)) * h + (ll1 * h + ll0)
    BY <2>3, <1>5
  <2> HIDE DEF top, lo, h, m0, m1, ll0, ll1, lh0, lh1, hl0, hl1, hh
  <2>6. (m1 * h + m0) * h = (ll1 + lh0 + hl0) * h
    BY ONLY <2>4
  <2>7. (lh1 + hl1 + hh + m1) * (h * h) + (ll0 + m0 * h) = d.lo * v
    BY ONLY <2>4, <2>5, <2>6, SMT
  <2>8. top * (h * h) + lo = d.lo * v
    BY ONLY <2>4, <2>7
  <2>9. Word = h * h
    BY DEF h, Word
  <2>10. QED
    BY ONLY <2>8, <2>9
<1>8. lo \in Digit
  <2>1. /\ low(loLo) \in Int /\ 0 <= low(loLo) /\ low(loLo) < HalfWord
        /\ low(mid) \in Int /\ 0 <= low(mid) /\ low(mid) < HalfWord
    BY <1>3, <1>4, <1>6
  <2> HIDE DEF mid
  <2>2. 0 <= lo /\ lo < HalfWord * HalfWord
    BY <2>1, <1>1, TwoDigits
  <2>3. lo \in Int
    BY <2>1, <1>1
  <2>4. QED
    BY <2>2, <2>3 DEF Digit, Word
<1>9. top \in Nat
  BY <1>3, <1>4, <1>6
<1> HIDE DEF mid, top, lo
<1>10. d.hi * v \in Nat
  <2>1. \A x \in Nat, y \in Nat : x * y \in Nat
    BY SMT
  <2>2. QED
    BY <2>1, <1>1
<1>11. (top + d.hi * v) * Word + lo = Value(d) * v
  <2>1. top \in Int /\ lo \in Int /\ v \in Int
    BY <1>1, <1>8, <1>9 DEF Digit
  <2>2. (top + d.hi * v) * Word + lo = (d.hi * Word + d.lo) * v
    <3>1. top * Word + lo = d.lo * v
      BY <1>7
    <3>2. d.hi \in Int /\ d.lo \in Int /\ Word \in Int
      OBVIOUS
    <3>3. QED
      BY ONLY <2>1, <3>1, <3>2, SMT
  <2>3. QED
    BY <2>2 DEF Value
<1>12. top + d.hi * v < Word
  <2>1. ASSUME top + d.hi * v >= Word PROVE FALSE
    <3>1. (top + d.hi * v) * Word >= Word * Word
      BY <2>1, <1>9, <1>10, TooGreat
    <3>2. lo >= 0 /\ lo \in Int
      BY <1>8 DEF Digit
    <3>3. QED
      BY <3>1, <3>2, <1>9, <1>10, <1>11
  <2>2. QED
    BY <2>1, <1>9, <1>10
<1>13. hi = top + d.hi * v /\ hi \in Digit
  <2>1. top + d.hi * v \in Nat /\ top + d.hi * v < Word
    BY <1>9, <1>10, <1>12
  <2> HIDE DEF hi
  <2>2. hi = (top + d.hi * v) % Word
    BY DEF hi
  <2>3. hi = top + d.hi * v
    BY ONLY <2>1, <2>2, WordNat, WrapOnce
  <2>4. QED
    BY ONLY <2>1, <2>3, WordNat DEF Digit
<1> HIDE DEF hi
<1>14. QED
  BY <1>2, <1>8, <1>11, <1>13 DEF TwoWords, Value

(* A number between v*q and v*(q + 1) has the quotient q.                  *)
LEMMA QuotientIs ==
  ASSUME NEW v \in Nat, v > 0, NEW a \in Int, NEW q \in Int, v * q <= a, a < v * q + v
  PROVE  a \div v = q
<1>1. PICK p \in Int : p = a \div v
  BY SMT
<1>2. v * p <= a /\ a < v * p + v
  BY <1>1, SMT
<1>3. ASSUME p < q PROVE FALSE
  <2>1. v * (q - p - 1) >= 0
    BY <1>3, SMT
  <2>2. QED
    BY <1>2, <2>1, SMT
<1>4. ASSUME q < p PROVE FALSE
  <2>1. v * (p - q - 1) >= 0
    BY <1>4, SMT
  <2>2. QED
    BY <1>2, <2>1, SMT
<1>5. QED
  BY <1>1, <1>3, <1>4, SMT

(* A quotient and what it leaves.                                          *)
LEMMA Euclid ==
  ASSUME NEW v \in Nat, v > 0, NEW a \in Int
  PROVE  v * (a \div v) <= a /\ a < v * (a \div v) + v
BY SMT

(* The quotient of a remainder and a low word is one word.                 *)
LEMMA SecondWord ==
  ASSUME NEW v \in Nat, v > 0, NEW w \in Nat, NEW r \in 0..(v - 1), NEW x \in 0..(w - 1),
         NEW p \in Int, v * p <= r * w + x, r * w + x < v * p + v
  PROVE  0 <= p /\ p < w
<1>1. r * w >= 0 /\ r * w <= (v - 1) * w
  BY SMT
<1>2. (v - 1) * w = v * w - w
  BY SMT
<1>3. ASSUME p < 0 PROVE FALSE
  <2>1. v * p <= -v
    BY <1>3, SMT
  <2>2. QED
    BY <2>1, <1>1, SMT
<1>4. ASSUME p >= w PROVE FALSE
  <2>1. v * p >= v * w
    BY <1>4, SMT
  <2>2. QED
    BY <2>1, <1>1, <1>2, SMT
<1>5. QED
  BY <1>3, <1>4, SMT

(* Long division of two words by one.                                      *)
LEMMA LongDivision ==
  ASSUME NEW v \in Int, NEW w \in Int, NEW q \in Int, NEW r \in Int, NEW x \in Int, NEW p \in Int
  PROVE  /\ (v * q + r) * w + x = v * (q * w) + (r * w + x)
         /\ v * (q * w + p) = v * (q * w) + v * p
BY SMT

(* Div64 is the quotient: the remainder of the high word is less than the  *)
(* divisor, so that the second division gives one word (types.go:264).     *)
THEOREM Div64Exact ==
  ASSUME NEW d \in TwoWords, NEW v \in Digit, v # 0
  PROVE  Div64(d, v) \in TwoWords /\ Value(Div64(d, v)) = Value(d) \div v
<1> USE WordNat, WordsOf
<1>1. v \in Nat /\ v > 0 /\ v < Word
  BY DEF Digit
<1>2. PICK q \in Int, r \in Int : q = d.hi \div v /\ r = d.hi % v
  BY <1>1, SMT
<1>3. d.hi = v * q + r /\ 0 <= r /\ r < v
  BY <1>1, <1>2, SMT
<1>4. PICK p \in Int : p = (r * Word + d.lo) \div v
  BY <1>1, SMT
<1>5. v * p <= r * Word + d.lo /\ r * Word + d.lo < v * p + v
  <2>1. r * Word \in Int
    BY <1>2, SMT
  <2>2. QED
    BY <1>1, <1>4, <2>1, Euclid
<1>6. Div64(d, v) = [hi |-> q, lo |-> p]
  BY <1>1, <1>2, <1>4 DEF Div64
<1>7. 0 <= q /\ q < Word
  <2>1. ASSUME q < 0 PROVE FALSE
    <3>1. v * (-1 - q) >= 0
      BY <1>1, <2>1, SMT
    <3>2. QED
      BY <3>1, <1>1, <1>3, SMT
  <2>2. ASSUME q >= Word PROVE FALSE
    <3>1. (v - 1) * q >= 0
      BY <1>1, <2>2, SMT
    <3>2. QED
      BY <3>1, <1>1, <1>3, <2>2, SMT
  <2>3. QED
    BY <2>1, <2>2, SMT
<1>8. 0 <= p /\ p < Word
  <2>1. r \in 0..(v - 1) /\ d.lo \in 0..(Word - 1)
    BY <1>1, <1>3
  <2>2. QED
    BY <2>1, <1>1, <1>5, SecondWord
<1>9. Value(Div64(d, v)) = q * Word + p
  BY <1>6 DEF Value
<1>10. Value(d) \div v = q * Word + p
  <2>1. Value(d) = (v * q + r) * Word + d.lo
    BY <1>3 DEF Value
  <2>2. /\ Value(d) = v * (q * Word) + (r * Word + d.lo)
        /\ v * (q * Word + p) = v * (q * Word) + v * p
    BY <2>1, <1>1, LongDivision
  <2>3. v * (q * Word) \in Int /\ v * p \in Int /\ r * Word \in Int /\ q * Word + p \in Int
    BY <1>1, SMT
  <2>4. v * (q * Word + p) <= Value(d) /\ Value(d) < v * (q * Word + p) + v
    BY <2>2, <2>3, <1>1, <1>5
  <2>5. QED
    BY <2>3, <2>4, <1>1, QuotientIs
<1>11. QED
  BY <1>6, <1>7, <1>8, <1>9, <1>10 DEF TwoWords, Digit

-----------------------------------------------------------------------------
(***************************************************************************)
(* Long division, one bit a round.                                         *)
(***************************************************************************)

(* The recursive definition of the powers of two has a solution.           *)
LEMMA Pow2Is ==
  Pow2 = [k \in 0..(2 * WordBits) |-> IF k = 0 THEN 1 ELSE 2 * Pow2[k - 1]]
<1> DEFINE n == 2 * WordBits
           double == [z \in (1..n) \X Nat |-> 2 * z[2]]
           Is(f) == f = [k \in 0..n |-> IF k = 0 THEN 1 ELSE 2 * f[k - 1]]
<1>1. n \in Nat
  BY WordAssumption
<1>2. Pow2 = CHOOSE f : Is(f)
  BY DEF Pow2
<1>3. \A j \in 1..n, x \in Nat : double[<<j, x>>] = 2 * x
  OBVIOUS
<1> HIDE DEF double, n
<1>4. PICK f : IsIteration(f, n, 1, double)
  BY <1>1, Iteration
<1>5. /\ f = [k \in 0..n |-> IF k = 0 THEN 1 ELSE double[<<k, f[k - 1]>>]]
      /\ \A k \in 0..n : f[k] = IF k = 0 THEN 1 ELSE double[<<k, f[k - 1]>>]
  BY <1>4 DEF IsIteration
<1> DEFINE G == {k \in 0..n : f[k] \in Nat}
<1>6. 0 \in G
  BY <1>1, <1>5
<1>7. ASSUME NEW k \in 0..(n - 1), k \in G
      PROVE  k + 1 \in G
  <2>1. k + 1 \in 0..n /\ k + 1 \in 1..n /\ k + 1 # 0 /\ (k + 1) - 1 = k
    BY <1>1
  <2>2. f[k + 1] = double[<<k + 1, f[k]>>]
    BY <1>5, <2>1
  <2>3. f[k + 1] = 2 * f[k] /\ f[k] \in Nat
    BY <1>3, <1>7, <2>1, <2>2
  <2>4. QED
    BY <2>1, <2>3
<1>8. \A k \in 0..n : k \in G
  <2> HIDE DEF G
  <2>1. QED
    BY <1>1, <1>6, <1>7, IntervalInduction
<1>9. \A k \in 0..n : k # 0 => double[<<k, f[k - 1]>>] = 2 * f[k - 1]
  <2> TAKE k \in 0..n
  <2>1. k # 0 => k - 1 \in 0..n /\ k \in 1..n
    BY <1>1
  <2>2. QED
    BY <1>3, <1>8, <2>1
<1>10. Is(f)
  BY <1>5, <1>9
<1>11. Is(Pow2)
  <2> HIDE DEF Is
  <2>1. QED
    BY <1>2, <1>10
<1>12. QED
  BY <1>11 DEF n

(* The powers of two are positive, and each is twice the one before.       *)
LEMMA Pow2Facts ==
  /\ WordBits \in Nat /\ Pow2[0] = 1
  /\ \A k \in 0..(2 * WordBits) : Pow2[k] \in Nat /\ Pow2[k] > 0
  /\ \A k \in 0..(2 * WordBits - 1) : Pow2[k + 1] = 2 * Pow2[k]
<1> DEFINE n == 2 * WordBits
           G == {k \in 0..n : Pow2[k] \in Nat /\ Pow2[k] > 0}
<1>1. n \in Nat /\ WordBits \in Nat
  BY WordAssumption
<1>2. Pow2 = [k \in 0..n |-> IF k = 0 THEN 1 ELSE 2 * Pow2[k - 1]]
  BY Pow2Is
<1> HIDE DEF n
<1>3. Pow2[0] = 1
  BY <1>1, <1>2
<1>4. ASSUME NEW k \in 0..(n - 1) PROVE Pow2[k + 1] = 2 * Pow2[k]
  <2>1. k + 1 \in 0..n /\ k + 1 # 0 /\ (k + 1) - 1 = k
    BY <1>1
  <2>2. QED
    BY <1>2, <2>1
<1>5. 0 \in G
  BY <1>1, <1>3
<1>6. ASSUME NEW k \in 0..(n - 1), k \in G PROVE k + 1 \in G
  BY <1>1, <1>4, <1>6
<1>7. \A k \in 0..n : k \in G
  <2> HIDE DEF G
  <2>1. QED
    BY <1>1, <1>5, <1>6, IntervalInduction
<1>8. QED
  BY <1>1, <1>3, <1>4, <1>7 DEF n

(* Shifting twice is shifting by the sum.                                  *)
LEMMA Pow2Sum ==
  ASSUME NEW a \in 0..(2 * WordBits), NEW b \in 0..(2 * WordBits - a)
  PROVE  Pow2[a + b] = Pow2[a] * Pow2[b]
<1> DEFINE n == 2 * WordBits
           m == n - a
           G == {k \in 0..m : Pow2[a + k] = Pow2[a] * Pow2[k]}
<1>1. n \in Nat /\ a \in Nat /\ a <= n /\ m \in Nat /\ b \in 0..m
  BY Pow2Facts
<1>2. /\ Pow2[0] = 1
      /\ \A k \in 0..n : Pow2[k] \in Nat
      /\ \A k \in 0..(n - 1) : Pow2[k + 1] = 2 * Pow2[k]
  BY Pow2Facts
<1> HIDE DEF n
<1>3. 0 \in G
  BY <1>1, <1>2
<1>4. ASSUME NEW k \in 0..(m - 1), k \in G
      PROVE  k + 1 \in G
  <2>1. a + k \in 0..(n - 1) /\ k \in 0..(n - 1) /\ k \in 0..n /\ a \in 0..n /\ k + 1 \in 0..m
        /\ a + (k + 1) = (a + k) + 1
    BY <1>1
  <2>2. Pow2[a + (k + 1)] = 2 * Pow2[a + k] /\ Pow2[k + 1] = 2 * Pow2[k]
    BY <1>2, <2>1
  <2>3. PICK x \in Nat, y \in Nat : x = Pow2[a] /\ y = Pow2[k]
    BY <1>2, <2>1
  <2>4. 2 * (x * y) = x * (2 * y)
    BY SMT
  <2>5. Pow2[a + k] = x * y
    BY <1>4, <2>3
  <2>6. QED
    BY <2>1, <2>2, <2>3, <2>4, <2>5
<1>5. \A k \in 0..m : k \in G
  <2> HIDE DEF G, m
  <2>1. QED
    BY <1>1, <1>3, <1>4, IntervalInduction
<1>6. QED
  BY <1>1, <1>5

(* A word is twice a number, and two words are 2 * WordBits bits.          *)
LEMMA WordPowers ==
  /\ Word = Pow2[WordBits] /\ WordBits \in Nat /\ WordBits > 0
  /\ Word * Word = Pow2[2 * WordBits]
  /\ Word = 2 * Pow2[WordBits - 1] /\ Pow2[WordBits - 1] \in Nat
<1>1. Word = Pow2[WordBits] /\ WordBits \in Nat /\ Word > 1 /\ Pow2[0] = 1
  BY WordAssumption, WordNat, Pow2Facts
<1>2. WordBits > 0
  <2>1. WordBits # 0
    BY <1>1
  <2>2. QED
    BY <1>1, <2>1
<1>3. WordBits \in 0..(2 * WordBits) /\ WordBits \in 0..(2 * WordBits - WordBits)
      /\ WordBits + WordBits = 2 * WordBits
  BY <1>1
<1>4. Pow2[2 * WordBits] = Pow2[WordBits] * Pow2[WordBits]
  BY <1>3, Pow2Sum
<1>5. WordBits - 1 \in 0..(2 * WordBits - 1) /\ WordBits - 1 \in 0..(2 * WordBits)
      /\ (WordBits - 1) + 1 = WordBits
  BY <1>1, <1>2
<1>6. Pow2[WordBits] = 2 * Pow2[WordBits - 1] /\ Pow2[WordBits - 1] \in Nat
  BY <1>5, Pow2Facts
<1>7. QED
  BY <1>1, <1>2, <1>4, <1>6

(* Cutting off one bit more halves the number.                             *)
LEMMA HalfAgain ==
  ASSUME NEW v \in Nat, NEW p \in Nat, p > 0
  PROVE  /\ v \div p \in Nat /\ v \div (2 * p) \in Nat
         /\ (v \div p) % 2 \in 0..1
         /\ v \div p = 2 * (v \div (2 * p)) + ((v \div p) % 2)
<1>1. PICK q \in Int : q = v \div p
  BY SMT
<1>2. p * q <= v /\ v < p * q + p
  BY <1>1, Euclid
<1>3. PICK t \in Int, b \in 0..1 : q = 2 * t + b /\ b = q % 2
  BY SMT
<1>4. p * q = (2 * p) * t + p * b
  BY <1>3, SMT
<1>5. p * b >= 0 /\ p * b <= p
  <2>1. b = 0 \/ b = 1
    BY <1>3
  <2>2. QED
    BY <2>1, SMT
<1>6. (2 * p) * t <= v /\ v < (2 * p) * t + 2 * p
  <2> DEFINE x == (2 * p) * t
             y == p * b
             z == p * q
  <2>1. x \in Int /\ y \in Int /\ z \in Int
    BY <1>1, <1>3
  <2>2. z = x + y /\ 0 <= y /\ y <= p /\ z <= v /\ v < z + p
    BY <1>2, <1>4, <1>5
  <2> HIDE DEF x, y, z
  <2>3. x <= v /\ v < x + 2 * p
    BY <2>1, <2>2
  <2>4. QED
    BY <2>3 DEF x
<1>7. v \div (2 * p) = t
  <2>1. 2 * p \in Nat /\ 2 * p > 0
    OBVIOUS
  <2>2. QED
    BY <1>3, <1>6, <2>1, QuotientIs
<1>8. q >= 0
  <2>1. q < 0 => p * q + p <= 0
    <3>1. q < 0 => p * (-1 - q) >= 0
      BY SMT
    <3>2. p * (-1 - q) = -(p * q) - p
      BY SMT
    <3>3. QED
      BY <3>1, <3>2, SMT
  <2>2. QED
    BY <1>2, <2>1
<1>9. t >= 0
  BY <1>3, <1>8
<1>10. v \div p = q /\ v \div (2 * p) = t /\ (v \div p) % 2 = b
  BY <1>1, <1>3, <1>7
<1>11. q \in Nat /\ t \in Nat /\ q = 2 * t + b
  BY <1>3, <1>8, <1>9
<1>12. QED
  BY <1>10, <1>11

(* Bit i is the last one of the number without the i lower ones.           *)
LEMMA BitIs ==
  ASSUME NEW d \in TwoWords, NEW i \in 0..(2 * WordBits - 1)
  PROVE  Bit(d, i) = (Value(d) \div Pow2[i]) % 2
<1>a. d.hi \in Nat /\ d.lo \in 0..(Word - 1) /\ d.lo \in Nat /\ Word \in Nat /\ Word > 0
  BY WordNat DEF TwoWords, Digit
<1>c. PICK w \in Nat : w = Word /\ w > 0
  BY <1>a
<1>d. PICK h \in Nat, l \in 0..(w - 1) : h = d.hi /\ l = d.lo
  BY <1>a, <1>c
<1>1. w = Word /\ w > 0 /\ h = d.hi /\ l = d.lo
  BY <1>c, <1>d
<1>b. Value(d) = h * w + l /\ l \in Nat
  BY <1>1 DEF Value
<1>2. Word = Pow2[WordBits] /\ WordBits \in Nat
  BY WordPowers
<1>3. CASE i >= WordBits
  <2>1. /\ WordBits \in 0..(2 * WordBits)
        /\ i - WordBits \in 0..(2 * WordBits - WordBits) /\ i - WordBits \in 0..(2 * WordBits)
        /\ WordBits + (i - WordBits) = i
    BY <1>2, <1>3
  <2>2. Pow2[i] = Word * Pow2[i - WordBits]
    BY <1>2, <2>1, Pow2Sum
  <2>3. PICK p \in Nat : p = Pow2[i - WordBits] /\ p > 0
    BY <2>1, Pow2Facts
  <2>4. Bit(d, i) = (d.hi \div p) % 2
    BY <1>3, <2>3 DEF Bit
  <2>5. PICK q \in Int : q = h \div p
    BY <1>d, <2>3, SMT
  <2>6. p * q <= h /\ h < p * q + p
    BY <1>d, <2>3, <2>5, Euclid
  <2>7. PICK s \in Int : s = p * q
    BY <2>3, <2>5
  <2>8. (h - s) * w >= 0 /\ (s + p - 1 - h) * w >= 0
    <3>1. h - s >= 0 /\ s + p - 1 - h >= 0
      BY <1>d, <2>3, <2>6, <2>7
    <3>2. QED
      BY <1>c, <1>d, <2>3, <2>7, <3>1, SMT
  <2>9. (h - s) * w = h * w - s * w /\ (s + p - 1 - h) * w = s * w + p * w - w - h * w
    BY <1>c, <1>d, <2>3, <2>7, SMT
  <2>10. s * w = (w * p) * q /\ p * w = w * p
    BY <1>c, <2>3, <2>5, <2>7, SMT
  <2>11. PICK x \in Int, y \in Int, z \in Nat : x = h * w /\ y = s * w /\ z = w * p
    BY <1>c, <1>d, <2>3, <2>7
  <2>12. z > 0
    BY <1>c, <2>3, <2>11, SMT
  <2>13. y <= x + l /\ x + l < y + z
    BY <1>c, <1>d, <2>8, <2>9, <2>10, <2>11
  <2>14. (x + l) \div z = q
    <3>1. PICK a \in Int : a = x + l
      BY <1>d, <2>11
    <3>2. z * q <= a /\ a < z * q + z
      BY <2>10, <2>11, <2>13, <3>1
    <3>3. a \div z = q
      BY <2>5, <2>11, <2>12, <3>1, <3>2, QuotientIs
    <3>4. QED
      BY <3>1, <3>3
  <2>15. Value(d) = x + l /\ Pow2[i] = z
    BY <1>1, <1>b, <2>2, <2>3, <2>11
  <2>16. QED
    BY <1>1, <2>4, <2>5, <2>14, <2>15
<1>4. CASE ~(i >= WordBits)
  <2>1. /\ i + 1 \in 0..(2 * WordBits) /\ i \in 0..(2 * WordBits)
        /\ WordBits - (i + 1) \in 0..(2 * WordBits - (i + 1))
        /\ WordBits - (i + 1) \in 0..(2 * WordBits)
        /\ (i + 1) + (WordBits - (i + 1)) = WordBits
    BY <1>2, <1>4
  <2>2. PICK p \in Nat, s \in Nat : p = Pow2[i] /\ p > 0 /\ s = Pow2[WordBits - (i + 1)]
    BY <2>1, Pow2Facts
  <2>3. Word = (2 * p) * s
    <3>1. Word = Pow2[i + 1] * s
      BY <1>2, <2>1, <2>2, Pow2Sum
    <3>2. QED
      BY <2>2, <3>1, Pow2Facts
  <2>4. Bit(d, i) = (d.lo \div p) % 2
    BY <1>4, <2>2 DEF Bit
  <2>5. PICK q \in Int : q = l \div p
    BY <1>b, <2>2, SMT
  <2>6. p * q <= l /\ l < p * q + p
    BY <1>b, <2>2, <2>5, Euclid
  <2>7. PICK t \in Int : t = h * s
    BY <1>d, <2>2
  <2>8. h * ((2 * p) * s) = p * (2 * t)
    BY <1>d, <2>2, <2>7, SMT
  <2>9. p * (2 * t + q) = p * (2 * t) + p * q
    BY <2>2, <2>5, <2>7, SMT
  <2>10. PICK x \in Int, y \in Int : x = p * (2 * t) /\ y = p * q
    BY <2>2, <2>5, <2>7
  <2>11. p * (2 * t + q) <= x + l /\ x + l < p * (2 * t + q) + p
    BY <2>6, <2>9, <2>10
  <2>12. (x + l) \div p = 2 * t + q
    <3>1. PICK a \in Int, c \in Int : a = x + l /\ c = 2 * t + q
      BY <1>b, <2>5, <2>7, <2>10
    <3>2. p * c <= a /\ a < p * c + p
      BY <2>11, <3>1
    <3>3. a \div p = c
      BY <2>2, <3>1, <3>2, QuotientIs
    <3>4. QED
      BY <3>1, <3>3
  <2>13. (2 * t + q) % 2 = q % 2
    BY <2>5, <2>7, SMT
  <2>14. Value(d) = x + l
    BY <1>1, <1>b, <2>3, <2>8, <2>10
  <2>15. QED
    BY <1>1, <2>2, <2>4, <2>5, <2>12, <2>13, <2>14
<1>5. QED
  BY <1>3, <1>4

(* The bit of a round is not set yet, so that setting it adds its value.   *)
LEMMA SetBitIs ==
  ASSUME NEW q \in TwoWords, NEW i \in 0..(2 * WordBits - 1), NEW k \in Nat,
         Value(q) = Pow2[i + 1] * k, Value(q) + Pow2[i] < Word * Word
  PROVE  SetBit(q, i) \in TwoWords /\ Value(SetBit(q, i)) = Value(q) + Pow2[i]
<1>1. PICK w \in Nat : w = Word /\ w > 0
  BY WordNat
<1>2. PICK h \in 0..(w - 1), l \in 0..(w - 1) : h = q.hi /\ l = q.lo
  BY <1>1 DEF TwoWords, Digit
<1>3. q = [hi |-> h, lo |-> l] /\ Value(q) = h * w + l /\ h \in Nat /\ l \in Nat
  BY <1>1, <1>2 DEF TwoWords, Value
<1>4. w = Pow2[WordBits] /\ WordBits \in Nat
  BY <1>1, WordPowers
<1>5. \A a \in 0..(w - 1), b \in 0..(w - 1) :
        /\ [hi |-> a, lo |-> b] \in TwoWords
        /\ Value([hi |-> a, lo |-> b]) = a * w + b
  BY <1>1 DEF TwoWords, Digit, Value
<1>6. CASE i >= WordBits
  <2>1. /\ WordBits \in 0..(2 * WordBits)
        /\ i - WordBits \in 0..(2 * WordBits - WordBits) /\ i - WordBits \in 0..(2 * WordBits)
        /\ WordBits + (i - WordBits) = i
    BY <1>4, <1>6
  <2>2. PICK p \in Nat : p = Pow2[i - WordBits]
    BY <2>1, Pow2Facts
  <2>3. Pow2[i] = w * p
    BY <1>4, <2>1, <2>2, Pow2Sum
  <2>4. SetBit(q, i) = [hi |-> h + p, lo |-> l]
    BY <1>3, <1>6, <2>2 DEF SetBit
  <2>5. (h + p) * w = h * w + w * p
    BY <1>1, <1>3, <2>2, SMT
  <2>6. h + p < w
    <3> SUFFICES ASSUME h + p >= w PROVE FALSE
      BY <1>1, <1>3, <2>2
    <3>1. PICK a \in Int : a = h + p
      BY <1>3, <2>2
    <3>2. a * w >= w * w
      BY <1>1, <3>1, TooGreat
    <3>3. PICK x \in Int, y \in Int, z \in Int : x = h * w /\ y = w * p /\ z = w * w
      BY <1>1, <1>3, <2>2
    <3>4. x + l + y < z
      BY <1>1, <1>3, <2>3, <3>3
    <3>5. x + y >= z
      BY <2>5, <3>1, <3>2, <3>3
    <3>6. QED
      BY <1>3, <3>3, <3>4, <3>5
  <2>7. h + p \in 0..(w - 1)
    BY <1>1, <1>3, <2>2, <2>6
  <2>8. PICK x \in Int, y \in Int : x = h * w /\ y = w * p
    BY <1>1, <1>3, <2>2
  <2>9. Value(SetBit(q, i)) = x + y + l
    BY <1>2, <1>5, <2>4, <2>5, <2>7, <2>8
  <2>10. QED
    BY <1>2, <1>3, <1>5, <2>3, <2>4, <2>7, <2>8, <2>9
<1>7. CASE ~(i >= WordBits)
  <2>1. /\ i + 1 \in 0..(2 * WordBits) /\ i \in 0..(2 * WordBits)
        /\ WordBits - (i + 1) \in 0..(2 * WordBits - (i + 1))
        /\ WordBits - (i + 1) \in 0..(2 * WordBits)
        /\ (i + 1) + (WordBits - (i + 1)) = WordBits
    BY <1>4, <1>7
  <2>2. PICK p \in Nat, s \in Nat : p = Pow2[i] /\ p > 0 /\ s = Pow2[WordBits - (i + 1)]
    BY <2>1, Pow2Facts
  <2>3. Pow2[i + 1] = 2 * p
    BY <2>2, Pow2Facts
  <2>4. w = (2 * p) * s
    BY <1>4, <2>1, <2>2, <2>3, Pow2Sum
  <2>5. h * w + l = (2 * p) * k
    BY <1>3, <2>3
  <2>6. l + p < w
    <3>1. PICK c \in Int : c = k - h * s
      BY <1>3, <2>2
    <3>2. (2 * p) * (k - h * s) = (2 * p) * k - h * ((2 * p) * s)
      BY <1>3, <2>2, SMT
    <3>3. PICK x \in Int : x = h * w
      BY <1>1, <1>3
    <3>4. l = (2 * p) * c
      BY <1>3, <2>4, <2>5, <3>1, <3>2, <3>3
    <3>5. PICK y \in Int, z \in Int : y = (2 * p) * c /\ z = (2 * p) * s
      BY <2>2, <3>1
    <3>6. c < s
      <4> SUFFICES ASSUME c >= s PROVE FALSE
        BY <2>2, <3>1
      <4>1. (2 * p) * (c - s) >= 0 /\ (2 * p) * (c - s) = (2 * p) * c - (2 * p) * s
        BY <2>2, <3>1, SMT
      <4>2. QED
        BY <1>1, <1>2, <2>4, <3>4, <3>5, <4>1
    <3>7. (2 * p) * (s - 1 - c) >= 0
      BY <2>2, <3>1, <3>6, SMT
    <3>8. (2 * p) * (s - 1 - c) = (2 * p) * s - 2 * p - (2 * p) * c
      BY <2>2, <3>1, SMT
    <3>9. QED
      BY <1>1, <1>3, <2>2, <2>4, <3>4, <3>5, <3>7, <3>8
  <2>7. SetBit(q, i) = [hi |-> h, lo |-> l + p] /\ l + p \in 0..(w - 1)
    BY <1>1, <1>3, <1>7, <2>2, <2>6 DEF SetBit
  <2>8. PICK x \in Int : x = h * w
    BY <1>1, <1>3
  <2>9. Value(SetBit(q, i)) = x + (l + p)
    BY <1>2, <1>5, <2>7, <2>8
  <2>10. QED
    BY <1>2, <1>3, <1>5, <2>2, <2>7, <2>8, <2>9
<1>8. QED
  BY <1>6, <1>7

(* Shifting a bit in: no bit is lost as long as the result fits.           *)
LEMMA ShiftInIs ==
  ASSUME NEW r \in TwoWords, NEW b \in 0..1, 2 * Value(r) + b < Word * Word
  PROVE  ShiftIn(r, b) \in TwoWords /\ Value(ShiftIn(r, b)) = 2 * Value(r) + b
<1>1. PICK w \in Nat, half \in Nat : w = Word /\ w > 1 /\ w = 2 * half
  BY WordNat, WordPowers
<1>2. PICK h \in 0..(w - 1), l \in 0..(w - 1) : h = r.hi /\ l = r.lo
  BY <1>1 DEF TwoWords, Digit
<1>3. PICK x \in Int, z \in Int : x = h * w /\ z = w * w
  BY <1>1, <1>2
<1>4. Value(r) = x + l /\ 2 * x + 2 * l + b < z
  BY <1>1, <1>2, <1>3 DEF Value
<1>5. PICK c \in 0..1, m \in Int : /\ (2 * l) \div w = c /\ (2 * l) % w = m
                                   /\ 2 * l = c * w + m /\ 0 <= m /\ m < w
  <2>1. 2 * l \in Nat /\ 2 * l < 2 * w
    BY <1>1, <1>2
  <2>2. PICK c \in Int, m \in Int : /\ (2 * l) \div w = c /\ (2 * l) % w = m
                                    /\ 2 * l = c * w + m /\ 0 <= m /\ m < w
    BY <1>1, <2>1, HalfWords
  <2>3. c >= 0
    <3> SUFFICES ASSUME c <= -1 PROVE FALSE
      BY <2>2
    <3>1. (-1 - c) * w >= 0 /\ (-1 - c) * w = -w - c * w
      BY <1>1, <2>2, SMT
    <3>2. PICK y \in Int : y = c * w
      BY <1>1, <2>2
    <3>3. QED
      BY <1>1, <2>1, <2>2, <3>1, <3>2
  <2>4. c <= 1
    <3> SUFFICES ASSUME c >= 2 PROVE FALSE
      BY <2>2
    <3>1. (c - 2) * w >= 0 /\ (c - 2) * w = c * w - 2 * w
      BY <1>1, <2>2, SMT
    <3>2. PICK y \in Int : y = c * w
      BY <1>1, <2>2
    <3>3. QED
      BY <1>1, <2>1, <2>2, <3>1, <3>2
  <2>5. QED
    BY <2>2, <2>3, <2>4
<1>6. m + b < w
  <2>1. c * w = 2 * (c * half)
    BY <1>1, <1>5, SMT
  <2>2. PICK y \in Int : y = c * half
    BY <1>1, <1>5
  <2>3. 2 * l = 2 * y + m
    BY <1>5, <2>1, <2>2
  <2>4. QED
    BY <1>1, <1>2, <1>5, <2>2, <2>3
<1>7. (2 * h + c) * w = 2 * x + c * w
  <2>0. h \in Int /\ c \in Int /\ w \in Int
    BY <1>1, <1>2, <1>5
  <2>1. (2 * h + c) * w = 2 * (h * w) + c * w
    BY <2>0, SMT
  <2>2. QED
    BY <1>3, <2>1
<1>8. 2 * h + c < w
  <2> SUFFICES ASSUME 2 * h + c >= w PROVE FALSE
    BY <1>1, <1>2, <1>5
  <2>1. PICK a \in Int : a = 2 * h + c
    BY <1>2, <1>5
  <2>2. a * w >= w * w
    BY <1>1, <2>1, TooGreat
  <2>3. PICK y \in Int : y = c * w
    BY <1>1, <1>5
  <2>4. 2 * x + y >= z
    BY <1>3, <1>7, <2>1, <2>2, <2>3
  <2>5. QED
    BY <1>2, <1>3, <1>4, <1>5, <2>3, <2>4
<1>9. (2 * h + c) % w = 2 * h + c
  <2>1. PICK a \in Int : a = 2 * h + c /\ 0 <= a /\ a < w
    BY <1>2, <1>5, <1>8
  <2>2. a % w = a
    BY <1>1, <2>1, WrapOnce
  <2>3. QED
    BY <2>1, <2>2
<1>10. ShiftIn(r, b) = [hi |-> 2 * h + c, lo |-> m + b]
  BY <1>1, <1>2, <1>5, <1>9 DEF ShiftIn
<1>11. PICK y \in Int : y = c * w
  BY <1>1, <1>5
<1>12. Value(ShiftIn(r, b)) = 2 * x + y + (m + b)
  BY <1>1, <1>7, <1>10, <1>11 DEF Value
<1>13. Value(ShiftIn(r, b)) = 2 * Value(r) + b
  BY <1>2, <1>3, <1>4, <1>5, <1>11, <1>12
<1>14. 2 * h + c \in Digit /\ m + b \in Digit
  BY <1>1, <1>2, <1>5, <1>6, <1>8 DEF Digit
<1>15. QED
  BY <1>10, <1>13, <1>14 DEF TwoWords

(* What has been divided before bit i - 1 comes down: the number without   *)
(* its i lower bits, with quotient k and a remainder less than the divisor.*)
QR == [q : TwoWords, r : TwoWords]

Divided(s, d, e, i) ==
  /\ s \in QR
  /\ \E k \in Nat : /\ Value(s.q) = Pow2[i] * k
                    /\ Value(d) \div Pow2[i] = k * Value(e) + Value(s.r)
                    /\ Value(s.r) < Value(e)

(* A number of two words is less than a word squared.                      *)
LEMMA ValueRange ==
  ASSUME NEW d \in TwoWords
  PROVE  Value(d) \in Nat /\ Value(d) < Word * Word
<1>1. PICK w \in Nat : w = Word /\ w > 0
  BY WordNat
<1>2. PICK h \in 0..(w - 1), l \in 0..(w - 1) : h = d.hi /\ l = d.lo
  BY <1>1 DEF TwoWords, Digit
<1>3. h * w >= 0 /\ (w - 1 - h) * w >= 0 /\ (w - 1 - h) * w = w * w - w - h * w
  <2>1. h \in Int /\ h >= 0 /\ w - 1 - h >= 0
    BY <1>1, <1>2
  <2>2. QED
    BY <1>1, <2>1, SMT
<1>4. PICK x \in Int, z \in Int : x = h * w /\ z = w * w
  BY <1>1, <1>2
<1>5. x + l \in Nat /\ x + l < z
  BY <1>1, <1>2, <1>3, <1>4
<1>6. QED
  BY <1>1, <1>2, <1>4, <1>5 DEF Value

(* One round: the next bit comes down, and the divisor goes into the       *)
(* remainder once or not at all.                                           *)
LEMMA DivStepKeeps ==
  ASSUME NEW d \in TwoWords, NEW e \in TwoWords, Value(e) > 0,
         NEW i \in 0..(2 * WordBits - 1), NEW s, Divided(s, d, e, i + 1)
  PROVE  Divided(DivStep(s, d, e, i), d, e, i)
<1>1. s \in QR /\ s.q \in TwoWords /\ s.r \in TwoWords
  BY DEF Divided, QR
<1>2. PICK k \in Nat : /\ Value(s.q) = Pow2[i + 1] * k
                       /\ Value(d) \div Pow2[i + 1] = k * Value(e) + Value(s.r)
                       /\ Value(s.r) < Value(e)
  BY DEF Divided
<1>3. PICK V \in Nat, E \in Nat, R \in Nat, Q \in Nat, Z \in Int :
        /\ V = Value(d) /\ E = Value(e) /\ R = Value(s.r) /\ Q = Value(s.q) /\ Z = Word * Word
        /\ V < Z /\ E > 0
  BY <1>1, ValueRange, WordNat
<1>4. PICK p \in Nat : p = Pow2[i] /\ p > 0 /\ Pow2[i + 1] = 2 * p
  <2>1. i \in 0..(2 * WordBits)
    BY Pow2Facts
  <2>2. QED
    BY <2>1, Pow2Facts
<1>5. PICK P \in Nat, P1 \in Nat, b \in 0..1 :
        /\ P = V \div p /\ P1 = V \div (2 * p) /\ b = (V \div p) % 2 /\ P = 2 * P1 + b
  <2>1. /\ V \div p \in Nat /\ V \div (2 * p) \in Nat
        /\ (V \div p) % 2 \in 0..1
        /\ V \div p = 2 * (V \div (2 * p)) + ((V \div p) % 2)
    BY <1>3, <1>4, HalfAgain
  <2>2. QED
    BY <2>1
<1>a. P \in Nat /\ P1 \in Nat /\ b \in 0..1 /\ P = 2 * P1 + b
  BY <1>5
<1>6. Bit(d, i) = b
  BY <1>3, <1>4, <1>5, BitIs
<1>7. PICK m \in Nat : m = k * E /\ P1 = m + R /\ R < E /\ Q = (2 * p) * k
  BY <1>2, <1>3, <1>4, <1>5
<1>8. p * P <= V
  <2>1. p * (V \div p) <= V
    BY <1>3, <1>4, Euclid
  <2>2. QED
    BY <1>5, <2>1
<1>9. P <= V
  <2>1. (p - 1) * P >= 0 /\ (p - 1) * P = p * P - P
    BY <1>4, <1>5, SMT
  <2>2. PICK x \in Int : x = p * P
    BY <1>4, <1>5
  <2>3. QED
    BY <1>3, <1>5, <1>8, <2>1, <2>2
<1>10. PICK T \in Nat : T = 2 * R + b /\ P = 2 * m + T /\ T < Z /\ T < 2 * E
  <2>1. PICK T \in Nat : T = 2 * R + b
    BY <1>3, <1>a
  <2>2. P = 2 * m + T /\ T < 2 * E
    BY <1>3, <1>7, <1>a, <2>1
  <2>3. T < Z
    BY <1>3, <1>7, <1>9, <1>a, <2>1, <2>2
  <2>4. QED
    BY <2>1, <2>2, <2>3
<1> DEFINE r == ShiftIn(s.r, Bit(d, i))
<1>11. r \in TwoWords /\ Value(r) = T
  <2>1. 2 * Value(s.r) + b < Word * Word
    BY <1>3, <1>10
  <2>2. QED
    BY <1>1, <1>3, <1>5, <1>6, <1>10, <2>1, ShiftInIs
<1> HIDE DEF r
<1>12. CASE T >= E
  <2>1. DivStep(s, d, e, i) = [q |-> SetBit(s.q, i), r |-> Sub(r, e)]
    <3>1. Cmp(r, e) = 0 \/ Cmp(r, e) = 1
      BY <1>3, <1>11, <1>12, CmpOrders
    <3>2. Cmp(r, e) >= 0
      BY <3>1
    <3>3. QED
      BY <3>2 DEF DivStep, r
  <2>2. Sub(r, e) \in TwoWords /\ Value(Sub(r, e)) = T - E
    BY <1>3, <1>11, <1>12, SubExact
  <2>3. PICK k2 \in Nat : k2 = 2 * k + 1
    OBVIOUS
  <2>4. p * k2 = (2 * p) * k + p /\ k2 * E = 2 * (k * E) + E
    <3>1. p * (2 * k + 1) = (2 * p) * k + p /\ (2 * k + 1) * E = 2 * (k * E) + E
      BY <1>3, <1>4, SMT
    <3>2. QED
      BY <2>3, <3>1
  <2>5. k2 <= P
    <3>1. k <= k * E
      <4>1. k * (E - 1) >= 0 /\ k * (E - 1) = k * E - k
        BY <1>3, SMT
      <4>2. PICK x \in Int : x = k * E
        BY <1>3
      <4>3. QED
        BY <4>1, <4>2
    <3>2. QED
      BY <1>3, <1>7, <1>10, <1>12, <2>3, <3>1
  <2>6. p * k2 <= V
    <3>0. p \in Nat /\ P \in Nat /\ k2 \in Nat /\ k2 <= P
      BY <1>4, <1>a, <2>3, <2>5
    <3>1. p * (P - k2) >= 0 /\ p * (P - k2) = p * P - p * k2
      BY <3>0, SMT
    <3>2. PICK x \in Int, y \in Int : x = p * P /\ y = p * k2
      BY <3>0
    <3>3. QED
      BY <1>3, <1>8, <3>1, <3>2
  <2>7. Value(s.q) + Pow2[i] < Word * Word /\ Value(s.q) + Pow2[i] = p * k2
    <3>1. PICK y \in Int : y = p * k2
      BY <1>4, <2>3
    <3>2. QED
      BY <1>3, <1>4, <1>7, <2>4, <2>6, <3>1
  <2>8. SetBit(s.q, i) \in TwoWords /\ Value(SetBit(s.q, i)) = p * k2
    BY <1>1, <1>2, <2>7, SetBitIs
  <2>9. P = k2 * E + (T - E)
    BY <1>3, <1>7, <1>10, <2>4
  <2>10. [q |-> SetBit(s.q, i), r |-> Sub(r, e)] \in QR
    BY <2>2, <2>8 DEF QR
  <2>11. T - E < E
    BY <1>3, <1>10
  <2>12. QED
    BY <1>3, <1>4, <1>5, <2>1, <2>2, <2>3, <2>8, <2>9, <2>10, <2>11 DEF Divided
<1>13. CASE T < E
  <2>1. DivStep(s, d, e, i) = [q |-> s.q, r |-> r]
    <3>1. Cmp(r, e) = -1
      BY <1>3, <1>11, <1>13, CmpOrders
    <3>2. ~(Cmp(r, e) >= 0)
      BY <3>1
    <3>3. QED
      BY <3>2 DEF DivStep, r
  <2>2. PICK k2 \in Nat : k2 = 2 * k
    OBVIOUS
  <2>3. p * k2 = (2 * p) * k /\ k2 * E = 2 * (k * E)
    <3>1. p * (2 * k) = (2 * p) * k /\ (2 * k) * E = 2 * (k * E)
      BY <1>3, <1>4, SMT
    <3>2. QED
      BY <2>2, <3>1
  <2>4. P = k2 * E + T
    BY <1>3, <1>7, <1>10, <2>3
  <2>5. [q |-> s.q, r |-> r] \in QR
    BY <1>1, <1>11 DEF QR
  <2>6. QED
    BY <1>3, <1>4, <1>5, <1>7, <1>11, <1>13, <2>1, <2>2, <2>3, <2>4, <2>5 DEF Divided
<1>14. QED
  BY <1>3, <1>10, <1>12, <1>13

(* Nothing is divided at first.                                            *)
LEMMA DividedFirst ==
  ASSUME NEW d \in TwoWords, NEW e \in TwoWords, Value(e) > 0
  PROVE  Divided([q |-> Zero, r |-> Zero], d, e, 2 * WordBits)
<1>1. Zero \in TwoWords /\ Value(Zero) = 0
  BY WordNat DEF Zero, FromUint64, TwoWords, Digit, Value
<1>2. PICK z \in Nat, v \in Nat, n \in Nat : /\ z = Word * Word /\ z = Pow2[2 * WordBits]
                                            /\ v = Value(d) /\ v < z /\ n = Value(e)
  BY WordNat, WordPowers, ValueRange
<1>3. v \div z = 0
  <2>1. z * 0 <= v /\ v < z * 0 + z /\ z > 0
    BY <1>2
  <2>2. QED
    BY <1>2, <2>1, QuotientIs
<1>4. z * 0 = 0 /\ 0 * n + 0 = 0
  BY <1>2
<1>5. [q |-> Zero, r |-> Zero] \in QR
  BY <1>1 DEF QR
<1>6. QED
  BY <1>1, <1>2, <1>3, <1>4, <1>5 DEF Divided

(* The rounds of the code, for anything that is computed as they are.      *)
LEMMA RoundsDivide ==
  ASSUME NEW d \in TwoWords, NEW e \in TwoWords, Value(e) > 0, NEW f,
         f[0] = [q |-> Zero, r |-> Zero],
         \A j \in 1..(2 * WordBits) :
           f[j - 1] \in QR => f[j] = DivStep(f[j - 1], d, e, 2 * WordBits - j)
  PROVE  \A j \in 0..(2 * WordBits) : Divided(f[j], d, e, 2 * WordBits - j)
<1> DEFINE n == 2 * WordBits
           G == {j \in 0..n : Divided(f[j], d, e, n - j)}
<1>1. n \in Nat /\ n - 0 = n
  BY WordPowers
<1>2. 0 \in G
  BY <1>1, DividedFirst
<1>3. ASSUME NEW j \in 0..(n - 1), j \in G
      PROVE  j + 1 \in G
  <2>1. j + 1 \in 1..n /\ j + 1 \in 0..n /\ (j + 1) - 1 = j
        /\ n - (j + 1) \in 0..(n - 1) /\ (n - (j + 1)) + 1 = n - j
    BY <1>1
  <2>2. Divided(f[j], d, e, (n - (j + 1)) + 1) /\ f[j] \in QR
    BY <1>3, <2>1 DEF Divided
  <2>3. f[j + 1] = DivStep(f[j], d, e, n - (j + 1))
    BY <2>1, <2>2
  <2>4. Divided(DivStep(f[j], d, e, n - (j + 1)), d, e, n - (j + 1))
    BY <2>1, <2>2, DivStepKeeps
  <2>5. QED
    BY <2>1, <2>3, <2>4
<1>4. \A j \in 0..n : j \in G
  <2> HIDE DEF G, n
  <2>1. QED
    BY <1>1, <1>2, <1>3, IntervalInduction
<1>5. QED
  BY <1>4

(* The recursive definition of the rounds has a solution.                  *)
LEMMA RoundsAre ==
  ASSUME NEW d \in TwoWords, NEW e \in TwoWords, Value(e) > 0
  PROVE  Rounds(d, e) = [j \in 0..(2 * WordBits) |->
           IF j = 0 THEN [q |-> Zero, r |-> Zero]
                    ELSE DivStep(Rounds(d, e)[j - 1], d, e, 2 * WordBits - j)]
<1> DEFINE n == 2 * WordBits
           start == [q |-> Zero, r |-> Zero]
           round == [z \in (1..n) \X QR |-> DivStep(z[2], d, e, n - z[1])]
           Is(f) == f = [j \in 0..n |-> IF j = 0 THEN start
                                        ELSE DivStep(f[j - 1], d, e, n - j)]
<1>1. n \in Nat
  BY WordPowers
<1>2. Rounds(d, e) = CHOOSE f : Is(f)
  BY DEF Rounds
<1>3. \A j \in 1..n, s \in QR : round[<<j, s>>] = DivStep(s, d, e, n - j)
  OBVIOUS
<1> HIDE DEF round
<1>4. PICK f : IsIteration(f, n, start, round)
  <2> HIDE DEF n, start
  <2>1. QED
    BY <1>1, Iteration
<1>5. /\ f = [j \in 0..n |-> IF j = 0 THEN start ELSE round[<<j, f[j - 1]>>]]
      /\ \A j \in 0..n : f[j] = IF j = 0 THEN start ELSE round[<<j, f[j - 1]>>]
  BY <1>4 DEF IsIteration
<1>6. f[0] = start
  BY <1>1, <1>5
<1>7. ASSUME NEW j \in 1..n, f[j - 1] \in QR
      PROVE  f[j] = DivStep(f[j - 1], d, e, n - j)
  <2>1. j \in 0..n /\ j # 0
    BY <1>1
  <2>2. QED
    BY <1>3, <1>5, <1>7, <2>1
<1>8. \A j \in 0..n : Divided(f[j], d, e, n - j)
  BY <1>6, <1>7, RoundsDivide
<1>9. \A j \in 0..n : j # 0 => round[<<j, f[j - 1]>>] = DivStep(f[j - 1], d, e, n - j)
  <2> TAKE j \in 0..n
  <2>1. j # 0 => j - 1 \in 0..n /\ j \in 1..n
    BY <1>1
  <2>2. j # 0 => f[j - 1] \in QR
    BY <1>8, <2>1 DEF Divided
  <2>3. QED
    BY <1>3, <2>1, <2>2
<1>10. Is(f)
  <2> HIDE DEF n, start
  <2>1. QED
    BY <1>5, <1>9
<1>11. Is(Rounds(d, e))
  <2> HIDE DEF Is
  <2>1. QED
    BY <1>2, <1>10
<1>12. QED
  BY <1>11

(* The long division gives the quotient.                                   *)
LEMMA LongDivExact ==
  ASSUME NEW d \in TwoWords, NEW e \in TwoWords, Value(e) > 0
  PROVE  LongDiv(d, e) \in TwoWords /\ Value(LongDiv(d, e)) = Value(d) \div Value(e)
<1> DEFINE n == 2 * WordBits
           f == Rounds(d, e)
<1>1. n \in Nat /\ n \in 0..n /\ n - n = 0 /\ 0 \in 0..n
  BY WordPowers
<1>2. f = [j \in 0..n |-> IF j = 0 THEN [q |-> Zero, r |-> Zero]
                                   ELSE DivStep(f[j - 1], d, e, n - j)]
  BY RoundsAre
<1> HIDE DEF f
<1>3. f[0] = [q |-> Zero, r |-> Zero]
  BY <1>1, <1>2
<1>4. \A j \in 1..n : f[j] = DivStep(f[j - 1], d, e, n - j)
  <2> TAKE j \in 1..n
  <2>1. j \in 0..n /\ j # 0
    BY <1>1
  <2>2. QED
    BY <1>2, <2>1
<1>5. \A j \in 0..n : Divided(f[j], d, e, n - j)
  BY <1>3, <1>4, RoundsDivide
<1>6. Divided(f[n], d, e, 0)
  <2> HIDE DEF n
  <2>1. QED
    BY <1>1, <1>5
<1>7. LongDiv(d, e) = f[n].q
  BY DEF LongDiv, f
<1>8. f[n].q \in TwoWords /\ f[n].r \in TwoWords
  BY <1>6 DEF Divided, QR
<1>9. PICK k \in Nat : /\ Value(f[n].q) = Pow2[0] * k
                       /\ Value(d) \div Pow2[0] = k * Value(e) + Value(f[n].r)
                       /\ Value(f[n].r) < Value(e)
  BY <1>6 DEF Divided
<1>10. PICK v \in Nat, E \in Nat, R \in Nat : v = Value(d) /\ E = Value(e) /\ R = Value(f[n].r)
  BY <1>8, ValueRange
<1>11. Pow2[0] = 1 /\ v \div 1 = v /\ Pow2[0] * k = k
  BY <1>10, Pow2Facts
<1>12. PICK m \in Nat : m = k * E /\ v = m + R /\ R < E /\ E > 0
  BY <1>9, <1>10, <1>11
<1>13. v \div E = k
  <2>1. E * k <= v /\ v < E * k + E
    BY <1>12
  <2>2. QED
    BY <1>10, <1>12, <2>1, QuotientIs
<1>14. Value(f[n].q) = k
  BY <1>9, <1>11
<1>15. QED
  BY <1>7, <1>8, <1>10, <1>13, <1>14

(* Div is the quotient for every dividend and every divisor but zero: no   *)
(* bit of the shifted remainder is lost, no bit of the quotient is set     *)
(* twice (types.go:292).                                                   *)
THEOREM DivExact ==
  ASSUME NEW d \in TwoWords, NEW e \in TwoWords, e # Zero
  PROVE  Div(d, e) \in TwoWords /\ Value(Div(d, e)) = Value(d) \div Value(e)
<1>1. PICK w \in Nat : w = Word /\ w > 0
  BY WordNat
<1>2. PICK h \in 0..(w - 1), l \in 0..(w - 1) : h = e.hi /\ l = e.lo
  BY <1>1 DEF TwoWords, Digit
<1>3. e = [hi |-> h, lo |-> l] /\ Value(e) = h * w + l
  BY <1>1, <1>2 DEF TwoWords, Value
<1>4. CASE h = 0
  <2>1. l # 0
    BY <1>3, <1>4 DEF Zero, FromUint64
  <2>2. Div(d, e) = Div64(d, l)
    BY <1>2, <1>4, <2>1 DEF Div
  <2>3. Value(e) = l /\ l \in Digit
    BY <1>1, <1>2, <1>3, <1>4 DEF Digit
  <2>4. QED
    BY <2>1, <2>2, <2>3, Div64Exact
<1>5. CASE h # 0
  <2>1. e.hi # 0
    BY <1>2, <1>5
  <2>2. Div(d, e) = LongDiv(d, e)
    BY <2>1 DEF Div
  <2>3. h * w > 0
    <3>1. h \in Nat /\ h > 0
      BY <1>2, <1>5
    <3>2. QED
      BY <1>1, <3>1, SMT
  <2>4. PICK x \in Int : x = h * w
    BY <1>1, <1>2
  <2>5. Value(e) > 0
    BY <1>2, <1>3, <2>3, <2>4
  <2>6. QED
    BY <2>2, <2>5, LongDivExact
<1>6. QED
  BY <1>4, <1>5

-----------------------------------------------------------------------------
(***************************************************************************)
(* Sums of pairs of words.                                                 *)
(***************************************************************************)

(* The two words of a number that fits in them.                            *)
LEMMA WordsIs ==
  ASSUME NEW n \in Nat, n < Word * Word
  PROVE  Words(n) \in TwoWords /\ Value(Words(n)) = n
<1>1. PICK w \in Nat : w = Word /\ w > 0
  BY WordNat
<1>2. PICK a \in Int, b \in Int : /\ n \div w = a /\ n % w = b
                                  /\ n = a * w + b /\ a >= 0 /\ 0 <= b /\ b < w
  BY <1>1, HalfWords
<1>3. a < w
  <2> SUFFICES ASSUME a >= w PROVE FALSE
    BY <1>1, <1>2
  <2>1. a * w >= w * w
    BY <1>1, <1>2, TooGreat
  <2>2. PICK x \in Int, z \in Int : x = a * w /\ z = w * w
    BY <1>1, <1>2
  <2>3. QED
    BY <1>1, <1>2, <2>1, <2>2
<1>4. Words(n) = [hi |-> a, lo |-> b]
  BY <1>1, <1>2 DEF Words
<1>5. a \in Digit /\ b \in Digit
  BY <1>1, <1>2, <1>3 DEF Digit
<1>6. Value(Words(n)) = n
  BY <1>1, <1>2, <1>4 DEF Value
<1>7. QED
  BY <1>4, <1>5, <1>6 DEF TwoWords

(* Add gives two words, also when the sum does not fit.                    *)
LEMMA AddType ==
  ASSUME NEW d \in TwoWords, NEW e \in TwoWords
  PROVE  Add(d, e) \in TwoWords
<1>1. PICK w \in Nat : w = Word /\ w > 0
  BY WordNat
<1>2. \A a \in Int : a % w \in 0..(w - 1)
  BY <1>1, SMT
<1>3. d.hi \in Int /\ d.lo \in Int /\ e.hi \in Int /\ e.lo \in Int
  BY WordsOf
<1>4. PICK b \in Int, c \in Int : b = d.lo + e.lo /\ c = IF b % w < d.lo THEN 1 ELSE 0
  <2>1. PICK b \in Int : b = d.lo + e.lo
    BY <1>3
  <2>2. (IF b % w < d.lo THEN 1 ELSE 0) \in Int
    OBVIOUS
  <2>3. QED
    BY <2>1, <2>2
<1>5. PICK a \in Int : a = d.hi + e.hi + c
  BY <1>3, <1>4
<1>6. Add(d, e) = [hi |-> a % w, lo |-> b % w]
  BY <1>1, <1>4, <1>5 DEF Add
<1>7. QED
  BY <1>1, <1>2, <1>4, <1>5, <1>6 DEF TwoWords, Digit

IsWordSum(g, S, f) ==
  g = [s \in SUBSET S |-> IF s = {} THEN Zero
                          ELSE Add(f[CHOOSE x \in s : TRUE], g[s \ {CHOOSE x \in s : TRUE}])]

(* The recursive definition of a sum of pairs of words has a solution.     *)
LEMMA WordSumExists ==
  ASSUME NEW S, IsFiniteSet(S), NEW f, \A x \in S : f[x] \in TwoWords
  PROVE  \E g : IsWordSum(g, S, f)
<1> DEFINE c    == [s \in SUBSET S |-> CHOOSE x \in s : TRUE]
           step == [p \in S \X TwoWords |-> Add(f[p[1]], p[2])]
<1>1. IsChoice(c, S)
  BY DEF IsChoice
<1>2. PICK g : IsFold(g, S, Zero, step, c)
  <2> HIDE DEF c, step
  <2>1. QED
    BY <1>1, FoldExists
<1>3. \A s \in SUBSET S : g[s] = IF s = {} THEN Zero ELSE step[<<c[s], g[s \ {c[s]}]>>]
  BY <1>2 DEF IsFold
<1> DEFINE G == {s \in SUBSET S : g[s] \in TwoWords}
<1>4. \A s \in SUBSET S : s # {} => c[s] \in s
  BY <1>1 DEF IsChoice
<1>5. \A x \in S, v \in TwoWords : step[<<x, v>>] = Add(f[x], v) /\ step[<<x, v>>] \in TwoWords
  BY AddType
<1>z. Zero \in TwoWords
  BY WordNat DEF Zero, FromUint64, TwoWords, Digit
<1>6. \A X \in SUBSET S : X \in G
  <2> HIDE DEF c, step
  <2>1. ASSUME NEW X \in SUBSET S, \A Y \in SUBSET X : Y # X => Y \in G
        PROVE  X \in G
    <3>1. CASE X = {}
      <4>1. g[{}] = Zero
        BY <1>3
      <4>2. QED
        BY <1>z, <3>1, <4>1
    <3>2. CASE X # {}
      <4>1. c[X] \in X /\ c[X] \in S
        BY <1>4, <3>2
      <4>2. g[X \ {c[X]}] \in TwoWords
        BY <2>1, <4>1
      <4>3. QED
        BY <1>3, <1>5, <3>2, <4>1, <4>2
    <3>3. QED
      BY <3>1, <3>2
  <2> HIDE DEF G
  <2>2. QED
    BY <2>1, SubsetInduction
<1>7. \A s \in SUBSET S : g[s] = IF s = {} THEN Zero ELSE Add(f[c[s]], g[s \ {c[s]}])
  <2> TAKE s \in SUBSET S
  <2>1. s # {} => c[s] \in S /\ g[s \ {c[s]}] \in TwoWords
    <3> HIDE DEF c, step
    <3>1. QED
      BY <1>4, <1>6
  <2> HIDE DEF c, step, G
  <2>2. QED
    BY <1>3, <1>5, <2>1
<1>8. \A s \in SUBSET S : c[s] = CHOOSE x \in s : TRUE
  OBVIOUS
<1>9. g = [s \in SUBSET S |-> g[s]]
  BY <1>2 DEF IsFold
<1>10. IsWordSum(g, S, f)
  <2> HIDE DEF c, step, G
  <2>1. QED
    BY <1>7, <1>8, <1>9 DEF IsWordSum
<1>11. QED
  BY <1>10

(* Adding up pairs of words is exact as long as the whole sum fits.        *)
LEMMA WordSumExact ==
  ASSUME NEW S, IsFiniteSet(S), NEW f, \A x \in S : f[x] \in TwoWords,
         NEW v, \A x \in S : v[x] = Value(f[x]), SumOver(v, S) < Word * Word
  PROVE  /\ FoldFunctionOnSet(Add, Zero, f, S) \in TwoWords
         /\ Value(FoldFunctionOnSet(Add, Zero, f, S)) = SumOver(v, S)
<1> DEFINE g == CHOOSE h : IsWordSum(h, S, f)
<1>1. FoldFunctionOnSet(Add, Zero, f, S) = g[S]
  BY DEF FoldFunctionOnSet, MapThenFoldSet, IsWordSum
<1>2. IsWordSum(g, S, f)
  BY WordSumExists
<1> HIDE DEF g
<1>3. \A x \in S : v[x] \in Nat
  BY ValueRange
<1>4. PICK k : IsSum(k, S, v) /\ \A s \in SUBSET S : k[s] \in Nat
  BY <1>3, SumExists
<1>5. SumOver(v, S) = k[S]
  BY <1>3, <1>4, SumIs
<1>6. /\ \A s \in SUBSET S : g[s] = IF s = {} THEN Zero
                        ELSE Add(f[CHOOSE x \in s : TRUE], g[s \ {CHOOSE x \in s : TRUE}])
      /\ \A s \in SUBSET S : k[s] = IF s = {} THEN 0
                        ELSE v[CHOOSE x \in s : TRUE] + k[s \ {CHOOSE x \in s : TRUE}]
  BY <1>2, <1>4 DEF IsWordSum, IsSum
<1>7. Zero \in TwoWords /\ Value(Zero) = 0
  BY WordNat DEF Zero, FromUint64, TwoWords, Digit, Value
<1> DEFINE G == {s \in SUBSET S : k[s] < Word * Word => g[s] \in TwoWords /\ Value(g[s]) = k[s]}
<1>8. ASSUME NEW X \in SUBSET S, \A Y \in SUBSET X : Y # X => Y \in G
      PROVE  X \in G
  <2>1. CASE X = {}
    <3>1. g[{}] = Zero /\ k[{}] = 0
      BY <1>6
    <3>2. QED
      BY <1>7, <2>1, <3>1
  <2>2. CASE X # {}
    <3>1. PICK x \in X : x = CHOOSE y \in X : TRUE
      BY <2>2
    <3>2. g[X] = Add(f[x], g[X \ {x}]) /\ k[X] = v[x] + k[X \ {x}]
      BY <1>6, <2>2, <3>1
    <3>3. X \ {x} \in G /\ X \ {x} \in SUBSET S
      BY <1>8, <3>1
    <3>4. PICK a \in Nat, b \in Nat, z \in Int : a = v[x] /\ b = k[X \ {x}] /\ z = Word * Word
      BY <1>3, <1>4, <3>3, WordNat
    <3>5. ASSUME k[X] < Word * Word
          PROVE  g[X] \in TwoWords /\ Value(g[X]) = k[X]
      <4>1. b < z /\ a + b < z
        BY <3>2, <3>4, <3>5
      <4>2. g[X \ {x}] \in TwoWords /\ Value(g[X \ {x}]) = b
        BY <3>3, <3>4, <4>1
      <4>3. f[x] \in TwoWords /\ Value(f[x]) = a
        BY <3>4
      <4>4. QED
        BY <3>2, <3>4, <4>1, <4>2, <4>3, AddExact
    <3>6. QED
      BY <3>5
  <2>3. QED
    BY <2>1, <2>2
<1>9. \A X \in SUBSET S : X \in G
  <2> HIDE DEF G
  <2>1. QED
    BY <1>8, SubsetInduction
<1>10. QED
  BY <1>1, <1>5, <1>9

-----------------------------------------------------------------------------
(***************************************************************************)
(* The window.                                                             *)
(***************************************************************************)
(* The part of the type invariant the bounds of the window need.           *)
WalkType ==
  /\ WellFormed(shares)
  /\ tip \in DOMAIN shares
  /\ cur \in DOMAIN shares
  /\ maxWeight \in Nat
  /\ curWeight \in Nat
  /\ pplnsWeight \in Nat
  /\ blockDepth \in Nat
  /\ counted \subseteq DOMAIN shares
  /\ pc \in {"walk", "done"}

(* While the walk goes on, it is at a depth inside the window.             *)
DepthInv == blockDepth < PPLNSWindow

(* The share map a share comes from gives it its type.                     *)
LEMMA ShareType ==
  ASSUME NEW x \in DOMAIN shares, WellFormed(shares)
  PROVE  /\ shares[x] \in Share
         /\ shares[x].difficulty \in Nat
         /\ shares[x].height \in Nat
BY DEF WellFormed, Share

(* A percentage of a natural number is a natural number no larger than it. *)
LEMMA PercentOf ==
  ASSUME NEW d \in Nat, NEW p \in 0..100
  PROVE  (d * p) \div 100 \in Nat /\ (d * p) \div 100 <= d
<1>1. d * p \in Nat
  OBVIOUS
<1>2. d * p <= d * 100
  OBVIOUS
<1>3. QED
  BY <1>1, <1>2

(* The penalty and what it leaves of an uncle are natural numbers.         *)
LEMMA WeightType ==
  ASSUME NEW x \in DOMAIN shares, WellFormed(shares)
  PROVE  Penalty(x) \in Nat /\ UncleWeight(x) \in Nat
<1>1. shares[x].difficulty \in Nat
  BY ShareType
<1>2. UnclePenalty \in 0..100
  BY WindowAssumption
<1>3. Penalty(x) \in Nat /\ Penalty(x) <= shares[x].difficulty
  BY <1>1, <1>2, PercentOf DEF Penalty
<1>4. QED
  BY <1>1, <1>3 DEF UncleWeight

(* The walk starts typed, at depth 0, with no weight.                      *)
LEMMA WalkInit == Init => WalkType /\ DepthInv /\ LimitKept /\ WindowIsRecent
<1> SUFFICES ASSUME Init PROVE WalkType /\ DepthInv /\ LimitKept /\ WindowIsRecent
  OBVIOUS
<1>1. shares \in ShareMap /\ WellFormed(shares)
  BY WindowAssumption DEF Init
<1>2. tip \in DOMAIN shares /\ cur = tip
  BY DEF Init, Tips
<1>3. curWeight \in Nat /\ shares[tip].height \in Nat
  BY <1>1, <1>2, ShareType DEF Init
<1>4. maxWeight \in Nat
  BY WindowAssumption DEF Init
<1>5. WalkType
  BY <1>1, <1>2, <1>3, <1>4 DEF Init, WalkType
<1>6. DepthInv
  BY WindowAssumption DEF Init, DepthInv
<1>7. LimitKept
  BY <1>4 DEF Init, LimitKept
<1>8. WindowIsRecent
  BY <1>2, <1>3 DEF Init, WindowIsRecent
<1>9. QED
  BY <1>5, <1>6, <1>7, <1>8

(* An uncle that is included is in the map and in the window, and leaves   *)
(* the total within the limit.                                             *)
LEMMA UncleKeeps ==
  ASSUME WalkType, DepthInv, LimitKept, WindowIsRecent, IncludeUncle
  PROVE  WalkType' /\ DepthInv' /\ LimitKept' /\ WindowIsRecent'
<1>1. Uncle \in DOMAIN shares /\ ~OutOfWindow(Uncle) /\ ~OverLimit(Uncle)
  BY DEF IncludeUncle, Eligible
<1>2. Penalty(Uncle) \in Nat /\ UncleWeight(Uncle) \in Nat
  BY <1>1, WeightType DEF WalkType
<1>3. pc = "walk" /\ pc' = "walk"
  BY DEF IncludeUncle, AtUncle
<1>4. pplnsWeight' = pplnsWeight + UncleWeight(Uncle)
  BY DEF IncludeUncle
<1>5. pplnsWeight' \in Nat /\ pplnsWeight' <= maxWeight
  BY <1>1, <1>2, <1>4 DEF WalkType, OverLimit
<1>6. curWeight' \in Nat
  BY <1>2 DEF IncludeUncle, WalkType
<1>7. UNCHANGED <<shares, maxWeight, tip, cur, blockDepth>>
  BY DEF IncludeUncle, input
<1>8. counted' = counted \cup {Uncle}
  BY DEF IncludeUncle
<1>9. WalkType'
  <2>1. WellFormed(shares)' = WellFormed(shares)
    BY <1>7 DEF WellFormed
  <2>2. QED
    BY <1>1, <1>3, <1>5, <1>6, <1>7, <1>8, <2>1 DEF WalkType
<1>10. LimitKept'
  BY <1>3, <1>5, <1>7 DEF LimitKept
<1>11. WindowIsRecent'
  <2>1. shares[tip].height - shares[Uncle].height < PPLNSWindow
    <3>1. shares[tip].height \in Nat /\ shares[Uncle].height \in Nat
      BY <1>1, ShareType DEF WalkType
    <3>2. QED
      BY <1>1, <3>1, WindowAssumption DEF OutOfWindow
  <2>2. QED
    BY <1>7, <1>8, <2>1 DEF WindowIsRecent
<1>12. QED
  BY <1>7, <1>9, <1>10, <1>11 DEF DepthInv

(* The share of the walk is counted at its depth; the walk goes on to the  *)
(* parent, one height further down, only within the limit and the window.  *)
LEMMA ShareKeeps ==
  ASSUME WalkType, DepthInv, LimitKept, WindowIsRecent, AddShare
  PROVE  WalkType' /\ DepthInv' /\ LimitKept' /\ WindowIsRecent'
<1>1. pc = "walk" /\ pplnsWeight <= maxWeight
  BY DEF AddShare, LimitKept
<1>2. pplnsWeight' = pplnsWeight + curWeight /\ pplnsWeight' \in Nat
  BY DEF AddShare, WalkType
<1>3. UNCHANGED <<shares, maxWeight, tip>>
  BY DEF AddShare, input
<1>4. counted' = counted \cup {cur}
  BY DEF AddShare
<1>5. WellFormed(shares)' = WellFormed(shares)
  BY <1>3 DEF WellFormed
<1>6. shares[tip].height \in Nat /\ shares[cur].height \in Nat
  BY ShareType DEF WalkType
<1>7. \A x \in counted' : shares[tip].height - shares[x].height < PPLNSWindow
  <2>1. shares[tip].height - shares[cur].height < PPLNSWindow
    BY <1>6, WindowAssumption DEF WindowIsRecent, DepthInv, WalkType
  <2>2. QED
    BY <1>4, <2>1 DEF WindowIsRecent
<1>8. CASE WalkEnds(pplnsWeight')
  <2>1. pc' = "done" /\ UNCHANGED <<cur, curWeight, blockDepth>>
    BY <1>8 DEF AddShare
  <2>2. WalkType'
    BY <1>2, <1>3, <1>4, <1>5, <2>1 DEF WalkType
  <2>3. LimitKept'
    BY <1>1, <1>2, <1>3, <2>1 DEF LimitKept, WalkType
  <2>4. WindowIsRecent'
    BY <1>3, <1>7, <2>1 DEF WindowIsRecent
  <2>5. QED
    BY <2>1, <2>2, <2>3, <2>4 DEF DepthInv
<1>9. CASE ~WalkEnds(pplnsWeight')
  <2>1. /\ pc' = "walk"
        /\ cur' = shares[cur].parent
        /\ curWeight' = shares[cur'].difficulty
        /\ blockDepth' = blockDepth + 1
    BY <1>9 DEF AddShare
  <2>2. /\ ~(pplnsWeight' > maxWeight)
        /\ blockDepth + 1 < PPLNSWindow
        /\ cur' \in DOMAIN shares
    BY <1>9, <2>1, WindowAssumption DEF WalkEnds, WalkType
  <2>3. curWeight' \in Nat /\ shares[cur'].height \in Nat
    BY <2>1, <2>2, ShareType DEF WalkType
  <2>4. shares[cur].height = shares[cur'].height + 1
    BY <2>1, <2>2 DEF WalkType, WellFormed
  <2>5. WalkType'
    BY <1>2, <1>3, <1>4, <1>5, <2>1, <2>2, <2>3 DEF WalkType
  <2>6. LimitKept'
    BY <1>2, <1>3, <2>1, <2>2 DEF LimitKept, WalkType
  <2>7. WindowIsRecent'
    <3>1. shares[cur'].height + blockDepth' = shares[tip].height
      BY <1>6, <2>1, <2>3, <2>4 DEF WindowIsRecent, WalkType
    <3>2. QED
      BY <1>3, <1>7, <3>1 DEF WindowIsRecent
  <2>8. QED
    BY <2>1, <2>2, <2>5, <2>6, <2>7, <1>3 DEF DepthInv
<1>10. QED
  BY <1>8, <1>9

(* A skipped uncle, and a stuttering step, change none of it.              *)
LEMMA SkipKeeps ==
  ASSUME WalkType, DepthInv, LimitKept, WindowIsRecent,
         SkipUncle \/ UNCHANGED vars
  PROVE  WalkType' /\ DepthInv' /\ LimitKept' /\ WindowIsRecent'
<1>1. UNCHANGED <<shares, maxWeight, tip, cur, curWeight, pplnsWeight,
                  blockDepth, counted, pc>>
  BY DEF SkipUncle, vars, input, result
<1>2. WalkType'
  <2>1. WellFormed(shares)' = WellFormed(shares)
    BY <1>1 DEF WellFormed
  <2>2. QED
    BY <1>1, <2>1 DEF WalkType
<1>3. DepthInv' /\ LimitKept' /\ WindowIsRecent'
  BY <1>1 DEF DepthInv, LimitKept, WindowIsRecent
<1>4. QED
  BY <1>2, <1>3

(* The invariant both theorems follow from.                                *)
LEMMA WalkInvariant ==
  Spec => [](WalkType /\ DepthInv /\ LimitKept /\ WindowIsRecent)
<1> DEFINE Inv == WalkType /\ DepthInv /\ LimitKept /\ WindowIsRecent
<1>1. Init => Inv
  BY WalkInit
<1>2. Inv /\ [Next]_vars => Inv'
  <2> SUFFICES ASSUME Inv, [Next]_vars PROVE Inv'
    OBVIOUS
  <2>1. CASE IncludeUncle
    BY <2>1, UncleKeeps
  <2>2. CASE AddShare
    BY <2>2, ShareKeeps
  <2>3. CASE SkipUncle \/ UNCHANGED vars
    BY <2>3, SkipKeeps
  <2>4. QED
    BY <2>1, <2>2, <2>3 DEF Next
<1>3. QED
  BY <1>1, <1>2, PTL DEF Spec

(* Whatever the uncles, only the last share of the walk takes the total    *)
(* over twice the mainchain difficulty.                                    *)
THEOREM LimitHolds == Spec => []LimitKept
BY WalkInvariant, PTL

(* Nothing older than the window is counted, and the walk covers every     *)
(* height between the two it reports.                                      *)
THEOREM WindowHolds == Spec => []WindowIsRecent
BY WalkInvariant, PTL

-----------------------------------------------------------------------------
(***************************************************************************)
(* The result: its types, its sums, and why nothing is counted twice.      *)
(***************************************************************************)
ResultType ==
  /\ u \in Nat \ {0}
  /\ weight \in [Address -> Nat]
  /\ sharePositions \in [Address -> Seq(Nat)]
  /\ unclePositions \in [Address -> Seq(Nat)]

(* The difficulties of the share map, and the entries of each miner.       *)
Difficulties == [x \in DOMAIN shares |-> shares[x].difficulty]
Entries == [m \in Address |-> Len(sharePositions[m]) + Len(unclePositions[m])]

(* The total is what the miners have and, but for the bonuses of a share   *)
(* that is still to be added, what the counted shares were mined with.     *)
SumInv ==
  /\ IsFiniteSet(counted)
  /\ SumOver(weight, Address) = pplnsWeight
  /\ IF pc = "walk"
     THEN SumOver(Difficulties, counted) + shares[cur].difficulty = pplnsWeight + curWeight
     ELSE SumOver(Difficulties, counted) = pplnsWeight

(* The walk is down one branch c; what was counted is the part of it above *)
(* cur, and uncles of that part or earlier ones of cur.                    *)
Walks(c) ==
  /\ Branch(shares, c) /\ cur \in c
  /\ \A x \in c : shares[cur].height <= shares[x].height
  /\ \A y \in counted :
       \/ y \in c /\ (pc = "walk" => y # cur)
       \/ \E x \in c : \E i \in Uncles(shares, x) :
            y = shares[x].uncles[i] /\ (x = cur => i < u)

BranchInv ==
  /\ OnceOnBranch(shares)
  /\ \E c \in SUBSET DOMAIN shares : Walks(c)

(* There are as many positions as counted shares, none deeper than the     *)
(* walk, and whoever has weight has a position.                            *)
PositionInv ==
  /\ \A m \in Address : \A k \in DOMAIN sharePositions[m] : sharePositions[m][k] <= blockDepth
  /\ \A m \in Address : \A k \in DOMAIN unclePositions[m] : unclePositions[m][k] <= blockDepth
  /\ SumOver(Entries, Address) = Cardinality(counted)
  /\ \A m \in Address : weight[m] # 0 => m \in Miners
  /\ pc = "done" => \E k \in DOMAIN sharePositions[shares[cur].miner] :
                      sharePositions[shares[cur].miner][k] = blockDepth

ResultInv == WalkType /\ ResultType /\ SumInv /\ BranchInv /\ PositionInv

(* The uncles of a share are numbered from 1.                              *)
LEMMA UncleNumbers ==
  ASSUME NEW x \in DOMAIN shares, WellFormed(shares)
  PROVE  /\ Uncles(shares, x) = 1..Len(shares[x].uncles)
         /\ Uncles(shares, x) \subseteq Nat
         /\ Len(shares[x].uncles) \in Nat
<1>1. shares[x].uncles \in Seq(Id)
  BY DEF WellFormed, Share
<1>2. DOMAIN shares[x].uncles = 1..Len(shares[x].uncles) /\ Len(shares[x].uncles) \in Nat
  BY <1>1
<1>3. QED
  BY <1>2 DEF Uncles

(* The initial state of the result.                                        *)
LEMMA ResultInit == Init => ResultInv
<1> SUFFICES ASSUME Init PROVE ResultInv
  OBVIOUS
<1>1. WalkType
  BY WalkInit
<1>2. ResultType
  BY DEF Init, ResultType
<1>3. SumInv
  <2>1. SumOver(weight, Address) = 0
    <3>1. \A m \in Address : weight[m] = 0
      BY DEF Init
    <3>2. QED
      BY <3>1, SumZero, WindowAssumption
  <2>2. counted = {} /\ IsFiniteSet(counted) /\ SumOver(Difficulties, counted) = 0
    BY SumEmpty, FS_EmptySet DEF Init
  <2>3. shares[cur].difficulty = curWeight /\ curWeight \in Nat
    BY <1>1 DEF Init, WalkType
  <2>4. QED
    BY <2>1, <2>2, <2>3 DEF Init, SumInv
<1>4. BranchInv
  <2>1. OnceOnBranch(shares)
    BY WindowAssumption DEF Init
  <2>2. cur \in DOMAIN shares /\ {cur} \in SUBSET DOMAIN shares /\ shares[cur].height \in Nat
    BY <1>1, ShareType DEF WalkType
  <2>3. Branch(shares, {cur})
    BY <2>2 DEF Branch
  <2>4. Walks({cur})
    BY <2>2, <2>3 DEF Walks, Init
  <2>5. QED
    BY <2>1, <2>2, <2>4 DEF BranchInv
<1>5. PositionInv
  <2>1. SumOver(Entries, Address) = 0
    <3>1. \A m \in Address : Entries[m] = 0
      BY DEF Init, Entries
    <3>2. QED
      BY <3>1, SumZero, WindowAssumption
  <2>2. Cardinality(counted) = 0
    BY FS_EmptySet DEF Init
  <2>3. QED
    BY <2>1, <2>2 DEF Init, PositionInv
<1>6. QED
  BY <1>1, <1>2, <1>3, <1>4, <1>5 DEF ResultInv

(* The uncle at hand has not been counted, and neither has the share.      *)
LEMMA NotYetCounted ==
  ASSUME ResultInv, pc = "walk"
  PROVE  /\ cur \notin counted
         /\ AtUncle => Uncle \notin counted
<1>1. PICK c \in SUBSET DOMAIN shares : Walks(c)
  BY DEF ResultInv, BranchInv
<1>2. Branch(shares, c) /\ cur \in c
  BY <1>1 DEF Walks
<1>3. \A x \in c : \A i \in Uncles(shares, x) :
        /\ shares[x].uncles[i] \notin c
        /\ \A y \in c : \A j \in Uncles(shares, y) :
             shares[x].uncles[i] = shares[y].uncles[j] => x = y /\ i = j
  BY <1>2 DEF ResultInv, BranchInv, OnceOnBranch
<1>4. \A y \in counted :
        \/ y \in c /\ y # cur
        \/ \E x \in c : \E i \in Uncles(shares, x) :
             y = shares[x].uncles[i] /\ (x = cur => i < u)
  BY <1>1 DEF Walks
<1>5. cur \notin counted
  BY <1>2, <1>3, <1>4
<1>6. ASSUME AtUncle PROVE Uncle \notin counted
  <2>1. u \in Uncles(shares, cur) /\ Uncle = shares[cur].uncles[u]
    <3>1. Uncles(shares, cur) = 1..Len(shares[cur].uncles) /\ Len(shares[cur].uncles) \in Nat
      BY UncleNumbers DEF ResultInv, WalkType
    <3>2. QED
      BY <1>6, <3>1 DEF AtUncle, Uncle, ResultInv, ResultType
  <2>2. Uncle \notin c
    BY <1>2, <1>3, <2>1
  <2>3. ASSUME NEW x \in c, NEW i \in Uncles(shares, x), Uncle = shares[x].uncles[i]
        PROVE  x = cur /\ i = u
    BY <1>2, <1>3, <2>1, <2>3
  <2>4. ~(u < u)
    BY DEF ResultInv, ResultType
  <2>5. QED
    BY <1>4, <2>2, <2>3, <2>4
<1>7. QED
  BY <1>5, <1>6

(* What grows by d at one miner grows by d in all.                         *)
LEMMA GrowsBy ==
  ASSUME NEW m \in Address, NEW d \in Nat, NEW e, NEW f, \A x \in Address : e[x] \in Nat,
         f[m] = e[m] + d, \A x \in Address : x # m => f[x] = e[x]
  PROVE  SumOver(f, Address) = SumOver(e, Address) + d
<1>1. IsFiniteSet(Address) /\ e[m] \in Nat /\ f[m] \in Nat /\ \A x \in Address : f[x] \in Nat
  BY WindowAssumption
<1>2. SumOver(f, Address) + e[m] = SumOver(e, Address) + f[m]
  BY <1>1, SumChange
<1>3. SumOver(f, Address) \in Nat /\ SumOver(e, Address) \in Nat
  BY <1>1, SumType
<1>4. QED
  BY <1>1, <1>2, <1>3

(* Weight d of m grows the sum by d.                                       *)
LEMMA WeightGrows ==
  ASSUME weight \in [Address -> Nat], NEW m \in Address, NEW d \in Nat,
         NEW w, w = [weight EXCEPT ![m] = @ + d]
  PROVE  /\ w \in [Address -> Nat]
         /\ SumOver(w, Address) = SumOver(weight, Address) + d
<1>1. /\ \A x \in Address : weight[x] \in Nat
      /\ w[m] = weight[m] + d
      /\ \A x \in Address : x # m => w[x] = weight[x]
      /\ w \in [Address -> Nat]
  OBVIOUS
<1>2. ASSUME NEW v, v[m] = weight[m] + d, \A x \in Address : x # m => v[x] = weight[x]
      PROVE  SumOver(v, Address) = SumOver(weight, Address) + d
  BY <1>1, <1>2, GrowsBy
<1>3. QED
  BY <1>1, <1>2

(* Share x, counted once more, adds its difficulty.                        *)
LEMMA CountedGrows ==
  ASSUME ResultInv, NEW x \in DOMAIN shares, x \notin counted
  PROVE  /\ IsFiniteSet(counted \cup {x})
         /\ Cardinality(counted \cup {x}) = Cardinality(counted) + 1
         /\ SumOver(Difficulties, counted \cup {x})
              = SumOver(Difficulties, counted) + shares[x].difficulty
         /\ SumOver(Difficulties, counted) \in Nat
<1>1. IsFiniteSet(counted)
  BY DEF ResultInv, SumInv
<1>2. (\A y \in counted : Difficulties[y] \in Nat) /\ Difficulties[x] = shares[x].difficulty /\ Difficulties[x] \in Nat
  BY ShareType DEF ResultInv, WalkType, Difficulties
<1>3. SumOver(Difficulties, counted \cup {x}) = SumOver(Difficulties, counted) + Difficulties[x]
  BY <1>1, <1>2, SumAdd
<1>4. SumOver(Difficulties, counted) \in Nat
  BY <1>1, <1>2, SumType
<1>5. QED
  BY <1>1, <1>2, <1>3, <1>4, FS_AddElement

(* One position more is one entry more.                                    *)
LEMMA PositionsGrow ==
  ASSUME NEW p \in [Address -> Seq(Nat)], NEW m \in Address, NEW d \in Nat,
         NEW q, q = [p EXCEPT ![m] = Append(@, d)]
  PROVE  /\ q \in [Address -> Seq(Nat)]
         /\ \A x \in Address : Len(p[x]) \in Nat /\ Len(q[x]) = (IF x = m THEN Len(p[x]) + 1 ELSE Len(p[x]))
         /\ \A x \in Address : p[x] # << >> => q[x] # << >>
         /\ q[m] # << >>
         /\ Len(q[m]) \in DOMAIN q[m] /\ q[m][Len(q[m])] = d
         /\ \A n \in Nat : d <= n /\ (\A x \in Address : \A k \in DOMAIN p[x] : p[x][k] <= n)
              => \A x \in Address : \A k \in DOMAIN q[x] : q[x][k] <= n
<1>1. p[m] \in Seq(Nat) /\ Append(p[m], d) \in Seq(Nat)
  OBVIOUS
<1>2. /\ Len(Append(p[m], d)) = Len(p[m]) + 1 /\ Append(p[m], d) # << >>
      /\ DOMAIN Append(p[m], d) = 1..(Len(p[m]) + 1) /\ DOMAIN p[m] = 1..Len(p[m])
      /\ Len(p[m]) \in Nat
      /\ \A k \in 1..Len(p[m]) : Append(p[m], d)[k] = p[m][k]
      /\ Append(p[m], d)[Len(p[m]) + 1] = d
  BY <1>1, AppendProperties, LenProperties
<1>3. /\ q[m] = Append(p[m], d) /\ \A x \in Address : x # m => q[x] = p[x]
      /\ q \in [Address -> Seq(Nat)]
  BY <1>1
<1>4. ASSUME NEW n \in Nat, d <= n, \A x \in Address : \A k \in DOMAIN p[x] : p[x][k] <= n,
             NEW x \in Address, NEW k \in DOMAIN q[x]
      PROVE  q[x][k] <= n
  <2>1. CASE x = m
    BY <1>2, <1>3, <1>4, <2>1
  <2>2. CASE x # m
    BY <1>3, <1>4, <2>2
  <2>3. QED
    BY <2>1, <2>2
<1>5. QED
  BY <1>2, <1>3, <1>4

(* One action each: the result, when an uncle is added.                    *)
LEMMA UncleKeepsResult ==
  ASSUME ResultInv, WalkType', IncludeUncle
  PROVE  ResultInv'
<1>1. /\ AtUncle /\ pc = "walk" /\ pc' = "walk" /\ Uncle \in DOMAIN shares
      /\ UNCHANGED <<shares, maxWeight, tip, cur, blockDepth, sharePositions>>
      /\ counted' = counted \cup {Uncle} /\ u' = u + 1
      /\ curWeight' = curWeight + Penalty(Uncle)
      /\ pplnsWeight' = pplnsWeight + UncleWeight(Uncle)
  BY DEF IncludeUncle, AtUncle, Eligible, input
<1> DEFINE m == shares[Uncle].miner
<1>2. /\ m \in Address /\ Uncle \notin counted
      /\ weight' = [weight EXCEPT ![m] = @ + UncleWeight(Uncle)]
      /\ unclePositions' = [unclePositions EXCEPT ![m] = Append(@, blockDepth)]
  <2>1. m \in Address
    BY <1>1, ShareType DEF ResultInv, WalkType, Share
  <2>2. QED
    BY <1>1, <2>1, NotYetCounted DEF IncludeUncle
<1>3. /\ Penalty(Uncle) \in Nat /\ UncleWeight(Uncle) \in Nat
      /\ Penalty(Uncle) + UncleWeight(Uncle) = shares[Uncle].difficulty
  BY <1>1, WeightType, ShareType DEF ResultInv, WalkType, UncleWeight
<1>4. /\ curWeight \in Nat /\ pplnsWeight \in Nat /\ blockDepth \in Nat
      /\ u \in Nat \ {0} /\ weight \in [Address -> Nat]
      /\ sharePositions \in [Address -> Seq(Nat)] /\ unclePositions \in [Address -> Seq(Nat)]
  BY DEF ResultInv, WalkType, ResultType
<1> HIDE DEF m
<1>5. /\ weight' \in [Address -> Nat]
      /\ SumOver(weight', Address) = SumOver(weight, Address) + UncleWeight(Uncle)
  BY <1>2, <1>3, <1>4, WeightGrows
<1>6. /\ unclePositions' \in [Address -> Seq(Nat)]
      /\ \A x \in Address : /\ Len(unclePositions[x]) \in Nat
                            /\ Len(unclePositions'[x]) = (IF x = m THEN Len(unclePositions[x]) + 1
                                                                   ELSE Len(unclePositions[x]))
      /\ \A x \in Address : unclePositions[x] # << >> => unclePositions'[x] # << >>
      /\ unclePositions'[m] # << >>
      /\ (\A x \in Address : \A k \in DOMAIN unclePositions[x] : unclePositions[x][k] <= blockDepth)
           => \A x \in Address : \A k \in DOMAIN unclePositions'[x] : unclePositions'[x][k] <= blockDepth
  BY <1>2, <1>4, PositionsGrow
<1>7. /\ IsFiniteSet(counted')
      /\ Cardinality(counted') = Cardinality(counted) + 1
      /\ SumOver(Difficulties, counted')
           = SumOver(Difficulties, counted) + shares[Uncle].difficulty
      /\ SumOver(Difficulties, counted) \in Nat
  BY <1>1, <1>2, CountedGrows
<1>8. ResultType'
  BY <1>1, <1>4, <1>5, <1>6 DEF ResultType
<1>9. SumInv'
  <2>1. Difficulties' = Difficulties
    BY <1>1 DEF Difficulties
  <2>2. SumOver(weight', Address) = pplnsWeight'
    BY <1>1, <1>5 DEF ResultInv, SumInv
  <2>3. shares[cur].difficulty \in Nat
    BY ShareType DEF ResultInv, WalkType
  <2>4. SumOver(Difficulties, counted) + shares[cur].difficulty = pplnsWeight + curWeight
    BY <1>1 DEF ResultInv, SumInv
  <2>5. SumOver(Difficulties, counted') + shares[cur].difficulty = pplnsWeight' + curWeight'
    <3> DEFINE a == SumOver(Difficulties, counted)
               b == shares[cur].difficulty
               c == shares[Uncle].difficulty
               y == Penalty(Uncle)
               z == UncleWeight(Uncle)
    <3>1. a \in Nat /\ b \in Nat /\ c = y + z /\ y \in Nat /\ z \in Nat
      BY <1>3, <1>7, <2>3
    <3>2. a + b = pplnsWeight + curWeight
      BY <2>4
    <3>3. SumOver(Difficulties, counted') = a + c
      BY <1>7
    <3>4. pplnsWeight' = pplnsWeight + z /\ curWeight' = curWeight + y
      BY <1>1
    <3> HIDE DEF a, b, c, y, z
    <3>5. (a + c) + b = (pplnsWeight + z) + (curWeight + y)
      BY <1>4, <3>1, <3>2
    <3>6. QED
      BY <3>3, <3>4, <3>5 DEF b
  <2>6. QED
    BY <1>1, <1>7, <2>1, <2>2, <2>5 DEF SumInv
<1>10. BranchInv'
  <2>1. PICK c \in SUBSET DOMAIN shares : Walks(c)
    BY DEF ResultInv, BranchInv
  <2>2. u \in Uncles(shares, cur) /\ Uncle = shares[cur].uncles[u]
    <3>1. Uncles(shares, cur) = 1..Len(shares[cur].uncles) /\ Len(shares[cur].uncles) \in Nat
      BY UncleNumbers DEF ResultInv, WalkType
    <3>2. QED
      BY <1>1, <1>4, <3>1 DEF AtUncle, Uncle
  <2>3. \A i \in Nat : i < u => i < u'
    BY <1>1, <1>4
  <2>4. \A x \in c : Uncles(shares, x) \subseteq Nat
    BY UncleNumbers DEF ResultInv, WalkType
  <2>5. \A y \in counted' :
           \/ y \in c /\ y # cur
           \/ \E x \in c : \E i \in Uncles(shares, x) :
                y = shares[x].uncles[i] /\ (x = cur => i < u')
    <3> SUFFICES ASSUME NEW y \in counted'
                 PROVE  \/ y \in c /\ y # cur
                        \/ \E x \in c : \E i \in Uncles(shares, x) :
                             y = shares[x].uncles[i] /\ (x = cur => i < u')
      OBVIOUS
    <3>1. CASE y = Uncle
      <4>1. cur \in c /\ u < u'
        BY <1>1, <1>4, <2>1 DEF Walks
      <4>2. QED
        BY <2>2, <3>1, <4>1
    <3>2. CASE y \in counted
      BY <1>1, <2>1, <2>3, <2>4, <3>2 DEF Walks
    <3>3. QED
      BY <1>1, <3>1, <3>2
  <2>6. Walks(c)'
    BY <1>1, <2>1, <2>5 DEF Walks, Branch, Uncles
  <2>7. OnceOnBranch(shares)' = OnceOnBranch(shares)
    BY <1>1 DEF OnceOnBranch, Branch, Uncles
  <2>8. QED
    BY <1>1, <2>1, <2>6, <2>7 DEF ResultInv, BranchInv
<1>11. PositionInv'
  <2>1. SumOver(Entries', Address) = SumOver(Entries, Address) + 1
    <3>1. /\ \A x \in Address : Entries[x] \in Nat
          /\ Entries'[m] = Entries[m] + 1
          /\ \A x \in Address : x # m => Entries'[x] = Entries[x]
      BY <1>1, <1>2, <1>4, <1>6 DEF Entries
    <3>2. 1 \in Nat
      OBVIOUS
    <3> DEFINE e == Entries
               f == Entries'
    <3>3. /\ \A x \in Address : e[x] \in Nat
          /\ f[m] = e[m] + 1
          /\ \A x \in Address : x # m => f[x] = e[x]
      BY <3>1
    <3> HIDE DEF e, f
    <3>4. SumOver(f, Address) = SumOver(e, Address) + 1
      BY <1>2, <3>2, <3>3, GrowsBy
    <3>5. QED
      BY <3>4 DEF e, f
  <2>2. \A x \in Address : weight'[x] # 0 => sharePositions'[x] # << >> \/ unclePositions'[x] # << >>
    <3> SUFFICES ASSUME NEW x \in Address, weight'[x] # 0
                 PROVE  sharePositions'[x] # << >> \/ unclePositions'[x] # << >>
      OBVIOUS
    <3>1. CASE x = m
      BY <1>6, <3>1
    <3>2. CASE x # m
      BY <1>1, <1>2, <1>4, <1>6, <3>2 DEF ResultInv, PositionInv, Miners
    <3>3. QED
      BY <3>1, <3>2
  <2>3. \A x \in Address : weight'[x] # 0 => x \in Miners'
    BY <2>2 DEF Miners
  <2>4. QED
    BY <1>1, <1>6, <1>7, <2>1, <2>3 DEF ResultInv, PositionInv
<1>12. QED
  BY <1>8, <1>9, <1>10, <1>11 DEF ResultInv

(* When the share is added, and the walk stops or goes on to its parent.   *)
LEMMA ShareKeepsResult ==
  ASSUME ResultInv, WalkType', WindowIsRecent, WindowIsRecent', AddShare
  PROVE  ResultInv'
<1>1. /\ pc = "walk" /\ u > Len(shares[cur].uncles)
      /\ UNCHANGED <<shares, maxWeight, tip, unclePositions>>
      /\ counted' = counted \cup {cur}
      /\ pplnsWeight' = pplnsWeight + curWeight
  BY DEF AddShare, input
<1> DEFINE m == shares[cur].miner
           go == pc' = "walk"
<1>2. /\ m \in Address /\ cur \notin counted /\ cur \in DOMAIN shares
      /\ weight' = [weight EXCEPT ![m] = @ + curWeight]
      /\ sharePositions' = [sharePositions EXCEPT ![m] = Append(@, blockDepth)]
  <2>1. m \in Address /\ cur \in DOMAIN shares
    BY ShareType DEF ResultInv, WalkType, Share
  <2>2. QED
    BY <1>1, <2>1, NotYetCounted DEF AddShare
<1>3. \/ /\ go
         /\ cur' = shares[cur].parent /\ cur' \in DOMAIN shares /\ u' = 1
         /\ curWeight' = shares[cur'].difficulty /\ blockDepth' = blockDepth + 1
      \/ /\ pc' = "done"
         /\ UNCHANGED <<cur, u, curWeight, blockDepth>>
  BY DEF AddShare, WalkEnds
<1>4. /\ curWeight \in Nat /\ pplnsWeight \in Nat /\ blockDepth \in Nat
      /\ u \in Nat \ {0} /\ weight \in [Address -> Nat]
      /\ sharePositions \in [Address -> Seq(Nat)] /\ unclePositions \in [Address -> Seq(Nat)]
  BY DEF ResultInv, WalkType, ResultType
<1> HIDE DEF m, go
<1>5. /\ weight' \in [Address -> Nat]
      /\ SumOver(weight', Address) = SumOver(weight, Address) + curWeight
  BY <1>2, <1>4, WeightGrows
<1>6. /\ sharePositions' \in [Address -> Seq(Nat)]
      /\ \A x \in Address : /\ Len(sharePositions[x]) \in Nat
                            /\ Len(sharePositions'[x]) = (IF x = m THEN Len(sharePositions[x]) + 1
                                                                   ELSE Len(sharePositions[x]))
      /\ \A x \in Address : sharePositions[x] # << >> => sharePositions'[x] # << >>
      /\ sharePositions'[m] # << >>
      /\ Len(sharePositions'[m]) \in DOMAIN sharePositions'[m]
      /\ sharePositions'[m][Len(sharePositions'[m])] = blockDepth
      /\ (\A x \in Address : \A k \in DOMAIN sharePositions[x] : sharePositions[x][k] <= blockDepth)
           => \A x \in Address : \A k \in DOMAIN sharePositions'[x] : sharePositions'[x][k] <= blockDepth
  BY <1>2, <1>4, PositionsGrow
<1>7. /\ IsFiniteSet(counted')
      /\ Cardinality(counted') = Cardinality(counted) + 1
      /\ SumOver(Difficulties, counted')
           = SumOver(Difficulties, counted) + shares[cur].difficulty
      /\ SumOver(Difficulties, counted) \in Nat
  BY <1>1, <1>2, CountedGrows
<1>8. ResultType'
  <2>1. u' \in Nat \ {0}
    BY <1>3, <1>4
  <2>2. QED
    BY <1>1, <1>4, <1>5, <1>6, <2>1 DEF ResultType
<1>9. SumInv'
  <2>1. Difficulties' = Difficulties
    BY <1>1 DEF Difficulties
  <2>2. SumOver(weight', Address) = pplnsWeight'
    BY <1>1, <1>5 DEF ResultInv, SumInv
  <2>3. SumOver(Difficulties, counted') = pplnsWeight'
    BY <1>1, <1>7 DEF ResultInv, SumInv
  <2>4. CASE go
    BY <1>1, <1>3, <1>7, <2>1, <2>2, <2>3, <2>4 DEF SumInv, go
  <2>5. CASE pc' = "done"
    BY <1>1, <1>3, <1>7, <2>1, <2>2, <2>3, <2>5 DEF SumInv
  <2>6. QED
    BY <1>3, <2>4, <2>5
<1>10. BranchInv'
  <2>1. PICK c \in SUBSET DOMAIN shares : Walks(c)
    BY DEF ResultInv, BranchInv
  <2>2. OnceOnBranch(shares)' = OnceOnBranch(shares)
    BY <1>1 DEF OnceOnBranch, Branch, Uncles
  <2>3. /\ cur \in c /\ Branch(shares, c)
        /\ \A x \in c : shares[cur].height <= shares[x].height
        /\ \A y \in counted :
             \/ y \in c /\ y # cur
             \/ \E x \in c : \E i \in Uncles(shares, x) :
                  y = shares[x].uncles[i] /\ (x = cur => i < u)
    BY <1>1, <2>1 DEF Walks
  <2>4. CASE pc' = "done"
    <3>1. UNCHANGED <<cur, u>> /\ pc' # "walk"
      BY <1>3, <2>4 DEF go
    <3>2. Walks(c)'
      BY <1>1, <2>3, <3>1 DEF Walks, Branch, Uncles
    <3>3. QED
      BY <1>1, <2>1, <2>2, <3>2 DEF ResultInv, BranchInv
  <2>5. CASE go
    <3>1. cur' = shares[cur].parent /\ cur' \in DOMAIN shares /\ u' = 1
      BY <1>3, <2>5 DEF go
    <3>2. \A x \in DOMAIN shares : shares[x].height \in Nat
      BY ShareType DEF ResultInv, WalkType
    <3>3. shares[cur].height = shares[cur'].height + 1
      BY <1>2, <3>1 DEF ResultInv, WalkType, WellFormed
    <3>4. \A x \in c : shares[cur'].height < shares[x].height
      BY <1>2, <2>1, <2>3, <3>1, <3>2, <3>3
    <3>5. cur' \notin c
      BY <2>1, <3>1, <3>2, <3>4
    <3>. PICK d \in SUBSET DOMAIN shares : d = c \cup {cur'}
      BY <3>1
    <3>6. Branch(shares, d)
      <4> SUFFICES ASSUME NEW x \in d, NEW y \in d
                   PROVE  /\ shares[x].height = shares[y].height => x = y
                          /\ shares[x].height > shares[y].height => shares[x].parent \in d
        BY DEF Branch
      <4>1. CASE x \in c /\ y \in c
        BY <2>3, <4>1 DEF Branch
      <4>2. CASE x = cur' /\ y \in c
        BY <2>1, <3>1, <3>2, <3>4, <4>2
      <4>3. CASE x \in c /\ y = cur'
        <5>1. shares[x].height > shares[y].height
          BY <2>1, <3>1, <3>2, <3>4, <4>3
        <5>2. CASE x = cur
          BY <3>1, <3>2, <2>1, <5>1, <5>2
        <5>3. CASE x # cur
          <6>1. shares[x].height > shares[cur].height
            BY <1>2, <2>1, <2>3, <3>2, <4>3, <5>3 DEF Branch
          <6>2. QED
            BY <2>1, <2>3, <3>1, <3>2, <4>3, <5>1, <6>1 DEF Branch
        <5>4. QED
          BY <5>2, <5>3
      <4>4. CASE x = cur' /\ y = cur'
        BY <3>1, <3>2, <4>4
      <4>5. QED
        BY <4>1, <4>2, <4>3, <4>4
    <3>7. \A x \in d : shares[cur'].height <= shares[x].height
      BY <2>1, <3>1, <3>2, <3>4
    <3>8. \A y \in counted' :
             \/ y \in d /\ y # cur'
             \/ \E x \in d : \E i \in Uncles(shares, x) :
                  y = shares[x].uncles[i] /\ (x = cur' => i < u')
      BY <1>1, <2>3, <3>5
    <3>9. Walks(d)'
      BY <1>1, <3>6, <3>7, <3>8 DEF Walks, Branch, Uncles
    <3>10. QED
      BY <1>1, <2>2, <3>9 DEF ResultInv, BranchInv
  <2>6. QED
    BY <1>3, <2>4, <2>5
<1>11. PositionInv'
  <2>1. SumOver(Entries', Address) = SumOver(Entries, Address) + 1
    <3> DEFINE p == [x \in Address |-> Len(sharePositions[x])]
               q == [x \in Address |-> Len(unclePositions[x])]
               r == [x \in Address |-> Len(sharePositions'[x])]
               e == Entries
               f == Entries'
    <3>1. \A x \in Address : Len(unclePositions[x]) \in Nat
      BY <1>4
    <3>2. /\ p \in [Address -> Nat] /\ q \in [Address -> Nat] /\ r \in [Address -> Nat]
          /\ r[m] = p[m] + 1 /\ \A x \in Address : x # m => r[x] = p[x]
      BY <1>2, <1>6, <3>1
    <3>3. /\ \A x \in Address : e[x] = p[x] + q[x]
          /\ \A x \in Address : f[x] = r[x] + q[x]
      BY <1>1 DEF Entries
    <3> HIDE DEF p, q, r, e, f
    <3>4. /\ \A x \in Address : e[x] \in Nat
          /\ f[m] = e[m] + 1 /\ \A x \in Address : x # m => f[x] = e[x]
      BY <1>2, <3>2, <3>3
    <3>5. SumOver(f, Address) = SumOver(e, Address) + 1
      BY <1>2, <3>4, GrowsBy
    <3>6. QED
      BY <3>5 DEF e, f
  <2>2. \A x \in Address : weight'[x] # 0 => sharePositions'[x] # << >> \/ unclePositions'[x] # << >>
    <3> SUFFICES ASSUME NEW x \in Address, weight'[x] # 0
                 PROVE  sharePositions'[x] # << >> \/ unclePositions'[x] # << >>
      OBVIOUS
    <3>1. CASE x = m
      BY <1>6, <3>1
    <3>2. CASE x # m
      BY <1>1, <1>2, <1>4, <1>6, <3>2 DEF ResultInv, PositionInv, Miners
    <3>3. QED
      BY <3>1, <3>2
  <2>3. \A x \in Address : weight'[x] # 0 => x \in Miners'
    BY <2>2 DEF Miners
  <2>4. /\ \A x \in Address : \A k \in DOMAIN sharePositions'[x] : sharePositions'[x][k] <= blockDepth'
        /\ \A x \in Address : \A k \in DOMAIN unclePositions'[x] : unclePositions'[x][k] <= blockDepth'
    <3>1. blockDepth' \in Nat /\ blockDepth <= blockDepth'
      BY <1>3, <1>4
    <3>2. /\ \A x \in Address : \A k \in DOMAIN sharePositions'[x] : sharePositions'[x][k] <= blockDepth
          /\ \A x \in Address : \A k \in DOMAIN unclePositions'[x] : unclePositions'[x][k] <= blockDepth
      BY <1>1, <1>6 DEF ResultInv, PositionInv
    <3>3. /\ \A x \in Address : \A k \in DOMAIN sharePositions'[x] : sharePositions'[x][k] \in Nat
          /\ \A x \in Address : \A k \in DOMAIN unclePositions'[x] : unclePositions'[x][k] \in Nat
      <4>1. \A q \in Seq(Nat) : \A k \in DOMAIN q : q[k] \in Nat
        OBVIOUS
      <4>2. \A x \in Address : sharePositions'[x] \in Seq(Nat) /\ unclePositions'[x] \in Seq(Nat)
        BY <1>1, <1>4, <1>6
      <4>3. QED
        BY <4>1, <4>2
    <3>4. QED
      BY <1>4, <3>1, <3>2, <3>3
  <2>5. pc' = "done" => \E k \in DOMAIN sharePositions'[shares'[cur'].miner] :
                          sharePositions'[shares'[cur'].miner][k] = blockDepth'
    <3>1. pc' = "done" => shares'[cur'].miner = m /\ blockDepth' = blockDepth
      BY <1>1, <1>3 DEF m, go
    <3>2. QED
      BY <1>6, <3>1
  <2>6. QED
    BY <1>7, <2>1, <2>3, <2>4, <2>5 DEF ResultInv, PositionInv
<1>12. QED
  BY <1>8, <1>9, <1>10, <1>11 DEF ResultInv

(* A skipped uncle, and a stuttering step, leave the result alone.         *)
LEMMA SkipKeepsResult ==
  ASSUME ResultInv, WalkType', SkipUncle \/ UNCHANGED vars
  PROVE  ResultInv'
<1>1. /\ UNCHANGED <<shares, tip, cur, curWeight, pplnsWeight, blockDepth, weight,
                     sharePositions, unclePositions, counted, pc>>
      /\ u' \in {u, u + 1} /\ u \in Nat \ {0}
  BY DEF SkipUncle, vars, input, result, ResultInv, ResultType
<1>2. ResultType'
  BY <1>1 DEF ResultInv, ResultType
<1>3. SumInv'
  BY <1>1 DEF ResultInv, SumInv, Difficulties
<1>4. BranchInv'
  <2>1. PICK c \in SUBSET DOMAIN shares : Walks(c)
    BY DEF ResultInv, BranchInv
  <2>2. OnceOnBranch(shares)' = OnceOnBranch(shares)
    BY <1>1 DEF OnceOnBranch, Branch, Uncles
  <2>3. \A x \in c : Uncles(shares, x) \subseteq Nat
    BY UncleNumbers DEF ResultInv, WalkType
  <2>4. \A i \in Nat : i < u => i < u'
    BY <1>1
  <2>5. Walks(c)'
    BY <1>1, <2>1, <2>3, <2>4 DEF Walks, Branch, Uncles
  <2>6. QED
    BY <1>1, <2>1, <2>2, <2>5 DEF ResultInv, BranchInv
<1>5. PositionInv'
  BY <1>1 DEF ResultInv, PositionInv, Entries, Miners
<1>6. QED
  BY <1>2, <1>3, <1>4, <1>5 DEF ResultInv

(* The invariant of the result.                                            *)
LEMMA ResultInvariant == Spec => []ResultInv
<1>1. Init => ResultInv
  BY ResultInit
<1>2. ResultInv /\ WalkType' /\ WindowIsRecent /\ WindowIsRecent' /\ [Next]_vars => ResultInv'
  <2> SUFFICES ASSUME ResultInv, WalkType', WindowIsRecent, WindowIsRecent', [Next]_vars
               PROVE  ResultInv'
    OBVIOUS
  <2>1. CASE IncludeUncle
    BY <2>1, UncleKeepsResult
  <2>2. CASE AddShare
    BY <2>2, ShareKeepsResult
  <2>3. CASE SkipUncle \/ UNCHANGED vars
    BY <2>3, SkipKeepsResult
  <2>4. QED
    BY <2>1, <2>2, <2>3 DEF Next
<1>3. QED
  BY <1>1, <1>2, WalkInvariant, PTL DEF Spec

(* The walk and its result have their types.                               *)
THEOREM WindowTypeHolds == Spec => []TypeOK
<1>1. ResultInv => TypeOK
  BY DEF ResultInv, WalkType, ResultType, TypeOK
<1>2. QED
  BY <1>1, ResultInvariant, PTL

(* The weights of the miners, and the difficulties of what was counted,    *)
(* add up to the total: nothing of the window is lost or counted twice.    *)
THEOREM WeightHolds == Spec => []WeightConserved
<1>1. ResultInv => WeightConserved
  <2> SUFFICES ASSUME ResultInv, pc = "done" PROVE WeightConserved
    BY DEF WeightConserved
  <2> DEFINE d == [x \in counted |-> shares[x].difficulty]
  <2>1. pplnsWeight = SumOver(weight, Address) /\ pplnsWeight = SumOver(Difficulties, counted)
    BY DEF ResultInv, SumInv
  <2>2. SumOver(Difficulties, counted) = SumOver(d, counted)
    <3>1. IsFiniteSet(counted) /\ \A x \in counted : Difficulties[x] \in Nat /\ Difficulties[x] = d[x]
      BY ShareType DEF ResultInv, SumInv, WalkType, Difficulties
    <3> HIDE DEF d
    <3>2. QED
      BY <3>1, SumSame
  <2>3. SumFunction(d) = SumOver(d, counted) /\ SumFunction(weight) = SumOver(weight, Address)
    BY DEF ResultInv, ResultType, SumFunction, SumOver
  <2>4. QED
    BY <2>1, <2>2, <2>3 DEF WeightConserved
<1>2. QED
  BY <1>1, ResultInvariant, PTL

-----------------------------------------------------------------------------
(***************************************************************************)
(* The position buckets.                                                   *)
(***************************************************************************)
Buckets == 0..(PositionBuckets - 1)

(* Part d of n, scaled to k.                                               *)
LEMMA Scaled ==
  ASSUME NEW n \in Nat, n > 0, NEW d \in 0..n, NEW k \in Nat
  PROVE  (d * k) \div n \in 0..k /\ (n * k) \div n = k
<1>1. PICK q \in Int : q = (d * k) \div n
  BY SMT
<1>2. n * q <= d * k /\ d * k < n * q + n /\ d * k \in Int /\ n * k \in Int /\ n * q \in Int
  BY <1>1, Euclid
<1>3. 0 <= d * k /\ d * k <= n * k
  BY SMT
<1>4. q >= 0
  <2> SUFFICES ASSUME q <= -1 PROVE FALSE
    OBVIOUS
  <2>1. n * q <= -n
    OBVIOUS
  <2>2. QED
    BY <1>2, <1>3, <2>1
<1>5. q <= k
  <2> SUFFICES ASSUME q >= k + 1 PROVE FALSE
    OBVIOUS
  <2>1. n * q >= n * k + n
    OBVIOUS
  <2>2. QED
    BY <1>2, <1>3, <2>1
<1>6. (n * k) \div n = k
  BY <1>2, QuotientIs
<1>7. QED
  BY <1>1, <1>4, <1>5, <1>6

(* The positions of the walk have a bucket, its oldest one the last.       *)
LEMMA BucketRange ==
  ASSUME blockDepth \in Nat, NEW d \in 0..blockDepth
  PROVE  /\ Bucket(d) \in Buckets
         /\ blockDepth > 0 => Bucket(blockDepth) = PositionBuckets - 1
<1>1. PositionBuckets - 1 \in Nat
  BY WindowAssumption
<1>2. CASE blockDepth = 0
  BY <1>1, <1>2 DEF Bucket, Buckets, BlocksIncluded
<1>3. CASE blockDepth > 0
  <2>1. BlocksIncluded > 1 /\ BlocksIncluded - 1 = blockDepth
    BY <1>3 DEF BlocksIncluded
  <2>2. /\ Bucket(d) = (d * (PositionBuckets - 1)) \div blockDepth
        /\ Bucket(blockDepth) = (blockDepth * (PositionBuckets - 1)) \div blockDepth
    BY <2>1 DEF Bucket
  <2>3. QED
    BY <1>1, <1>3, <2>2, Scaled DEF Buckets
<1>4. QED
  BY <1>2, <1>3

(* Each of a miner's positions is shown in one bucket.                     *)
LEMMA ShownOnce ==
  ASSUME blockDepth \in Nat, NEW p \in Seq(Nat), \A k \in DOMAIN p : p[k] <= blockDepth
  PROVE  /\ SumOver([b \in Buckets |-> InBucket(p, b)], Buckets) = Len(p)
         /\ \A b \in Buckets : InBucket(p, b) \in Nat
<1> DEFINE D == DOMAIN p
           h == [k \in D |-> Bucket(p[k])]
           f == [b \in Buckets |-> InBucket(p, b)]
<1>1. D = 1..Len(p) /\ Len(p) \in Nat
  BY LenProperties
<1>2. IsFiniteSet(D) /\ Cardinality(D) = Len(p)
  BY <1>1, FS_Interval
<1>3. IsFiniteSet(Buckets)
  <2>1. 0 \in Int /\ PositionBuckets - 1 \in Int
    BY WindowAssumption
  <2>2. IsFiniteSet(0..(PositionBuckets - 1))
    BY <2>1, FS_Interval
  <2>3. QED
    BY <2>2 DEF Buckets
<1>4. \A k \in D : h[k] \in Buckets
  <2> TAKE k \in D
  <2>1. p[k] \in 0..blockDepth
    BY <1>1
  <2>2. QED
    BY <2>1, BucketRange
<1>5. \A b \in Buckets : f[b] = Cardinality(Class(h, D, b))
  <2> TAKE b \in Buckets
  <2>1. Class(h, D, b) = {k \in D : Bucket(p[k]) = b}
    BY DEF Class
  <2>2. QED
    BY <2>1 DEF InBucket
<1>6. \A b \in Buckets : InBucket(p, b) \in Nat
  <2> TAKE b \in Buckets
  <2> DEFINE E == {k \in D : Bucket(p[k]) = b}
  <2>1. IsFiniteSet(E)
    BY <1>2, FS_Subset
  <2>2. QED
    BY <2>1, FS_CardinalityType DEF InBucket
<1> HIDE DEF D, h, f
<1>7. SumOver(f, Buckets) = Cardinality(D)
  BY <1>2, <1>3, <1>4, <1>5, CountedByClass
<1>8. QED
  BY <1>2, <1>6, <1>7 DEF f

(* Every share and uncle of the result is shown once, and the oldest share *)
(* of a longer window in the last bucket: PositionBuckets is a parameter.  *)
THEOREM PositionsHold == Spec => []PositionsShown
<1>1. ResultInv => PositionsShown
  <2> SUFFICES ASSUME ResultInv, pc = "done" PROVE PositionsShown
    BY DEF PositionsShown
  <2>0. /\ blockDepth \in Nat /\ cur \in DOMAIN shares /\ WellFormed(shares)
        /\ sharePositions \in [Address -> Seq(Nat)] /\ unclePositions \in [Address -> Seq(Nat)]
        /\ \A m \in Address : \A k \in DOMAIN sharePositions[m] : sharePositions[m][k] <= blockDepth
        /\ \A m \in Address : \A k \in DOMAIN unclePositions[m] : unclePositions[m][k] <= blockDepth
        /\ SumOver(Entries, Address) = Cardinality(counted)
        /\ \E k \in DOMAIN sharePositions[shares[cur].miner] :
              sharePositions[shares[cur].miner][k] = blockDepth
    BY DEF ResultInv, WalkType, ResultType, PositionInv
  <2>f. IsFiniteSet(Address) /\ IsFiniteSet(Buckets)
    BY WindowAssumption, FS_Interval DEF Buckets
  <2> DEFINE a(m) == [b \in Buckets |-> InBucket(sharePositions[m], b)]
             c(m) == [b \in Buckets |-> InBucket(unclePositions[m], b)]
             f == [m \in Address |-> [b \in Buckets |-> ShownOf(m, b)]]
             g == [b \in Buckets |-> [m \in Address |-> ShownOf(m, b)]]
             rows == [m \in Address |-> SumOver(f[m], Buckets)]
             cols == [b \in Buckets |-> SumOver(g[b], Address)]
  <2>1. ASSUME NEW m \in Address
        PROVE  /\ SumOver(a(m), Buckets) = Len(sharePositions[m])
               /\ SumOver(c(m), Buckets) = Len(unclePositions[m])
               /\ \A b \in Buckets : /\ a(m)[b] \in Nat /\ c(m)[b] \in Nat
                                      /\ f[m][b] = a(m)[b] + c(m)[b]
                                      /\ f[m][b] \in Nat
    <3>1. sharePositions[m] \in Seq(Nat) /\ unclePositions[m] \in Seq(Nat)
      BY <2>0
    <3>2. /\ SumOver(a(m), Buckets) = Len(sharePositions[m])
          /\ \A b \in Buckets : InBucket(sharePositions[m], b) \in Nat
      BY <2>0, <3>1, ShownOnce
    <3>3. /\ SumOver(c(m), Buckets) = Len(unclePositions[m])
          /\ \A b \in Buckets : InBucket(unclePositions[m], b) \in Nat
      BY <2>0, <3>1, ShownOnce
    <3>4. QED
      BY <3>2, <3>3 DEF ShownOf
  <2>2. ASSUME NEW m \in Address
        PROVE  rows[m] = Entries[m] /\ rows[m] \in Nat
    <3> DEFINE fm == f[m]
               am == a(m)
               cm == c(m)
    <3>1. rows[m] = SumOver(fm, Buckets)
      OBVIOUS
    <3>2. \A b \in Buckets : am[b] \in Nat /\ cm[b] \in Nat /\ fm[b] = am[b] + cm[b]
      BY <2>1
    <3>3. SumOver(am, Buckets) = Len(sharePositions[m]) /\ SumOver(cm, Buckets) = Len(unclePositions[m])
      BY <2>1
    <3>4. Len(sharePositions[m]) \in Nat /\ Len(unclePositions[m]) \in Nat
      BY <2>0, LenProperties
    <3> HIDE DEF fm, am, cm, rows
    <3>5. SumOver(fm, Buckets) = SumOver(am, Buckets) + SumOver(cm, Buckets)
      BY <2>f, <3>2, SumPlus
    <3>6. Entries[m] = Len(sharePositions[m]) + Len(unclePositions[m])
      BY DEF Entries
    <3>7. PICK x \in Nat, y \in Nat :
            x = Len(sharePositions[m]) /\ y = Len(unclePositions[m])
      BY <3>4
    <3>8. Entries[m] = x + y /\ SumOver(am, Buckets) = x /\ SumOver(cm, Buckets) = y
      BY <3>3, <3>6, <3>7
    <3>9. rows[m] = x + y
      BY <3>1, <3>5, <3>8
    <3> QED
      BY <3>8, <3>9
  <2>3. \A m \in Address : \A b \in Buckets : f[m][b] \in Nat /\ g[b][m] = f[m][b]
    <3> TAKE m \in Address
    <3>1. \A b \in Buckets : f[m][b] \in Nat
      BY <2>1
    <3>2. QED
      BY <3>1
  <2>4. SumOver(rows, Address) = SumOver(cols, Buckets)
    <3> HIDE DEF f, g
    <3>1. QED
      BY <2>f, <2>3, SumSwap
  <2>5. SumOver(rows, Address) = SumOver(Entries, Address)
    <3> HIDE DEF rows
    <3>1. QED
      BY <2>f, <2>2, SumSame
  <2>6. SumFunction(ShownIn) = SumOver(cols, Buckets)
    <3>1. \A b \in Buckets : SumFunction([m \in Address |-> ShownOf(m, b)]) = SumOver(g[b], Address)
      BY DEF SumFunction, SumOver
    <3>2. ShownIn = cols
      BY <3>1 DEF ShownIn, Buckets
    <3> HIDE DEF cols
    <3>3. DOMAIN ShownIn = Buckets
      BY DEF ShownIn, Buckets
    <3>4. QED
      BY <3>2, <3>3 DEF SumFunction, SumOver
  <2>7. SumFunction(ShownIn) = Cardinality(counted)
    BY <2>0, <2>4, <2>5, <2>6
  <2>8. BlocksIncluded > 1 =>
          InBucket(sharePositions[shares[cur].miner], PositionBuckets - 1) > 0
    <3> SUFFICES ASSUME blockDepth > 0
                 PROVE  InBucket(sharePositions[shares[cur].miner], PositionBuckets - 1) > 0
      BY <2>0 DEF BlocksIncluded
    <3> DEFINE p == sharePositions[shares[cur].miner]
               E == {k \in DOMAIN p : Bucket(p[k]) = PositionBuckets - 1}
    <3>1. shares[cur].miner \in Address /\ p \in Seq(Nat)
      BY <2>0, ShareType DEF Share
    <3>2. PICK k \in DOMAIN p : p[k] = blockDepth
      BY <2>0
    <3>3. k \in E
      BY <2>0, <3>2, BucketRange
    <3>4. DOMAIN p = 1..Len(p) /\ Len(p) \in Nat
      BY <3>1, LenProperties
    <3> DEFINE D == DOMAIN p
    <3>n. \A n \in Nat : IsFiniteSet(1..n)
      BY FS_Interval
    <3>d. IsFiniteSet(D)
      BY <3>4, <3>n
    <3>5. IsFiniteSet(E)
      BY <3>d, FS_Subset
    <3>6. Cardinality(E) \in Nat /\ Cardinality(E) # 0
      BY <3>3, <3>5, FS_EmptySet, FS_CardinalityType
    <3>7. QED
      BY <3>6 DEF InBucket
  <2>9. QED
    BY <2>7, <2>8 DEF PositionsShown
<1>2. QED
  BY <1>1, ResultInvariant, PTL

-----------------------------------------------------------------------------
(***************************************************************************)
(* The split of a reward.                                                  *)
(***************************************************************************)
(* A rounded-down part of r, and how much it is rounded down.              *)
LEMMA RoundedDown ==
  ASSUME NEW w \in Nat, w > 0, NEW c \in Nat, NEW r \in Nat
  PROVE  /\ (c * r) \div w \in Nat
         /\ w * ((c * r) \div w) <= c * r
         /\ c * r < w * ((c * r) \div w) + w
<1>1. c * r \in Nat
  BY SMT
<1>2. QED
  BY <1>1, Euclid, SMT

(* Rounding down keeps the order.                                          *)
LEMMA RoundedOrder ==
  ASSUME NEW w \in Nat, w > 0, NEW a \in Nat, NEW b \in Nat, NEW x \in Nat, NEW y \in Nat,
         w * x <= a, b < w * y + w, a <= b
  PROVE  x <= y
<1> SUFFICES ASSUME x >= y + 1 PROVE FALSE
  OBVIOUS
<1>1. w * x >= w * (y + 1)
  BY SMT
<1>2. w * (y + 1) = w * y + w
  BY SMT
<1>3. w * x \in Int /\ w * y \in Int /\ w * (y + 1) \in Int
  BY SMT
<1>4. QED
  BY <1>1, <1>2, <1>3

(* The orders of the miners: each miner with weight has one place.         *)
LEMMA OrderOfMiners ==
  ASSUME ResultInv, NEW o \in TopMiners
  PROVE  /\ Len(o) \in Nat /\ DOMAIN o = 1..Len(o)
         /\ \A j \in 1..Len(o) : o[j] \in Address
         /\ \A i, j \in 1..Len(o) : o[i] = o[j] => i = j
         /\ {o[j] : j \in 1..Len(o)} = Miners
         /\ \A j, k \in 1..Len(o) : j < k => weight[o[j]] >= weight[o[k]]
<1> DEFINE n == Cardinality(Miners)
<1>1. IsFiniteSet(Miners) /\ n \in Nat
  BY WindowAssumption, FS_Subset, FS_CardinalityType DEF Miners
<1>2. /\ o \in [1..n -> Miners] /\ \A i, j \in 1..n : i # j => o[i] # o[j]
      /\ \A j, k \in DOMAIN o : j < k => weight[o[j]] >= weight[o[k]]
  BY DEF TopMiners, SetToSeqs
<1>3. Len(o) = n /\ DOMAIN o = 1..n
  <2>1. o \in Seq(Miners)
    BY <1>1, <1>2
  <2>2. QED
    BY <1>1, <1>2, <2>1, LenProperties
<1>4. {o[j] : j \in 1..n} = Miners
  <2> DEFINE D == 1..n
  <2>1. IsFiniteSet(D) /\ Cardinality(D) = n
    BY <1>1, FS_Interval
  <2>2. o \in Injection(D, Miners)
    BY <1>2 DEF Injection, IsInjective
  <2> HIDE DEF D
  <2>3. o \in Surjection(D, Miners)
    BY <1>1, <2>1, <2>2, FS_Injection
  <2>4. QED
    BY <1>2, <2>3 DEF Surjection, D
<1>5. Miners \subseteq Address
  BY DEF Miners
<1>6. QED
  BY <1>1, <1>2, <1>3, <1>4, <1>5

(* What the k heaviest miners have, and all of them.                       *)
LEMMA CumulativeWeights ==
  ASSUME ResultInv, pc = "done", NEW o \in TopMiners
  PROVE  /\ Cumulative(o, 0) = 0 /\ Cumulative(o, Len(o)) = pplnsWeight
         /\ \A k \in 0..Len(o) : Cumulative(o, k) \in Nat
         /\ \A k \in 1..Len(o) : /\ weight[o[k]] \in Nat
                                  /\ Cumulative(o, k) = Cumulative(o, k - 1) + weight[o[k]]
<1>0. /\ weight \in [Address -> Nat] /\ IsFiniteSet(Address) /\ Miners \subseteq Address
      /\ SumOver(weight, Address) = pplnsWeight
      /\ \A m \in Address : weight[m] # 0 => m \in Miners
  BY WindowAssumption DEF ResultInv, ResultType, SumInv, PositionInv, Miners
<1> DEFINE n == Len(o)
           w == [j \in 1..n |-> weight[o[j]]]
<1>1. /\ n \in Nat /\ \A j \in 1..n : o[j] \in Address
      /\ \A i, j \in 1..n : o[i] = o[j] => i = j
      /\ {o[j] : j \in 1..n} = Miners
  BY OrderOfMiners
<1>2. \A j \in 1..n : w[j] \in Nat /\ w[j] = weight[o[j]]
  BY <1>0, <1>1
<1>3. \A k \in 0..n : Cumulative(o, k) = SumOver(w, 1..k)
  <2> TAKE k \in 0..n
  <2> DEFINE K == 1..k
             v == [j \in K |-> weight[o[j]]]
  <2>1. Cumulative(o, k) = SumOver(v, K)
    BY DEF Cumulative, SumFunction, SumOver
  <2>2. IsFiniteSet(K)
    BY <1>1, FS_Interval
  <2>3. \A j \in K : v[j] \in Nat /\ v[j] = w[j]
    BY <1>1, <1>2
  <2> HIDE DEF v, w, K
  <2>4. SumOver(v, K) = SumOver(w, K)
    BY <2>2, <2>3, SumSame
  <2>5. QED
    BY <2>1, <2>4 DEF K
<1> HIDE DEF n, w
<1>4. /\ SumOver(w, 1..0) = 0
      /\ \A k \in 0..n : SumOver(w, 1..k) \in Nat
      /\ \A k \in 1..n : SumOver(w, 1..k) = SumOver(w, 1..(k - 1)) + w[k]
  BY <1>1, <1>2, IntervalSum
<1>5. SumOver(w, 1..n) = SumOver(weight, Firsts(o, n))
  <2>1. \A j \in 1..n : weight[o[j]] \in Nat /\ w[j] = weight[o[j]]
    BY <1>2
  <2>2. QED
    BY <1>1, <2>1, SumImage
<1>f. Firsts(o, n) = Miners
  BY <1>1 DEF Firsts
<1>6. SumOver(weight, Address) = SumOver(weight, Miners)
  <2>1. \A m \in Address : weight[m] \in Nat
    BY <1>0
  <2>2. \A m \in Address \ Miners : weight[m] = 0
    BY <1>0
  <2>3. QED
    BY <1>0, <2>1, <2>2, SumSupport
<1>7. Cumulative(o, 0) = 0 /\ Cumulative(o, n) = pplnsWeight
  <2>1. 0 \in 0..n /\ n \in 0..n
    BY <1>1
  <2>2. QED
    BY <1>0, <1>3, <1>4, <1>5, <1>6, <1>f, <2>1
<1>8. ASSUME NEW k \in 1..n
      PROVE  weight[o[k]] \in Nat /\ Cumulative(o, k) = Cumulative(o, k - 1) + weight[o[k]]
  <2>1. k \in 0..n /\ k - 1 \in 0..n
    BY <1>1
  <2>2. QED
    BY <1>2, <1>3, <1>4, <2>1
<1>9. QED
  BY <1>3, <1>4, <1>7, <1>8 DEF n

(* The split in closed form: the differences of an increasing sequence q   *)
(* that ends at the reward, each to less than one unit of its exact part.  *)
LEMMA SplitForm ==
  ASSUME ResultInv, pc = "done", pplnsWeight > 0, NEW o \in TopMiners, NEW r \in Nat,
         NEW p, p = EstimatedPayout(o, r)
  PROVE  /\ DOMAIN p = 1..Len(o)
         /\ SumOver(p, 1..Len(o)) = r
         /\ \A k \in 1..Len(o) :
              /\ p[k] \in Nat /\ weight[o[k]] \in Nat
              /\ p[k] * pplnsWeight < (weight[o[k]] * r) + pplnsWeight
              /\ weight[o[k]] * r < (p[k] * pplnsWeight) + pplnsWeight
<1> DEFINE n == Len(o)
           W == pplnsWeight
           q == [k \in 0..n |-> (Cumulative(o, k) * r) \div W]
<1>1. W \in Nat /\ W > 0 /\ n \in Nat
  BY OrderOfMiners DEF ResultInv, WalkType
<1>2. DOMAIN p = 1..n /\ \A k \in 1..n : p[k] = q[k] - q[k - 1]
  BY <1>1 DEF EstimatedPayout
<1>3. /\ Cumulative(o, 0) = 0 /\ Cumulative(o, n) = W
      /\ \A k \in 0..n : Cumulative(o, k) \in Nat
      /\ \A k \in 1..n : /\ weight[o[k]] \in Nat
                          /\ Cumulative(o, k) = Cumulative(o, k - 1) + weight[o[k]]
  BY CumulativeWeights
<1>4. \A k \in 0..n : /\ q[k] \in Nat
                       /\ W * q[k] <= Cumulative(o, k) * r
                       /\ Cumulative(o, k) * r < W * q[k] + W
  <2> TAKE k \in 0..n
  <2>1. Cumulative(o, k) \in Nat
    BY <1>3
  <2>2. q[k] = (Cumulative(o, k) * r) \div W
    OBVIOUS
  <2> HIDE DEF q, W
  <2>3. QED
    BY <1>1, <2>1, <2>2, RoundedDown
<1>5. q[0] = 0
  <2>1. q[0] = (0 * r) \div W
    BY <1>1, <1>3
  <2> HIDE DEF q, W
  <2>2. 0 * r = 0
    OBVIOUS
  <2>3. 0 \div W = 0
    BY <1>1, QuotientIs
  <2>4. QED
    BY <2>1, <2>2, <2>3
<1>6. q[n] = r
  <2>1. q[n] = (W * r) \div W
    BY <1>1, <1>3
  <2> HIDE DEF q, W
  <2>2. W * r \in Int
    BY <1>1
  <2>3. (W * r) \div W = r
    BY <1>1, <2>2, QuotientIs
  <2>4. QED
    BY <2>1, <2>3
<1> HIDE DEF q, n, W
<1>7. ASSUME NEW k \in 1..n
      PROVE  /\ q[k - 1] <= q[k] /\ p[k] = q[k] - q[k - 1] /\ p[k] \in Nat
             /\ weight[o[k]] \in Nat
             /\ p[k] * W < (weight[o[k]] * r) + W
             /\ weight[o[k]] * r < (p[k] * W) + W
  <2>1. k \in 0..n /\ k - 1 \in 0..n
    BY <1>1
  <2>2. PICK a \in Nat, b \in Nat, c \in Nat, x \in Nat, y \in Nat :
          /\ a = Cumulative(o, k - 1) /\ b = Cumulative(o, k) /\ c = weight[o[k]]
          /\ x = q[k - 1] /\ y = q[k]
    BY <1>3, <1>4, <2>1
  <2>3. /\ b = a + c /\ W * x <= a * r /\ a * r < W * x + W
        /\ W * y <= b * r /\ b * r < W * y + W /\ p[k] = y - x
    BY <1>2, <1>3, <1>4, <2>1, <2>2
  <2>4. b * r = a * r + c * r /\ a * r \in Nat /\ b * r \in Nat /\ c * r \in Nat
    BY <2>3
  <2>5. x <= y
    <3>1. a * r <= b * r
      BY <2>4
    <3>2. QED
      BY <1>1, <2>3, <2>4, <3>1, RoundedOrder
  <2>6. (y - x) * W = W * y - W * x /\ W * y \in Int /\ W * x \in Int
    BY <1>1
  <2>7. (y - x) * W < c * r + W /\ c * r < (y - x) * W + W
    BY <1>1, <2>3, <2>4, <2>6
  <2>8. QED
    BY <2>2, <2>3, <2>5, <2>7
<1>8. SumOver(p, 1..n) = r
  <2>1. SumOver(p, 1..n) = q[n]
    BY <1>1, <1>4, <1>5, <1>7, Telescope
  <2>2. QED
    BY <1>6, <2>1
<1>9. QED
  BY <1>2, <1>7, <1>8 DEF n, W

(* The split hands out the reward to the last unit, and nobody's part is a *)
(* whole unit off: for any number of miners, weights and rewards.          *)
THEOREM SplitHolds == Spec => []SplitExact
<1>1. ResultInv => SplitExact
  <2> SUFFICES ASSUME ResultInv, pc = "done", pplnsWeight > 0,
                      NEW o \in TopMiners, NEW r \in Reward,
                      NEW p, p = EstimatedPayout(o, r)
               PROVE  /\ SumFunction(p) = r
                      /\ \A k \in DOMAIN p :
                           /\ p[k] * pplnsWeight < (weight[o[k]] * r) + pplnsWeight
                           /\ weight[o[k]] * r < (p[k] * pplnsWeight) + pplnsWeight
    BY DEF SplitExact
  <2>1. r \in Nat
    BY WindowAssumption
  <2>2. /\ DOMAIN p = 1..Len(o) /\ SumOver(p, 1..Len(o)) = r
        /\ \A k \in 1..Len(o) :
             /\ p[k] * pplnsWeight < (weight[o[k]] * r) + pplnsWeight
             /\ weight[o[k]] * r < (p[k] * pplnsWeight) + pplnsWeight
    BY <2>1, SplitForm
  <2>3. QED
    BY <2>2 DEF SumFunction, SumOver
<1>2. QED
  BY <1>1, ResultInvariant, PTL

-----------------------------------------------------------------------------
(***************************************************************************)
(* The matching of the sorted outputs with the miners.                     *)
(***************************************************************************)
Packs(s, a, b, c, d) ==
  /\ \A i \in a..b : s[i] \in c..d
  /\ \A i, j \in a..b : s[i] = s[j] => i = j

(* There is no injection of an interval into one that is shorter.          *)
LEMMA NoRoom ==
  ASSUME NEW a \in Int, NEW b \in Int, a <= b, NEW c \in Int, NEW d \in Int, d - c < b - a,
         NEW s
  PROVE  ~Packs(s, a, b, c, d)
<1> SUFFICES ASSUME Packs(s, a, b, c, d) PROVE FALSE
  OBVIOUS
<1> DEFINE S == a..b
           T == c..d
           f == [i \in S |-> s[i]]
<1>1. IsFiniteSet(S) /\ Cardinality(S) = b - a + 1 /\ IsFiniteSet(T)
  BY FS_Interval
<1>2. Cardinality(T) = (IF c > d THEN 0 ELSE d - c + 1)
  BY FS_Interval
<1>3. Cardinality(T) < Cardinality(S)
  BY <1>1, <1>2
<1>4. f \in [S -> T] /\ \A i, j \in S : f[i] = f[j] => i = j
  BY DEF Packs
<1> HIDE DEF S, T, f
<1>5. \E i, j \in S : i # j /\ f[i] = f[j]
  BY <1>1, <1>3, <1>4, FS_PigeonHole
<1>6. QED
  BY <1>4, <1>5

(* A sequence that never rises by more than one above what came before it: *)
(* sorting it changes no place by more than one.                           *)
LEMMA SortedWithin ==
  ASSUME NEW n \in Nat, NEW p, \A k \in 1..n : p[k] \in Nat,
         \A j, k \in 1..n : j < k => p[k] <= p[j] + 1,
         NEW s, \A k \in 1..n : s[k] \in 1..n,
         \A j, k \in 1..n : s[j] = s[k] => j = k,
         \A j, k \in 1..n : j < k => p[s[j]] >= p[s[k]],
         NEW k \in 1..n
  PROVE  p[s[k]] <= p[k] + 1 /\ p[k] <= p[s[k]] + 1
<1>1. ASSUME p[s[k]] >= p[k] + 2 PROVE FALSE
  <2>1. ASSUME NEW i \in 1..k PROVE s[i] \in 1..(k - 1)
    <3>1. i \in 1..n /\ s[i] \in 1..n /\ s[k] \in 1..n
      OBVIOUS
    <3>2. p[s[i]] >= p[s[k]]
      BY <3>1
    <3>3. s[i] >= k => p[s[i]] <= p[k] + 1
      BY <3>1
    <3>4. QED
      BY <1>1, <3>1, <3>2, <3>3
  <2>2. Packs(s, 1, k, 1, k - 1)
    BY <2>1 DEF Packs
  <2>3. QED
    BY <2>2, NoRoom
<1>2. ASSUME p[k] >= p[s[k]] + 2 PROVE FALSE
  <2>1. ASSUME NEW i \in k..n PROVE s[i] \in (k + 1)..n
    <3>1. i \in 1..n /\ s[i] \in 1..n /\ s[k] \in 1..n
      OBVIOUS
    <3>2. p[s[k]] >= p[s[i]]
      BY <3>1
    <3>3. s[i] <= k => p[k] <= p[s[i]] + 1
      BY <3>1
    <3>4. QED
      BY <1>2, <3>1, <3>2, <3>3
  <2>2. Packs(s, k, n, k + 1, n)
    BY <2>1 DEF Packs
  <2>3. QED
    BY <2>2, NoRoom
<1>3. p[k] \in Nat /\ p[s[k]] \in Nat
  OBVIOUS
<1>4. QED
  BY <1>1, <1>2, <1>3

(* Whoever is no lighter is paid no more than one unit less.               *)
LEMMA RisesByOne ==
  ASSUME NEW w \in Nat, w > 0, NEW a \in Nat, NEW b \in Nat, a >= b, NEW r \in Nat,
         NEW x \in Nat, NEW y \in Nat, a * r < (x * w) + w, y * w < (b * r) + w
  PROVE  y <= x + 1
<1>1. a * r = b * r + (a - b) * r /\ (a - b) * r >= 0
  BY SMT
<1>2. y * w < x * w + 2 * w
  BY <1>1, SMT
<1>3. ASSUME y >= x + 2 PROVE FALSE
  <2>1. y * w >= (x + 2) * w
    BY <1>3, SMT
  <2>2. (x + 2) * w = x * w + 2 * w
    BY SMT
  <2>3. QED
    BY <1>2, <2>1, <2>2, SMT
<1>4. QED
  BY <1>3

(* Matching sorted outputs with the miners by weight gives nobody another  *)
(* miner's amount that differs by more than one unit from the own one.     *)
THEOREM MatchHolds == Spec => []MatchedWithinDust
<1>1. ResultInv => MatchedWithinDust
  <2> SUFFICES ASSUME ResultInv, pc = "done", pplnsWeight > 0,
                      NEW o \in TopMiners, NEW r \in Reward,
                      NEW p, p = EstimatedPayout(o, r),
                      NEW s \in Sortings(p), NEW k \in DOMAIN p
               PROVE  p[s[k]] <= p[k] + 1 /\ p[k] <= p[s[k]] + 1
    BY DEF MatchedWithinDust
  <2> DEFINE n == Len(o)
  <2>0. r \in Nat /\ pplnsWeight \in Nat
    BY WindowAssumption DEF ResultInv, WalkType
  <2>1. /\ DOMAIN p = 1..n
        /\ \A j \in 1..n :
             /\ p[j] \in Nat /\ weight[o[j]] \in Nat
             /\ p[j] * pplnsWeight < (weight[o[j]] * r) + pplnsWeight
             /\ weight[o[j]] * r < (p[j] * pplnsWeight) + pplnsWeight
    BY <2>0, SplitForm
  <2>2. n \in Nat /\ \A i, j \in 1..n : i < j => weight[o[i]] >= weight[o[j]]
    BY OrderOfMiners
  <2> HIDE DEF n
  <2>3. ASSUME NEW i \in 1..n, NEW j \in 1..n, i < j PROVE p[j] <= p[i] + 1
    BY <2>0, <2>1, <2>2, <2>3, RisesByOne
  <2>4. /\ \A j \in 1..n : s[j] \in 1..n
        /\ \A i, j \in 1..n : s[i] = s[j] => i = j
        /\ \A i, j \in 1..n : i < j => p[s[i]] >= p[s[j]]
    BY <2>1 DEF Sortings, Bijection, Injection, IsInjective
  <2>5. (\A j \in 1..n : p[j] \in Nat) /\ k \in 1..n
    BY <2>1
  <2>6. QED
    BY <2>2, <2>3, <2>4, <2>5, SortedWithin
<1>2. QED
  BY <1>1, ResultInvariant, PTL

-----------------------------------------------------------------------------
(***************************************************************************)
(* The hashrate.                                                           *)
(***************************************************************************)
(* The walk keeps the share map it started with.                           *)
LEMMA MapKept == Spec => [](shares \in ShareMap)
<1>1. Init => shares \in ShareMap
  BY DEF Init
<1>2. shares \in ShareMap /\ [Next]_vars => (shares \in ShareMap)'
  BY DEF Next, vars, input, SkipUncle, IncludeUncle, AddShare
<1>3. QED
  BY <1>1, <1>2, PTL DEF Spec

(* A quotient, and how far a larger divisor takes it.                      *)
LEMMA RateBounds ==
  ASSUME NEW w \in Nat, NEW s \in Nat, s > 0, NEW l \in Nat, s <= l
  PROVE  /\ w \div s <= w
         /\ w < (w \div s + 1) * l
<1>1. PICK q \in Int : q = w \div s
  BY SMT
<1>2. s * q <= w /\ w < s * q + s /\ s * q \in Int
  BY <1>1, Euclid
<1>3. q >= 0
  <2> SUFFICES ASSUME q <= -1 PROVE FALSE
    OBVIOUS
  <2>1. s * q <= -s
    OBVIOUS
  <2>2. QED
    BY <1>2, <2>1
<1>4. q <= s * q
  BY <1>3
<1>5. s * q + s = (q + 1) * s /\ (q + 1) * s <= (q + 1) * l
  BY <1>3
<1>6. (q + 1) * s \in Int /\ (q + 1) * l \in Int
  OBVIOUS
<1>7. QED
  BY <1>1, <1>2, <1>4, <1>5, <1>6

(* With clocks that agree with the heights the hashrate never wraps around *)
(* and stays within what the possible spans give, whichever shares the map *)
(* iteration finds (storeHashrate).                                        *)
THEOREM HashrateHolds == Spec => []HashrateInSpan
<1>1. ResultInv /\ WindowIsRecent /\ shares \in ShareMap => HashrateInSpan
  <2> DEFINE T(c) == {c[t] : t \in AtHeight(shares[tip].height)}
             B(c) == {c[b] : b \in AtHeight(shares[cur].height)}
  <2> SUFFICES ASSUME ResultInv, WindowIsRecent, shares \in ShareMap,
                      pc = "done", pplnsWeight < Word,
                      NEW c \in Clock, Ordered(c), NEW hr \in Hashrates(c)
               PROVE  /\ hr <= pplnsWeight
                      /\ pplnsWeight < (hr + 1) * Max({Max(T(c)) - Min(B(c)), 1})
    BY DEF HashrateInSpan
  <2>1. BlocksIncluded > 1 /\ Hashrates(c) # {}
    <3>1. blockDepth \in Nat
      BY DEF ResultInv, WalkType
    <3>2. Hashrates(c) # {}
      OBVIOUS
    <3>3. ~(BlocksIncluded < 2)
      BY <3>2 DEF Hashrates
    <3>4. QED
      BY <3>1, <3>2, <3>3 DEF BlocksIncluded
  <2>2. PICK b \in AtHeight(shares[cur].height), t \in AtHeight(shares[tip].height) :
          hr = Words(pplnsWeight).lo \div TimeSpan(c[b], c[t])
    BY <2>1 DEF Hashrates
  <2>3. /\ pplnsWeight \in Nat /\ Words(pplnsWeight).lo = pplnsWeight
    <3>1. pplnsWeight \in Nat
      BY DEF ResultInv, WalkType
    <3>2. pplnsWeight % Word = pplnsWeight
      BY <3>1, WordNat, WrapOnce
    <3>3. QED
      BY <3>1, <3>2 DEF Words
  <2>4. \A x \in DOMAIN shares : c[x] \in 0..(Word - 1)
    BY WindowAssumption, ClockAssumption DEF Digit
  <2>5. /\ b \in DOMAIN shares /\ t \in DOMAIN shares
        /\ T(c) \subseteq 0..(Word - 1) /\ B(c) \subseteq 0..(Word - 1)
        /\ c[t] \in T(c) /\ c[b] \in B(c)
    BY <2>4 DEF AtHeight
  <2>6. c[b] <= c[t]
    <3>1. shares[b].height < shares[t].height
      <4>1. /\ shares[b].height = shares[cur].height /\ shares[t].height = shares[tip].height
        BY DEF AtHeight
      <4>2. shares[cur].height \in Nat /\ blockDepth \in Nat /\ blockDepth > 0
        BY <2>1, ShareType DEF ResultInv, WalkType, BlocksIncluded
      <4>3. QED
        BY <4>1, <4>2 DEF WindowIsRecent
    <3>2. QED
      BY <2>5, <3>1 DEF Ordered
  <2>7. /\ Max(T(c)) \in 0..(Word - 1) /\ c[t] <= Max(T(c))
        /\ Min(B(c)) \in 0..(Word - 1) /\ Min(B(c)) <= c[b]
    <3>1. Word - 1 \in Nat
      BY WordNat
    <3> HIDE DEF T, B
    <3>2. QED
      BY <2>5, <3>1, MinMaxOf
  <2> DEFINE s == TimeSpan(c[b], c[t])
             l == Max({Max(T(c)) - Min(B(c)), 1})
  <2>8. s \in Nat /\ s > 0 /\ (s = c[t] - c[b] \/ s = 1)
    <3>1. c[b] \in 0..(Word - 1) /\ c[t] \in 0..(Word - 1)
      BY <2>4, <2>5
    <3>2. (c[t] - c[b]) % Word = c[t] - c[b]
      BY <2>6, <3>1, WordNat, WrapOnce
    <3>3. QED
      BY <2>6, <3>1, <3>2 DEF TimeSpan
  <2>9. l \in Nat /\ l >= 1 /\ l >= Max(T(c)) - Min(B(c))
    <3> DEFINE m == Max(T(c)) - Min(B(c))
               S == {m, 1}
    <3>1. m \in 0..(Word - 1)
      <4>1. PICK x \in 0..(Word - 1), y \in 0..(Word - 1), v \in 0..(Word - 1), w \in 0..(Word - 1) :
              x = c[b] /\ y = c[t] /\ v = Max(T(c)) /\ w = Min(B(c))
        BY <2>4, <2>5, <2>7
      <4>2. w <= x /\ x <= y /\ y <= v
        BY <2>6, <2>7, <4>1
      <4>3. v - w \in 0..(Word - 1)
        BY <4>2, WordNat
      <4>4. QED
        BY <4>1, <4>3
    <3>2. Word - 1 \in Nat /\ S \in SUBSET (0..(Word - 1)) /\ S # {}
      BY <3>1, WordNat
    <3>3. m \in S /\ 1 \in S
      OBVIOUS
    <3> HIDE DEF m, S
    <3>4. Max(S) \in 0..(Word - 1) /\ m <= Max(S) /\ 1 <= Max(S)
      BY <3>2, <3>3, MinMaxOf
    <3>5. QED
      BY <3>4 DEF m, S
  <2>10. s <= l
    BY <2>4, <2>5, <2>7, <2>8, <2>9
  <2>11. hr = pplnsWeight \div s
    BY <2>2, <2>3
  <2> HIDE DEF s, l
  <2>12. hr <= pplnsWeight /\ pplnsWeight < (hr + 1) * l
    BY <2>3, <2>8, <2>9, <2>10, <2>11, RateBounds
  <2>13. QED
    BY <2>12 DEF l
<1>2. QED
  BY <1>1, ResultInvariant, WalkInvariant, MapKept, PTL

-----------------------------------------------------------------------------
(***************************************************************************)
(* The share keys: the walk of storeShares goes where that of              *)
(* CalculatePPLNS went, and may go on.                                     *)
(***************************************************************************)

(* The recursive definition of the walk has a solution.                    *)
LEMMA AncestorIs ==
  ASSUME WellFormed(shares), tip \in DOMAIN shares
  PROVE  Ancestor = [j \in 0..PPLNSWindow |->
                       IF j = 0 THEN tip
                       ELSE IF Ancestor[j - 1] \in DOMAIN shares
                            THEN shares[Ancestor[j - 1]].parent ELSE NoShare]
<1> DEFINE V == DOMAIN shares \cup Id \cup {NoShare}
           up == [z \in (1..PPLNSWindow) \X V |->
                    IF z[2] \in DOMAIN shares THEN shares[z[2]].parent ELSE NoShare]
           Up(f) == f = [j \in 0..PPLNSWindow |->
                           IF j = 0 THEN tip
                           ELSE IF f[j - 1] \in DOMAIN shares
                                THEN shares[f[j - 1]].parent ELSE NoShare]
<1>0. PPLNSWindow \in Nat
  BY WindowAssumption
<1>a. PICK f : IsIteration(f, PPLNSWindow, tip, up)
  <2> HIDE DEF up
  <2>1. QED
    BY <1>0, Iteration
<1>1. f = [j \in 0..PPLNSWindow |-> IF j = 0 THEN tip ELSE up[<<j, f[j - 1]>>]]
  BY <1>a DEF IsIteration
<1>2. \A j \in 1..PPLNSWindow, x \in V : up[<<j, x>>] \in V
  BY DEF WellFormed, Share
<1> DEFINE G == {j \in 0..PPLNSWindow : f[j] \in V}
<1>3. \A j \in 0..PPLNSWindow : j \in G
  <2>1. 0 \in G
    BY <1>0, <1>1
  <2>2. ASSUME NEW j \in 0..(PPLNSWindow - 1), j \in G
        PROVE  j + 1 \in G
    <3>1. j + 1 \in 0..PPLNSWindow /\ j + 1 \in 1..PPLNSWindow /\ j + 1 # 0 /\ (j + 1) - 1 = j
      BY <1>0
    <3>2. f[j + 1] = up[<<j + 1, f[j]>>]
      <4> HIDE DEF up
      <4>1. QED
        BY <1>1, <3>1
    <3>3. up[<<j + 1, f[j]>>] \in V
      <4> HIDE DEF up
      <4>1. QED
        BY <1>2, <2>2, <3>1
    <3>4. QED
      BY <3>1, <3>2, <3>3
  <2>3. QED
    <3> HIDE DEF G
    <3>1. QED
      BY <1>0, <2>1, <2>2, IntervalInduction
<1>4. \A j \in 0..PPLNSWindow : j # 0 => j \in 1..PPLNSWindow /\ f[j - 1] \in V
  <2> TAKE j \in 0..PPLNSWindow
  <2>1. j # 0 => j - 1 \in 0..PPLNSWindow /\ j \in 1..PPLNSWindow
    BY <1>0
  <2>2. QED
    BY <1>3, <2>1
<1>5. \A j \in 0..PPLNSWindow : j # 0 =>
        up[<<j, f[j - 1]>>] = IF f[j - 1] \in DOMAIN shares THEN shares[f[j - 1]].parent ELSE NoShare
  BY <1>4
<1>6. Up(f)
  <2> HIDE DEF up
  <2>1. QED
    BY <1>1, <1>5
<1>7. Ancestor = CHOOSE g : Up(g)
  BY DEF Ancestor
<1>8. Up(Ancestor)
  <2> HIDE DEF Up
  <2>1. QED
    BY <1>6, <1>7
<1>9. QED
  BY <1>8

(* The steps of the walk, the first n, that came to a share of m.          *)
Mine(m, n) == {k \in 1..n : shares[Ancestor[k - 1]].miner = m}

(* The shares of the walk that the result has.                             *)
Steps == IF pc = "walk" THEN blockDepth ELSE blockDepth + 1

(* The walk is on the parents of the tip, and a miner's positions are its  *)
(* steps of the walk, in their order.                                      *)
PositionsAre(m, n) ==
  /\ Len(sharePositions[m]) = Cardinality(Mine(m, n))
  /\ \A k \in DOMAIN sharePositions[m] :
       /\ sharePositions[m][k] + 1 \in Mine(m, n)
       /\ Cardinality(Upto(Mine(m, n), sharePositions[m][k] + 1)) = k

StoredInv ==
  /\ cur = Ancestor[blockDepth]
  /\ \A j \in 0..blockDepth : Ancestor[j] \in DOMAIN shares
  /\ \A m \in Address : PositionsAre(m, Steps)

(* The steps of a longer walk.                                             *)
LEMMA MineOf ==
  ASSUME NEW m, NEW n \in Nat, NEW l \in Nat, n <= l
  PROVE  /\ Mine(m, n) \in SUBSET (1..n) /\ Mine(m, n) \subseteq Mine(m, l)
         /\ IsFiniteSet(Mine(m, n)) /\ Cardinality(Mine(m, n)) \in Nat
         /\ Cardinality(Mine(m, n)) <= Cardinality(Mine(m, l))
         /\ \A q \in Mine(m, n) : Upto(Mine(m, l), q) = Upto(Mine(m, n), q)
<1>1. \A i \in Nat : Mine(m, i) \in SUBSET (1..i)
  BY DEF Mine
<1>2. \A i \in Nat : IsFiniteSet(Mine(m, i))
  <2> TAKE i \in Nat
  <2>1. IsFiniteSet(1..i)
    BY FS_Interval
  <2>2. QED
    BY <1>1, <2>1, FS_Subset
<1>3. 1..n \subseteq 1..l
  OBVIOUS
<1>4. Mine(m, n) \subseteq Mine(m, l)
  BY <1>3 DEF Mine
<1>5. ASSUME NEW q \in Mine(m, n)
      PROVE  Upto(Mine(m, l), q) = Upto(Mine(m, n), q)
  <2>1. q \in 1..n
    BY <1>1
  <2>2. \A k \in 1..l : k <= q => k \in 1..n
    BY <2>1
  <2>3. \A k : (k \in Mine(m, l) /\ k <= q) <=> (k \in Mine(m, n) /\ k <= q)
    BY <2>2, <1>4 DEF Mine
  <2>4. QED
    BY <2>3 DEF Upto
<1>6. QED
  BY <1>1, <1>2, <1>4, <1>5, FS_Subset, FS_CardinalityType

(* One step more: it is the miner's or it is not.                          *)
LEMMA MineNext ==
  ASSUME NEW m, NEW n \in Nat
  PROVE  /\ shares[Ancestor[n]].miner = m =>
              /\ n + 1 \in Mine(m, n + 1)
              /\ Cardinality(Mine(m, n + 1)) = Cardinality(Mine(m, n)) + 1
              /\ Upto(Mine(m, n + 1), n + 1) = Mine(m, n + 1)
         /\ shares[Ancestor[n]].miner # m => Mine(m, n + 1) = Mine(m, n)
<1>1. /\ (n + 1) - 1 = n /\ n + 1 \in 1..(n + 1) /\ n + 1 \notin 1..n
      /\ \A k \in 1..(n + 1) : k = n + 1 \/ k \in 1..n
      /\ \A k \in 1..n : k \in 1..(n + 1)
  OBVIOUS
<1>2. n + 1 \notin Mine(m, n)
  BY <1>1 DEF Mine
<1>3. ASSUME shares[Ancestor[n]].miner = m
      PROVE  /\ n + 1 \in Mine(m, n + 1)
             /\ Cardinality(Mine(m, n + 1)) = Cardinality(Mine(m, n)) + 1
             /\ Upto(Mine(m, n + 1), n + 1) = Mine(m, n + 1)
  <2>1. n + 1 \in Mine(m, n + 1)
    BY <1>1, <1>3 DEF Mine
  <2>2. Mine(m, n + 1) = Mine(m, n) \cup {n + 1}
    BY <1>1, <1>3 DEF Mine
  <2>3. IsFiniteSet(Mine(m, n))
    BY MineOf
  <2>4. Cardinality(Mine(m, n + 1)) = Cardinality(Mine(m, n)) + 1
    BY <1>2, <2>2, <2>3, FS_AddElement
  <2>5. \A k \in Mine(m, n + 1) : k <= n + 1
    BY DEF Mine
  <2>6. QED
    BY <2>1, <2>4, <2>5 DEF Upto
<1>4. ASSUME shares[Ancestor[n]].miner # m
      PROVE  Mine(m, n + 1) = Mine(m, n)
  BY <1>1, <1>4 DEF Mine
<1>5. QED
  BY <1>3, <1>4


(* The walk begins at the tip.                                             *)
LEMMA StoredInit == Init => StoredInv
<1> SUFFICES ASSUME Init PROVE StoredInv
  OBVIOUS
<1>1. WellFormed(shares) /\ tip \in DOMAIN shares /\ cur = tip /\ blockDepth = 0 /\ pc = "walk"
      /\ sharePositions = [m \in Address |-> << >>]
  BY WindowAssumption DEF Init, Tips
<1>2. Ancestor[0] = tip
  <2>1. 0 \in 0..PPLNSWindow
    BY WindowAssumption
  <2>2. QED
    BY <1>1, <2>1, AncestorIs
<1>3. ASSUME NEW m \in Address PROVE PositionsAre(m, Steps)
  <2>1. Steps = 0 /\ Mine(m, 0) = {}
    BY <1>1 DEF Steps, Mine
  <2>2. sharePositions[m] = << >> /\ Len(<< >>) = 0 /\ DOMAIN << >> = {}
    BY <1>1
  <2>3. QED
    BY <2>1, <2>2, FS_EmptySet DEF PositionsAre
<1>4. \A j \in 0..blockDepth : Ancestor[j] \in DOMAIN shares
  BY <1>1, <1>2
<1>5. QED
  BY <1>1, <1>2, <1>3, <1>4 DEF StoredInv

(* Uncles leave the walk alone.                                            *)
LEMMA UncleKeepsStored ==
  ASSUME StoredInv, IncludeUncle \/ SkipUncle \/ UNCHANGED vars
  PROVE  StoredInv'
<1>1. UNCHANGED <<shares, tip, cur, blockDepth, sharePositions, pc>>
  BY DEF IncludeUncle, SkipUncle, AtUncle, vars, input, result
<1>2. Ancestor' = Ancestor
  BY <1>1 DEF Ancestor
<1>3. \A m, n : Mine(m, n)' = Mine(m, n)
  BY <1>1, <1>2 DEF Mine
<1>4. Steps' = Steps
  BY <1>1 DEF Steps
<1>5. \A m : PositionsAre(m, Steps)' <=> PositionsAre(m, Steps)
  BY <1>1, <1>3, <1>4 DEF PositionsAre
<1>6. QED
  BY <1>1, <1>2, <1>5 DEF StoredInv

(* A share is the next step of the walk, its miner's last so far.          *)
LEMMA ShareKeepsStored ==
  ASSUME StoredInv, WalkType, WalkType', DepthInv, DepthInv', AddShare,
         sharePositions \in [Address -> Seq(Nat)]
  PROVE  StoredInv'
<1> DEFINE n == blockDepth
<1>1. /\ UNCHANGED <<shares, tip>> /\ pc = "walk" /\ cur \in DOMAIN shares
      /\ n \in Nat /\ WellFormed(shares) /\ tip \in DOMAIN shares
      /\ sharePositions' = [sharePositions EXCEPT ![shares[cur].miner] = Append(@, n)]
      /\ \/ pc' = "done" /\ cur' = cur /\ blockDepth' = n
         \/ pc' = "walk" /\ cur' = shares[cur].parent /\ blockDepth' = n + 1
  BY DEF AddShare, WalkType, input
<1>2. Ancestor' = Ancestor
  BY <1>1 DEF Ancestor
<1>3. \A m, i : Mine(m, i)' = Mine(m, i)
  BY <1>1, <1>2 DEF Mine
<1>4. Steps = n /\ Steps' = n + 1
  BY <1>1 DEF Steps
<1>5. Ancestor[n] = cur /\ \A j \in 0..n : Ancestor[j] \in DOMAIN shares
  BY DEF StoredInv
<1>6. cur' = Ancestor[blockDepth'] /\ \A j \in 0..blockDepth' : Ancestor[j] \in DOMAIN shares
  <2>1. CASE blockDepth' = n /\ cur' = cur
    BY <1>5, <2>1
  <2>2. CASE blockDepth' = n + 1 /\ cur' = shares[cur].parent
    <3>1. n + 1 \in 0..PPLNSWindow /\ n + 1 # 0 /\ (n + 1) - 1 = n
      BY <1>1, <2>2, WindowAssumption DEF DepthInv
    <3>2. Ancestor[n + 1] = shares[cur].parent
      BY <1>1, <1>5, <3>1, AncestorIs
    <3>3. cur' \in DOMAIN shares
      BY <1>1 DEF WalkType
    <3>4. \A j \in 0..(n + 1) : j \in 0..n \/ j = n + 1
      BY <1>1
    <3>5. QED
      BY <1>5, <2>2, <3>2, <3>3, <3>4
  <2>3. QED
    BY <1>1, <2>1, <2>2
<1>7. ASSUME NEW m \in Address
      PROVE  PositionsAre(m, Steps)'
  <2> DEFINE p == sharePositions[m]
             q == sharePositions'[m]
  <2>1. PositionsAre(m, n)
    BY <1>4 DEF StoredInv
  <2>2. /\ \A k \in Mine(m, n) : Upto(Mine(m, n + 1), k) = Upto(Mine(m, n), k)
        /\ Mine(m, n) \subseteq Mine(m, n + 1)
    <3>1. n + 1 \in Nat /\ n <= n + 1
      BY <1>1
    <3>2. QED
      BY <1>1, <3>1, MineOf
  <2>3. p \in Seq(Nat) /\ DOMAIN p = 1..Len(p) /\ Len(p) \in Nat
    BY LenProperties
  <2>4. CASE shares[cur].miner # m
    <3>1. q = p
      BY <1>1, <2>4
    <3>2. Mine(m, n + 1) = Mine(m, n)
      BY <1>1, <1>5, <2>4, MineNext
    <3>3. Mine(m, Steps)' = Mine(m, n)
      BY <1>3, <1>4, <3>2
    <3>4. QED
      BY <2>1, <3>1, <3>3 DEF PositionsAre
  <2>5. CASE shares[cur].miner = m
    <3>1. q = Append(p, n)
      BY <1>1, <2>5
    <3>2. /\ Len(q) = Len(p) + 1 /\ DOMAIN q = 1..(Len(p) + 1)
          /\ \A k \in 1..Len(p) : q[k] = p[k]
          /\ q[Len(p) + 1] = n
      BY <1>1, <2>3, <3>1, AppendProperties
    <3>3. /\ n + 1 \in Mine(m, n + 1)
          /\ Cardinality(Mine(m, n + 1)) = Cardinality(Mine(m, n)) + 1
          /\ Upto(Mine(m, n + 1), n + 1) = Mine(m, n + 1)
      BY <1>1, <1>5, <2>5, MineNext
    <3>4. Mine(m, Steps)' = Mine(m, n + 1)
      BY <1>3, <1>4
    <3>5. Len(q) = Cardinality(Mine(m, n + 1))
      BY <2>1, <3>2, <3>3 DEF PositionsAre
    <3>6. ASSUME NEW k \in DOMAIN q
          PROVE  q[k] + 1 \in Mine(m, n + 1) /\ Cardinality(Upto(Mine(m, n + 1), q[k] + 1)) = k
      <4>1. CASE k = Len(p) + 1
        <5>1. q[k] + 1 = n + 1
          BY <3>2, <4>1
        <5>2. QED
          BY <3>2, <3>3, <3>5, <4>1, <5>1
      <4>2. CASE k \in 1..Len(p)
        <5>1. q[k] = p[k] /\ k \in DOMAIN p
          BY <2>3, <3>2, <4>2
        <5>2. p[k] + 1 \in Mine(m, n) /\ Cardinality(Upto(Mine(m, n), p[k] + 1)) = k
          BY <2>1, <5>1 DEF PositionsAre
        <5>3. QED
          BY <2>2, <5>1, <5>2
      <4>3. QED
        BY <2>3, <3>2, <4>1, <4>2
    <3>7. QED
      BY <3>4, <3>5, <3>6 DEF PositionsAre
  <2>6. QED
    BY <2>4, <2>5
<1>8. QED
  BY <1>1, <1>2, <1>6, <1>7 DEF StoredInv

(* The walk of the two is the same as far as CalculatePPLNS went.          *)
LEMMA StoredInvariant == Spec => []StoredInv
<1> DEFINE Facts == ResultInv /\ DepthInv
<1>1. Init => StoredInv
  BY StoredInit
<1>2. StoredInv /\ Facts /\ Facts' /\ [Next]_vars => StoredInv'
  <2> SUFFICES ASSUME StoredInv, ResultInv, DepthInv, ResultInv', DepthInv', [Next]_vars
               PROVE  StoredInv'
    OBVIOUS
  <2>1. WalkType /\ WalkType' /\ sharePositions \in [Address -> Seq(Nat)]
    BY DEF ResultInv, ResultType
  <2>2. CASE AddShare
    BY <2>1, <2>2, ShareKeepsStored
  <2>3. CASE IncludeUncle \/ SkipUncle \/ UNCHANGED vars
    BY <2>3, UncleKeepsStored
  <2>4. QED
    BY <2>2, <2>3 DEF Next
<1>3. Spec => []Facts
  <2>1. Spec => []DepthInv
    BY WalkInvariant, PTL
  <2>2. QED
    BY <2>1, ResultInvariant, PTL
<1>4. QED
  BY <1>1, <1>2, <1>3, PTL DEF Spec

(* storeShares walks at least as far as the result does.                   *)
LEMMA WalkedCovers ==
  ASSUME StoredInv, blockDepth \in Nat, DepthInv
  PROVE  \E far \in Nat : /\ blockDepth + 1 <= far
                         /\ Walked = [k \in 1..far |-> Ancestor[k - 1]]
<1> DEFINE Goes(n) == /\ \A j \in 0..(n - 1) : Ancestor[j] \in DOMAIN shares
                      /\ n = PPLNSWindow \/ Ancestor[n] \notin DOMAIN shares
           T == {n \in 0..PPLNSWindow : n = PPLNSWindow \/ Ancestor[n] \notin DOMAIN shares}
           far == CHOOSE n \in 0..PPLNSWindow : Goes(n)
<1>1. PPLNSWindow \in Nat
  BY WindowAssumption
<1>2. \E n \in 0..PPLNSWindow : Goes(n)
  <2>1. T \in SUBSET Nat /\ PPLNSWindow \in T
    BY <1>1
  <2>2. PICK n \in T : \A k \in T : n <= k
    BY <2>1, LeastNumber
  <2>3. n \in 0..PPLNSWindow /\ (n = PPLNSWindow \/ Ancestor[n] \notin DOMAIN shares)
    OBVIOUS
  <2>4. ASSUME NEW j \in 0..(n - 1)
        PROVE  Ancestor[j] \in DOMAIN shares
    <3>1. j \in 0..PPLNSWindow /\ ~(n <= j)
      BY <1>1, <2>3
    <3>2. j \notin T
      BY <2>2, <3>1
    <3>3. QED
      BY <3>1, <3>2
  <2>5. QED
    BY <2>3, <2>4
<1>3. far \in 0..PPLNSWindow /\ Goes(far)
  <2> HIDE DEF Goes
  <2>1. QED
    BY <1>2
<1>4. Walked = [k \in 1..far |-> Ancestor[k - 1]]
  BY DEF Walked
<1> HIDE DEF far
<1>5. ~(far <= blockDepth)
  <2> SUFFICES ASSUME far <= blockDepth PROVE FALSE
    OBVIOUS
  <2>1. far \in 0..blockDepth /\ far # PPLNSWindow
    BY <1>1, <1>3 DEF DepthInv
  <2>2. Ancestor[far] \in DOMAIN shares
    BY <2>1 DEF StoredInv
  <2>3. QED
    BY <1>3, <2>1, <2>2
<1>6. far \in Nat /\ blockDepth + 1 <= far
  BY <1>1, <1>3, <1>5
<1>7. QED
  BY <1>4, <1>6

(* Every share of the result is under its miner's share key, at the same   *)
(* place among the miner's shares, although the two are computed by        *)
(* separate walks (storeShares, main.go:520; CalculatePPLNS).              *)
THEOREM StoredHolds == Spec => []WindowStored
<1>1. StoredInv /\ ResultInv /\ DepthInv => WindowStored
  <2> SUFFICES ASSUME StoredInv, ResultInv, DepthInv, pc = "done", NEW m \in Address
               PROVE  /\ Len(sharePositions[m]) <= Len(MinerShares(m))
                      /\ \A k \in DOMAIN sharePositions[m] :
                           MinerShares(m)[k] = Walked[sharePositions[m][k] + 1]
    BY DEF WindowStored
  <2> DEFINE n == blockDepth + 1
             p == sharePositions[m]
  <2>1. blockDepth \in Nat /\ n \in Nat /\ p \in Seq(Nat)
    BY DEF ResultInv, WalkType, ResultType
  <2>2. PICK far \in Nat : n <= far /\ Walked = [k \in 1..far |-> Ancestor[k - 1]]
    BY <2>1, WalkedCovers
  <2>3. PositionsAre(m, n)
    BY DEF StoredInv, Steps
  <2> DEFINE K == Mine(m, far)
             own == {k \in DOMAIN Walked : shares[Walked[k]].miner = m}
  <2>4. own = K
    <3>1. DOMAIN Walked = 1..far /\ \A k \in 1..far : Walked[k] = Ancestor[k - 1]
      BY <2>2
    <3>2. QED
      BY <3>1 DEF Mine
  <2>5. MinerShares(m) = [j \in 1..Cardinality(K) |->
                            Walked[CHOOSE k \in K : Cardinality(Upto(K, k)) = j]]
    <3>1. MinerShares(m) = [j \in 1..Cardinality(own) |->
                              Walked[CHOOSE k \in own : Cardinality(Upto(own, k)) = j]]
      BY DEF MinerShares, Upto
    <3> HIDE DEF own, K
    <3>2. QED
      BY <2>4, <3>1
  <2>6. /\ Mine(m, n) \subseteq K /\ Cardinality(Mine(m, n)) <= Cardinality(K)
        /\ \A q \in Mine(m, n) : Upto(K, q) = Upto(Mine(m, n), q)
        /\ K \in SUBSET (1..far) /\ Cardinality(K) \in Nat
    BY <2>1, <2>2, MineOf
  <2> HIDE DEF K, n
  <2>7. Len(p) = Cardinality(Mine(m, n)) /\ DOMAIN p = 1..Len(p) /\ Len(p) \in Nat
    BY <2>1, <2>3, LenProperties DEF PositionsAre
  <2>8. Len(MinerShares(m)) = Cardinality(K)
    BY <2>5, <2>6
  <2>9. ASSUME NEW k \in DOMAIN p
        PROVE  MinerShares(m)[k] = Walked[p[k] + 1]
    <3> DEFINE q == p[k] + 1
    <3>1. q \in Mine(m, n) /\ Cardinality(Upto(Mine(m, n), q)) = k
      BY <2>3 DEF PositionsAre
    <3>2. q \in K /\ Cardinality(Upto(K, q)) = k
      BY <2>6, <3>1
    <3>3. k \in 1..Cardinality(K)
      BY <2>6, <2>7
    <3> HIDE DEF q
    <3> DEFINE c == CHOOSE i \in K : Cardinality(Upto(K, i)) = k
    <3>4. c \in K /\ Cardinality(Upto(K, c)) = k
      BY <3>2
    <3>5. MinerShares(m)[k] = Walked[c]
      BY <2>5, <3>3
    <3> HIDE DEF c
    <3>6. c = q
      BY <2>2, <2>6, <3>2, <3>4, RankUnique
    <3>7. QED
      BY <3>5, <3>6 DEF q
  <2>10. QED
    BY <2>6, <2>7, <2>8, <2>9
<1>2. Spec => []DepthInv
  BY WalkInvariant, PTL
<1>3. QED
  BY <1>1, <1>2, ResultInvariant, StoredInvariant, PTL

-----------------------------------------------------------------------------
(***************************************************************************)
(* The split and the penalties in words.                                   *)
(***************************************************************************)

(* No miner, and no group of the heaviest ones, has more than all of them. *)
LEMMA CumulativeBelow ==
  ASSUME ResultInv, pc = "done", NEW o \in TopMiners
  PROVE  \A k \in 0..Len(o) : Cumulative(o, k) <= pplnsWeight
<1> DEFINE n == Len(o)
           G == {j \in 0..n : Cumulative(o, n - j) <= pplnsWeight}
<1>1. /\ n \in Nat /\ pplnsWeight \in Nat /\ Cumulative(o, n) = pplnsWeight
      /\ \A k \in 0..n : Cumulative(o, k) \in Nat
      /\ \A k \in 1..n : /\ weight[o[k]] \in Nat
                          /\ Cumulative(o, k) = Cumulative(o, k - 1) + weight[o[k]]
  BY OrderOfMiners, CumulativeWeights DEF ResultInv, WalkType
<1> HIDE DEF n
<1>2. 0 \in G
  <2>1. n - 0 = n
    BY <1>1
  <2>2. QED
    BY <1>1, <2>1
<1>3. ASSUME NEW j \in 0..(n - 1), j \in G
      PROVE  j + 1 \in G
  <2>1. n - j \in 1..n /\ n - j \in 0..n /\ (n - j) - 1 = n - (j + 1) /\ n - (j + 1) \in 0..n
        /\ j + 1 \in 0..n
    BY <1>1
  <2>2. Cumulative(o, n - j) = Cumulative(o, n - (j + 1)) + weight[o[n - j]]
        /\ weight[o[n - j]] \in Nat
    BY <1>1, <2>1
  <2>3. PICK a \in Nat, b \in Nat, c \in Nat :
          a = Cumulative(o, n - j) /\ b = Cumulative(o, n - (j + 1)) /\ c = weight[o[n - j]]
    BY <1>1, <2>1, <2>2
  <2>4. a <= pplnsWeight /\ a = b + c
    BY <1>3, <2>2, <2>3
  <2>5. b <= pplnsWeight
    BY <1>1, <2>3, <2>4
  <2>6. QED
    BY <2>1, <2>3, <2>5
<1>4. \A j \in 0..n : j \in G
  <2> HIDE DEF G
  <2>1. QED
    BY <1>1, <1>2, <1>3, IntervalInduction
<1>5. ASSUME NEW k \in 0..n PROVE Cumulative(o, k) <= pplnsWeight
  <2>1. n - k \in 0..n /\ n - (n - k) = k
    BY <1>1
  <2>2. QED
    BY <1>4, <2>1
<1>6. QED
  BY <1>5 DEF n

(* The words a reward is split at stand for the exact rounded-down values. *)
LEMMA NextValueIs ==
  ASSUME ResultInv, pc = "done", pplnsWeight > 0, NEW o \in TopMiners, NEW k \in 0..Len(o),
         NEW r \in Digit, Fits(pplnsWeight), Fits(pplnsWeight * r)
  PROVE  /\ NextValue(o, k, r) = (Cumulative(o, k) * r) \div pplnsWeight
         /\ NextValue(o, k, r) \in Digit
<1> DEFINE S == 1..k
           f == [j \in S |-> Words(weight[o[j]])]
           v == [j \in S |-> weight[o[j]]]
           sum == FoldFunctionOnSet(Add, Zero, f, S)
<1>1. PICK W \in Nat, z \in Nat : /\ W = pplnsWeight /\ W > 0 /\ z = Word * Word
                                  /\ W < z /\ W * r < z
  BY WordNat DEF ResultInv, WalkType, Fits
<1>2. PICK w \in Nat : w = Word /\ w > 0
  BY WordNat
<1>3. r \in Nat /\ r < w
  BY <1>2 DEF Digit
<1>4. Len(o) \in Nat /\ k \in Nat /\ k <= Len(o)
  BY OrderOfMiners
<1>5. \A j \in S : v[j] \in Nat /\ v[j] <= W
  <2> SUFFICES ASSUME NEW j \in S PROVE weight[o[j]] \in Nat /\ weight[o[j]] <= W
    OBVIOUS
  <2>1. j \in 1..Len(o) /\ j \in 0..Len(o) /\ j - 1 \in 0..Len(o)
    BY <1>4
  <2>2. /\ weight[o[j]] \in Nat /\ Cumulative(o, j) = Cumulative(o, j - 1) + weight[o[j]]
        /\ Cumulative(o, j - 1) \in Nat /\ Cumulative(o, j) <= W
    BY <1>1, <2>1, CumulativeWeights, CumulativeBelow
  <2>3. PICK a \in Nat, b \in Nat : a = Cumulative(o, j - 1) /\ b = weight[o[j]]
    BY <2>2
  <2>4. QED
    BY <1>1, <2>2, <2>3
<1>6. \A j \in S : f[j] \in TwoWords /\ v[j] = Value(f[j])
  <2> SUFFICES ASSUME NEW j \in S
               PROVE  Words(v[j]) \in TwoWords /\ v[j] = Value(Words(v[j]))
    OBVIOUS
  <2>1. PICK a \in Nat : a = v[j] /\ a < Word * Word
    BY <1>1, <1>5
  <2>2. QED
    BY <2>1, WordsIs
<1>7. IsFiniteSet(S)
  BY <1>4, FS_Interval
<1>8. PICK c \in Nat : c = Cumulative(o, k) /\ c <= W
  BY <1>1, CumulativeWeights, CumulativeBelow
<1>9. SumOver(v, S) = c
  BY <1>8 DEF Cumulative, SumFunction, SumOver
<1>10. sum \in TwoWords /\ Value(sum) = c
  <2>1. SumOver(v, S) < Word * Word
    BY <1>1, <1>8, <1>9
  <2> HIDE DEF f, v, S
  <2>2. QED
    BY <1>6, <1>7, <1>9, <2>1, WordSumExact
<1>11. FoldFunction(Add, Zero, f) = sum
  BY DEF FoldFunction
<1> HIDE DEF sum
<1>12. c * r < z /\ c * r \in Nat /\ c * r <= W * r
  <2>1. (W - c) * r >= 0 /\ (W - c) * r = W * r - c * r
    BY <1>1, <1>3, <1>8, SMT
  <2>2. PICK x \in Nat, y \in Nat : x = c * r /\ y = W * r
    BY <1>1, <1>3, <1>8
  <2>3. QED
    BY <1>1, <2>1, <2>2
<1>13. Mul64(sum, r) \in TwoWords /\ Value(Mul64(sum, r)) = c * r
  <2>1. Value(sum) * r < Word * Word
    BY <1>1, <1>10, <1>12
  <2>2. QED
    BY <1>10, <2>1, Mul64Exact
<1>14. Words(W) \in TwoWords /\ Value(Words(W)) = W /\ Words(W) # Zero
  <2>1. Words(W) \in TwoWords /\ Value(Words(W)) = W
    BY <1>1, WordsIs
  <2>2. Value(Zero) = 0
    BY WordNat DEF Value, Zero, FromUint64
  <2>3. QED
    BY <1>1, <2>1, <2>2
<1> DEFINE D == Div(Mul64(sum, r), Words(W))
<1>15. D \in TwoWords /\ Value(D) = (c * r) \div W
  BY <1>13, <1>14, DivExact
<1>16. NextValue(o, k, r) = D.lo
  BY <1>1, <1>11 DEF NextValue
<1> HIDE DEF D
<1>17. PICK q \in Int : q = (c * r) \div W
  BY <1>1, <1>3, <1>8, SMT
<1>18. W * q <= c * r
  <2>1. PICK t \in Nat : t = c * r
    BY <1>12
  <2>2. W * (t \div W) <= t
    BY <1>1, <2>1, Euclid
  <2>3. QED
    BY <1>17, <2>1, <2>2
<1>19. q <= r
  <2> SUFFICES ASSUME q >= r + 1 PROVE FALSE
    BY <1>3, <1>17
  <2>1. W * (q - r - 1) >= 0 /\ W * (q - r - 1) = W * q - W * r - W
    BY <1>1, <1>3, <1>17, SMT
  <2>2. PICK x \in Int, y \in Int, t \in Int : x = W * q /\ y = W * r /\ t = c * r
    BY <1>1, <1>3, <1>8, <1>17
  <2>3. QED
    BY <1>1, <1>12, <1>18, <2>1, <2>2
<1>20. PICK h \in 0..(w - 1), l \in 0..(w - 1) : h = D.hi /\ l = D.lo
  BY <1>2, <1>15 DEF TwoWords, Digit
<1>21. h * w + l = q
  BY <1>2, <1>15, <1>17, <1>20 DEF Value
<1>22. h = 0
  <2> SUFFICES ASSUME h >= 1 PROVE FALSE
    BY <1>2, <1>20
  <2>1. (h - 1) * w >= 0 /\ (h - 1) * w = h * w - w
    BY <1>2, <1>20, SMT
  <2>2. PICK x \in Int : x = h * w
    BY <1>2, <1>20
  <2>3. q \in Int /\ q < w /\ l >= 0 /\ l \in Int
    BY <1>2, <1>3, <1>17, <1>19, <1>20
  <2>4. x + l = q
    BY <1>21, <2>2
  <2>5. QED
    BY <1>2, <2>1, <2>2, <2>3, <2>4
<1>23. l = q
  BY <1>2, <1>20, <1>21, <1>22
<1>24. QED
  BY <1>1, <1>2, <1>8, <1>16, <1>17, <1>20, <1>23 DEF Digit

(* The penalty of an uncle in words is the exact one.                      *)
LEMMA PenaltyIs ==
  ASSUME NEW x \in DOMAIN shares, WellFormed(shares),
         Fits(shares[x].difficulty), Fits(shares[x].difficulty * UnclePenalty)
  PROVE  Value(PenaltyWords(x)) = Penalty(x)
<1>1. PICK n \in Nat : n = shares[x].difficulty
  BY ShareType
<1>2. 100 \in Digit /\ UnclePenalty \in Digit /\ 100 # 0
  BY WindowAssumption, PercentAssumption, WordNat DEF Digit
<1>3. Words(n) \in TwoWords /\ Value(Words(n)) = n
  BY <1>1, WordsIs DEF Fits
<1>4. Value(Words(n)) * UnclePenalty < Word * Word
  BY <1>1, <1>3 DEF Fits
<1> DEFINE m == Mul64(Words(n), UnclePenalty)
<1>5. m \in TwoWords /\ Value(m) = n * UnclePenalty
  BY <1>2, <1>3, <1>4, Mul64Exact
<1>6. PenaltyWords(x) = Div64(m, 100)
  BY <1>1 DEF PenaltyWords
<1> HIDE DEF m
<1>7. Value(Div64(m, 100)) = Value(m) \div 100
  BY <1>2, <1>5, Div64Exact
<1>8. Penalty(x) = (n * UnclePenalty) \div 100
  BY <1>1 DEF Penalty
<1>9. QED
  BY <1>5, <1>6, <1>7, <1>8

(* What the daemon computes in two words is the split and the penalty of   *)
(* the numbers, for words of any width, whenever the products fit          *)
(* (pplns.go:337, types.go:244).                                           *)
THEOREM WordsHold == Spec => []WordsExact
<1>1. ResultInv => WordsExact
  <2> SUFFICES ASSUME ResultInv, pc = "done" PROVE WordsExact
    BY DEF WordsExact
  <2>1. ASSUME NEW x \in counted,
               Fits(shares[x].difficulty), Fits(shares[x].difficulty * UnclePenalty)
        PROVE  Value(PenaltyWords(x)) = Penalty(x)
    BY <2>1, PenaltyIs DEF ResultInv, WalkType
  <2>2. ASSUME NEW o \in TopMiners, NEW r \in Reward \cap Digit,
               pplnsWeight > 0, Fits(pplnsWeight), Fits(pplnsWeight * r)
        PROVE  PayoutWords(o, r) = EstimatedPayout(o, r)
    <3> DEFINE n == Len(o)
               q(k) == (Cumulative(o, k) * r) \div pplnsWeight
    <3>1. r \in Digit /\ r \in Nat /\ n \in Nat /\ pplnsWeight \in Nat
      BY OrderOfMiners, WindowAssumption DEF ResultInv, WalkType
    <3>2. \A k \in 0..n : NextValue(o, k, r) = q(k) /\ NextValue(o, k, r) \in Digit
      BY <2>2, <3>1, NextValueIs
    <3> DEFINE p == EstimatedPayout(o, r)
    <3>3. DOMAIN p = 1..n /\ \A k \in 1..n : p[k] \in Nat
      BY <2>2, <3>1, SplitForm
    <3>4. p = [k \in 1..n |-> q(k) - q(k - 1)]
      BY DEF EstimatedPayout
    <3>5. \A k \in 1..n : (NextValue(o, k, r) - NextValue(o, k - 1, r)) % Word = q(k) - q(k - 1)
      <4> TAKE k \in 1..n
      <4>1. k \in 0..n /\ k - 1 \in 0..n
        BY <3>1
      <4>2. q(k) - q(k - 1) \in Nat
        BY <3>3, <3>4
      <4>3. NextValue(o, k, r) = q(k) /\ NextValue(o, k - 1, r) = q(k - 1)
            /\ NextValue(o, k, r) \in Digit /\ NextValue(o, k - 1, r) \in Digit
        BY <3>2, <4>1
      <4> HIDE DEF q
      <4>4. PICK a \in Digit, b \in Digit, w \in Nat : a = q(k) /\ b = q(k - 1) /\ w = Word /\ w > 0
        BY <4>3, WordNat
      <4>5. PICK d \in Int : d = a - b /\ 0 <= d /\ d < w
        BY <4>2, <4>4 DEF Digit
      <4>6. d % w = d
        BY <4>4, <4>5, WrapOnce
      <4>7. QED
        BY <4>3, <4>4, <4>5, <4>6
    <3> HIDE DEF q
    <3>6. QED
      BY <3>4, <3>5 DEF PayoutWords
  <2>3. QED
    BY <2>1, <2>2 DEF WordsExact
<1>2. QED
  BY <1>1, ResultInvariant, PTL

=============================================================================
