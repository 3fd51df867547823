--------------------------- MODULE ShareBufferProofs ---------------------------
(***************************************************************************)
(* Proofs about ShareBuffer.                                               *)
(***************************************************************************)
EXTENDS ShareBuffer, InductionLemmas, TLAPS

-----------------------------------------------------------------------------
(***************************************************************************)
(* Sequences of bytes.                                                     *)
(***************************************************************************)
ByteSeq == Seq(Nat)

(* The bytes s stand in d at position p.                                   *)
At(d, p, s) ==
  /\ p \in Nat \ {0} /\ s \in ByteSeq
  /\ p + Len(s) - 1 <= Len(d)
  /\ \A k \in 1..Len(s) : d[p + k - 1] = s[k]

(* What is left of d when its end is cut off.                              *)
PrefixOf(c, d) ==
  /\ c \in ByteSeq /\ d \in ByteSeq
  /\ Len(c) <= Len(d)
  /\ \A k \in 1..Len(c) : c[k] = d[k]

(* A position, as a reader of what is left has it.                         *)
Clip(c, p) == IF p - 1 <= Len(c) THEN p ELSE Fail

(* A sequence given by its bytes.                                          *)
LEMMA BytesOf ==
  ASSUME NEW n \in Nat, NEW f, f = [k \in 1..n |-> f[k]], \A k \in 1..n : f[k] \in Nat
  PROVE  f \in ByteSeq /\ Len(f) = n
<1>1. f \in [1..n -> Nat]
  OBVIOUS
<1>2. QED
  BY <1>1 DEF ByteSeq

(* Copies of one byte.                                                     *)
LEMMA FixedBytes ==
  ASSUME NEW n \in Nat, NEW size \in Nat
  PROVE  /\ Fixed(n, size) \in ByteSeq /\ Len(Fixed(n, size)) = size
         /\ \A k \in 1..size : Fixed(n, size)[k] = n
<1> DEFINE f == Fixed(n, size)
<1>1. f = [k \in 1..size |-> f[k]] /\ \A k \in 1..size : f[k] = n
  BY DEF Fixed
<1> HIDE DEF f
<1>2. f \in ByteSeq /\ Len(f) = size
  BY <1>1, BytesOf
<1>3. QED
  BY <1>1, <1>2 DEF f

(* A hash, by the number that names it.                                    *)
LEMMA HashBytes ==
  ASSUME NEW n \in Nat
  PROVE  /\ H(n) \in ByteSeq /\ Len(H(n)) = HashSize
         /\ \A k \in 1..HashSize : H(n)[k] = n
BY SizesAssumption, FixedBytes DEF H

(* The first byte of a hash gives back its name.                           *)
LEMMA HashNames ==
  ASSUME NEW m \in Nat, NEW n \in Nat, H(m) = H(n)
  PROVE  m = n
<1>1. 1 \in 1..HashSize
  BY SizesAssumption
<1>2. H(m)[1] = m /\ H(n)[1] = n
  BY <1>1, HashBytes
<1>3. QED
  BY <1>2

(* The numbers of short varints.                                           *)
LEMMA InShort ==
  ASSUME NEW n \in Nat, n <= 16383
  PROVE  n \in Short
<1> DEFINE m == 16383
<1>1. m \in Nat /\ n <= m
  OBVIOUS
<1> HIDE DEF m
<1>2. n \in 0..m
  BY <1>1
<1>3. Short = 0..m
  BY DEF Short, m
<1>4. QED
  BY <1>2, <1>3

(* And what they are.                                                      *)
LEMMA OfShort ==
  ASSUME NEW n \in Short
  PROVE  n \in Nat /\ n <= 16383
<1> DEFINE m == 16383
<1>1. n \in 0..m /\ m \in Nat
  BY DEF Short
<1> HIDE DEF m
<1>2. n \in Nat /\ n <= m
  BY <1>1
<1>3. QED
  BY <1>2 DEF m

(* A varint has one or two bytes, the last below 128.                      *)
LEMMA VarintBytes ==
  ASSUME NEW n \in Short
  PROVE  /\ Varint(n) \in ByteSeq /\ Len(Varint(n)) \in {1, 2}
         /\ n < 128 => Len(Varint(n)) = 1 /\ Varint(n)[1] = n
         /\ n >= 128 => /\ Len(Varint(n)) = 2
                        /\ Varint(n)[1] = 128 + (n % 128)
                        /\ Varint(n)[2] = n \div 128
<1> DEFINE r == n % 128
           q == n \div 128
<1>1. n \in Nat
  BY OfShort
<1>2. r \in Nat /\ q \in Nat
  BY <1>1
<1>3. Varint(n) = IF n < 128 THEN <<n>> ELSE <<128 + r, q>>
  BY DEF Varint
<1> HIDE DEF r, q
<1>4. CASE n < 128
  <2>1. Varint(n) = <<n>>
    BY <1>3, <1>4
  <2>2. <<n>> \in ByteSeq
    BY <1>1 DEF ByteSeq
  <2>3. QED
    BY <1>1, <1>4, <2>1, <2>2
<1>5. CASE ~(n < 128)
  <2>1. Varint(n) = <<128 + r, q>>
    BY <1>3, <1>5
  <2>2. 128 + r \in Nat
    BY <1>2
  <2>3. <<128 + r, q>> \in ByteSeq
    BY <1>2, <2>2 DEF ByteSeq
  <2>4. Len(Varint(n)) = 2 /\ Varint(n)[1] = 128 + r /\ Varint(n)[2] = q
    BY <2>1
  <2>5. QED
    BY <1>1, <1>5, <2>1, <2>3, <2>4 DEF r, q
<1>6. QED
  BY <1>4, <1>5

(* A length and as many bytes.                                             *)
LEMMA BlobBytes ==
  ASSUME NEW b \in ByteSeq, Len(b) \in Short
  PROVE  Blob(b) \in ByteSeq /\ Len(Blob(b)) = Len(Varint(Len(b))) + Len(b)
<1>1. Varint(Len(b)) \in ByteSeq
  BY VarintBytes
<1>2. QED
  BY <1>1, ConcatProperties DEF Blob, ByteSeq

(* Both parts of a sequence that stands somewhere.                         *)
LEMMA AtParts ==
  ASSUME NEW d, NEW p, NEW s \in ByteSeq, NEW t \in ByteSeq, Len(d) \in Nat, At(d, p, s \o t)
  PROVE  At(d, p, s) /\ At(d, p + Len(s), t) /\ Len(s \o t) = Len(s) + Len(t)
<1>1. /\ Len(s) \in Nat /\ Len(t) \in Nat
      /\ s \o t \in ByteSeq /\ Len(s \o t) = Len(s) + Len(t)
      /\ \A k \in 1..(Len(s) + Len(t)) : (s \o t)[k] = IF k <= Len(s) THEN s[k] ELSE t[k - Len(s)]
  BY ConcatProperties, LenProperties DEF ByteSeq
<1> DEFINE u == s \o t
           m == Len(s)
           n == Len(t)
<1>2. /\ m \in Nat /\ n \in Nat /\ Len(u) = m + n
      /\ \A k \in 1..(m + n) : u[k] = IF k <= m THEN s[k] ELSE t[k - m]
  BY <1>1
<1>3. /\ p \in Nat \ {0} /\ p + Len(u) - 1 <= Len(d)
      /\ \A k \in 1..Len(u) : d[p + k - 1] = u[k]
  BY DEF At
<1> HIDE DEF u, m, n
<1>4. ASSUME NEW k \in 1..m PROVE d[p + k - 1] = s[k]
  BY <1>2, <1>3
<1>5. ASSUME NEW k \in 1..n PROVE d[(p + m) + k - 1] = t[k]
  <2>1. m + k \in 1..(m + n) /\ ~(m + k <= m) /\ (m + k) - m = k
    BY <1>2
  <2>2. u[m + k] = t[k]
    BY <1>2, <2>1
  <2>3. d[p + (m + k) - 1] = u[m + k]
    BY <1>2, <1>3, <2>1
  <2>4. p + (m + k) - 1 = (p + m) + k - 1
    BY <1>2, <1>3
  <2>5. QED
    BY <2>2, <2>3, <2>4
<1>6. p + m - 1 <= Len(d) /\ (p + m) + n - 1 <= Len(d) /\ p + m \in Nat \ {0}
  BY <1>2, <1>3
<1>7. QED
  BY <1>1, <1>3, <1>4, <1>5, <1>6 DEF At, m, n

(* The concatenations of the first members of a sequence of sequences.     *)
Joins(F, s) ==
  /\ F[0] = << >>
  /\ \A i \in 1..Len(s) : F[i] = F[i - 1] \o s[i]
  /\ \A i \in 0..Len(s) : F[i] \in ByteSeq
  /\ FlattenSeq(s) = F[Len(s)]

(* What the recursion in FlattenSeq defines.                               *)
IsFlatten(f, s) ==
  f = [i \in 1..Len(s) |-> IF i = 1 THEN s[i] ELSE f[i - 1] \o s[i]]

(* FlattenSeq concatenates the members one after the other.                *)
LEMMA Flattened ==
  ASSUME NEW s \in Seq(ByteSeq)
  PROVE  \E F : Joins(F, s)
<1>1. Len(s) \in Nat /\ \A i \in 1..Len(s) : s[i] \in ByteSeq
  BY LenProperties, ElementOfSeq
<1>2. CASE Len(s) = 0
  <2> DEFINE F == [i \in 0..0 |-> << >>]
  <2>1. s = << >> /\ FlattenSeq(s) = s
    BY <1>2, EmptySeq DEF FlattenSeq
  <2>2. << >> \in ByteSeq
    BY EmptySeq DEF ByteSeq
  <2>3. Joins(F, s)
    BY <1>2, <2>1, <2>2 DEF Joins
  <2>4. QED
    BY <2>3
<1>3. CASE Len(s) > 0
  <2> DEFINE n == Len(s)
             step == [y \in (1..n) \X ByteSeq |-> y[2] \o s[y[1]]]
  <2>1. PICK g : IsIteration(g, n, << >>, step)
    <3> HIDE DEF step, n
    <3>1. n \in Nat
      BY <1>1 DEF n
    <3>2. QED
      BY <3>1, Iteration
  <2>2. /\ g[0] = << >>
        /\ \A i \in 1..n : g[i] = step[<<i, g[i - 1]>>]
    <3> HIDE DEF step
    <3>1. QED
      BY <1>1, <2>1 DEF IsIteration
  <2>3. \A i \in 1..n : g[i - 1] \in ByteSeq =>
          g[i] = g[i - 1] \o s[i] /\ g[i] \in ByteSeq
    <3> SUFFICES ASSUME NEW i \in 1..n, g[i - 1] \in ByteSeq
                 PROVE  g[i] = g[i - 1] \o s[i] /\ g[i] \in ByteSeq
      OBVIOUS
    <3>1. g[i] = g[i - 1] \o s[i]
      BY <2>2
    <3>2. s[i] \in ByteSeq
      BY <1>1
    <3>3. QED
      BY <3>1, <3>2, ConcatProperties DEF ByteSeq
  <2> HIDE DEF step
  <2>4. \A i \in 0..n : g[i] \in ByteSeq
    <3> DEFINE G == {i \in 0..n : g[i] \in ByteSeq}
    <3>1. 0 \in G
      <4>1. 0 \in 0..n
        BY <1>1
      <4>2. << >> \in ByteSeq
        BY EmptySeq DEF ByteSeq
      <4>3. QED
        BY <2>2, <4>1, <4>2
    <3>2. \A i \in 0..(n - 1) : i \in G => i + 1 \in G
      <4> TAKE i \in 0..(n - 1)
      <4>1. i + 1 \in 1..n /\ (i + 1) - 1 = i /\ i + 1 \in 0..n
        BY <1>1
      <4>2. QED
        BY <2>3, <4>1
    <3>3. \A i \in 0..n : i \in G
      <4> HIDE DEF G, n
      <4>1. n \in Nat
        BY <1>1 DEF n
      <4>2. QED
        BY <3>1, <3>2, <4>1, IntervalInduction
    <3>4. QED
      BY <3>3
  <2>5. \A i \in 1..n : g[i] = g[i - 1] \o s[i]
    <3> TAKE i \in 1..n
    <3>1. i - 1 \in 0..n
      BY <1>1
    <3>2. QED
      BY <2>3, <2>4, <3>1
  <2>6. g[1] = s[1]
    <3>1. 1 \in 1..n
      BY <1>1, <1>3
    <3>2. s[1] \in ByteSeq
      BY <1>1, <3>1
    <3>3. g[1] = << >> \o s[1]
      <4>1. \A i \in 1..n : i = 1 => g[i] = g[0] \o s[i]
        <5> SUFFICES ASSUME NEW i \in 1..n, i = 1 PROVE g[i] = g[0] \o s[i]
          OBVIOUS
        <5>1. g[i] = g[i - 1] \o s[i]
          BY <2>5
        <5>2. i - 1 = 0
          OBVIOUS
        <5>3. QED
          BY <5>1, <5>2, Zenon
      <4>2. QED
        BY <2>2, <3>1, <4>1
    <3>4. QED
      BY <3>2, <3>3, ConcatEmptySeq DEF ByteSeq
  <2> DEFINE h == [i \in 1..n |-> g[i]]
             f == CHOOSE e : IsFlatten(e, s)
  <2>7. IsFlatten(h, s)
    <3>1. ASSUME NEW i \in 1..n
          PROVE  h[i] = IF i = 1 THEN s[i] ELSE h[i - 1] \o s[i]
      <4>1. CASE i = 1
        BY <2>6, <4>1
      <4>2. CASE i # 1
        <5>1. i - 1 \in 1..n
          BY <1>1, <4>2
        <5>2. QED
          BY <2>5, <4>2, <5>1
      <4>3. QED
        BY <4>1, <4>2
    <3>2. QED
      BY <3>1 DEF IsFlatten
  <2>8. IsFlatten(f, s)
    BY <2>7
  <2>9. FlattenSeq(s) = f[n]
    <3>1. FlattenSeq(s) = (CHOOSE e : e = [i \in 1..Len(s) |-> IF i = 1 THEN s[i] ELSE e[i - 1] \o s[i]])[Len(s)]
      BY <1>3, <1>1 DEF FlattenSeq
    <3>2. QED
      BY <3>1 DEF IsFlatten
  <2> HIDE DEF f, h
  <2>10. \A i \in 1..n : f[i] = IF i = 1 THEN s[i] ELSE f[i - 1] \o s[i]
    BY <2>8 DEF IsFlatten
  <2>11. \A i \in 0..n : i = 0 \/ f[i] = g[i]
    <3> DEFINE G == {i \in 0..n : i = 0 \/ f[i] = g[i]}
    <3>1. 0 \in G
      BY <1>1
    <3>2. \A i \in 0..(n - 1) : i \in G => i + 1 \in G
      <4> SUFFICES ASSUME NEW i \in 0..(n - 1), i \in G PROVE i + 1 \in G
        OBVIOUS
      <4>1. i + 1 \in 1..n /\ (i + 1) - 1 = i /\ i + 1 \in 0..n
        BY <1>1
      <4>2. CASE i = 0
        BY <2>6, <2>10, <4>1, <4>2
      <4>3. CASE i # 0
        <5>1. f[i] = g[i]
          BY <4>3
        <5>2. f[i + 1] = f[i] \o s[i + 1]
          <6>1. i + 1 # 1 /\ f[i + 1] = IF i + 1 = 1 THEN s[i + 1] ELSE f[(i + 1) - 1] \o s[i + 1]
            BY <2>10, <4>1, <4>3
          <6>2. QED
            BY <4>1, <6>1
        <5>3. g[i + 1] = g[i] \o s[i + 1]
          BY <2>5, <4>1
        <5>4. QED
          BY <4>1, <5>1, <5>2, <5>3
      <4>4. QED
        BY <4>2, <4>3
    <3>3. \A i \in 0..n : i \in G
      <4> HIDE DEF G, n
      <4>1. n \in Nat
        BY <1>1 DEF n
      <4>2. QED
        BY <3>1, <3>2, <4>1, IntervalInduction
    <3>4. QED
      BY <3>3
  <2>12. f[n] = g[n]
    <3>1. n \in 0..n /\ n # 0
      BY <1>1, <1>3
    <3>2. QED
      BY <2>11, <3>1
  <2>13. Joins(g, s)
    BY <2>2, <2>4, <2>5, <2>9, <2>12 DEF Joins
  <2>14. QED
    BY <2>13
<1>4. QED
  BY <1>1, <1>2, <1>3

(* Where concatenated sequences stand.                                     *)
LEMMA AtJoins ==
  ASSUME NEW s \in Seq(ByteSeq), NEW F, Joins(F, s), NEW d, Len(d) \in Nat, NEW p,
         At(d, p, FlattenSeq(s))
  PROVE  /\ \A i \in 0..Len(s) : At(d, p, F[i]) /\ Len(F[i]) \in Nat
         /\ \A i \in 1..Len(s) : /\ At(d, p + Len(F[i - 1]), s[i])
                                 /\ Len(F[i]) = Len(F[i - 1]) + Len(s[i])
<1> DEFINE n == Len(s)
<1>1. n \in Nat /\ \A i \in 1..n : s[i] \in ByteSeq
  BY LenProperties, ElementOfSeq
<1>2. /\ \A i \in 1..n : F[i] = F[i - 1] \o s[i]
      /\ \A i \in 0..n : F[i] \in ByteSeq
      /\ At(d, p, F[n])
  BY DEF Joins
<1> HIDE DEF n
<1> DEFINE G == {k \in 0..n : At(d, p, F[n - k])}
<1>3. ASSUME NEW i \in 1..n, At(d, p, F[i])
      PROVE  /\ At(d, p, F[i - 1]) /\ At(d, p + Len(F[i - 1]), s[i])
             /\ Len(F[i]) = Len(F[i - 1]) + Len(s[i])
  <2>1. i - 1 \in 0..n
    BY <1>1
  <2>2. F[i - 1] \in ByteSeq /\ s[i] \in ByteSeq /\ F[i] = F[i - 1] \o s[i]
    BY <1>1, <1>2, <2>1
  <2>3. At(d, p, F[i - 1] \o s[i])
    BY <1>3, <2>2
  <2>4. /\ At(d, p, F[i - 1]) /\ At(d, p + Len(F[i - 1]), s[i])
        /\ Len(F[i - 1] \o s[i]) = Len(F[i - 1]) + Len(s[i])
    <3> DEFINE a == F[i - 1]
               b == s[i]
    <3>1. a \in ByteSeq /\ b \in ByteSeq /\ At(d, p, a \o b)
      BY <2>2, <2>3
    <3> HIDE DEF a, b
    <3>2. At(d, p, a) /\ At(d, p + Len(a), b) /\ Len(a \o b) = Len(a) + Len(b)
      BY <3>1, AtParts
    <3>3. QED
      BY <3>2 DEF a, b
  <2>5. QED
    BY <2>2, <2>4
<1>4. 0 \in G
  BY <1>1, <1>2
<1>5. \A k \in 0..(n - 1) : k \in G => k + 1 \in G
  <2> SUFFICES ASSUME NEW k \in 0..(n - 1), k \in G PROVE k + 1 \in G
    OBVIOUS
  <2>1. n - k \in 1..n /\ (n - k) - 1 = n - (k + 1) /\ k + 1 \in 0..n
    BY <1>1
  <2>2. At(d, p, F[n - (k + 1)])
    BY <1>3, <2>1
  <2>3. QED
    BY <2>1, <2>2
<1>6. \A k \in 0..n : k \in G
  <2> HIDE DEF G
  <2>1. QED
    BY <1>1, <1>4, <1>5, IntervalInduction
<1>7. ASSUME NEW i \in 0..n PROVE At(d, p, F[i])
  <2>1. n - i \in 0..n /\ n - (n - i) = i
    BY <1>1
  <2>2. QED
    BY <1>6, <2>1
<1>8. ASSUME NEW i \in 0..n PROVE Len(F[i]) \in Nat
  BY <1>2, LenProperties DEF ByteSeq
<1>9. ASSUME NEW i \in 1..n
      PROVE  At(d, p + Len(F[i - 1]), s[i]) /\ Len(F[i]) = Len(F[i - 1]) + Len(s[i])
  <2>1. i \in 0..n
    BY <1>1
  <2>2. QED
    BY <1>3, <1>7, <2>1
<1>10. QED
  BY <1>7, <1>8, <1>9 DEF n

-----------------------------------------------------------------------------
(***************************************************************************)
(* The readers, on an entry whose end may be cut off: each takes the       *)
(* position of what it reads to that of what follows, or fails when what   *)
(* it reads is not all there.                                              *)
(***************************************************************************)
(* What is left of an entry has the bytes of the entry.                    *)
LEMMA PrefixBytes ==
  ASSUME NEW c, NEW d, PrefixOf(c, d)
  PROVE  /\ Len(c) \in Nat /\ Len(d) \in Nat /\ Len(c) <= Len(d)
         /\ \A k \in 1..Len(c) : c[k] = d[k] /\ c[k] \in Nat
         /\ c \in ByteSeq /\ d \in ByteSeq
BY LenProperties, ElementOfSeq DEF PrefixOf, ByteSeq

(* An entry is what is left of it when nothing is cut off.                 *)
LEMMA WholePrefix ==
  ASSUME NEW d \in ByteSeq
  PROVE  PrefixOf(d, d) /\ \A p \in 1..(Len(d) + 1) : Clip(d, p) = p
BY LenProperties DEF PrefixOf, Clip, ByteSeq

(* A position is a number.                                                 *)
LEMMA ClipNat ==
  ASSUME NEW c, Len(c) \in Nat, NEW p \in Nat \ {0}
  PROVE  /\ Clip(c, p) \in Nat
         /\ Clip(c, p) # Fail <=> p - 1 <= Len(c)
         /\ Clip(c, p) # Fail => Clip(c, p) = p
BY DEF Clip, Fail

(* No reader goes on after a failure.                                      *)
LEMMA AfterFail ==
  ASSUME NEW c, NEW n
  PROVE  /\ After(c, Fail, n) = Fail
         /\ AfterVarint(c, Fail) = Fail /\ VarintAt(c, Fail) = 0
         /\ ByteAt(c, Fail) = 0 /\ ByteIs(c, Fail, n) = Fail
<1>1. After(c, Fail, n) = Fail /\ After(c, Fail, 1) = Fail
  BY DEF After
<1>2. AfterVarint(c, Fail) = Fail
  BY DEF AfterVarint
<1>3. VarintAt(c, Fail) = 0
  BY <1>2 DEF VarintAt
<1>4. ByteAt(c, Fail) = 0
  BY <1>1 DEF ByteAt
<1>5. ByteIs(c, Fail, n) = Fail
  BY <1>1 DEF ByteIs
<1>6. QED
  BY <1>1, <1>2, <1>3, <1>4, <1>5

(* Bytes that are skipped.                                                 *)
LEMMA AfterClip ==
  ASSUME NEW c, Len(c) \in Nat, NEW p \in Nat \ {0}, NEW n \in Nat
  PROVE  After(c, Clip(c, p), n) = Clip(c, p + n)
BY DEF After, Clip, Fail

(* What the recursion in VarintAt defines.                                 *)
IsValue(f, d, end, n) ==
  f = [k \in 0..n |-> IF k = 0 THEN 0 ELSE (d[end - k] % 128) + 128 * f[k - 1]]

(* The value of a varint of one or two bytes.                              *)
LEMMA ValueOf ==
  ASSUME NEW d, NEW end \in Nat, NEW n \in {1, 2}, NEW f, IsValue(f, d, end, n),
         \A k \in 1..n : d[end - k] \in Nat
  PROVE  f[n] = IF n = 1 THEN d[end - 1] % 128
                ELSE (d[end - 2] % 128) + 128 * (d[end - 1] % 128)
<1>1. \A k \in 0..n : f[k] = IF k = 0 THEN 0 ELSE (d[end - k] % 128) + 128 * f[k - 1]
  BY DEF IsValue
<1>2. f[0] = 0
  BY <1>1
<1>3. \A k \in 1..n : d[end - k] % 128 \in Nat
  OBVIOUS
<1>4. f[1] = d[end - 1] % 128
  <2>1. 1 \in 0..n /\ 1 # 0 /\ 1 - 1 = 0
    OBVIOUS
  <2>2. f[1] = (d[end - 1] % 128) + 128 * f[0]
    BY <1>1, <2>1
  <2>3. d[end - 1] % 128 \in Nat
    BY <1>3
  <2>4. QED
    BY <1>2, <2>2, <2>3
<1>5. ASSUME n = 2 PROVE f[2] = (d[end - 2] % 128) + 128 * (d[end - 1] % 128)
  <2>1. 2 \in 0..n /\ 2 # 0 /\ 2 - 1 = 1
    BY <1>5
  <2>2. f[2] = (d[end - 2] % 128) + 128 * f[1]
    BY <1>1, <2>1
  <2>3. QED
    BY <1>4, <2>2
<1>6. QED
  BY <1>4, <1>5

(* The recursion has a solution for one and two bytes.                     *)
LEMMA ValueExists ==
  ASSUME NEW d, NEW end \in Nat, NEW n \in {1, 2},
         \A k \in 1..n : d[end - k] \in Nat
  PROVE  \E f : IsValue(f, d, end, n)
<1> DEFINE last == d[end - 1] % 128
           f == [k \in 0..n |-> IF k = 0 THEN 0
                                ELSE IF k = 1 THEN last
                                ELSE (d[end - 2] % 128) + 128 * last]
<1>1. ASSUME NEW k \in 0..n
      PROVE  f[k] = IF k = 0 THEN 0 ELSE (d[end - k] % 128) + 128 * f[k - 1]
  <2>1. last \in Nat
    OBVIOUS
  <2>2. CASE k = 0
    BY <2>2
  <2>3. CASE k = 1
    <3>1. f[k] = last /\ f[k - 1] = 0
      BY <2>3
    <3>2. QED
      BY <2>1, <2>3, <3>1
  <2>4. CASE k = 2
    <3>1. f[k] = (d[end - 2] % 128) + 128 * last
      BY <2>4
    <3>2. k - 1 = 1 /\ k - 1 \in 0..n
      BY <2>4
    <3>3. f[k - 1] = last
      BY <3>2
    <3>4. QED
      BY <2>4, <3>1, <3>3
  <2>5. QED
    BY <2>2, <2>3, <2>4
<1>2. IsValue(f, d, end, n)
  BY <1>1 DEF IsValue
<1>3. QED
  BY <1>2

(* VarintAt by its recursion.                                              *)
LEMMA VarintValue ==
  ASSUME NEW d, NEW o, NEW n, AfterVarint(d, o) # Fail, AfterVarint(d, o) - o = n,
         \E f : IsValue(f, d, AfterVarint(d, o), n)
  PROVE  \E f : IsValue(f, d, AfterVarint(d, o), n) /\ VarintAt(d, o) = f[n]
<1> DEFINE f == CHOOSE e : IsValue(e, d, AfterVarint(d, o), n)
<1>1. IsValue(f, d, AfterVarint(d, o), n)
  OBVIOUS
<1>2. VarintAt(d, o) = f[n]
  BY DEF VarintAt, IsValue
<1>3. QED
  BY <1>1, <1>2

(* The largest member of a set of one.                                     *)
LEMMA MaxOfOne == \A x \in Nat : Max({x}) = x
BY DEF Max

(* Where a varint ends.                                                    *)
LEMMA VarintClipEnd ==
  ASSUME NEW c, NEW d, PrefixOf(c, d), NEW p, NEW v \in Short, At(d, p, Varint(v))
  PROVE  AfterVarint(c, Clip(c, p)) = Clip(c, p + Len(Varint(v)))
<1> DEFINE n == Len(Varint(v))
<1>1. /\ Len(c) \in Nat /\ Len(d) \in Nat /\ Len(c) <= Len(d)
      /\ \A k \in 1..Len(c) : c[k] = d[k] /\ c[k] \in Nat
      /\ p \in Nat \ {0}
  BY PrefixBytes DEF At
<1>2. n \in {1, 2} /\ p + n - 1 <= Len(d)
  BY VarintBytes DEF At
<1>3. VarintSize \in Nat /\ VarintSize >= 2
  BY SizesAssumption
<1>4. CASE p - 1 > Len(c)
  <2>1. Clip(c, p) = Fail /\ Clip(c, p + n) = Fail
    BY <1>1, <1>2, <1>4 DEF Clip
  <2>2. QED
    BY <2>1, AfterFail
<1>5. CASE ~(p - 1 > Len(c))
  <2>1. Clip(c, p) = p /\ p # Fail
    BY <1>1, <1>5 DEF Clip, Fail
  <2> HIDE DEF n
  <2>2. /\ n = 1 => d[p] < 128
        /\ n = 2 => d[p] >= 128 /\ d[p + 1] < 128
    <3>1. \A k \in 1..n : d[p + k - 1] = Varint(v)[k]
      BY DEF At, n
    <3>2. d[p] = Varint(v)[1]
      <4>1. 1 \in 1..n /\ p + 1 - 1 = p
        BY <1>1, <1>2
      <4>2. QED
        BY <3>1, <4>1
    <3>3. n = 2 => d[p + 1] = Varint(v)[2]
      <4>1. n = 2 => 2 \in 1..n /\ p + 2 - 1 = p + 1
        BY <1>1, <1>2
      <4>2. QED
        BY <3>1, <4>1
    <3>4. /\ n = 1 => Varint(v)[1] < 128
          /\ n = 2 => Varint(v)[1] >= 128 /\ Varint(v)[2] < 128
      <4>1. v \in Nat /\ v <= 16383 /\ v % 128 \in Nat
        <5>1. v \in Nat /\ v <= 16383
          BY OfShort
        <5>2. QED
          BY <5>1
      <4>2. v \div 128 < 128
        BY <4>1
      <4>3. QED
        BY <4>1, <4>2, VarintBytes DEF n
    <3>5. QED
      BY <1>1, <3>2, <3>3, <3>4
  <2>3. CASE p + n - 1 <= Len(c)
    <3>1. \A k \in p..(p + n - 1) : c[k] = d[k] /\ c[k] \in Nat
      BY <1>1, <1>2, <2>3
    <3>2. /\ n = 1 => c[p] < 128
          /\ n = 2 => c[p] >= 128 /\ c[p + 1] < 128
          /\ c[p] \in Nat
      BY <1>1, <1>2, <2>2, <3>1
    <3>3. p + n - 1 \in VarintEnds(c, p)
      <4>1. p + n - 1 \in p..(p + VarintSize - 1)
        BY <1>1, <1>2, <1>3
      <4>2. c[p + n - 1] < 128
        BY <1>1, <1>2, <3>2
      <4>3. \A k \in p..((p + n - 1) - 1) : c[k] >= 128
        BY <1>1, <1>2, <3>2
      <4>4. QED
        BY <2>3, <4>1, <4>2, <4>3 DEF VarintEnds
    <3>4. ASSUME NEW e \in VarintEnds(c, p) PROVE e = p + n - 1
      <4>1. e \in Int /\ p <= e /\ c[e] < 128 /\ \A k \in p..(e - 1) : c[k] >= 128
        BY <1>1, <1>3 DEF VarintEnds
      <4>2. ~(e > p + n - 1)
        <5> SUFFICES ASSUME e > p + n - 1 PROVE FALSE
          OBVIOUS
        <5>1. p + n - 1 \in p..(e - 1)
          BY <1>1, <1>2, <4>1
        <5>2. c[p + n - 1] >= 128
          BY <4>1, <5>1
        <5>3. QED
          BY <1>1, <1>2, <3>1, <3>2, <5>2
      <4>3. ~(e < p + n - 1)
        BY <1>1, <1>2, <3>2, <4>1
      <4>4. QED
        BY <1>1, <1>2, <4>1, <4>2, <4>3
    <3>5. VarintEnds(c, p) = {p + n - 1}
      BY <3>3, <3>4
    <3>6. AfterVarint(c, p) = p + n
      <4>1. Max({p + n - 1}) = p + n - 1
        BY <1>1, <1>2, MaxOfOne
      <4>2. AfterVarint(c, p) = (p + n - 1) + 1
        BY <2>1, <3>5, <4>1 DEF AfterVarint
      <4>3. QED
        BY <1>1, <1>2, <4>2
    <3>7. Clip(c, p + n) = p + n
      BY <1>1, <1>2, <2>3 DEF Clip
    <3>8. QED
      BY <2>1, <3>6, <3>7 DEF n
  <2>4. CASE ~(p + n - 1 <= Len(c))
    <3>1. ASSUME NEW e \in VarintEnds(c, p) PROVE FALSE
      <4>1. e \in Int /\ p <= e /\ e <= Len(c) /\ c[e] < 128
        BY <1>1, <1>3 DEF VarintEnds
      <4>2. n = 2 /\ e = p
        BY <1>1, <1>2, <2>4, <4>1
      <4>3. c[p] = d[p] /\ c[p] \in Nat
        BY <1>1, <4>1, <4>2
      <4>4. QED
        BY <2>2, <4>1, <4>2, <4>3
    <3>2. AfterVarint(c, p) = Fail
      BY <3>1 DEF AfterVarint
    <3>3. Clip(c, p + n) = Fail
      BY <1>1, <1>2, <2>4 DEF Clip
    <3>4. QED
      BY <2>1, <3>2, <3>3 DEF n
  <2>5. QED
    BY <2>3, <2>4
<1>6. QED
  BY <1>4, <1>5

(* What a varint says, when it is there.                                   *)
LEMMA VarintClipValue ==
  ASSUME NEW c, NEW d, PrefixOf(c, d), NEW p, NEW v \in Short, At(d, p, Varint(v))
  PROVE  VarintAt(c, Clip(c, p)) =
           IF p + Len(Varint(v)) - 1 <= Len(c) THEN v ELSE 0
<1> DEFINE n == Len(Varint(v))
<1>1. /\ Len(c) \in Nat /\ Len(d) \in Nat /\ Len(c) <= Len(d)
      /\ \A k \in 1..Len(c) : c[k] = d[k] /\ c[k] \in Nat
      /\ p \in Nat \ {0}
  BY PrefixBytes DEF At
<1>2. n \in {1, 2} /\ p + n - 1 <= Len(d)
  BY VarintBytes DEF At
<1>3. AfterVarint(c, Clip(c, p)) = Clip(c, p + n)
  BY VarintClipEnd
<1>4. \A k \in 1..n : d[p + k - 1] = Varint(v)[k]
  BY DEF At
<1>5. /\ n = 1 => v < 128 /\ Varint(v)[1] = v
      /\ n = 2 => Varint(v)[1] = 128 + (v % 128) /\ Varint(v)[2] = v \div 128
      /\ v \in Nat /\ v <= 16383
  <2>1. v \in Nat /\ v <= 16383
    BY OfShort
  <2> DEFINE r == v % 128
             q == v \div 128
  <2>2. /\ v < 128 => n = 1 /\ Varint(v)[1] = v
        /\ v >= 128 => n = 2 /\ Varint(v)[1] = 128 + r /\ Varint(v)[2] = q
    BY VarintBytes
  <2> HIDE DEF r, q, n
  <2>3. /\ n = 1 => v < 128 /\ Varint(v)[1] = v
        /\ n = 2 => Varint(v)[1] = 128 + r /\ Varint(v)[2] = q
    BY <2>1, <2>2
  <2>4. QED
    BY <2>1, <2>3 DEF r, q
<1> HIDE DEF n
<1>6. CASE ~(p + n - 1 <= Len(c))
  <2>1. AfterVarint(c, Clip(c, p)) = Fail
    BY <1>1, <1>2, <1>3, <1>6 DEF Clip
  <2>2. VarintAt(c, Clip(c, p)) = 0
    BY <2>1 DEF VarintAt
  <2>3. QED
    BY <1>6, <2>2 DEF n
<1>7. CASE p + n - 1 <= Len(c)
  <2> DEFINE end == p + n
  <2>1. Clip(c, p) = p /\ AfterVarint(c, p) = end /\ end # Fail /\ end - p = n /\ end \in Nat
    BY <1>1, <1>2, <1>3, <1>7 DEF Clip, Fail
  <2>2. ASSUME NEW k \in 1..n
        PROVE  c[end - k] = Varint(v)[n - k + 1] /\ c[end - k] \in Nat
    <3>1. n - k + 1 \in 1..n /\ end - k = p + (n - k + 1) - 1 /\ end - k \in 1..Len(c)
      BY <1>1, <1>2, <1>7
    <3>2. d[p + (n - k + 1) - 1] = Varint(v)[n - k + 1]
      BY <1>4, <3>1
    <3>3. QED
      BY <1>1, <3>1, <3>2
  <2> HIDE DEF end
  <2>3. \E f : IsValue(f, c, end, n)
    BY <1>2, <2>1, <2>2, ValueExists
  <2>4. PICK f : IsValue(f, c, end, n) /\ VarintAt(c, p) = f[n]
    BY <2>1, <2>3, VarintValue
  <2>5. f[n] = IF n = 1 THEN c[end - 1] % 128
               ELSE (c[end - 2] % 128) + 128 * (c[end - 1] % 128)
    <3>1. \A k \in 1..n : c[end - k] \in Nat
      BY <2>2
    <3>2. end \in Nat /\ n \in {1, 2} /\ IsValue(f, c, end, n)
      BY <1>2, <2>1, <2>4
    <3>3. QED
      BY <3>1, <3>2, ValueOf
  <2>6. CASE n = 1
    <3>1. 1 \in 1..n /\ n - 1 + 1 = 1
      BY <2>6
    <3>2. c[end - 1] = v
      BY <1>5, <2>2, <2>6, <3>1
    <3>3. v % 128 = v
      BY <1>5, <2>6
    <3>4. f[n] = v
      BY <2>5, <2>6, <3>2, <3>3
    <3>5. QED
      BY <1>7, <2>1, <2>4, <3>4 DEF n
  <2>7. CASE n = 2
    <3>1. c[end - 1] = v \div 128
      <4>1. 1 \in 1..n /\ n - 1 + 1 = 2
        BY <2>7
      <4>2. QED
        BY <1>5, <2>2, <2>7, <4>1
    <3>2. c[end - 2] = 128 + (v % 128)
      <4>1. 2 \in 1..n /\ n - 2 + 1 = 1
        BY <2>7
      <4>2. QED
        BY <1>5, <2>2, <2>7, <4>1
    <3>3. (v \div 128) % 128 = v \div 128
      BY <1>5
    <3>4. (128 + (v % 128)) % 128 = v % 128
      BY <1>5
    <3>5. (v % 128) + 128 * (v \div 128) = v
      BY <1>5
    <3>6. f[n] = (c[end - 2] % 128) + 128 * (c[end - 1] % 128)
      BY <2>5, <2>7
    <3>7. f[n] = v
      BY <3>1, <3>2, <3>3, <3>4, <3>5, <3>6
    <3>8. QED
      BY <1>7, <2>1, <2>4, <3>7 DEF n
  <2>8. QED
    BY <1>2, <2>6, <2>7
<1>8. QED
  BY <1>6, <1>7

(* A byte.                                                                 *)
LEMMA ByteClip ==
  ASSUME NEW c, NEW d, PrefixOf(c, d), NEW p, NEW v \in Nat, At(d, p, <<v>>)
  PROVE  /\ ByteAt(c, Clip(c, p)) = IF p <= Len(c) THEN v ELSE 0
         /\ ByteIs(c, Clip(c, p), v) = Clip(c, p + 1)
<1>1. /\ Len(c) \in Nat /\ \A k \in 1..Len(c) : c[k] = d[k]
      /\ p \in Nat \ {0}
  BY PrefixBytes DEF At
<1>2. d[p] = v
  <2>1. 1 \in 1..Len(<<v>>) /\ <<v>>[1] = v
    OBVIOUS
  <2>2. d[p + 1 - 1] = <<v>>[1]
    BY <2>1 DEF At
  <2>3. QED
    BY <1>1, <2>1, <2>2
<1>3. After(c, Clip(c, p), 1) = Clip(c, p + 1)
  BY <1>1, AfterClip
<1>4. CASE p <= Len(c)
  <2>1. Clip(c, p) = p /\ Clip(c, p + 1) = p + 1 /\ p + 1 # Fail /\ c[p] = v
    BY <1>1, <1>2, <1>4 DEF Clip, Fail
  <2>2. ByteAt(c, Clip(c, p)) = v
    BY <1>3, <2>1 DEF ByteAt
  <2>3. QED
    BY <1>3, <1>4, <2>2 DEF ByteIs
<1>5. CASE ~(p <= Len(c))
  <2>1. Clip(c, p + 1) = Fail
    BY <1>1, <1>5 DEF Clip
  <2>2. ByteAt(c, Clip(c, p)) = 0
    BY <1>3, <2>1 DEF ByteAt
  <2>3. QED
    BY <1>3, <1>5, <2>1, <2>2 DEF ByteIs
<1>6. QED
  BY <1>4, <1>5

(* A length and as many bytes.                                             *)
LEMMA BlobClip ==
  ASSUME NEW c, NEW d, PrefixOf(c, d), NEW p, NEW b \in ByteSeq, Len(b) \in Short,
         At(d, p, Blob(b))
  PROVE  /\ AfterBlob(c, Clip(c, p)) = Clip(c, p + Len(Blob(b)))
         /\ At(d, p, Varint(Len(b))) /\ At(d, p + Len(Varint(Len(b))), b)
<1> DEFINE n == Len(Varint(Len(b)))
           m == Len(b)
<1>1. Len(c) \in Nat /\ Len(d) \in Nat /\ p \in Nat \ {0}
  BY PrefixBytes DEF At
<1>2. Varint(m) \in ByteSeq /\ n \in {1, 2} /\ m \in Nat
  <2>1. m \in Nat
    BY LenProperties DEF ByteSeq
  <2>2. QED
    BY <2>1, VarintBytes
<1>3. /\ At(d, p, Varint(m)) /\ At(d, p + n, b)
      /\ Len(Blob(b)) = n + m
  BY <1>1, <1>2, AtParts DEF Blob
<1>4. /\ AfterVarint(c, Clip(c, p)) = Clip(c, p + n)
      /\ VarintAt(c, Clip(c, p)) = IF p + n - 1 <= Len(c) THEN m ELSE 0
  BY <1>3, VarintClipEnd, VarintClipValue
<1> HIDE DEF n, m
<1>5. CASE p + n - 1 <= Len(c)
  <2>1. After(c, Clip(c, p + n), m) = Clip(c, (p + n) + m)
    <3>1. p + n \in Nat \ {0}
      BY <1>1, <1>2
    <3>2. QED
      BY <1>1, <1>2, <3>1, AfterClip
  <2>2. (p + n) + m = p + (n + m)
    BY <1>1, <1>2
  <2>3. AfterBlob(c, Clip(c, p)) = Clip(c, p + (n + m))
    BY <1>4, <1>5, <2>1, <2>2 DEF AfterBlob
  <2>4. QED
    BY <1>3, <2>3 DEF n, m
<1>6. CASE ~(p + n - 1 <= Len(c))
  <2>1. Clip(c, p + n) = Fail /\ Clip(c, p + (n + m)) = Fail
    BY <1>1, <1>2, <1>6 DEF Clip
  <2>2. AfterBlob(c, Clip(c, p)) = Fail
    BY <1>4, <2>1, AfterFail DEF AfterBlob
  <2>3. QED
    BY <1>3, <2>1, <2>2 DEF n, m
<1>7. QED
  BY <1>5, <1>6

(* Bytes that are taken over.                                              *)
LEMMA BytesAt ==
  ASSUME NEW d \in ByteSeq, NEW p, NEW s, At(d, p, s)
  PROVE  Bytes(d, p, Len(s)) = s
<1> DEFINE n == Len(s)
<1>1. /\ p \in Nat \ {0} /\ Len(d) \in Nat /\ n \in Nat /\ p + n - 1 <= Len(d)
      /\ \A k \in 1..n : d[p + k - 1] = s[k]
      /\ \A k \in 1..Len(d) : d[k] \in Nat
      /\ s \in ByteSeq
  BY LenProperties, ElementOfSeq DEF At, ByteSeq
<1> DEFINE t == SubSeq(d, p, p + n - 1)
<1>2. Bytes(d, p, n) = t
  <2>1. After(d, p, n) # Fail
    BY <1>1 DEF After, Fail
  <2>2. QED
    BY <2>1 DEF Bytes
<1> HIDE DEF n
<1>3. /\ t \in ByteSeq /\ Len(t) = n
      /\ \A i \in 1..n : t[i] = d[p + i - 1]
  <2> DEFINE e == p + n - 1
  <2>1. e \in Int /\ \A i \in p..e : d[i] \in Nat
    BY <1>1
  <2>2. /\ SubSeq(d, p, e) \in ByteSeq
        /\ Len(SubSeq(d, p, e)) = IF p <= e THEN e - p + 1 ELSE 0
        /\ \A i \in 1..(e - p + 1) : SubSeq(d, p, e)[i] = d[p + i - 1]
    <3> HIDE DEF e
    <3>1. p \in Int
      BY <1>1
    <3>2. QED
      BY <2>1, <3>1, SubSeqProperties DEF ByteSeq
  <2>3. e - p + 1 = n /\ (p <= e <=> n # 0)
    BY <1>1
  <2>4. QED
    BY <1>1, <2>2, <2>3
<1> HIDE DEF t
<1>4. \A i \in 1..n : t[i] = s[i]
  BY <1>1, <1>3
<1>5. t = s
  <2>1. Len(t) = Len(s)
    BY <1>3 DEF n
  <2>2. \A i \in 1..Len(t) : t[i] = s[i]
    BY <1>3, <1>4
  <2>3. QED
    BY <1>1, <1>3, <2>1, <2>2, SeqEqual DEF ByteSeq
<1>6. QED
  BY <1>2, <1>5 DEF n

(* A hash that is taken over.                                              *)
LEMMA HashAt ==
  ASSUME NEW d \in ByteSeq, NEW p, NEW x \in Nat, At(d, p, H(x))
  PROVE  Hash(d, p) = H(x)
BY HashBytes, BytesAt DEF Hash

-----------------------------------------------------------------------------
(***************************************************************************)
(* What p2pool writes, part by part.                                       *)
(***************************************************************************)
(* The positions of the parts of a sequence.                               *)
Laid(q, d, p, s) ==
  /\ q[1] = p
  /\ \A i \in 1..Len(s) : /\ At(d, q[i], s[i]) /\ q[i] \in Nat \ {0}
                          /\ q[i + 1] = q[i] + Len(s[i])
  /\ q[Len(s) + 1] = p + Len(FlattenSeq(s))

(* Parts that follow one another have positions.                           *)
LEMMA Layout ==
  ASSUME NEW s \in Seq(ByteSeq), NEW d, Len(d) \in Nat, NEW p, At(d, p, FlattenSeq(s))
  PROVE  \E q : Laid(q, d, p, s)
<1>1. PICK F : Joins(F, s)
  BY Flattened
<1> DEFINE n == Len(s)
           q == [i \in 1..(n + 1) |-> p + Len(F[i - 1])]
<1>2. /\ \A i \in 0..n : At(d, p, F[i]) /\ Len(F[i]) \in Nat
      /\ \A i \in 1..n : /\ At(d, p + Len(F[i - 1]), s[i])
                         /\ Len(F[i]) = Len(F[i - 1]) + Len(s[i])
      /\ n \in Nat /\ p \in Nat \ {0}
  <2>1. n \in Nat /\ p \in Nat \ {0}
    BY LenProperties DEF At
  <2>2. QED
    BY <1>1, <2>1, AtJoins
<1>3. F[0] = << >> /\ FlattenSeq(s) = F[n]
  BY <1>1 DEF Joins
<1> HIDE DEF n
<1>4. q[1] = p
  <2>1. 1 \in 1..(n + 1) /\ 1 - 1 = 0
    BY <1>2
  <2>2. q[1] = p + Len(F[0])
    BY <2>1
  <2>3. Len(F[0]) = 0
    BY <1>3, EmptySeq
  <2>4. QED
    BY <1>2, <2>2, <2>3
<1>5. ASSUME NEW i \in 1..n
      PROVE  At(d, q[i], s[i]) /\ q[i] \in Nat \ {0} /\ q[i + 1] = q[i] + Len(s[i])
  <2> DEFINE a == Len(F[i - 1])
             b == Len(s[i])
  <2>1. i \in 1..(n + 1) /\ i + 1 \in 1..(n + 1) /\ (i + 1) - 1 = i /\ i - 1 \in 0..n
    BY <1>2
  <2>2. At(d, p + a, s[i]) /\ Len(F[i]) = a + b /\ a \in Nat
    BY <1>2, <2>1
  <2>3. q[i] = p + a /\ q[i + 1] = p + Len(F[i])
    BY <2>1
  <2>4. b \in Nat
    <3>1. s[i] \in ByteSeq
      BY ElementOfSeq DEF n
    <3>2. QED
      BY <3>1, LenProperties DEF ByteSeq
  <2> HIDE DEF a, b, q
  <2>5. q[i + 1] = q[i] + b /\ q[i] \in Nat \ {0}
    BY <1>2, <2>2, <2>3, <2>4
  <2>6. QED
    BY <2>2, <2>3, <2>5 DEF b
<1>6. q[n + 1] = p + Len(FlattenSeq(s))
  <2>1. n + 1 \in 1..(n + 1) /\ (n + 1) - 1 = n
    BY <1>2
  <2>2. q[n + 1] = p + Len(F[n])
    BY <2>1
  <2>3. QED
    BY <1>3, <2>2
<1>7. Laid(q, d, p, s)
  <2> HIDE DEF q
  <2>1. QED
    BY <1>4, <1>5, <1>6 DEF Laid, n
<1>8. QED
  BY <1>7

(* Concatenated bytes are bytes.                                           *)
LEMMA FlattenBytes ==
  ASSUME NEW s \in Seq(ByteSeq)
  PROVE  FlattenSeq(s) \in ByteSeq
<1>1. PICK F : Joins(F, s)
  BY Flattened
<1>2. Len(s) \in 0..Len(s)
  BY LenProperties
<1>3. QED
  BY <1>1, <1>2 DEF Joins

(* Sequences of parts, given by their members.                             *)
LEMMA PartsOf ==
  ASSUME NEW n \in Nat, NEW f, f = [k \in 1..n |-> f[k]], \A k \in 1..n : f[k] \in ByteSeq
  PROVE  f \in Seq(ByteSeq) /\ Len(f) = n
<1>1. f \in [1..n -> ByteSeq]
  OBVIOUS
<1>2. QED
  BY <1>1

(* The named hashes of a list.                                             *)
HashSeq(names) == [i \in DOMAIN names |-> H(names[i])]

(* A list of hashes.                                                       *)
LEMMA HashSeqBytes ==
  ASSUME NEW x \in Seq(Nat)
  PROVE  /\ HashSeq(x) \in Seq(ByteSeq) /\ Len(HashSeq(x)) = Len(x)
         /\ \A i \in 1..Len(x) : HashSeq(x)[i] = H(x[i]) /\ x[i] \in Nat
         /\ Hs(x) = FlattenSeq(HashSeq(x)) /\ Hs(x) \in ByteSeq
<1> DEFINE f == HashSeq(x)
           n == Len(x)
<1>1. n \in Nat /\ DOMAIN x = 1..n /\ \A i \in 1..n : x[i] \in Nat
  BY LenProperties, ElementOfSeq
<1>2. f = [i \in 1..n |-> f[i]] /\ \A i \in 1..n : f[i] = H(x[i])
  BY <1>1 DEF HashSeq
<1>3. \A i \in 1..n : f[i] \in ByteSeq
  BY <1>1, <1>2, HashBytes
<1>4. Hs(x) = FlattenSeq(f)
  BY DEF Hs, HashSeq
<1> HIDE DEF f, n
<1>5. f \in Seq(ByteSeq) /\ Len(f) = n
  BY <1>1, <1>2, <1>3, PartsOf
<1>6. FlattenSeq(f) \in ByteSeq
  BY <1>5, FlattenBytes
<1>7. QED
  BY <1>1, <1>2, <1>4, <1>5, <1>6 DEF f, n

(* Where the hashes of a list stand.                                       *)
LEMMA HashesLaid ==
  ASSUME NEW x \in Seq(Nat), NEW d, Len(d) \in Nat, NEW p, At(d, p, Hs(x))
  PROVE  /\ \A i \in 1..Len(x) : At(d, p + (i - 1) * HashSize, H(x[i]))
         /\ Len(Hs(x)) = Len(x) * HashSize
<1> DEFINE n == Len(x)
           s == HashSeq(x)
<1>1. /\ s \in Seq(ByteSeq) /\ Len(s) = n /\ n \in Nat
      /\ \A i \in 1..n : s[i] = H(x[i]) /\ Len(s[i]) = HashSize
      /\ At(d, p, FlattenSeq(s)) /\ Hs(x) = FlattenSeq(s)
  BY HashSeqBytes, HashBytes, LenProperties
<1> HIDE DEF n, s
<1>2. PICK q : Laid(q, d, p, s)
  BY <1>1, Layout
<1>3. /\ q[1] = p /\ p \in Nat \ {0} /\ HashSize \in Nat
      /\ \A i \in 1..n : At(d, q[i], H(x[i])) /\ q[i + 1] = q[i] + HashSize
      /\ q[n + 1] = p + Len(Hs(x))
  <2>1. /\ q[1] = p
        /\ \A i \in 1..Len(s) : At(d, q[i], s[i]) /\ q[i + 1] = q[i] + Len(s[i])
        /\ q[Len(s) + 1] = p + Len(FlattenSeq(s))
    BY <1>2 DEF Laid
  <2>2. p \in Nat \ {0} /\ HashSize \in Nat
    BY <1>1, SizesAssumption DEF At
  <2>3. QED
    BY <1>1, <2>1, <2>2
<1> DEFINE G == {k \in 0..n : q[k + 1] = p + k * HashSize}
<1>4. 0 \in G
  BY <1>1, <1>3
<1>5. \A k \in 0..(n - 1) : k \in G => k + 1 \in G
  <2> SUFFICES ASSUME NEW k \in 0..(n - 1), k \in G PROVE k + 1 \in G
    OBVIOUS
  <2>1. k + 1 \in 1..n /\ k + 1 \in 0..n
    BY <1>1
  <2>2. q[(k + 1) + 1] = q[k + 1] + HashSize
    BY <1>3, <2>1
  <2>3. q[k + 1] = p + k * HashSize
    OBVIOUS
  <2>4. (p + k * HashSize) + HashSize = p + (k + 1) * HashSize
    BY <1>3
  <2>5. QED
    BY <2>1, <2>2, <2>3, <2>4
<1>6. \A k \in 0..n : k \in G
  <2> HIDE DEF G
  <2>1. QED
    BY <1>1, <1>4, <1>5, IntervalInduction
<1>7. ASSUME NEW i \in 1..n PROVE At(d, p + (i - 1) * HashSize, H(x[i]))
  <2>1. i - 1 \in 0..n /\ (i - 1) + 1 = i
    BY <1>1
  <2>2. q[(i - 1) + 1] = p + (i - 1) * HashSize
    BY <1>6, <2>1
  <2>3. QED
    BY <1>3, <2>1, <2>2
<1>8. Len(Hs(x)) = n * HashSize
  <2>1. PICK z \in Nat : z = n * HashSize
    BY <1>1, <1>3
  <2>2. q[n + 1] = p + z
    BY <1>1, <1>6, <2>1
  <2>3. Len(Hs(x)) \in Nat
    BY HashSeqBytes, LenProperties DEF ByteSeq
  <2>4. QED
    BY <1>3, <2>1, <2>2, <2>3
<1>9. QED
  BY <1>7, <1>8 DEF n

(* A list of hashes is read back.                                          *)
LEMMA HashesAt ==
  ASSUME NEW x \in Seq(Nat), NEW d \in ByteSeq, NEW p, At(d, p, Hs(x))
  PROVE  Hashes(d, p, Len(x)) = HashSeq(x)
<1>1. Len(d) \in Nat /\ DOMAIN x = 1..Len(x)
  BY LenProperties DEF ByteSeq
<1>2. \A i \in 1..Len(x) : At(d, p + (i - 1) * HashSize, H(x[i])) /\ x[i] \in Nat
  BY <1>1, HashesLaid, ElementOfSeq
<1>3. \A i \in 1..Len(x) : Hash(d, p + (i - 1) * HashSize) = H(x[i])
  BY <1>2, HashAt
<1>4. QED
  BY <1>1, <1>3 DEF Hashes, HashSeq

-----------------------------------------------------------------------------
(***************************************************************************)
(* The readers, on the parts of an entry.                                  *)
(***************************************************************************)
(* The part x of d, from a to before b.                                    *)
Piece(d, a, b, x) ==
  /\ At(d, a, x) /\ b = a + Len(x)
  /\ a \in Nat \ {0} /\ b \in Nat \ {0}

(* What is at a place is a part.                                           *)
LEMMA PieceFrom ==
  ASSUME NEW d, NEW a, NEW x, At(d, a, x)
  PROVE  Piece(d, a, a + Len(x), x)
<1>1. Len(x) \in Nat /\ a \in Nat \ {0}
  BY LenProperties DEF At, ByteSeq
<1>2. a + Len(x) \in Nat \ {0}
  BY <1>1
<1>3. QED
  BY <1>1, <1>2 DEF Piece

(* A part by its number.                                                   *)
LEMMA PieceAt ==
  ASSUME NEW q, NEW d, NEW p, NEW s, Laid(q, d, p, s),
         NEW i \in 1..Len(s), NEW j, j = i + 1, NEW x, s[i] = x
  PROVE  Piece(d, q[i], q[j], x)
<1>1. At(d, q[i], x) /\ q[j] = q[i] + Len(x)
  BY DEF Laid
<1>2. QED
  BY <1>1, PieceFrom

(* The bytes of a part are skipped.                                        *)
LEMMA SkipPart ==
  ASSUME NEW c, NEW d, PrefixOf(c, d), NEW a, NEW b, NEW x, Piece(d, a, b, x)
  PROVE  After(c, Clip(c, a), Len(x)) = Clip(c, b)
<1>1. Len(c) \in Nat /\ Len(x) \in Nat /\ a \in Nat \ {0} /\ b = a + Len(x)
  BY PrefixBytes, LenProperties DEF Piece, At, ByteSeq
<1>2. QED
  BY <1>1, AfterClip

(* A byte and a hash are skipped.                                          *)
LEMMA SkipByteHash ==
  ASSUME NEW c, NEW d, PrefixOf(c, d), NEW a, NEW b, NEW e, NEW v, NEW n \in Nat,
         Piece(d, a, b, <<v>>), Piece(d, b, e, H(n))
  PROVE  After(c, Clip(c, a), 1 + HashSize) = Clip(c, e)
<1>1. /\ Len(c) \in Nat /\ HashSize \in Nat /\ a \in Nat \ {0}
      /\ Len(<<v>>) = 1 /\ Len(H(n)) = HashSize
  BY PrefixBytes, HashBytes, SizesAssumption DEF Piece
<1>2. b = a + 1 /\ e = b + HashSize
  BY <1>1 DEF Piece
<1>3. e = a + (1 + HashSize) /\ 1 + HashSize \in Nat
  BY <1>1, <1>2
<1>4. QED
  BY <1>1, <1>3, AfterClip

(* A part of as many bytes as a number says that has been read before it.  *)
LEMMA CountPart ==
  ASSUME NEW c, NEW d, PrefixOf(c, d), NEW a, NEW b, NEW x, Piece(d, a, b, x),
         NEW m, Clip(c, a) # Fail => m = Len(x)
  PROVE  After(c, Clip(c, a), m) = Clip(c, b)
<1>1. CASE Clip(c, a) # Fail
  BY <1>1, SkipPart
<1>2. CASE Clip(c, a) = Fail
  <2>1. After(c, Clip(c, a), Len(x)) = Fail /\ After(c, Clip(c, a), m) = Fail
    BY <1>2, AfterFail
  <2>2. QED
    BY <2>1, SkipPart
<1>3. QED
  BY <1>1, <1>2

(* What comes after a part is not there unless the part is.                *)
LEMMA ClipPart ==
  ASSUME NEW c, NEW d, PrefixOf(c, d), NEW a, NEW b, NEW x, Piece(d, a, b, x)
  PROVE  /\ Clip(c, a) \in Nat /\ Clip(c, b) \in Nat
         /\ Clip(c, a) = Fail => Clip(c, b) = Fail
         /\ Clip(c, b) # Fail <=> b - 1 <= Len(c)
<1>1. Len(c) \in Nat /\ Len(x) \in Nat /\ a \in Nat \ {0} /\ b \in Nat \ {0} /\ b = a + Len(x)
  BY PrefixBytes, LenProperties DEF Piece, At, ByteSeq
<1>2. QED
  BY <1>1 DEF Clip, Fail

(* A varint.                                                               *)
LEMMA VarintPart ==
  ASSUME NEW c, NEW d, PrefixOf(c, d), NEW a, NEW b, NEW v \in Short, Piece(d, a, b, Varint(v))
  PROVE  /\ AfterVarint(c, Clip(c, a)) = Clip(c, b)
         /\ VarintAt(c, Clip(c, a)) = IF Clip(c, b) # Fail THEN v ELSE 0
         /\ VarintIs(c, Clip(c, a), v) = Clip(c, b)
<1>1. At(d, a, Varint(v)) /\ b = a + Len(Varint(v))
  BY DEF Piece
<1>2. AfterVarint(c, Clip(c, a)) = Clip(c, b)
  BY <1>1, VarintClipEnd
<1>3. VarintAt(c, Clip(c, a)) = IF b - 1 <= Len(c) THEN v ELSE 0
  <2>1. VarintAt(c, Clip(c, a)) = IF a + Len(Varint(v)) - 1 <= Len(c) THEN v ELSE 0
    BY <1>1, VarintClipValue
  <2>2. Len(Varint(v)) \in Nat /\ a \in Nat
    BY VarintBytes DEF Piece
  <2>3. a + Len(Varint(v)) - 1 = b - 1
    BY <1>1, <2>2
  <2>4. QED
    BY <2>1, <2>3
<1>4. Clip(c, b) # Fail <=> b - 1 <= Len(c)
  BY ClipPart
<1>5. VarintIs(c, Clip(c, a), v) = Clip(c, b)
  BY <1>2, <1>3, <1>4 DEF VarintIs
<1>6. QED
  BY <1>2, <1>3, <1>4, <1>5

(* A byte.                                                                 *)
LEMMA BytePart ==
  ASSUME NEW c, NEW d, PrefixOf(c, d), NEW a, NEW b, NEW v \in Nat, Piece(d, a, b, <<v>>)
  PROVE  /\ After(c, Clip(c, a), 1) = Clip(c, b)
         /\ ByteIs(c, Clip(c, a), v) = Clip(c, b)
         /\ ByteAt(c, Clip(c, a)) = IF Clip(c, b) # Fail THEN v ELSE 0
<1>1. At(d, a, <<v>>) /\ b = a + 1 /\ a \in Nat \ {0} /\ Len(<<v>>) = 1
  BY DEF Piece
<1>2. Clip(c, b) # Fail <=> b - 1 <= Len(c)
  BY ClipPart
<1>3. b - 1 = a
  BY <1>1
<1>4. After(c, Clip(c, a), 1) = Clip(c, b)
  <2>1. Len(c) \in Nat
    BY PrefixBytes
  <2>2. QED
    BY <1>1, <2>1, AfterClip
<1>5. /\ ByteAt(c, Clip(c, a)) = IF a <= Len(c) THEN v ELSE 0
      /\ ByteIs(c, Clip(c, a), v) = Clip(c, a + 1)
  BY <1>1, ByteClip
<1>6. QED
  BY <1>1, <1>2, <1>3, <1>4, <1>5

(* The byte that is read.                                                  *)
LEMMA ByteValue ==
  ASSUME NEW c, NEW d, PrefixOf(c, d), NEW a, NEW b, NEW v \in Nat, Piece(d, a, b, <<v>>)
  PROVE  ByteAt(c, Clip(c, a)) = IF Clip(c, b) # Fail THEN v ELSE 0
BY BytePart

(* A length and as many bytes.                                             *)
LEMMA BlobPart ==
  ASSUME NEW c, NEW d, PrefixOf(c, d), NEW a, NEW b, NEW x \in ByteSeq, Len(x) \in Short,
         Piece(d, a, b, Blob(x))
  PROVE  AfterBlob(c, Clip(c, a)) = Clip(c, b)
BY BlobClip DEF Piece

(* A hash.                                                                 *)
LEMMA HashPart ==
  ASSUME NEW c, NEW d, PrefixOf(c, d), NEW a, NEW b, NEW n \in Nat, Piece(d, a, b, H(n))
  PROVE  /\ After(c, Clip(c, a), HashSize) = Clip(c, b)
         /\ Hash(d, a) = H(n)
<1>1. Len(H(n)) = HashSize
  BY HashBytes
<1>2. At(d, a, H(n)) /\ d \in ByteSeq
  BY PrefixBytes DEF Piece
<1>3. QED
  BY <1>1, <1>2, SkipPart, HashAt

(* A list of hashes.                                                       *)
LEMMA HashesPart ==
  ASSUME NEW c, NEW d, PrefixOf(c, d), NEW a, NEW b, NEW x \in Seq(Nat), Piece(d, a, b, Hs(x))
  PROVE  /\ Len(Hs(x)) = Len(x) * HashSize
         /\ Hashes(d, a, Len(x)) = HashSeq(x)
<1>1. At(d, a, Hs(x)) /\ d \in ByteSeq /\ Len(d) \in Nat
  BY PrefixBytes DEF Piece
<1>2. QED
  BY <1>1, HashesLaid, HashesAt

-----------------------------------------------------------------------------
(***************************************************************************)
(* The readers of the parts that repeat.                                   *)
(***************************************************************************)
(* A Carrot output.                                                        *)
CarrotParts(r) ==
  <<Varint(r), <<4>>, H(9), <<4>>, Fixed(83, 4), Fixed(7, TagSize + AnchorSize)>>

(* A Carrot output is its parts, one after another.                        *)
LEMMA CarrotPartsType ==
  ASSUME NEW r \in Short
  PROVE  /\ CarrotParts(r) \in Seq(ByteSeq) /\ Len(CarrotParts(r)) = 6
         /\ CarrotBytes(r) = FlattenSeq(CarrotParts(r)) /\ CarrotBytes(r) \in ByteSeq
<1>1. /\ Varint(r) \in ByteSeq /\ H(9) \in ByteSeq /\ Fixed(83, 4) \in ByteSeq
      /\ Fixed(7, TagSize + AnchorSize) \in ByteSeq
  <2>1. TagSize + AnchorSize \in Nat
    BY SizesAssumption
  <2>2. QED
    BY <2>1, VarintBytes, HashBytes, FixedBytes
<1>2. <<4>> \in ByteSeq
  BY DEF ByteSeq
<1>3. CarrotParts(r) \in Seq(ByteSeq) /\ Len(CarrotParts(r)) = 6
  BY <1>1, <1>2 DEF CarrotParts
<1>4. CarrotBytes(r) = FlattenSeq(CarrotParts(r))
  BY DEF CarrotBytes, CarrotParts
<1>5. QED
  BY <1>3, <1>4, FlattenBytes

(* A Carrot output is read.                                                *)
LEMMA CarrotClip ==
  ASSUME NEW c, NEW d, PrefixOf(c, d), NEW a, NEW b, NEW r \in Short,
         Piece(d, a, b, CarrotBytes(r))
  PROVE  CarrotOutput(c, Clip(c, a)) = Clip(c, b)
<1> DEFINE s == CarrotParts(r)
           t == TagSize + AnchorSize
<1>1. s \in Seq(ByteSeq) /\ Len(s) = 6 /\ FlattenSeq(s) = CarrotBytes(r)
  BY CarrotPartsType
<1>2. /\ s[1] = Varint(r) /\ s[2] = <<4>> /\ s[3] = H(9) /\ s[4] = <<4>>
      /\ s[5] = Fixed(83, 4) /\ s[6] = Fixed(7, t)
  BY DEF CarrotParts
<1>3. t \in Nat
  BY SizesAssumption
<1> HIDE DEF s, t
<1>4. PICK q : Laid(q, d, a, s)
  BY <1>1, PrefixBytes, Layout DEF Piece
<1>5. q[1] = a /\ q[7] = b
  BY <1>1, <1>4 DEF Laid, Piece
<1>6. /\ Piece(d, q[1], q[2], Varint(r)) /\ Piece(d, q[2], q[3], <<4>>)
      /\ Piece(d, q[3], q[4], H(9)) /\ Piece(d, q[4], q[5], <<4>>)
      /\ Piece(d, q[5], q[6], Fixed(83, 4)) /\ Piece(d, q[6], q[7], Fixed(7, t))
  BY <1>1, <1>2, <1>4, PieceAt
<1>7. AfterVarint(c, Clip(c, q[1])) = Clip(c, q[2])
  BY <1>6, VarintPart
<1>8. After(c, Clip(c, q[2]), 1 + HashSize) = Clip(c, q[4])
  <2>1. 9 \in Nat
    OBVIOUS
  <2>2. QED
    BY <1>6, <2>1, SkipByteHash
<1>9. /\ After(c, Clip(c, q[4]), 1) = Clip(c, q[5])
      /\ Clip(c, q[5]) # Fail => ByteAt(c, Clip(c, q[4])) = 4
  BY <1>6, BytePart
<1>10. After(c, Clip(c, q[5]), ByteAt(c, Clip(c, q[4]))) = Clip(c, q[6])
  <2>1. Len(Fixed(83, 4)) = 4
    <3>1. \A n, m \in Nat : Len(Fixed(n, m)) = m
      BY FixedBytes
    <3>2. 83 \in Nat /\ 4 \in Nat
      OBVIOUS
    <3>3. QED
      BY <3>1, <3>2, Zenon
  <2>2. Clip(c, q[5]) # Fail => ByteAt(c, Clip(c, q[4])) = Len(Fixed(83, 4))
    BY <1>9, <2>1
  <2>3. QED
    BY <1>6, <2>2, CountPart
<1>11. After(c, Clip(c, q[6]), t) = Clip(c, q[7])
  <2>1. Len(Fixed(7, t)) = t
    BY <1>3, FixedBytes
  <2>2. QED
    BY <1>6, <2>1, SkipPart
<1>12. QED
  BY <1>5, <1>7, <1>8, <1>9, <1>10, <1>11 DEF CarrotOutput, t

(* Two functions that go the same way are the same.                        *)
LEMMA SamePositions ==
  ASSUME NEW n \in Nat, NEW f, NEW t, f[0] = t[0],
         \A i \in 1..n : f[i - 1] = t[i - 1] => f[i] = t[i]
  PROVE  \A i \in 0..n : f[i] = t[i]
<1> DEFINE G == {i \in 0..n : f[i] = t[i]}
<1>1. 0 \in G
  OBVIOUS
<1>2. \A i \in 0..(n - 1) : i \in G => i + 1 \in G
  <2> SUFFICES ASSUME NEW i \in 0..(n - 1), i \in G PROVE i + 1 \in G
    OBVIOUS
  <2>1. i + 1 \in 1..n /\ (i + 1) - 1 = i /\ i + 1 \in 0..n
    OBVIOUS
  <2>2. f[i + 1] = t[i + 1]
    BY <2>1
  <2>3. QED
    BY <2>1, <2>2
<1>3. \A i \in 0..n : i \in G
  <2> HIDE DEF G
  <2>1. QED
    BY <1>1, <1>2, IntervalInduction
<1>4. QED
  BY <1>3

(* The positions of outputs.                                               *)
IsCarrotOutputs(f, c, o, n) ==
  f = [i \in 0..n |-> IF i = 0 THEN o ELSE CarrotOutput(c, f[i - 1])]

(* Where the reader is after each of the outputs.                          *)
LEMMA CarrotOutputPositions ==
  ASSUME NEW c, NEW o, NEW n \in Nat, NEW t, t[0] = o,
         \A i \in 1..n : CarrotOutput(c, t[i - 1]) = t[i]
  PROVE  \A i \in 0..n : CarrotOutputs(c, o, n)[i] = t[i]
<1> DEFINE f == CHOOSE e : IsCarrotOutputs(e, c, o, n)
           u == [i \in 0..n |-> t[i]]
<1>1. CarrotOutputs(c, o, n) = f
  BY DEF CarrotOutputs, Positions, IsCarrotOutputs
<1>2. IsCarrotOutputs(u, c, o, n)
  <2>1. ASSUME NEW i \in 0..n
        PROVE  u[i] = IF i = 0 THEN o ELSE CarrotOutput(c, u[i - 1])
    <3>1. CASE i = 0
      BY <3>1
    <3>2. CASE i # 0
      <4>1. i \in 1..n /\ i - 1 \in 0..n
        BY <3>2
      <4>2. QED
        BY <3>2, <4>1
    <3>3. QED
      BY <3>1, <3>2
  <2>2. QED
    BY <2>1 DEF IsCarrotOutputs
<1>3. IsCarrotOutputs(f, c, o, n)
  BY <1>2
<1> HIDE DEF f
<1>4. f[0] = t[0] /\ \A i \in 1..n : f[i - 1] = t[i - 1] => f[i] = t[i]
  BY <1>3 DEF IsCarrotOutputs
<1>5. QED
  BY <1>1, <1>4, SamePositions

(* The outputs of a list, as bytes.                                        *)
CarrotSeq(x) == [i \in DOMAIN x |-> CarrotBytes(x[i])]

(* They are sequences of bytes, one for each output.                       *)
LEMMA CarrotSeqBytes ==
  ASSUME NEW x \in Seq(Short)
  PROVE  /\ CarrotSeq(x) \in Seq(ByteSeq) /\ Len(CarrotSeq(x)) = Len(x)
         /\ \A i \in 1..Len(x) : CarrotSeq(x)[i] = CarrotBytes(x[i]) /\ x[i] \in Short
<1> DEFINE f == CarrotSeq(x)
           n == Len(x)
<1>1. n \in Nat /\ DOMAIN x = 1..n /\ \A i \in 1..n : x[i] \in Short
  BY LenProperties, ElementOfSeq
<1>2. f = [i \in 1..n |-> f[i]] /\ \A i \in 1..n : f[i] = CarrotBytes(x[i])
  BY <1>1 DEF CarrotSeq
<1>3. \A i \in 1..n : f[i] \in ByteSeq
  BY <1>1, <1>2, CarrotPartsType
<1> HIDE DEF f, n
<1>4. f \in Seq(ByteSeq) /\ Len(f) = n
  BY <1>1, <1>2, <1>3, PartsOf
<1>5. QED
  BY <1>1, <1>2, <1>4 DEF f, n

(* All Carrot outputs are read.                                            *)
LEMMA CarrotsClip ==
  ASSUME NEW c, NEW d, PrefixOf(c, d), NEW a, NEW b, NEW x \in Seq(Short),
         Piece(d, a, b, FlattenSeq(CarrotSeq(x)))
  PROVE  CarrotOutputs(c, Clip(c, a), Len(x))[Len(x)] = Clip(c, b)
<1> DEFINE n == Len(x)
           s == CarrotSeq(x)
<1>1. /\ s \in Seq(ByteSeq) /\ Len(s) = n /\ n \in Nat /\ Len(d) \in Nat
      /\ \A i \in 1..n : s[i] = CarrotBytes(x[i]) /\ x[i] \in Short
  BY CarrotSeqBytes, LenProperties, PrefixBytes
<1>2. At(d, a, FlattenSeq(s)) /\ b = a + Len(FlattenSeq(s))
  BY DEF Piece
<1> HIDE DEF n, s
<1>3. PICK q : Laid(q, d, a, s)
  BY <1>1, <1>2, Layout
<1>4. q[1] = a /\ q[n + 1] = b
  BY <1>1, <1>2, <1>3 DEF Laid
<1> DEFINE t == [i \in 0..n |-> Clip(c, q[i + 1])]
<1>5. t[0] = Clip(c, a) /\ t[n] = Clip(c, b)
  BY <1>1, <1>4
<1>6. ASSUME NEW i \in 1..n PROVE CarrotOutput(c, t[i - 1]) = t[i]
  <2>1. i - 1 \in 0..n /\ i \in 0..n /\ (i - 1) + 1 = i
    BY <1>1
  <2>2. t[i - 1] = Clip(c, q[i]) /\ t[i] = Clip(c, q[i + 1])
    BY <2>1
  <2>3. Piece(d, q[i], q[i + 1], CarrotBytes(x[i]))
    BY <1>1, <1>3, PieceAt
  <2>4. CarrotOutput(c, Clip(c, q[i])) = Clip(c, q[i + 1])
    BY <1>1, <2>3, CarrotClip
  <2>5. QED
    BY <2>2, <2>4
<1> HIDE DEF t
<1>7. CarrotOutputs(c, Clip(c, a), n)[n] = t[n]
  <2>1. n \in 0..n
    BY <1>1
  <2>2. QED
    BY <1>1, <1>5, <1>6, <2>1, CarrotOutputPositions
<1>8. QED
  BY <1>5, <1>7 DEF n

(* The parts of a sequence that is the concatenation of two.               *)
LEMMA TwoPieces ==
  ASSUME NEW d \in ByteSeq, NEW a, NEW e, NEW x \in ByteSeq, NEW y \in ByteSeq,
         Piece(d, a, e, x \o y)
  PROVE  \E m : Piece(d, a, m, x) /\ Piece(d, m, e, y)
<1>1. Len(d) \in Nat /\ Len(x) \in Nat /\ Len(y) \in Nat /\ a \in Nat \ {0}
  BY LenProperties DEF ByteSeq, Piece
<1>2. At(d, a, x) /\ At(d, a + Len(x), y) /\ e = a + (Len(x) + Len(y))
  <2>1. At(d, a, x \o y) /\ e = a + Len(x \o y)
    BY DEF Piece
  <2>2. QED
    BY <1>1, <2>1, AtParts
<1>3. Piece(d, a, a + Len(x), x) /\ Piece(d, a + Len(x), (a + Len(x)) + Len(y), y)
  BY <1>2, PieceFrom
<1>4. (a + Len(x)) + Len(y) = e
  BY <1>1, <1>2
<1>5. QED
  BY <1>3, <1>4

(* An output of a protocol transaction.                                    *)
ProtocolParts == <<Varint(200), <<2>>, H(5)>>

(* An output of a protocol transaction is its parts.                       *)
LEMMA ProtocolPartsType ==
  /\ ProtocolParts \in Seq(ByteSeq) /\ Len(ProtocolParts) = 3
  /\ ProtocolOutputBytes = FlattenSeq(ProtocolParts) /\ ProtocolOutputBytes \in ByteSeq
<1>1. Varint(200) \in ByteSeq /\ H(5) \in ByteSeq
  <2>1. 200 \in Short
    BY InShort
  <2>2. 5 \in Nat
    OBVIOUS
  <2>3. QED
    BY <2>1, <2>2, VarintBytes, HashBytes
<1>2. <<2>> \in ByteSeq
  BY DEF ByteSeq
<1>3. ProtocolParts \in Seq(ByteSeq) /\ Len(ProtocolParts) = 3
  BY <1>1, <1>2 DEF ProtocolParts
<1>4. ProtocolOutputBytes = FlattenSeq(ProtocolParts)
  BY DEF ProtocolOutputBytes, ProtocolParts
<1>5. QED
  BY <1>3, <1>4, FlattenBytes

(* An output of a protocol transaction is read.                            *)
LEMMA ProtocolOutputClip ==
  ASSUME NEW c, NEW d, PrefixOf(c, d), NEW a, NEW b, Piece(d, a, b, ProtocolOutputBytes)
  PROVE  ProtocolOutput(c, Clip(c, a)) = Clip(c, b)
<1> DEFINE s == ProtocolParts
           v == 200
<1>1. s \in Seq(ByteSeq) /\ Len(s) = 3 /\ FlattenSeq(s) = ProtocolOutputBytes
  BY ProtocolPartsType
<1>2. s[1] = Varint(v) /\ s[2] = <<2>> /\ s[3] = H(5)
  BY DEF ProtocolParts
<1>3. v \in Short
  BY InShort
<1> HIDE DEF s, v
<1>4. PICK q : Laid(q, d, a, s)
  BY <1>1, PrefixBytes, Layout DEF Piece
<1>5. q[1] = a /\ q[4] = b
  BY <1>1, <1>4 DEF Laid, Piece
<1>6. /\ Piece(d, q[1], q[2], Varint(v)) /\ Piece(d, q[2], q[3], <<2>>)
      /\ Piece(d, q[3], q[4], H(5))
  BY <1>1, <1>2, <1>4, PieceAt
<1>7. AfterVarint(c, Clip(c, q[1])) = Clip(c, q[2])
  BY <1>3, <1>6, VarintPart
<1>8. After(c, Clip(c, q[2]), 1 + HashSize) = Clip(c, q[4])
  <2>1. 5 \in Nat
    OBVIOUS
  <2>2. QED
    BY <1>6, <2>1, SkipByteHash
<1>9. QED
  BY <1>5, <1>7, <1>8 DEF ProtocolOutput

(* The positions of the outputs of a protocol transaction.                 *)
IsProtocolOutputs(f, c, o, n) ==
  f = [i \in 0..n |-> IF i = 0 THEN o ELSE ProtocolOutput(c, f[i - 1])]

(* Where the reader is after each of these outputs.                        *)
LEMMA ProtocolOutputPositions ==
  ASSUME NEW c, NEW o, NEW n \in Nat, NEW t, t[0] = o,
         \A i \in 1..n : ProtocolOutput(c, t[i - 1]) = t[i]
  PROVE  \A i \in 0..n : ProtocolOutputs(c, o, n)[i] = t[i]
<1> DEFINE f == CHOOSE e : IsProtocolOutputs(e, c, o, n)
           u == [i \in 0..n |-> t[i]]
<1>1. ProtocolOutputs(c, o, n) = f
  BY DEF ProtocolOutputs, Positions, IsProtocolOutputs
<1>2. IsProtocolOutputs(u, c, o, n)
  <2>1. ASSUME NEW i \in 0..n
        PROVE  u[i] = IF i = 0 THEN o ELSE ProtocolOutput(c, u[i - 1])
    <3>1. CASE i = 0
      BY <3>1
    <3>2. CASE i # 0
      <4>1. i \in 1..n /\ i - 1 \in 0..n
        BY <3>2
      <4>2. QED
        BY <3>2, <4>1
    <3>3. QED
      BY <3>1, <3>2
  <2>2. QED
    BY <2>1 DEF IsProtocolOutputs
<1>3. IsProtocolOutputs(f, c, o, n)
  BY <1>2
<1> HIDE DEF f
<1>4. f[0] = t[0] /\ \A i \in 1..n : f[i - 1] = t[i - 1] => f[i] = t[i]
  BY <1>3 DEF IsProtocolOutputs
<1>5. QED
  BY <1>1, <1>4, SamePositions

(* The outputs of a protocol transaction, as bytes.                        *)
ProtocolSeq(n) == [i \in 1..n |-> ProtocolOutputBytes]

(* They are sequences of bytes, one for each output.                       *)
LEMMA ProtocolSeqBytes ==
  ASSUME NEW n \in Nat
  PROVE  /\ ProtocolSeq(n) \in Seq(ByteSeq) /\ Len(ProtocolSeq(n)) = n
         /\ \A i \in 1..n : ProtocolSeq(n)[i] = ProtocolOutputBytes
<1> DEFINE f == ProtocolSeq(n)
<1>1. f = [i \in 1..n |-> f[i]] /\ \A i \in 1..n : f[i] = ProtocolOutputBytes
  BY DEF ProtocolSeq
<1>2. \A i \in 1..n : f[i] \in ByteSeq
  BY <1>1, ProtocolPartsType
<1> HIDE DEF f
<1>3. f \in Seq(ByteSeq) /\ Len(f) = n
  BY <1>1, <1>2, PartsOf
<1>4. QED
  BY <1>1, <1>3 DEF f

(* All outputs of a protocol transaction are read.                         *)
LEMMA ProtocolOutputsClip ==
  ASSUME NEW c, NEW d, PrefixOf(c, d), NEW a, NEW b, NEW n \in Nat,
         Piece(d, a, b, FlattenSeq(ProtocolSeq(n)))
  PROVE  ProtocolOutputs(c, Clip(c, a), n)[n] = Clip(c, b)
<1> DEFINE s == ProtocolSeq(n)
<1>1. /\ s \in Seq(ByteSeq) /\ Len(s) = n /\ Len(d) \in Nat
      /\ \A i \in 1..n : s[i] = ProtocolOutputBytes
  BY ProtocolSeqBytes, PrefixBytes
<1>2. At(d, a, FlattenSeq(s)) /\ b = a + Len(FlattenSeq(s))
  BY DEF Piece
<1> HIDE DEF s
<1>3. PICK q : Laid(q, d, a, s)
  BY <1>1, <1>2, Layout
<1>4. q[1] = a /\ q[n + 1] = b
  BY <1>1, <1>2, <1>3 DEF Laid
<1> DEFINE t == [i \in 0..n |-> Clip(c, q[i + 1])]
<1>5. t[0] = Clip(c, a) /\ t[n] = Clip(c, b)
  BY <1>1, <1>4
<1>6. ASSUME NEW i \in 1..n PROVE ProtocolOutput(c, t[i - 1]) = t[i]
  <2>1. i - 1 \in 0..n /\ i \in 0..n /\ (i - 1) + 1 = i
    BY <1>1
  <2>2. t[i - 1] = Clip(c, q[i]) /\ t[i] = Clip(c, q[i + 1])
    BY <2>1
  <2>3. Piece(d, q[i], q[i + 1], ProtocolOutputBytes)
    BY <1>1, <1>3, PieceAt
  <2>4. ProtocolOutput(c, Clip(c, q[i])) = Clip(c, q[i + 1])
    BY <1>1, <2>3, ProtocolOutputClip
  <2>5. QED
    BY <2>2, <2>4
<1> HIDE DEF t
<1>7. ProtocolOutputs(c, Clip(c, a), n)[n] = t[n]
  <2>1. n \in 0..n
    BY <1>1
  <2>2. QED
    BY <1>1, <1>5, <1>6, <2>1, ProtocolOutputPositions
<1>8. QED
  BY <1>5, <1>7

(* The entry of a merge mined chain is read.                               *)
LEMMA MergeMiningBytesType ==
  ASSUME NEW x \in Nat \X Short
  PROVE  /\ x[1] \in Nat /\ x[2] \in Short
         /\ Fixed(1, x[2]) \in ByteSeq /\ Len(Fixed(1, x[2])) = x[2]
         /\ H(x[1]) \in ByteSeq /\ Blob(Fixed(1, x[2])) \in ByteSeq
         /\ MergeMiningBytes(x) \in ByteSeq
         /\ MergeMiningBytes(x) = H(x[1]) \o Blob(Fixed(1, x[2]))
<1>1. x[1] \in Nat /\ x[2] \in Short
  OBVIOUS
<1>2. x[2] \in Nat
  <2>1. \A n \in Short : n \in Nat
    BY OfShort
  <2>2. QED
    BY <1>1, <2>1
<1>3. Fixed(1, x[2]) \in ByteSeq /\ Len(Fixed(1, x[2])) = x[2]
  BY <1>2, FixedBytes
<1>4. H(x[1]) \in ByteSeq /\ Blob(Fixed(1, x[2])) \in ByteSeq
  BY <1>1, <1>3, HashBytes, BlobBytes
<1>5. MergeMiningBytes(x) = H(x[1]) \o Blob(Fixed(1, x[2]))
  BY DEF MergeMiningBytes
<1>6. MergeMiningBytes(x) \in ByteSeq
  BY <1>4, <1>5, ConcatProperties DEF ByteSeq
<1>7. QED
  BY <1>1, <1>3, <1>4, <1>5, <1>6

(* The reader of a merge mined chain, in what is left of an entry.         *)
LEMMA MergeMiningClip ==
  ASSUME NEW c, NEW d, PrefixOf(c, d), NEW a, NEW b, NEW x \in Nat \X Short,
         Piece(d, a, b, MergeMiningBytes(x))
  PROVE  MergeMining(c, Clip(c, a)) = Clip(c, b)
<1>1. d \in ByteSeq
  BY PrefixBytes
<1>2. PICK m : Piece(d, a, m, H(x[1])) /\ Piece(d, m, b, Blob(Fixed(1, x[2])))
  BY <1>1, MergeMiningBytesType, TwoPieces
<1>3. After(c, Clip(c, a), HashSize) = Clip(c, m)
  BY <1>2, MergeMiningBytesType, HashPart
<1>4. AfterBlob(c, Clip(c, m)) = Clip(c, b)
  BY <1>2, MergeMiningBytesType, BlobPart
<1>5. QED
  BY <1>3, <1>4 DEF MergeMining

(* The positions of the merge mined chains.                                *)
IsMergeMinings(f, c, o, n) ==
  f = [i \in 0..n |-> IF i = 0 THEN o ELSE MergeMining(c, f[i - 1])]

(* Where the reader is after each of the chains.                           *)
LEMMA MergeMiningPositions ==
  ASSUME NEW c, NEW o, NEW n \in Nat, NEW t, t[0] = o,
         \A i \in 1..n : MergeMining(c, t[i - 1]) = t[i]
  PROVE  \A i \in 0..n : MergeMinings(c, o, n)[i] = t[i]
<1> DEFINE f == CHOOSE e : IsMergeMinings(e, c, o, n)
           u == [i \in 0..n |-> t[i]]
<1>1. MergeMinings(c, o, n) = f
  BY DEF MergeMinings, Positions, IsMergeMinings
<1>2. IsMergeMinings(u, c, o, n)
  <2>1. ASSUME NEW i \in 0..n
        PROVE  u[i] = IF i = 0 THEN o ELSE MergeMining(c, u[i - 1])
    <3>1. CASE i = 0
      BY <3>1
    <3>2. CASE i # 0
      <4>1. i \in 1..n /\ i - 1 \in 0..n
        BY <3>2
      <4>2. QED
        BY <3>2, <4>1
    <3>3. QED
      BY <3>1, <3>2
  <2>2. QED
    BY <2>1 DEF IsMergeMinings
<1>3. IsMergeMinings(f, c, o, n)
  BY <1>2
<1> HIDE DEF f
<1>4. f[0] = t[0] /\ \A i \in 1..n : f[i - 1] = t[i - 1] => f[i] = t[i]
  BY <1>3 DEF IsMergeMinings
<1>5. QED
  BY <1>1, <1>4, SamePositions

(* All parts of a sequence that has positions.                             *)
LEMMA Pieces ==
  ASSUME NEW q, NEW d, NEW p, NEW s, Laid(q, d, p, s)
  PROVE  \A i \in 1..Len(s) : Piece(d, q[i], q[i + 1], s[i])
BY PieceAt

(* The one output of a block with compact outputs.                         *)
CompactParts == <<Varint(300), Varint(60), H(8)>>

(* Its parts.                                                              *)
LEMMA CompactPartsType ==
  /\ CompactParts \in Seq(ByteSeq) /\ Len(CompactParts) = 3
  /\ CompactBytes = FlattenSeq(CompactParts) /\ CompactBytes \in ByteSeq
<1>1. Varint(300) \in ByteSeq /\ Varint(60) \in ByteSeq /\ H(8) \in ByteSeq
  <2>1. 300 \in Short /\ 60 \in Short
    BY InShort
  <2>2. 8 \in Nat
    OBVIOUS
  <2>3. QED
    BY <2>1, <2>2, VarintBytes, HashBytes
<1>2. CompactParts \in Seq(ByteSeq) /\ Len(CompactParts) = 3
  BY <1>1 DEF CompactParts
<1>3. CompactBytes = FlattenSeq(CompactParts)
  BY DEF CompactBytes, CompactParts
<1>4. QED
  BY <1>2, <1>3, FlattenBytes

(* It is read.                                                             *)
LEMMA CompactClip ==
  ASSUME NEW c, NEW d, PrefixOf(c, d), NEW a, NEW b, Piece(d, a, b, CompactBytes)
  PROVE  CompactOutputs(c, Clip(c, a)) = Clip(c, b)
<1> DEFINE s == CompactParts
           v == 300
           w == 60
<1>1. s \in Seq(ByteSeq) /\ Len(s) = 3 /\ FlattenSeq(s) = CompactBytes
  BY CompactPartsType
<1>2. s[1] = Varint(v) /\ s[2] = Varint(w) /\ s[3] = H(8)
  BY DEF CompactParts
<1>3. v \in Short /\ w \in Short
  BY InShort
<1> HIDE DEF s, v, w
<1>4. PICK q : Laid(q, d, a, s)
  BY <1>1, PrefixBytes, Layout DEF Piece
<1>5. q[1] = a /\ q[4] = b
  BY <1>1, <1>4 DEF Laid, Piece
<1>6. /\ Piece(d, q[1], q[2], Varint(v)) /\ Piece(d, q[2], q[3], Varint(w))
      /\ Piece(d, q[3], q[4], H(8))
  BY <1>1, <1>2, <1>4, PieceAt
<1>7. AfterVarint(c, AfterVarint(c, Clip(c, q[1]))) = Clip(c, q[3])
  BY <1>3, <1>6, VarintPart
<1>8. After(c, Clip(c, q[3]), HashSize) = Clip(c, q[4])
  <2>1. 8 \in Nat
    OBVIOUS
  <2>2. QED
    BY <1>6, <2>1, HashPart
<1>9. QED
  BY <1>5, <1>7, <1>8 DEF CompactOutputs

(* The number of outputs, and what follows it.                             *)
LEMMA OutputsBytesType ==
  ASSUME NEW b, b.rewards \in Seq(Short), Len(b.rewards) \in Short
  PROVE  /\ Varint(Len(b.rewards)) \in ByteSeq /\ OutputsBytes(b) \in ByteSeq
         /\ Len(b.rewards) = 0 =>
              OutputsBytes(b) = Varint(Len(b.rewards)) \o CompactBytes
         /\ Len(b.rewards) > 0 =>
              OutputsBytes(b) = Varint(Len(b.rewards)) \o FlattenSeq(CarrotSeq(b.rewards))
<1> DEFINE x == b.rewards
           y == CompactBytes
           z == FlattenSeq(CarrotSeq(x))
           v == Varint(Len(x))
<1>1. x = << >> <=> Len(x) = 0
  BY EmptySeq
<1>2. OutputsBytes(b) = v \o (IF x = << >> THEN y ELSE z)
  BY DEF OutputsBytes, CarrotSeq
<1>3. v \in ByteSeq
  BY VarintBytes
<1>4. y \in ByteSeq /\ z \in ByteSeq
  BY CompactPartsType, CarrotSeqBytes, FlattenBytes
<1>5. Len(x) \in Nat
  BY LenProperties
<1> HIDE DEF x, y, z, v
<1>6. OutputsBytes(b) \in ByteSeq
  BY <1>2, <1>3, <1>4, ConcatProperties DEF ByteSeq
<1>7. /\ Len(x) = 0 => OutputsBytes(b) = v \o y
      /\ Len(x) > 0 => OutputsBytes(b) = v \o z
  BY <1>1, <1>2, <1>5
<1>8. QED
  BY <1>3, <1>6, <1>7 DEF x, y, z, v

(* All outputs are read, in either form.                                   *)
LEMMA OutputsClip ==
  ASSUME NEW c, NEW d, PrefixOf(c, d), NEW a, NEW e, NEW b,
         b.rewards \in Seq(Short), Len(b.rewards) \in Short,
         Piece(d, a, e, OutputsBytes(b))
  PROVE  AfterOutputs(c, Clip(c, a)) = Clip(c, e)
<1> DEFINE n == Len(b.rewards)
           o == Clip(c, a)
           z == FlattenSeq(CarrotSeq(b.rewards))
<1>1. d \in ByteSeq /\ c \in ByteSeq /\ n \in Short
  BY PrefixBytes
<1>2. n \in Nat
  BY LenProperties
<1>3. z \in ByteSeq /\ CompactBytes \in ByteSeq /\ Varint(n) \in ByteSeq
  BY <1>1, CompactPartsType, CarrotSeqBytes, FlattenBytes, VarintBytes
<1>4. \E m : /\ Piece(d, a, m, Varint(n))
             /\ n > 0 => Piece(d, m, e, z)
             /\ n = 0 => Piece(d, m, e, CompactBytes)
  <2>1. CASE n = 0
    <3>1. Piece(d, a, e, Varint(n) \o CompactBytes)
      BY <2>1, OutputsBytesType
    <3>2. QED
      BY <1>1, <1>3, <2>1, <3>1, TwoPieces
  <2>2. CASE n > 0
    <3>1. Piece(d, a, e, Varint(n) \o z)
      BY <2>2, OutputsBytesType
    <3>2. QED
      BY <1>1, <1>3, <2>2, <3>1, TwoPieces
  <2>3. QED
    BY <1>2, <2>1, <2>2
<1>5. PICK m : /\ Piece(d, a, m, Varint(n))
               /\ n > 0 => Piece(d, m, e, z)
               /\ n = 0 => Piece(d, m, e, CompactBytes)
  BY <1>4
<1>6. /\ AfterVarint(c, o) = Clip(c, m)
      /\ VarintAt(c, o) = IF Clip(c, m) # Fail THEN n ELSE 0
  BY <1>1, <1>5, VarintPart
<1>7. n = 0 => CompactOutputs(c, Clip(c, m)) = Clip(c, e)
  BY <1>5, CompactClip
<1>8. n > 0 => CarrotOutputs(c, Clip(c, m), n)[n] = Clip(c, e)
  BY <1>5, CarrotsClip
<1>9. /\ CompactOutputs(c, Fail) = Fail
      /\ Clip(c, m) = Fail => Clip(c, e) = Fail
  <2>1. CompactOutputs(c, Fail) = Fail
    BY AfterFail DEF CompactOutputs
  <2>2. Clip(c, m) = Fail => Clip(c, e) = Fail
    BY <1>2, <1>5, ClipPart
  <2>3. QED
    BY <2>1, <2>2
<1> HIDE DEF n, z
<1>10. AfterOutputs(c, o) = IF VarintAt(c, o) > 0
                            THEN CarrotOutputs(c, AfterVarint(c, o), VarintAt(c, o))[VarintAt(c, o)]
                            ELSE CompactOutputs(c, AfterVarint(c, o))
  BY DEF AfterOutputs
<1>11. CASE Clip(c, m) = Fail
  <2>1. VarintAt(c, o) = 0 /\ AfterVarint(c, o) = Fail
    BY <1>6, <1>11
  <2>2. ~(VarintAt(c, o) > 0)
    BY <2>1
  <2>3. AfterOutputs(c, o) = CompactOutputs(c, AfterVarint(c, o))
    BY <1>10, <2>2
  <2>4. QED
    BY <1>9, <1>11, <2>1, <2>3
<1>12. CASE Clip(c, m) # Fail
  <2>1. VarintAt(c, o) = n /\ AfterVarint(c, o) = Clip(c, m)
    BY <1>6, <1>12
  <2>2. CASE n = 0
    <3>1. ~(VarintAt(c, o) > 0)
      BY <2>1, <2>2
    <3>2. QED
      BY <1>7, <1>10, <2>1, <2>2, <3>1
  <2>3. CASE n > 0
    <3>1. VarintAt(c, o) > 0
      BY <2>1, <2>3
    <3>2. AfterOutputs(c, o) = CarrotOutputs(c, AfterVarint(c, o), VarintAt(c, o))[VarintAt(c, o)]
      BY <1>10, <3>1
    <3>3. QED
      BY <1>8, <2>1, <2>3, <3>2
  <2>4. QED
    BY <1>2, <2>2, <2>3
<1>13. QED
  BY <1>11, <1>12

(* The parts of a protocol transaction with the given height and number of *)
(* outputs.                                                                *)
ProtocolTxParts(h, n) ==
  <<Varint(4), Varint(60), Varint(1), <<Gen>>, Varint(h), Varint(n),
    FlattenSeq(ProtocolSeq(n)), Blob(<<1, 2>>), Varint(2), <<0>>>>

(* What they are.                                                          *)
LEMMA ProtocolTxPartsType ==
  ASSUME NEW h \in Short, NEW n \in Short
  PROVE  /\ ProtocolTxParts(h, n) \in Seq(ByteSeq) /\ Len(ProtocolTxParts(h, n)) = 10
         /\ FlattenSeq(ProtocolTxParts(h, n)) \in ByteSeq
         /\ <<1, 2>> \in ByteSeq /\ Len(<<1, 2>>) \in Short
<1> DEFINE x == FlattenSeq(ProtocolSeq(n))
           y == Blob(<<1, 2>>)
<1>1. Varint(4) \in ByteSeq /\ Varint(60) \in ByteSeq /\ Varint(1) \in ByteSeq
      /\ Varint(2) \in ByteSeq
  <2>1. 4 \in Short /\ 60 \in Short /\ 1 \in Short /\ 2 \in Short
    BY InShort
  <2>2. QED
    BY <2>1, VarintBytes
<1>2. Varint(h) \in ByteSeq /\ Varint(n) \in ByteSeq
  BY VarintBytes
<1>3. <<Gen>> \in ByteSeq /\ <<0>> \in ByteSeq
  BY DEF ByteSeq, Gen
<1>4. <<1, 2>> \in ByteSeq /\ Len(<<1, 2>>) \in Short
  <2>1. <<1, 2>> \in ByteSeq /\ Len(<<1, 2>>) = 2
    BY DEF ByteSeq
  <2>2. 2 \in Short
    BY InShort
  <2>3. QED
    BY <2>1, <2>2
<1>5. y \in ByteSeq
  BY <1>4, BlobBytes
<1>6. x \in ByteSeq
  <2>1. n \in Nat
    BY OfShort
  <2>2. QED
    BY <2>1, ProtocolSeqBytes, FlattenBytes
<1> HIDE DEF x, y
<1>7. LET s == <<Varint(4), Varint(60), Varint(1), <<Gen>>, Varint(h), Varint(n),
                 x, y, Varint(2), <<0>>>>
      IN  s \in Seq(ByteSeq) /\ Len(s) = 10
  BY <1>1, <1>2, <1>3, <1>5, <1>6
<1>8. ProtocolTxParts(h, n) \in Seq(ByteSeq) /\ Len(ProtocolTxParts(h, n)) = 10
  BY <1>7 DEF ProtocolTxParts, x, y
<1>9. QED
  BY <1>4, <1>8, FlattenBytes

(* A protocol transaction is skipped when all of it is there; otherwise    *)
(* nothing is.                                                             *)
LEMMA ProtocolTxClip ==
  ASSUME NEW c, NEW d, PrefixOf(c, d), NEW a, NEW e, NEW h \in Short, NEW n \in Short,
         Piece(d, a, e, FlattenSeq(ProtocolTxParts(h, n)))
  PROVE  SkipProtocolTx(c, Clip(c, a)) = IF Clip(c, e) # Fail THEN Clip(c, e) ELSE Clip(c, a)
<1> DEFINE s == ProtocolTxParts(h, n)
           k4 == 4
           k60 == 60
           k1 == 1
           k2 == 2
           x == FlattenSeq(ProtocolSeq(n))
           y == <<1, 2>>
<1>1. /\ s \in Seq(ByteSeq) /\ Len(s) = 10 /\ y \in ByteSeq /\ Len(y) \in Short
      /\ Len(d) \in Nat /\ Len(c) \in Nat
  BY ProtocolTxPartsType, PrefixBytes
<1>2. /\ s[1] = Varint(k4) /\ s[2] = Varint(k60) /\ s[3] = Varint(k1) /\ s[4] = <<Gen>>
      /\ s[5] = Varint(h) /\ s[6] = Varint(n) /\ s[7] = x /\ s[8] = Blob(y)
      /\ s[9] = Varint(k2) /\ s[10] = <<0>>
  BY DEF ProtocolTxParts
<1>3. k4 \in Short /\ k60 \in Short /\ k1 \in Short /\ k2 \in Short
  BY InShort
<1>4. n \in Nat /\ Gen \in Nat /\ 0 \in Nat
  <2>1. n \in Nat
    BY OfShort
  <2>2. QED
    BY <2>1 DEF Gen
<1>5. At(d, a, FlattenSeq(s)) /\ e = a + Len(FlattenSeq(s))
  BY DEF Piece
<1> HIDE DEF s, k4, k60, k1, k2, y
<1>6. PICK q : Laid(q, d, a, s)
  BY <1>1, <1>5, Layout
<1>7. q[1] = a /\ q[11] = e
  BY <1>1, <1>5, <1>6 DEF Laid
<1> HIDE DEF x
<1>8. /\ Piece(d, q[1], q[2], Varint(k4)) /\ Piece(d, q[2], q[3], Varint(k60))
      /\ Piece(d, q[3], q[4], Varint(k1)) /\ Piece(d, q[4], q[5], <<Gen>>)
      /\ Piece(d, q[5], q[6], Varint(h)) /\ Piece(d, q[6], q[7], Varint(n))
      /\ Piece(d, q[7], q[8], x) /\ Piece(d, q[8], q[9], Blob(y))
      /\ Piece(d, q[9], q[10], Varint(k2)) /\ Piece(d, q[10], q[11], <<0>>)
  <2>1. Len(s) = 10
    BY <1>1
  <2>2. \A i \in 1..10 : Piece(d, q[i], q[i + 1], s[i])
    BY <1>6, <2>1, Pieces
  <2> HIDE DEF x
  <2>3. /\ Piece(d, q[1], q[2], s[1]) /\ Piece(d, q[2], q[3], s[2])
        /\ Piece(d, q[3], q[4], s[3]) /\ Piece(d, q[4], q[5], s[4])
        /\ Piece(d, q[5], q[6], s[5]) /\ Piece(d, q[6], q[7], s[6])
        /\ Piece(d, q[7], q[8], s[7]) /\ Piece(d, q[8], q[9], s[8])
        /\ Piece(d, q[9], q[10], s[9]) /\ Piece(d, q[10], q[11], s[10])
    BY <2>2
  <2>4. QED
    BY <1>2, <2>3
<1> DEFINE o       == Clip(c, a)
           inputs  == VarintIs(c, VarintIs(c, o, k4), k60)
           outputs == AfterVarint(c, ByteIs(c, VarintIs(c, inputs, k1), Gen))
           m       == VarintAt(c, outputs)
           extra   == ProtocolOutputs(c, AfterVarint(c, outputs), m)[m]
           end     == After(c, AfterVarint(c, AfterBlob(c, extra)), 1)
<1>9. inputs = Clip(c, q[3])
  BY <1>3, <1>7, <1>8, VarintPart
<1>10. outputs = Clip(c, q[6])
  <2>1. VarintIs(c, inputs, k1) = Clip(c, q[4])
    BY <1>3, <1>8, <1>9, VarintPart
  <2>2. ByteIs(c, Clip(c, q[4]), Gen) = Clip(c, q[5])
    BY <1>4, <1>8, BytePart
  <2>3. AfterVarint(c, Clip(c, q[5])) = Clip(c, q[6])
    BY <1>8, VarintPart
  <2>4. QED
    BY <2>1, <2>2, <2>3
<1>11. AfterVarint(c, outputs) = Clip(c, q[7])
       /\ m = IF Clip(c, q[7]) # Fail THEN n ELSE 0
  BY <1>8, <1>10, VarintPart
<1>12. ProtocolOutputs(c, Clip(c, q[7]), n)[n] = Clip(c, q[8])
  BY <1>4, <1>8, ProtocolOutputsClip DEF x
<1>13. Clip(c, q[7]) = Fail => extra = Fail
  <2>1. ProtocolOutputs(c, Fail, 0)[0] = Fail
    <3> DEFINE t == [i \in {0} |-> Fail]
    <3>1. t[0] = Fail
      OBVIOUS
    <3> HIDE DEF t
    <3>2. \A i \in 1..0 : ProtocolOutput(c, t[i - 1]) = t[i]
      OBVIOUS
    <3>3. 0 \in 0..0 /\ 0 \in Nat
      OBVIOUS
    <3>4. \A i \in 0..0 : ProtocolOutputs(c, Fail, 0)[i] = t[i]
      BY <3>1, <3>2, <3>3, ProtocolOutputPositions
    <3>5. QED
      BY <3>1, <3>3, <3>4
  <2> HIDE DEF o, inputs, outputs, m
  <2>2. QED
    BY <1>11, <2>1
<1>14. extra = Clip(c, q[8])
  <2>1. Clip(c, q[7]) = Fail => Clip(c, q[8]) = Fail
    BY <1>8, ClipPart
  <2> HIDE DEF o, inputs, outputs, m
  <2>2. CASE Clip(c, q[7]) = Fail
    <3> HIDE DEF extra
    <3>1. QED
      BY <1>13, <2>1, <2>2
  <2>3. CASE Clip(c, q[7]) # Fail
    BY <1>11, <1>12, <2>3
  <2>4. QED
    BY <2>2, <2>3
<1>15. end = Clip(c, e)
  <2> HIDE DEF extra
  <2>1. AfterBlob(c, Clip(c, q[8])) = Clip(c, q[9])
    BY <1>1, <1>8, BlobPart
  <2>2. AfterVarint(c, Clip(c, q[9])) = Clip(c, q[10])
    BY <1>3, <1>8, VarintPart
  <2>3. After(c, Clip(c, q[10]), 1) = Clip(c, q[11])
    BY <1>4, <1>8, BytePart
  <2>4. QED
    BY <1>7, <1>14, <2>1, <2>2, <2>3
<1>16. Clip(c, e) # Fail => ~(o + 2 > Len(c)) /\ o = a
  <2>1. /\ q[2] >= a + 1 /\ q[3] >= q[2] + 1 /\ q[4] >= q[3] + 1
        /\ a \in Nat \ {0} /\ q[2] \in Nat /\ q[3] \in Nat /\ q[4] \in Nat
    <3>1. \A v \in Short : Len(Varint(v)) \in Nat /\ Len(Varint(v)) >= 1
      BY VarintBytes
    <3>2. /\ q[2] = q[1] + Len(Varint(k4)) /\ q[3] = q[2] + Len(Varint(k60))
          /\ q[4] = q[3] + Len(Varint(k1))
          /\ q[1] \in Nat \ {0} /\ q[2] \in Nat /\ q[3] \in Nat /\ q[4] \in Nat
      BY <1>8 DEF Piece
    <3>3. Len(Varint(k4)) >= 1 /\ Len(Varint(k60)) >= 1 /\ Len(Varint(k1)) >= 1
          /\ Len(Varint(k4)) \in Nat /\ Len(Varint(k60)) \in Nat /\ Len(Varint(k1)) \in Nat
      BY <1>3, <3>1
    <3>4. q[2] >= q[1] + 1
      BY <3>2, <3>3
    <3>5. q[3] >= q[2] + 1
      BY <3>2, <3>3
    <3>6. q[4] >= q[3] + 1
      BY <3>2, <3>3
    <3>7. QED
      BY <1>7, <3>2, <3>4, <3>5, <3>6
  <2>2. Clip(c, e) # Fail => Clip(c, q[4]) # Fail
    <3>1. /\ Clip(c, q[4]) = Fail => Clip(c, q[5]) = Fail
          /\ Clip(c, q[5]) = Fail => Clip(c, q[6]) = Fail
          /\ Clip(c, q[6]) = Fail => Clip(c, q[7]) = Fail
          /\ Clip(c, q[7]) = Fail => Clip(c, q[8]) = Fail
          /\ Clip(c, q[8]) = Fail => Clip(c, q[9]) = Fail
          /\ Clip(c, q[9]) = Fail => Clip(c, q[10]) = Fail
          /\ Clip(c, q[10]) = Fail => Clip(c, q[11]) = Fail
      BY <1>8, ClipPart
    <3>2. QED
      BY <1>7, <3>1
  <2>3. Clip(c, q[4]) # Fail => q[4] - 1 <= Len(c)
    BY <1>8, ClipPart
  <2>4. q[4] - 1 <= Len(c) => a + 2 <= Len(c) /\ a - 1 <= Len(c)
    <3>1. Len(c) \in Nat
      BY <1>1
    <3>2. q[4] >= a + 3 /\ a \in Nat /\ q[4] \in Nat
      BY <2>1
    <3>3. QED
      BY <3>1, <3>2
  <2>5. a - 1 <= Len(c) => o = a
    BY DEF Clip
  <2>6. QED
    BY <1>1, <2>1, <2>2, <2>3, <2>4, <2>5
<1>17. SkipProtocolTx(c, o) = IF o + 2 > Len(c) \/ end = Fail THEN o ELSE end
  BY DEF SkipProtocolTx, k4, k60, k1
<1> HIDE DEF o, end
<1>18. SkipProtocolTx(c, o) = IF Clip(c, e) # Fail THEN Clip(c, e) ELSE o
  BY <1>15, <1>16, <1>17
<1>19. QED
  BY <1>18 DEF o

(* The fields of a block.                                                  *)
LEMMA BlockFields ==
  ASSUME NEW b \in Block
  PROVE  /\ b.id \in Nat \ {0} /\ b.major \in Nat /\ b.major \in 1..20
         /\ b.timestamp \in Short /\ b.height \in Short
         /\ b.rewards \in Seq(Short) /\ b.protocolOutputs \in Short /\ b.txs \in Seq(Nat)
         /\ b.wallet \in Nat /\ b.parent \in Nat /\ b.uncles \in Seq(Nat)
         /\ b.sideHeight \in Short /\ b.difficulty \in Short \X Short
         /\ b.cumulative \in Short \X Short
         /\ b.proof \in Seq(Nat) /\ b.chains \in Seq(Nat \X Short)
<1>1. b.id \in Nat \ {0} /\ b.major \in 1..20
  BY DEF Block
<1>2. b.major \in Nat
  BY <1>1
<1>3. /\ b.timestamp \in Short /\ b.height \in Short
      /\ b.rewards \in Seq(Short) /\ b.protocolOutputs \in Short /\ b.txs \in Seq(Nat)
      /\ b.wallet \in Nat /\ b.parent \in Nat /\ b.uncles \in Seq(Nat)
  BY DEF Block
<1>4. /\ b.sideHeight \in Short /\ b.difficulty \in Short \X Short
      /\ b.cumulative \in Short \X Short
      /\ b.proof \in Seq(Nat) /\ b.chains \in Seq(Nat \X Short)
  BY DEF Block
<1>5. QED
  BY <1>1, <1>2, <1>3, <1>4

(* The protocol transaction of a block, which there is from version 10 on. *)
LEMMA ProtocolBytesType ==
  ASSUME NEW b \in Block
  PROVE  /\ ProtocolBytes(b) \in ByteSeq
         /\ b.major < 10 => Len(ProtocolBytes(b)) = 0
         /\ b.major >= 10 => ProtocolBytes(b) = FlattenSeq(ProtocolTxParts(b.height, b.protocolOutputs))
<1>1. b.major \in Nat /\ b.height \in Short /\ b.protocolOutputs \in Short
  BY BlockFields
<1>2. ProtocolBytes(b) =
        IF b.major < 10 THEN << >> ELSE FlattenSeq(ProtocolTxParts(b.height, b.protocolOutputs))
  BY DEF ProtocolBytes, ProtocolTxParts, ProtocolSeq
<1>3. FlattenSeq(ProtocolTxParts(b.height, b.protocolOutputs)) \in ByteSeq
  BY <1>1, ProtocolTxPartsType
<1>4. << >> \in ByteSeq /\ Len(<< >>) = 0
  BY DEF ByteSeq
<1> DEFINE x == FlattenSeq(ProtocolTxParts(b.height, b.protocolOutputs))
<1> HIDE DEF x
<1>5. ProtocolBytes(b) = IF b.major < 10 THEN << >> ELSE x
  BY <1>2 DEF x
<1>6. CASE b.major < 10
  BY <1>1, <1>4, <1>5, <1>6
<1>7. CASE b.major >= 10
  BY <1>1, <1>3, <1>5, <1>7 DEF x
<1>8. QED
  BY <1>1, <1>6, <1>7

(* The parts of a block's main chain data.                                 *)
MainchainParts(b) ==
  <<<<b.major>>, <<0>>, Varint(b.timestamp), H(3), Fixed(6, WordSize),
    <<4>>, Varint(60), <<1>>, <<Gen>>, Varint(b.height),
    OutputsBytes(b), Blob(<<1, 4, 60>>), Varint(1), Varint(0), <<0>>,
    ProtocolBytes(b), Varint(Len(b.txs)), Hs(b.txs)>>

(* Blocks whose sequences have lengths of one or two bytes.                *)
ShortBlock ==
  {b \in Block : Len(b.rewards) \in Short /\ Len(b.txs) \in Short /\ Len(b.chains) \in Short
                 /\ Len(b.uncles) <= MaxUncles /\ Len(b.proof) < 256}

(* What the parts are.                                                     *)
LEMMA MainchainPartsType ==
  ASSUME NEW b \in ShortBlock
  PROVE  /\ MainchainParts(b) \in Seq(ByteSeq) /\ Len(MainchainParts(b)) = 18
         /\ MainchainBytes(b) = FlattenSeq(MainchainParts(b)) /\ MainchainBytes(b) \in ByteSeq
         /\ <<1, 4, 60>> \in ByteSeq /\ Len(<<1, 4, 60>>) \in Short
<1>1. /\ b.major \in Nat /\ b.timestamp \in Short /\ b.height \in Short
      /\ b.rewards \in Seq(Short) /\ Len(b.rewards) \in Short
      /\ b.txs \in Seq(Nat) /\ Len(b.txs) \in Short /\ b \in Block
  <2>1. b \in Block /\ Len(b.rewards) \in Short /\ Len(b.txs) \in Short
    BY DEF ShortBlock
  <2>2. QED
    BY <2>1, BlockFields
<1> DEFINE p1 == <<b.major>>
           p2 == <<0>>
           p3 == Varint(b.timestamp)
           p4 == H(3)
           p5 == Fixed(6, WordSize)
           p6 == <<4>>
           p7 == Varint(60)
           p8 == <<1>>
           p9 == <<Gen>>
           p10 == Varint(b.height)
           p11 == OutputsBytes(b)
           p12 == Blob(<<1, 4, 60>>)
           p13 == Varint(1)
           p14 == Varint(0)
           p15 == <<0>>
           p16 == ProtocolBytes(b)
           p17 == Varint(Len(b.txs))
           p18 == Hs(b.txs)
<1>2. p1 \in ByteSeq /\ p2 \in ByteSeq /\ p6 \in ByteSeq /\ p8 \in ByteSeq /\ p9 \in ByteSeq
      /\ p15 \in ByteSeq
  BY <1>1 DEF ByteSeq, Gen
<1>3. p3 \in ByteSeq /\ p10 \in ByteSeq /\ p17 \in ByteSeq
  BY <1>1, VarintBytes
<1>4. p7 \in ByteSeq /\ p13 \in ByteSeq /\ p14 \in ByteSeq
  <2>1. 60 \in Short /\ 1 \in Short /\ 0 \in Short
    BY InShort
  <2>2. QED
    BY <2>1, VarintBytes
<1>5. p4 \in ByteSeq /\ p5 \in ByteSeq
  <2>1. 3 \in Nat /\ 6 \in Nat /\ WordSize \in Nat
    BY DEF WordSize
  <2>2. QED
    BY <2>1, HashBytes, FixedBytes
<1>6. <<1, 4, 60>> \in ByteSeq /\ Len(<<1, 4, 60>>) \in Short
  <2>1. <<1, 4, 60>> \in ByteSeq /\ Len(<<1, 4, 60>>) = 3
    BY DEF ByteSeq
  <2>2. 3 \in Short
    BY InShort
  <2>3. QED
    BY <2>1, <2>2
<1>7. p12 \in ByteSeq
  BY <1>6, BlobBytes
<1>8. p11 \in ByteSeq
  BY <1>1, OutputsBytesType
<1>9. p16 \in ByteSeq
  BY <1>1, ProtocolBytesType
<1>10. p18 \in ByteSeq
  BY <1>1, HashSeqBytes
<1>11. MainchainParts(b) = <<p1, p2, p3, p4, p5, p6, p7, p8, p9, p10, p11, p12, p13, p14, p15, p16, p17, p18>>
  BY DEF MainchainParts
<1>12. MainchainBytes(b) = FlattenSeq(MainchainParts(b))
  BY DEF MainchainBytes, MainchainParts
<1> HIDE DEF p1, p2, p3, p4, p5, p6, p7, p8, p9, p10, p11, p12, p13, p14, p15, p16, p17, p18
<1>13. MainchainParts(b) \in Seq(ByteSeq) /\ Len(MainchainParts(b)) = 18
  BY <1>2, <1>3, <1>4, <1>5, <1>7, <1>8, <1>9, <1>10, <1>11
<1>14. QED
  BY <1>6, <1>12, <1>13, FlattenBytes

(* Where they stand in a block.                                            *)
MainLaid(q, d, e, b) ==
  /\ q[1] = 1 /\ q[19] = e
  /\ Piece(d, q[1], q[2], <<b.major>>) /\ Piece(d, q[2], q[3], <<0>>)
  /\ Piece(d, q[3], q[4], Varint(b.timestamp)) /\ Piece(d, q[4], q[5], H(3))
  /\ Piece(d, q[5], q[6], Fixed(6, WordSize)) /\ Piece(d, q[6], q[7], <<4>>)
  /\ Piece(d, q[7], q[8], Varint(60)) /\ Piece(d, q[8], q[9], <<1>>)
  /\ Piece(d, q[9], q[10], <<Gen>>) /\ Piece(d, q[10], q[11], Varint(b.height))
  /\ Piece(d, q[11], q[12], OutputsBytes(b)) /\ Piece(d, q[12], q[13], Blob(<<1, 4, 60>>))
  /\ Piece(d, q[13], q[14], Varint(1)) /\ Piece(d, q[14], q[15], Varint(0))
  /\ Piece(d, q[15], q[16], <<0>>) /\ Piece(d, q[16], q[17], ProtocolBytes(b))
  /\ Piece(d, q[17], q[18], Varint(Len(b.txs))) /\ Piece(d, q[18], q[19], Hs(b.txs))

(* They have places.                                                       *)
LEMMA MainchainLayout ==
  ASSUME NEW b \in ShortBlock, NEW d, Len(d) \in Nat, NEW e, Piece(d, 1, e, MainchainBytes(b))
  PROVE  \E q : MainLaid(q, d, e, b)
<1> DEFINE s == MainchainParts(b)
           n == 18
<1>1. s \in Seq(ByteSeq) /\ Len(s) = n /\ FlattenSeq(s) = MainchainBytes(b) /\ n + 1 = 19
  BY MainchainPartsType
<1>2. At(d, 1, FlattenSeq(s)) /\ e = 1 + Len(FlattenSeq(s))
  BY <1>1 DEF Piece
<1>3. /\ s[1] = <<b.major>> /\ s[2] = <<0>> /\ s[3] = Varint(b.timestamp) /\ s[4] = H(3)
      /\ s[5] = Fixed(6, WordSize) /\ s[6] = <<4>> /\ s[7] = Varint(60) /\ s[8] = <<1>>
      /\ s[9] = <<Gen>> /\ s[10] = Varint(b.height) /\ s[11] = OutputsBytes(b)
      /\ s[12] = Blob(<<1, 4, 60>>) /\ s[13] = Varint(1) /\ s[14] = Varint(0)
      /\ s[15] = <<0>> /\ s[16] = ProtocolBytes(b) /\ s[17] = Varint(Len(b.txs))
      /\ s[18] = Hs(b.txs)
  BY DEF MainchainParts
<1> HIDE DEF s, n
<1>4. PICK q : Laid(q, d, 1, s)
  BY <1>1, <1>2, Layout
<1>5. q[1] = 1 /\ q[19] = e
  <2>1. q[1] = 1 /\ q[Len(s) + 1] = e
    BY <1>2, <1>4 DEF Laid
  <2>2. QED
    BY <1>1, <2>1
<1>6. \A i \in 1..n : Piece(d, q[i], q[i + 1], s[i])
  BY <1>1, <1>4, Pieces
<1>7. /\ Piece(d, q[1], q[2], s[1]) /\ Piece(d, q[2], q[3], s[2])
      /\ Piece(d, q[3], q[4], s[3]) /\ Piece(d, q[4], q[5], s[4])
      /\ Piece(d, q[5], q[6], s[5]) /\ Piece(d, q[6], q[7], s[6])
      /\ Piece(d, q[7], q[8], s[7]) /\ Piece(d, q[8], q[9], s[8])
      /\ Piece(d, q[9], q[10], s[9])
  BY <1>6 DEF n
<1>8. /\ Piece(d, q[10], q[11], s[10]) /\ Piece(d, q[11], q[12], s[11])
      /\ Piece(d, q[12], q[13], s[12]) /\ Piece(d, q[13], q[14], s[13])
      /\ Piece(d, q[14], q[15], s[14]) /\ Piece(d, q[15], q[16], s[15])
      /\ Piece(d, q[16], q[17], s[16]) /\ Piece(d, q[17], q[18], s[17])
      /\ Piece(d, q[18], q[19], s[18])
  BY <1>6 DEF n
<1>9. MainLaid(q, d, e, b)
  BY <1>3, <1>5, <1>7, <1>8 DEF MainLaid
<1>10. QED
  BY <1>9

(* The data before the protocol transaction is read.                       *)
LEMMA MainchainHead ==
  ASSUME NEW b \in ShortBlock, NEW c, NEW d, PrefixOf(c, d), NEW q, NEW e, MainLaid(q, d, e, b),
         Len(c) >= 2
  PROVE  LET prevId   == AfterVarint(c, 3)
             nonce    == After(c, prevId, HashSize)
             unlock   == ByteIs(c, After(c, nonce, WordSize), 4)
             height   == ByteIs(c, ByteIs(c, AfterVarint(c, unlock), 1), Gen)
             extra    == AfterOutputs(c, AfterVarint(c, height))
             rct      == AfterVarint(c, AfterVarint(c, AfterBlob(c, extra)))
         IN  /\ prevId = Clip(c, q[4]) /\ nonce = Clip(c, q[5]) /\ height = Clip(c, q[10])
             /\ After(c, rct, 1) = Clip(c, q[16])
<1> DEFINE k0 == 0
           k1 == 1
           k4 == 4
           k60 == 60
           n3 == 3
           t == b.timestamp
           h == b.height
           y == <<1, 4, 60>>
           w == Fixed(6, WordSize)
<1>1. /\ t \in Short /\ h \in Short /\ b.rewards \in Seq(Short) /\ Len(b.rewards) \in Short
      /\ b.major \in Nat
  <2>1. b \in Block /\ Len(b.rewards) \in Short
    BY DEF ShortBlock
  <2>2. QED
    BY <2>1, BlockFields
<1>2. k0 \in Short /\ k1 \in Short /\ k4 \in Short /\ k60 \in Short
  BY InShort
<1>3. /\ k0 \in Nat /\ k1 \in Nat /\ k4 \in Nat /\ n3 \in Nat /\ Gen \in Nat
      /\ Len(w) = WordSize
  <2>1. 6 \in Nat /\ WordSize \in Nat
    BY DEF WordSize
  <2>2. Len(w) = WordSize
    BY <2>1, FixedBytes
  <2>3. QED
    BY <2>2 DEF Gen
<1>4. y \in ByteSeq /\ Len(y) \in Short /\ Len(c) \in Nat
  BY MainchainPartsType, PrefixBytes
<1>5. /\ q[1] = 1
      /\ Piece(d, q[1], q[2], <<b.major>>) /\ Piece(d, q[2], q[3], <<k0>>)
      /\ Piece(d, q[3], q[4], Varint(t)) /\ Piece(d, q[4], q[5], H(n3))
      /\ Piece(d, q[5], q[6], w) /\ Piece(d, q[6], q[7], <<k4>>)
      /\ Piece(d, q[7], q[8], Varint(k60)) /\ Piece(d, q[8], q[9], <<k1>>)
      /\ Piece(d, q[9], q[10], <<Gen>>) /\ Piece(d, q[10], q[11], Varint(h))
      /\ Piece(d, q[11], q[12], OutputsBytes(b)) /\ Piece(d, q[12], q[13], Blob(y))
      /\ Piece(d, q[13], q[14], Varint(k1)) /\ Piece(d, q[14], q[15], Varint(k0))
      /\ Piece(d, q[15], q[16], <<k0>>)
  BY DEF MainLaid
<1>6. q[3] = 3 /\ Clip(c, q[3]) = 3
  <2>1. Len(<<b.major>>) = 1 /\ Len(<<0>>) = 1
    OBVIOUS
  <2>2. q[2] = q[1] + 1 /\ q[3] = q[2] + 1
    BY <1>5, <2>1 DEF Piece
  <2>3. q[3] = 3
    BY <1>5, <2>2
  <2>4. QED
    BY <1>4, <2>3 DEF Clip
<1> HIDE DEF k0, k1, k4, k60, n3, t, h, y, w
<1>7. AfterVarint(c, Clip(c, q[3])) = Clip(c, q[4])
  <2>1. t \in Short /\ Piece(d, q[3], q[4], Varint(t))
    BY <1>1, <1>5
  <2>2. QED
    BY <2>1, VarintPart
<1>8. After(c, Clip(c, q[4]), HashSize) = Clip(c, q[5])
  <2>1. n3 \in Nat /\ Piece(d, q[4], q[5], H(n3))
    BY <1>3, <1>5
  <2>2. QED
    BY <2>1, HashPart
<1>9. After(c, Clip(c, q[5]), WordSize) = Clip(c, q[6])
  <2>1. Len(w) = WordSize /\ Piece(d, q[5], q[6], w)
    BY <1>3, <1>5
  <2>2. QED
    BY <2>1, SkipPart
<1>10. ByteIs(c, Clip(c, q[6]), k4) = Clip(c, q[7])
  <2>1. k4 \in Nat /\ Piece(d, q[6], q[7], <<k4>>)
    BY <1>3, <1>5
  <2>2. QED
    BY <2>1, BytePart
<1>11. AfterVarint(c, Clip(c, q[7])) = Clip(c, q[8])
  <2>1. k60 \in Short /\ Piece(d, q[7], q[8], Varint(k60))
    BY <1>2, <1>5
  <2>2. QED
    BY <2>1, VarintPart
<1>12. ByteIs(c, ByteIs(c, Clip(c, q[8]), k1), Gen) = Clip(c, q[10])
  <2>1. /\ k1 \in Nat /\ Piece(d, q[8], q[9], <<k1>>)
        /\ Gen \in Nat /\ Piece(d, q[9], q[10], <<Gen>>)
    BY <1>3, <1>5
  <2>2. ByteIs(c, Clip(c, q[8]), k1) = Clip(c, q[9])
    BY <2>1, BytePart
  <2>3. ByteIs(c, Clip(c, q[9]), Gen) = Clip(c, q[10])
    BY <2>1, BytePart
  <2>4. QED
    BY <2>2, <2>3
<1>13. AfterVarint(c, Clip(c, q[10])) = Clip(c, q[11])
  <2>1. h \in Short /\ Piece(d, q[10], q[11], Varint(h))
    BY <1>1, <1>5
  <2>2. QED
    BY <2>1, VarintPart
<1>14. AfterOutputs(c, Clip(c, q[11])) = Clip(c, q[12])
  BY <1>1, <1>5, OutputsClip
<1>15. AfterBlob(c, Clip(c, q[12])) = Clip(c, q[13])
  <2>1. y \in ByteSeq /\ Len(y) \in Short /\ Piece(d, q[12], q[13], Blob(y))
    BY <1>4, <1>5
  <2>2. QED
    BY <2>1, BlobPart
<1>16. AfterVarint(c, AfterVarint(c, Clip(c, q[13]))) = Clip(c, q[15])
  <2>1. /\ k1 \in Short /\ Piece(d, q[13], q[14], Varint(k1))
        /\ k0 \in Short /\ Piece(d, q[14], q[15], Varint(k0))
    BY <1>2, <1>5
  <2>2. AfterVarint(c, Clip(c, q[13])) = Clip(c, q[14])
    BY <2>1, VarintPart
  <2>3. AfterVarint(c, Clip(c, q[14])) = Clip(c, q[15])
    BY <2>1, VarintPart
  <2>4. QED
    BY <2>2, <2>3
<1>17. After(c, Clip(c, q[15]), 1) = Clip(c, q[16])
  <2>1. k0 \in Nat /\ Piece(d, q[15], q[16], <<k0>>)
    BY <1>3, <1>5
  <2>2. QED
    BY <2>1, BytePart
<1>18. QED
  BY <1>6, <1>7, <1>8, <1>9, <1>10, <1>11, <1>12, <1>13, <1>14, <1>15, <1>16, <1>17 DEF k4, k1

(* What is cut off before its hash and nonce is too short for a block.     *)
LEMMA MainchainLong ==
  ASSUME NEW b \in ShortBlock, NEW c, NEW d, PrefixOf(c, d), NEW q, NEW e, MainLaid(q, d, e, b),
         Clip(c, q[16]) # Fail
  PROVE  Len(c) >= HashSize + 8
<1>1. Clip(c, q[7]) # Fail
  <2>1. /\ Clip(c, q[7]) = Fail => Clip(c, q[8]) = Fail
        /\ Clip(c, q[8]) = Fail => Clip(c, q[9]) = Fail
        /\ Clip(c, q[9]) = Fail => Clip(c, q[10]) = Fail
        /\ Clip(c, q[10]) = Fail => Clip(c, q[11]) = Fail
        /\ Clip(c, q[11]) = Fail => Clip(c, q[12]) = Fail
        /\ Clip(c, q[12]) = Fail => Clip(c, q[13]) = Fail
        /\ Clip(c, q[13]) = Fail => Clip(c, q[14]) = Fail
        /\ Clip(c, q[14]) = Fail => Clip(c, q[15]) = Fail
        /\ Clip(c, q[15]) = Fail => Clip(c, q[16]) = Fail
    BY ClipPart DEF MainLaid
  <2>2. QED
    BY <2>1
<1>2. q[7] - 1 <= Len(c)
  <2>1. Piece(d, q[6], q[7], <<4>>)
    BY DEF MainLaid
  <2>2. QED
    BY <1>1, <2>1, ClipPart
<1>3. b.timestamp \in Short
  BY BlockFields DEF ShortBlock
<1>4. /\ q[1] = 1 /\ q[2] = q[1] + Len(<<b.major>>) /\ q[3] = q[2] + Len(<<0>>)
      /\ q[4] = q[3] + Len(Varint(b.timestamp)) /\ q[5] = q[4] + Len(H(3))
      /\ q[6] = q[5] + Len(Fixed(6, WordSize)) /\ q[7] = q[6] + Len(<<4>>)
      /\ q[7] \in Nat
  BY DEF MainLaid, Piece
<1>5. /\ Len(<<b.major>>) = 1 /\ Len(<<0>>) = 1 /\ Len(<<4>>) = 1
  OBVIOUS
<1>6. Len(Varint(b.timestamp)) \in Nat /\ Len(Varint(b.timestamp)) >= 1
  <2>1. \A v \in Short : Len(Varint(v)) \in Nat /\ Len(Varint(v)) >= 1
    BY VarintBytes
  <2>2. QED
    BY <1>3, <2>1
<1>7. Len(H(3)) = HashSize /\ Len(Fixed(6, WordSize)) = 4 /\ HashSize \in Nat
  <2>1. 3 \in Nat /\ 6 \in Nat /\ 4 \in Nat
    OBVIOUS
  <2>2. Len(H(3)) = HashSize
    BY <2>1, HashBytes
  <2>3. Len(Fixed(6, WordSize)) = WordSize
    BY <2>1, FixedBytes DEF WordSize
  <2>4. WordSize = 4 /\ HashSize \in Nat
    BY SizesAssumption DEF WordSize
  <2>5. QED
    BY <2>2, <2>3, <2>4
<1>8. Len(c) \in Nat
  BY PrefixBytes
<1>9. /\ q[1] = 1 /\ q[2] = q[1] + 1 /\ q[3] = q[2] + 1
      /\ q[4] = q[3] + Len(Varint(b.timestamp)) /\ q[5] = q[4] + HashSize
      /\ q[6] = q[5] + 4 /\ q[7] = q[6] + 1
  BY <1>4, <1>5, <1>7
<1>10. q[7] >= HashSize + 9
  BY <1>6, <1>7, <1>9
<1>11. q[7] \in Nat /\ HashSize \in Nat
  BY <1>4, <1>7
<1>12. QED
  BY <1>2, <1>8, <1>10, <1>11

(* The data of the main chain ends where it is written to end, or is not   *)
(* all there; a protocol transaction that is not all there is taken for    *)
(* the number of the transactions.                                         *)
LEMMA MainchainEnd ==
  ASSUME NEW b \in ShortBlock, NEW c, NEW d, PrefixOf(c, d), NEW q, NEW e, MainLaid(q, d, e, b)
  PROVE  \/ Mainchain(c).end = Clip(c, e)
         \/ /\ Clip(c, e) = Fail
            /\ \/ Mainchain(c).end = Fail
               \/ /\ Mainchain(c).end \in Nat \ {0}
                  /\ Len(c) - Mainchain(c).end + 3 + 4 * HashSize <= Len(ProtocolBytes(b))
<1> DEFINE prevId   == AfterVarint(c, 3)
           nonce    == After(c, prevId, HashSize)
           unlock   == ByteIs(c, After(c, nonce, WordSize), 4)
           height   == ByteIs(c, ByteIs(c, AfterVarint(c, unlock), 1), Gen)
           extra    == AfterOutputs(c, AfterVarint(c, height))
           rct      == AfterVarint(c, AfterVarint(c, AfterBlob(c, extra)))
           protocol == After(c, rct, 1)
           txs      == IF c[1] >= 10 THEN SkipProtocolTx(c, protocol) ELSE protocol
           n        == Len(b.txs)
<1>1. /\ n \in Short /\ b.txs \in Seq(Nat) /\ b.height \in Short /\ b.protocolOutputs \in Short
      /\ b \in Block /\ b.major \in Nat
  <2>1. b \in Block /\ n \in Short
    BY DEF ShortBlock
  <2>2. QED
    BY <2>1, BlockFields
<1>2. /\ Piece(d, q[16], q[17], ProtocolBytes(b))
      /\ Piece(d, q[17], q[18], Varint(n)) /\ Piece(d, q[18], q[19], Hs(b.txs))
      /\ q[19] = e /\ q[1] = 1 /\ Piece(d, q[1], q[2], <<b.major>>)
  BY DEF MainLaid
<1> DEFINE end == After(c, AfterVarint(c, txs), VarintAt(c, txs) * HashSize)
<1>3. Mainchain(c).end = IF Len(c) < HashSize + 8 THEN Fail ELSE end
  BY DEF Mainchain
<1>4. Len(c) \in Nat /\ HashSize \in Nat /\ HashSize + 8 \in Nat
  BY PrefixBytes, SizesAssumption
<1>5. Clip(c, q[16]) = Fail => Clip(c, e) = Fail
  <2>1. /\ Clip(c, q[16]) = Fail => Clip(c, q[17]) = Fail
        /\ Clip(c, q[17]) = Fail => Clip(c, q[18]) = Fail
        /\ Clip(c, q[18]) = Fail => Clip(c, q[19]) = Fail
    BY <1>2, ClipPart
  <2>2. QED
    BY <1>2, <2>1
<1> HIDE DEF n
<1>6. CASE Len(c) < HashSize + 8
  <2>1. Clip(c, q[16]) = Fail
    <3>1. ~(Len(c) >= HashSize + 8)
      BY <1>4, <1>6
    <3>2. QED
      BY <3>1, MainchainLong
  <2>2. Mainchain(c).end = Fail
    <3> HIDE DEF end
    <3>1. QED
      BY <1>3, <1>6
  <2>3. QED
    BY <1>5, <2>1, <2>2
<1>7. CASE ~(Len(c) < HashSize + 8)
  <2>1. Mainchain(c).end = end
    <3> HIDE DEF end
    <3>1. QED
      BY <1>3, <1>7
  <2>2. Len(c) >= 2 /\ Len(c) >= 1
    BY <1>4, <1>7
  <2>3. protocol = Clip(c, q[16])
    BY <2>2, MainchainHead
  <2>4. c[1] = b.major
    <3>1. d[q[1]] = b.major
      <4>1. At(d, q[1], <<b.major>>)
        BY <1>2 DEF Piece
      <4>2. q[1] = 1 /\ Len(<<b.major>>) = 1 /\ <<b.major>>[1] = b.major /\ 1 \in 1..1 /\ 1 + 1 - 1 = 1
        BY <1>2
      <4>3. QED
        BY <4>1, <4>2 DEF At
    <3>2. 1 \in 1..Len(c)
      BY <1>4, <2>2
    <3>3. QED
      BY <1>2, <3>1, <3>2, PrefixBytes
  <2> HIDE DEF prevId, nonce, unlock, height, extra, rct, protocol
  <2>5. ASSUME txs = Clip(c, q[17])
        PROVE  end = Clip(c, e)
    <3> HIDE DEF txs
    <3>1. /\ AfterVarint(c, txs) = Clip(c, q[18])
          /\ VarintAt(c, txs) = IF Clip(c, q[18]) # Fail THEN n ELSE 0
      BY <1>1, <1>2, <2>5, VarintPart
    <3>2. Len(Hs(b.txs)) = n * HashSize
      BY <1>1, <1>2, HashesPart DEF n
    <3>3. After(c, Clip(c, q[18]), VarintAt(c, txs) * HashSize) = Clip(c, q[19])
      <4>1. Clip(c, q[18]) # Fail => VarintAt(c, txs) * HashSize = Len(Hs(b.txs))
        BY <3>1, <3>2
      <4>2. QED
        BY <1>2, <4>1, CountPart
    <3>4. QED
      BY <1>2, <3>1, <3>3
  <2>6. CASE b.major < 10
    <3>1. txs = protocol
      BY <1>1, <2>4, <2>6
    <3>2. q[17] = q[16]
      <4>1. ProtocolBytes(b) = << >>
        BY <1>1, <2>6, ProtocolBytesType
      <4>2. q[17] = q[16] + Len(ProtocolBytes(b)) /\ q[16] \in Nat
        BY <1>2 DEF Piece
      <4>3. QED
        BY <4>1, <4>2
    <3>3. QED
      BY <2>1, <2>3, <2>5, <3>1, <3>2
  <2>7. CASE b.major >= 10
    <3> DEFINE s == ProtocolTxParts(b.height, b.protocolOutputs)
    <3>1. txs = SkipProtocolTx(c, protocol)
      BY <1>1, <2>4, <2>7
    <3>2. Piece(d, q[16], q[17], FlattenSeq(s))
      BY <1>1, <1>2, <2>7, ProtocolBytesType
    <3>3. txs = IF Clip(c, q[17]) # Fail THEN Clip(c, q[17]) ELSE Clip(c, q[16])
      BY <1>1, <2>3, <3>1, <3>2, ProtocolTxClip
    <3> HIDE DEF s, txs
    <3>4. CASE Clip(c, q[17]) # Fail
      BY <2>1, <2>5, <3>3, <3>4
    <3>5. CASE Clip(c, q[17]) = Fail
      <4> DEFINE k4 == 4
      <4>1. txs = Clip(c, q[16])
        BY <3>3, <3>5
      <4>2. k4 \in Short /\ k4 \in Nat /\ k4 = 4 /\ k4 < 128
        BY InShort
      <4> HIDE DEF k4
      <4>3. \E r : Piece(d, q[16], r, Varint(k4))
        <5>1. s \in Seq(ByteSeq) /\ Len(s) = 10
          BY <1>1, ProtocolTxPartsType DEF s
        <5>2. s[1] = Varint(k4)
          BY <4>2 DEF s, ProtocolTxParts
        <5>3. At(d, q[16], FlattenSeq(s)) /\ Len(d) \in Nat
          BY <3>2, PrefixBytes DEF Piece
        <5>4. PICK p : Laid(p, d, q[16], s)
          BY <5>1, <5>3, Layout
        <5>5. 1 \in 1..Len(s) /\ 2 = 1 + 1
          BY <5>1
        <5>6. p[1] = q[16]
          BY <5>4 DEF Laid
        <5>7. Piece(d, p[1], p[2], Varint(k4))
          BY <5>2, <5>4, <5>5, PieceAt
        <5>8. QED
          BY <5>6, <5>7
      <4>4. PICK r : Piece(d, q[16], r, Varint(k4))
        BY <4>3
      <4>5. r = q[16] + 1 /\ r \in Nat \ {0} /\ q[16] \in Nat
        <5>1. Len(Varint(k4)) = 1
          BY <4>2, VarintBytes
        <5>2. QED
          BY <4>4, <5>1 DEF Piece
      <4>6. /\ AfterVarint(c, txs) = Clip(c, r)
            /\ VarintAt(c, txs) = IF Clip(c, r) # Fail THEN k4 ELSE 0
        BY <4>1, <4>2, <4>4, VarintPart
      <4>7. Clip(c, e) = Fail
        <5>1. /\ Clip(c, q[17]) = Fail => Clip(c, q[18]) = Fail
              /\ Clip(c, q[18]) = Fail => Clip(c, q[19]) = Fail
          BY <1>2, ClipPart
        <5>2. QED
          BY <1>2, <3>5, <5>1
      <4>8. CASE Clip(c, r) = Fail
        <5>1. end = Fail
          BY <4>6, <4>8, AfterFail
        <5>2. QED
          BY <2>1, <4>7, <5>1
      <4>9. CASE Clip(c, r) # Fail
        <5> DEFINE m == 4 * HashSize
        <5>1. VarintAt(c, txs) * HashSize = m /\ m \in Nat
          BY <1>4, <4>2, <4>6, <4>9
        <5> HIDE DEF m
        <5>2. end = Clip(c, r + m)
          <6>1. end = After(c, Clip(c, r), m)
            BY <4>6, <5>1
          <6>2. After(c, Clip(c, r), m) = Clip(c, r + m)
            BY <1>4, <4>5, <5>1, AfterClip
          <6>3. QED
            BY <6>1, <6>2
        <5>3. r + m \in Nat \ {0}
          BY <4>5, <5>1
        <5> HIDE DEF end
        <5>4. end = Fail \/ end = r + m
          BY <1>4, <5>2, <5>3, ClipNat
        <5>5. q[17] - 1 > Len(c) /\ q[17] = q[16] + Len(ProtocolBytes(b)) /\ q[17] \in Nat
          <6>1. q[17] \in Nat \ {0} /\ q[17] = q[16] + Len(ProtocolBytes(b))
            BY <1>2 DEF Piece
          <6>2. ~(q[17] - 1 <= Len(c))
            BY <1>4, <3>5, <6>1, ClipNat
          <6>3. QED
            BY <1>4, <6>1, <6>2
        <5>6. Len(ProtocolBytes(b)) \in Nat
          BY <1>1, ProtocolBytesType, LenProperties DEF ByteSeq
        <5>7. end = r + m => Len(c) - end + 3 + m <= Len(ProtocolBytes(b))
          <6>1. q[17] \in Nat /\ q[16] \in Nat /\ Len(c) \in Nat /\ m \in Nat
            BY <1>4, <4>5, <5>1, <5>5
          <6>2. Len(c) + 2 <= q[16] + Len(ProtocolBytes(b))
            BY <5>5, <5>6, <6>1
          <6>3. r + m = q[16] + 1 + m
            BY <4>5
          <6>4. r + m \in Int /\ Len(c) - (r + m) + 3 + m = Len(c) - q[16] + 2
            BY <6>1, <6>3
          <6>5. Len(c) - q[16] + 2 <= Len(ProtocolBytes(b))
            BY <5>6, <6>1, <6>2
          <6>6. QED
            BY <6>4, <6>5
        <5>8. QED
          BY <2>1, <4>7, <5>3, <5>4, <5>7 DEF m
      <4>10. QED
        BY <4>8, <4>9
    <3>6. QED
      BY <3>4, <3>5
  <2>8. QED
    BY <1>1, <2>6, <2>7
<1>8. QED
  BY <1>6, <1>7

(* Nothing is cut off from a whole block.                                  *)
LEMMA WholePiece ==
  ASSUME NEW d \in ByteSeq, NEW a, NEW b, NEW x, Piece(d, a, b, x)
  PROVE  Clip(d, a) = a /\ Clip(d, b) = b /\ a # Fail /\ b # Fail /\ b - 1 <= Len(d)
         /\ a \in Nat /\ b \in Nat /\ a <= b
<1>1. /\ Len(d) \in Nat /\ Len(x) \in Nat /\ a \in Nat \ {0} /\ b = a + Len(x)
      /\ a + Len(x) - 1 <= Len(d)
  BY LenProperties DEF ByteSeq, Piece, At
<1>2. b - 1 <= Len(d) /\ a - 1 <= Len(d) /\ b \in Nat \ {0} /\ a <= b
  BY <1>1
<1>3. QED
  BY <1>1, <1>2 DEF Clip, Fail

(* A byte of a whole block.                                                *)
LEMMA WholeByte ==
  ASSUME NEW d, NEW a, NEW b, NEW v, Piece(d, a, b, <<v>>)
  PROVE  d[a] = v
<1>1. At(d, a, <<v>>) /\ a \in Nat
  BY DEF Piece
<1>2. Len(<<v>>) = 1 /\ <<v>>[1] = v /\ 1 \in 1..1 /\ a + 1 - 1 = a
  BY <1>1
<1>3. QED
  BY <1>1, <1>2 DEF At

(* A varint of a whole block.                                              *)
LEMMA WholeVarint ==
  ASSUME NEW d \in ByteSeq, NEW a, NEW b, NEW v \in Short, Piece(d, a, b, Varint(v))
  PROVE  VarintAt(d, a) = v
<1>1. Clip(d, a) = a /\ Clip(d, b) # Fail
  BY WholePiece
<1>2. VarintAt(d, Clip(d, a)) = IF Clip(d, b) # Fail THEN v ELSE 0
  BY WholePrefix, VarintPart
<1>3. QED
  BY <1>1, <1>2

(* A hash of a whole block.                                                *)
LEMMA WholeHash ==
  ASSUME NEW d \in ByteSeq, NEW a, NEW b, NEW n \in Nat, Piece(d, a, b, H(n))
  PROVE  Hash(d, a) = H(n)
BY WholePrefix, HashPart

(* The fields of the main chain data of a whole block.                     *)
LEMMA MainchainFields ==
  ASSUME NEW b \in ShortBlock, NEW d \in ByteSeq, NEW q, NEW e, MainLaid(q, d, e, b)
  PROVE  Mainchain(d).end = e /\ Mainchain(d).fields = MainchainShare(b)
<1> DEFINE prevId   == AfterVarint(d, 3)
           nonce    == After(d, prevId, HashSize)
           unlock   == ByteIs(d, After(d, nonce, WordSize), 4)
           height   == ByteIs(d, ByteIs(d, AfterVarint(d, unlock), 1), Gen)
           w        == Fixed(6, WordSize)
           n3       == 3
<1>1. PrefixOf(d, d) /\ Len(d) \in Nat
  BY WholePrefix, PrefixBytes
<1>2. /\ q[1] = 1 /\ q[19] = e
      /\ Piece(d, q[1], q[2], <<b.major>>) /\ Piece(d, q[2], q[3], <<0>>)
      /\ Piece(d, q[3], q[4], Varint(b.timestamp)) /\ Piece(d, q[4], q[5], H(n3))
      /\ Piece(d, q[5], q[6], w)
      /\ Piece(d, q[10], q[11], Varint(b.height))
      /\ Piece(d, q[18], q[19], Hs(b.txs)) /\ Piece(d, q[16], q[17], ProtocolBytes(b))
  BY DEF MainLaid
<1>3. b.timestamp \in Short /\ b.height \in Short
  BY BlockFields DEF ShortBlock
<1>4. Clip(d, e) = e /\ e # Fail /\ Clip(d, q[16]) # Fail
  BY <1>2, WholePiece
<1>5. Mainchain(d).end = e
  BY <1>1, <1>4, MainchainEnd
<1>6. Len(d) >= 2
  <2>1. Len(d) >= HashSize + 8 /\ HashSize \in Nat
    BY <1>1, <1>4, MainchainLong, SizesAssumption
  <2>2. QED
    BY <1>1, <2>1
<1>7. prevId = q[4] /\ nonce = q[5] /\ height = q[10]
  <2>1. prevId = Clip(d, q[4]) /\ nonce = Clip(d, q[5]) /\ height = Clip(d, q[10])
    BY <1>1, <1>6, MainchainHead
  <2>2. QED
    BY <1>2, <2>1, WholePiece
<1>8. d[1] = b.major /\ d[2] = 0 /\ q[2] = 2 /\ q[3] = 3
  <2>1. q[2] = q[1] + 1 /\ q[3] = q[2] + 1
    <3>1. Len(<<b.major>>) = 1 /\ Len(<<0>>) = 1
      OBVIOUS
    <3>2. QED
      BY <1>2, <3>1 DEF Piece
  <2>2. q[2] = 2 /\ q[3] = 3
    BY <1>2, <2>1
  <2>3. d[q[1]] = b.major /\ d[q[2]] = 0
    BY <1>2, WholeByte
  <2>4. QED
    BY <1>2, <2>2, <2>3
<1>9. VarintAt(d, 3) = b.timestamp /\ VarintAt(d, q[10]) = b.height
  <2>1. /\ VarintAt(d, Clip(d, q[3])) = b.timestamp
        /\ VarintAt(d, Clip(d, q[10])) = b.height
    <3>1. Clip(d, q[4]) # Fail /\ Clip(d, q[11]) # Fail
      BY <1>2, WholePiece
    <3>2. QED
      BY <1>1, <1>2, <1>3, <3>1, VarintPart
  <2>2. Clip(d, q[3]) = q[3] /\ Clip(d, q[10]) = q[10]
    BY <1>2, WholePiece
  <2>3. QED
    BY <1>8, <2>1, <2>2
<1>10. Hash(d, q[4]) = H(3)
  <2>1. n3 \in Nat
    OBVIOUS
  <2> HIDE DEF n3
  <2>2. Hash(d, q[4]) = H(n3)
    BY <1>1, <1>2, <2>1, HashPart
  <2>3. QED
    BY <2>2 DEF n3
<1>11. Word(d, q[5]) = Fixed(6, WordSize)
  <2>1. 6 \in Nat /\ WordSize \in Nat
    BY DEF WordSize
  <2>2. Len(w) = WordSize
    BY <2>1, FixedBytes
  <2>3. At(d, q[5], w)
    BY <1>2 DEF Piece
  <2> HIDE DEF w
  <2>4. Bytes(d, q[5], WordSize) = w
    BY <2>2, <2>3, BytesAt
  <2>5. QED
    BY <2>4 DEF Word, w
<1>12. Mainchain(d).fields =
         [MajorVersion |-> d[1], MinorVersion |-> d[2],
          Timestamp |-> VarintAt(d, 3), PrevId |-> Hash(d, prevId),
          Nonce |-> Word(d, nonce),
          MainchainHeight |-> VarintAt(d, height)]
  BY DEF Mainchain
<1> HIDE DEF prevId, nonce, unlock, height
<1>13. Mainchain(d).fields = MainchainShare(b)
  BY <1>7, <1>8, <1>9, <1>10, <1>11, <1>12 DEF MainchainShare
<1>14. QED
  BY <1>5, <1>13

-----------------------------------------------------------------------------
(***************************************************************************)
(* The data of the side chain.                                             *)
(***************************************************************************)
(* The merge mined chains, as bytes.                                       *)
ChainSeq(x) == [i \in DOMAIN x |-> MergeMiningBytes(x[i])]

(* They are one sequence of bytes each.                                    *)
LEMMA ChainSeqBytes ==
  ASSUME NEW x \in Seq(Nat \X Short)
  PROVE  /\ ChainSeq(x) \in Seq(ByteSeq) /\ Len(ChainSeq(x)) = Len(x)
         /\ \A i \in 1..Len(x) : /\ ChainSeq(x)[i] = MergeMiningBytes(x[i])
                                 /\ x[i] \in Nat \X Short
<1> DEFINE f == ChainSeq(x)
           n == Len(x)
<1>1. n \in Nat /\ DOMAIN x = 1..n /\ \A i \in 1..n : x[i] \in Nat \X Short
  BY LenProperties, ElementOfSeq
<1>2. f = [i \in 1..n |-> f[i]] /\ \A i \in 1..n : f[i] = MergeMiningBytes(x[i])
  BY <1>1 DEF ChainSeq
<1>3. \A i \in 1..n : f[i] \in ByteSeq
  BY <1>1, <1>2, MergeMiningBytesType
<1> HIDE DEF f, n
<1>4. f \in Seq(ByteSeq) /\ Len(f) = n
  BY <1>1, <1>2, <1>3, PartsOf
<1>5. QED
  BY <1>1, <1>2, <1>4 DEF f, n

(* Where they stand in d from a to before b, and how they are read of c.   *)
ChainsAt(q, c, d, a, b, x) ==
  /\ q[1] = a /\ q[Len(x) + 1] = b
  /\ \A i \in 1..Len(x) : Piece(d, q[i], q[i + 1], MergeMiningBytes(x[i]))
  /\ \A i \in 0..Len(x) : MergeMinings(c, Clip(c, a), Len(x))[i] = Clip(c, q[i + 1])

(* All of them are read.                                                   *)
LEMMA MergeMiningsClip ==
  ASSUME NEW c, NEW d, PrefixOf(c, d), NEW a, NEW b, NEW x \in Seq(Nat \X Short),
         Piece(d, a, b, FlattenSeq(ChainSeq(x)))
  PROVE  \E q : ChainsAt(q, c, d, a, b, x)
<1> DEFINE s == ChainSeq(x)
           n == Len(x)
<1>1. /\ s \in Seq(ByteSeq) /\ Len(s) = n /\ Len(d) \in Nat /\ n \in Nat
      /\ \A i \in 1..n : s[i] = MergeMiningBytes(x[i]) /\ x[i] \in Nat \X Short
  BY ChainSeqBytes, PrefixBytes, LenProperties
<1>2. At(d, a, FlattenSeq(s)) /\ b = a + Len(FlattenSeq(s))
  BY DEF Piece
<1> HIDE DEF s, n
<1>3. PICK q : Laid(q, d, a, s)
  BY <1>1, <1>2, Layout
<1>4. q[1] = a /\ q[n + 1] = b
  BY <1>1, <1>2, <1>3 DEF Laid
<1>5. \A i \in 1..n : Piece(d, q[i], q[i + 1], MergeMiningBytes(x[i]))
  BY <1>1, <1>3, PieceAt
<1> DEFINE t == [i \in 0..n |-> Clip(c, q[i + 1])]
<1>6. t[0] = Clip(c, a) /\ \A i \in 0..n : t[i] = Clip(c, q[i + 1])
  BY <1>1, <1>4
<1>7. ASSUME NEW i \in 1..n PROVE MergeMining(c, t[i - 1]) = t[i]
  <2>1. i - 1 \in 0..n /\ i \in 0..n /\ (i - 1) + 1 = i
    BY <1>1
  <2>2. t[i - 1] = Clip(c, q[i]) /\ t[i] = Clip(c, q[i + 1])
    BY <2>1
  <2>3. MergeMining(c, Clip(c, q[i])) = Clip(c, q[i + 1])
    BY <1>1, <1>5, MergeMiningClip
  <2>4. QED
    BY <2>2, <2>3
<1> HIDE DEF t
<1>8. \A i \in 0..n : MergeMinings(c, Clip(c, a), n)[i] = t[i]
  BY <1>1, <1>6, <1>7, MergeMiningPositions
<1>9. ChainsAt(q, c, d, a, b, x)
  BY <1>4, <1>5, <1>6, <1>8 DEF ChainsAt, n
<1>10. QED
  BY <1>9

(* What the parser takes from one of them.                                 *)
LEMMA MergeMiningRead ==
  ASSUME NEW d \in ByteSeq, NEW a, NEW b, NEW x \in Nat \X Short,
         Piece(d, a, b, MergeMiningBytes(x))
  PROVE  Hash(d, a) = H(x[1]) /\ MergeMiningData(d, a) = Fixed(1, x[2])
<1> DEFINE s == Fixed(1, x[2])
           v == Len(s)
<1>1. /\ x[1] \in Nat /\ x[2] \in Short /\ s \in ByteSeq /\ v = x[2]
      /\ H(x[1]) \in ByteSeq /\ Blob(s) \in ByteSeq
      /\ MergeMiningBytes(x) = H(x[1]) \o Blob(s)
  BY MergeMiningBytesType
<1>2. v \in Short
  BY <1>1
<1>3. Varint(v) \in ByteSeq /\ Blob(s) = Varint(v) \o s
  BY <1>2, VarintBytes DEF Blob
<1> HIDE DEF s, v
<1>4. PrefixOf(d, d)
  BY WholePrefix
<1>5. PICK m : Piece(d, a, m, H(x[1])) /\ Piece(d, m, b, Blob(s))
  BY <1>1, TwoPieces
<1>6. PICK k : Piece(d, m, k, Varint(v)) /\ Piece(d, k, b, s)
  BY <1>1, <1>3, <1>5, TwoPieces
<1>7. Clip(d, a) = a /\ Clip(d, m) = m /\ Clip(d, k) = k /\ k # Fail
  BY <1>5, <1>6, WholePiece
<1>8. Hash(d, a) = H(x[1]) /\ After(d, a, HashSize) = m
  BY <1>1, <1>4, <1>5, <1>7, HashPart
<1>9. AfterVarint(d, m) = k /\ VarintAt(d, m) = v
  BY <1>2, <1>4, <1>6, <1>7, VarintPart
<1>10. Bytes(d, k, Len(s)) = s
  BY <1>6, BytesAt DEF Piece
<1>11. MergeMiningData(d, a) = s
  BY <1>8, <1>9, <1>10 DEF MergeMiningData, v
<1>12. QED
  BY <1>8, <1>11 DEF s

(* The words of the last field.                                            *)
WordSeq == [i \in 1..4 |-> Fixed(i, WordSize)]

(* They are four sequences of bytes.                                       *)
LEMMA WordSeqBytes ==
  /\ WordSeq \in Seq(ByteSeq) /\ Len(WordSeq) = 4
  /\ \A i \in 1..4 : WordSeq[i] = Fixed(i, WordSize) /\ Len(WordSeq[i]) = WordSize
  /\ FlattenSeq(WordSeq) \in ByteSeq /\ WordSize \in Nat
<1> DEFINE f == WordSeq
<1>1. WordSize \in Nat
  BY DEF WordSize
<1>2. f = [i \in 1..4 |-> f[i]] /\ \A i \in 1..4 : f[i] = Fixed(i, WordSize)
  BY DEF WordSeq
<1>3. \A i \in 1..4 : i \in Nat
  OBVIOUS
<1>4. \A i \in 1..4 : f[i] \in ByteSeq /\ Len(f[i]) = WordSize
  BY <1>1, <1>2, <1>3, FixedBytes
<1> HIDE DEF f
<1>5. 4 \in Nat
  OBVIOUS
<1>6. f \in Seq(ByteSeq) /\ Len(f) = 4
  BY <1>2, <1>4, <1>5, PartsOf
<1>7. FlattenSeq(f) \in ByteSeq
  BY <1>6, FlattenBytes
<1>8. QED
  BY <1>1, <1>2, <1>4, <1>6, <1>7 DEF f

(* They are read one after the other.                                      *)
LEMMA WordsPart ==
  ASSUME NEW c, NEW d, PrefixOf(c, d), NEW a, NEW b, Piece(d, a, b, FlattenSeq(WordSeq))
  PROVE  /\ AfterExtraBuf(c, Clip(c, a)) = Clip(c, b)
         /\ \A i \in 1..4 : Word(d, a + (i - 1) * WordSize) = Fixed(i, WordSize)
<1> DEFINE s == WordSeq
<1>1. /\ s \in Seq(ByteSeq) /\ Len(s) = 4 /\ Len(d) \in Nat /\ d \in ByteSeq
      /\ \A i \in 1..4 : s[i] = Fixed(i, WordSize) /\ Len(s[i]) = WordSize
  BY WordSeqBytes, PrefixBytes
<1>2. At(d, a, FlattenSeq(s)) /\ b = a + Len(FlattenSeq(s)) /\ a \in Nat \ {0}
  BY DEF Piece
<1> HIDE DEF s
<1>3. PICK q : Laid(q, d, a, s)
  BY <1>1, <1>2, Layout
<1>4. q[1] = a /\ q[5] = b
  <2>1. q[1] = a /\ q[Len(s) + 1] = b
    BY <1>2, <1>3 DEF Laid
  <2>2. QED
    BY <1>1, <2>1
<1>5. \A i \in 1..4 : Piece(d, q[i], q[i + 1], s[i])
  BY <1>1, <1>3, Pieces
<1>6. WordSize \in Nat
  BY WordSeqBytes
<1>7. \A i \in 1..4 : q[i + 1] = q[i] + WordSize /\ At(d, q[i], s[i])
  BY <1>1, <1>5 DEF Piece
<1>8. /\ q[2] = a + WordSize /\ q[3] = a + 2 * WordSize /\ q[4] = a + 3 * WordSize
      /\ b = a + 4 * WordSize
  <2>1. /\ q[2] = q[1] + WordSize /\ q[3] = q[2] + WordSize /\ q[4] = q[3] + WordSize
        /\ q[5] = q[4] + WordSize
    BY <1>7
  <2>2. QED
    BY <1>2, <1>4, <1>6, <2>1
<1>9. \A i \in 1..4 : q[i] = a + (i - 1) * WordSize
  <2>1. ASSUME NEW i \in 1..4 PROVE q[i] = a + (i - 1) * WordSize
    <3>1. CASE i = 1
      BY <1>2, <1>4, <1>6, <3>1
    <3>2. CASE i = 2
      BY <1>2, <1>6, <1>8, <3>2
    <3>3. CASE i = 3
      BY <1>2, <1>6, <1>8, <3>3
    <3>4. CASE i = 4
      BY <1>2, <1>6, <1>8, <3>4
    <3>5. QED
      BY <3>1, <3>2, <3>3, <3>4
  <2>2. QED
    BY <2>1
<1>10. \A i \in 1..4 : Word(d, q[i]) = Fixed(i, WordSize)
  BY <1>1, <1>7, BytesAt DEF Word
<1>11. AfterExtraBuf(c, Clip(c, a)) = Clip(c, b)
  <2>1. 4 * WordSize \in Nat /\ Len(c) \in Nat
    BY <1>6, PrefixBytes
  <2>2. QED
    BY <1>2, <1>8, <2>1, AfterClip DEF AfterExtraBuf
<1>12. QED
  BY <1>9, <1>10, <1>11

(* The positions of the height and of the words of the difficulties.       *)
IsNumbers(f, c, o) ==
  f = [i \in 0..5 |-> IF i = 0 THEN o ELSE AfterVarint(c, f[i - 1])]

(* Each follows the one before it.                                         *)
LEMMA NumberPositions ==
  ASSUME NEW c, NEW o
  PROVE  LET f == Numbers(c, o)
         IN  /\ f[0] = o /\ f[1] = AfterVarint(c, f[0]) /\ f[2] = AfterVarint(c, f[1])
             /\ f[3] = AfterVarint(c, f[2]) /\ f[4] = AfterVarint(c, f[3])
             /\ f[5] = AfterVarint(c, f[4])
<1> DEFINE f  == CHOOSE e : IsNumbers(e, c, o)
           t1 == AfterVarint(c, o)
           t2 == AfterVarint(c, t1)
           t3 == AfterVarint(c, t2)
           t4 == AfterVarint(c, t3)
           t5 == AfterVarint(c, t4)
           u == [i \in 0..5 |-> CASE i = 0 -> o [] i = 1 -> t1 [] i = 2 -> t2
                                  [] i = 3 -> t3 [] i = 4 -> t4 [] i = 5 -> t5]
<1>1. Numbers(c, o) = f
  BY DEF Numbers, Positions, IsNumbers
<1> HIDE DEF t1, t2, t3, t4, t5
<1>2. u[0] = o /\ u[1] = t1 /\ u[2] = t2 /\ u[3] = t3 /\ u[4] = t4 /\ u[5] = t5
  OBVIOUS
<1> USE DEF t1, t2, t3, t4, t5
<1>3. /\ u[0] = o /\ u[1] = AfterVarint(c, u[0]) /\ u[2] = AfterVarint(c, u[1])
      /\ u[3] = AfterVarint(c, u[2]) /\ u[4] = AfterVarint(c, u[3])
      /\ u[5] = AfterVarint(c, u[4])
  BY <1>2
<1>4. u = [i \in 0..5 |-> u[i]]
  OBVIOUS
<1> HIDE DEF u
<1>5. IsNumbers(u, c, o)
  <2>1. ASSUME NEW i \in 0..5
        PROVE  u[i] = IF i = 0 THEN o ELSE AfterVarint(c, u[i - 1])
    <3>1. i = 0 \/ i = 1 \/ i = 2 \/ i = 3 \/ i = 4 \/ i = 5
      OBVIOUS
    <3>2. 1 - 1 = 0 /\ 2 - 1 = 1 /\ 3 - 1 = 2 /\ 4 - 1 = 3 /\ 5 - 1 = 4
      OBVIOUS
    <3>3. QED
      BY <1>3, <3>1, <3>2
  <2>2. QED
    BY <1>4, <2>1 DEF IsNumbers
<1>6. IsNumbers(f, c, o)
  BY <1>5
<1> HIDE DEF f
<1>7. \A i \in 0..5 : f[i] = IF i = 0 THEN o ELSE AfterVarint(c, f[i - 1])
  BY <1>6 DEF IsNumbers
<1>8. /\ f[0] = o /\ f[1] = AfterVarint(c, f[0]) /\ f[2] = AfterVarint(c, f[1])
      /\ f[3] = AfterVarint(c, f[2]) /\ f[4] = AfterVarint(c, f[3])
      /\ f[5] = AfterVarint(c, f[4])
  BY <1>7
<1>9. QED
  BY <1>1, <1>8

(* The parts of a block's side chain data.                                 *)
SidechainParts(b) ==
  <<H(b.wallet), H(b.wallet + 1), H(2), H(b.parent),
    Varint(Len(b.uncles)), Hs(b.uncles), Varint(b.sideHeight),
    Varint(b.difficulty[1]), Varint(b.difficulty[2]),
    Varint(b.cumulative[1]), Varint(b.cumulative[2]),
    <<Len(b.proof)>>, Hs(b.proof), Varint(Len(b.chains)),
    FlattenSeq(ChainSeq(b.chains)), FlattenSeq(WordSeq)>>

(* The number of uncles has a varint of one byte.                          *)
LEMMA FewUncles == \A n \in Nat : n <= MaxUncles => n \in Short
<1> SUFFICES ASSUME NEW n \in Nat, n <= MaxUncles PROVE n \in Short
  OBVIOUS
<1>1. n <= 16383
  BY DEF MaxUncles
<1>2. QED
  BY <1>1, InShort

(* The types of what they are made of.                                     *)
LEMMA SidechainTypes ==
  ASSUME NEW b \in ShortBlock
  PROVE  /\ b \in Block
         /\ b.wallet \in Nat /\ b.wallet + 1 \in Nat /\ b.parent \in Nat
         /\ b.uncles \in Seq(Nat) /\ Len(b.uncles) \in Short /\ Len(b.uncles) \in Nat
         /\ Len(b.uncles) <= MaxUncles
         /\ b.sideHeight \in Short
         /\ b.difficulty[1] \in Short /\ b.difficulty[2] \in Short
         /\ b.cumulative[1] \in Short /\ b.cumulative[2] \in Short
         /\ b.difficulty = <<b.difficulty[1], b.difficulty[2]>>
         /\ b.cumulative = <<b.cumulative[1], b.cumulative[2]>>
         /\ b.proof \in Seq(Nat) /\ Len(b.proof) \in Nat /\ Len(b.proof) < 256
         /\ b.chains \in Seq(Nat \X Short) /\ Len(b.chains) \in Short /\ Len(b.chains) \in Nat
<1>1. b \in Block /\ Len(b.uncles) <= MaxUncles /\ Len(b.chains) \in Short /\ Len(b.proof) < 256
  BY DEF ShortBlock
<1>2. /\ b.wallet \in Nat /\ b.parent \in Nat /\ b.uncles \in Seq(Nat)
      /\ b.sideHeight \in Short /\ b.difficulty \in Short \X Short
      /\ b.cumulative \in Short \X Short
      /\ b.proof \in Seq(Nat) /\ b.chains \in Seq(Nat \X Short)
  BY <1>1, BlockFields
<1>3. Len(b.uncles) \in Nat /\ Len(b.proof) \in Nat /\ Len(b.chains) \in Nat
  BY <1>2, LenProperties
<1>4. Len(b.uncles) \in Short
  BY <1>1, <1>3, FewUncles
<1>5. \A p \in Short \X Short : p[1] \in Short /\ p[2] \in Short /\ p = <<p[1], p[2]>>
  OBVIOUS
<1>6. b.wallet + 1 \in Nat
  BY <1>2
<1>7. QED
  BY <1>1, <1>2, <1>3, <1>4, <1>5, <1>6

(* What the parts are.                                                     *)
LEMMA SidechainPartsType ==
  ASSUME NEW b \in ShortBlock
  PROVE  /\ SidechainParts(b) \in Seq(ByteSeq) /\ Len(SidechainParts(b)) = 16
         /\ SidechainBytes(b) = FlattenSeq(SidechainParts(b)) /\ SidechainBytes(b) \in ByteSeq
<1> DEFINE p1 == H(b.wallet)
           p2 == H(b.wallet + 1)
           p3 == H(2)
           p4 == H(b.parent)
           p5 == Varint(Len(b.uncles))
           p6 == Hs(b.uncles)
           p7 == Varint(b.sideHeight)
           p8 == Varint(b.difficulty[1])
           p9 == Varint(b.difficulty[2])
           p10 == Varint(b.cumulative[1])
           p11 == Varint(b.cumulative[2])
           p12 == <<Len(b.proof)>>
           p13 == Hs(b.proof)
           p14 == Varint(Len(b.chains))
           p15 == FlattenSeq(ChainSeq(b.chains))
           p16 == FlattenSeq(WordSeq)
<1>1. p1 \in ByteSeq /\ p2 \in ByteSeq /\ p3 \in ByteSeq /\ p4 \in ByteSeq
  <2>1. 2 \in Nat
    OBVIOUS
  <2>2. QED
    BY <2>1, SidechainTypes, HashBytes
<1>2. /\ p5 \in ByteSeq /\ p7 \in ByteSeq /\ p8 \in ByteSeq /\ p9 \in ByteSeq
      /\ p10 \in ByteSeq /\ p11 \in ByteSeq /\ p14 \in ByteSeq
  BY SidechainTypes, VarintBytes
<1>3. p6 \in ByteSeq /\ p13 \in ByteSeq
  BY SidechainTypes, HashSeqBytes
<1>4. p12 \in ByteSeq
  BY SidechainTypes DEF ByteSeq
<1>5. p15 \in ByteSeq
  BY SidechainTypes, ChainSeqBytes, FlattenBytes
<1>6. p16 \in ByteSeq
  BY WordSeqBytes
<1>7. SidechainParts(b) = <<p1, p2, p3, p4, p5, p6, p7, p8, p9, p10, p11, p12, p13, p14, p15, p16>>
  BY DEF SidechainParts
<1>8. SidechainBytes(b) = FlattenSeq(SidechainParts(b))
  BY DEF SidechainBytes, SidechainParts, ChainSeq, WordSeq
<1> HIDE DEF p1, p2, p3, p4, p5, p6, p7, p8, p9, p10, p11, p12, p13, p14, p15, p16
<1>9. SidechainParts(b) \in Seq(ByteSeq) /\ Len(SidechainParts(b)) = 16
  BY <1>1, <1>2, <1>3, <1>4, <1>5, <1>6, <1>7
<1>10. QED
  BY <1>8, <1>9, FlattenBytes

(* Where they stand in a block.                                            *)
SideLaid(q, d, e, b) ==
  /\ q[1] = 1 /\ q[17] = e
  /\ Piece(d, q[1], q[2], H(b.wallet)) /\ Piece(d, q[2], q[3], H(b.wallet + 1))
  /\ Piece(d, q[3], q[4], H(2)) /\ Piece(d, q[4], q[5], H(b.parent))
  /\ Piece(d, q[5], q[6], Varint(Len(b.uncles))) /\ Piece(d, q[6], q[7], Hs(b.uncles))
  /\ Piece(d, q[7], q[8], Varint(b.sideHeight))
  /\ Piece(d, q[8], q[9], Varint(b.difficulty[1]))
  /\ Piece(d, q[9], q[10], Varint(b.difficulty[2]))
  /\ Piece(d, q[10], q[11], Varint(b.cumulative[1]))
  /\ Piece(d, q[11], q[12], Varint(b.cumulative[2]))
  /\ Piece(d, q[12], q[13], <<Len(b.proof)>>) /\ Piece(d, q[13], q[14], Hs(b.proof))
  /\ Piece(d, q[14], q[15], Varint(Len(b.chains)))
  /\ Piece(d, q[15], q[16], FlattenSeq(ChainSeq(b.chains)))
  /\ Piece(d, q[16], q[17], FlattenSeq(WordSeq))

(* They have places.                                                       *)
LEMMA SidechainLayout ==
  ASSUME NEW b \in ShortBlock, NEW d, Len(d) \in Nat, NEW e, Piece(d, 1, e, SidechainBytes(b))
  PROVE  \E q : SideLaid(q, d, e, b)
<1> DEFINE s == SidechainParts(b)
           n == 16
<1>1. s \in Seq(ByteSeq) /\ Len(s) = n /\ FlattenSeq(s) = SidechainBytes(b) /\ n + 1 = 17
  BY SidechainPartsType
<1>2. At(d, 1, FlattenSeq(s)) /\ e = 1 + Len(FlattenSeq(s))
  BY <1>1 DEF Piece
<1>3. /\ s[1] = H(b.wallet) /\ s[2] = H(b.wallet + 1) /\ s[3] = H(2) /\ s[4] = H(b.parent)
      /\ s[5] = Varint(Len(b.uncles)) /\ s[6] = Hs(b.uncles) /\ s[7] = Varint(b.sideHeight)
      /\ s[8] = Varint(b.difficulty[1]) /\ s[9] = Varint(b.difficulty[2])
      /\ s[10] = Varint(b.cumulative[1]) /\ s[11] = Varint(b.cumulative[2])
      /\ s[12] = <<Len(b.proof)>> /\ s[13] = Hs(b.proof) /\ s[14] = Varint(Len(b.chains))
      /\ s[15] = FlattenSeq(ChainSeq(b.chains)) /\ s[16] = FlattenSeq(WordSeq)
  BY DEF SidechainParts
<1> HIDE DEF s, n
<1>4. PICK q : Laid(q, d, 1, s)
  BY <1>1, <1>2, Layout
<1>5. q[1] = 1 /\ q[17] = e
  <2>1. q[1] = 1 /\ q[Len(s) + 1] = e
    BY <1>2, <1>4 DEF Laid
  <2>2. QED
    BY <1>1, <2>1
<1>6. \A i \in 1..n : Piece(d, q[i], q[i + 1], s[i])
  BY <1>1, <1>4, Pieces
<1>7. /\ Piece(d, q[1], q[2], s[1]) /\ Piece(d, q[2], q[3], s[2])
      /\ Piece(d, q[3], q[4], s[3]) /\ Piece(d, q[4], q[5], s[4])
      /\ Piece(d, q[5], q[6], s[5]) /\ Piece(d, q[6], q[7], s[6])
      /\ Piece(d, q[7], q[8], s[7]) /\ Piece(d, q[8], q[9], s[8])
  BY <1>6 DEF n
<1>8. /\ Piece(d, q[9], q[10], s[9])
      /\ Piece(d, q[10], q[11], s[10]) /\ Piece(d, q[11], q[12], s[11])
      /\ Piece(d, q[12], q[13], s[12]) /\ Piece(d, q[13], q[14], s[13])
      /\ Piece(d, q[14], q[15], s[14]) /\ Piece(d, q[15], q[16], s[15])
      /\ Piece(d, q[16], q[17], s[16])
  BY <1>6 DEF n
<1>9. SideLaid(q, d, e, b)
  BY <1>3, <1>5, <1>7, <1>8 DEF SideLaid
<1>10. QED
  BY <1>9

(* The data of the side chain is read.                                     *)
LEMMA SidechainClip ==
  ASSUME NEW b \in ShortBlock, NEW c, NEW d, PrefixOf(c, d), NEW q, NEW e, SideLaid(q, d, e, b),
         Len(c) >= 4 * HashSize
  PROVE  LET uncles   == 1 + 4 * HashSize
             nUncles  == VarintAt(c, uncles)
             height   == IF nUncles > MaxUncles THEN Fail
                         ELSE After(c, AfterVarint(c, uncles), nUncles * HashSize)
             numbers  == Numbers(c, height)
             nProof   == ByteAt(c, numbers[5])
             proof    == After(c, numbers[5], 1)
             mm       == After(c, proof, nProof * HashSize)
             nMM      == VarintAt(c, mm)
             chains   == MergeMinings(c, AfterVarint(c, mm), nMM)
         IN  /\ q[5] = uncles /\ AfterVarint(c, uncles) = Clip(c, q[6])
             /\ nUncles = IF Clip(c, q[6]) # Fail THEN Len(b.uncles) ELSE 0
             /\ height = Clip(c, q[7])
             /\ numbers[1] = Clip(c, q[8]) /\ numbers[2] = Clip(c, q[9])
             /\ numbers[3] = Clip(c, q[10]) /\ numbers[4] = Clip(c, q[11])
             /\ numbers[5] = Clip(c, q[12])
             /\ nProof = (IF Clip(c, q[13]) # Fail THEN Len(b.proof) ELSE 0)
             /\ proof = Clip(c, q[13]) /\ mm = Clip(c, q[14])
             /\ AfterVarint(c, mm) = Clip(c, q[15])
             /\ nMM = (IF Clip(c, q[15]) # Fail THEN Len(b.chains) ELSE 0)
             /\ chains[nMM] = Clip(c, q[16])
             /\ AfterExtraBuf(c, chains[nMM]) = Clip(c, e)
<1> DEFINE uncles   == 1 + 4 * HashSize
           nUncles  == VarintAt(c, uncles)
           height   == IF nUncles > MaxUncles THEN Fail
                       ELSE After(c, AfterVarint(c, uncles), nUncles * HashSize)
           numbers  == Numbers(c, height)
           nProof   == ByteAt(c, numbers[5])
           proof    == After(c, numbers[5], 1)
           mm       == After(c, proof, nProof * HashSize)
           nMM      == VarintAt(c, mm)
           chains   == MergeMinings(c, AfterVarint(c, mm), nMM)
           n        == Len(b.uncles)
           p        == Len(b.proof)
           m        == Len(b.chains)
           n2       == 2
<1>1. /\ q[1] = 1 /\ q[17] = e
      /\ Piece(d, q[1], q[2], H(b.wallet)) /\ Piece(d, q[2], q[3], H(b.wallet + 1))
      /\ Piece(d, q[3], q[4], H(n2)) /\ Piece(d, q[4], q[5], H(b.parent))
      /\ Piece(d, q[5], q[6], Varint(n)) /\ Piece(d, q[6], q[7], Hs(b.uncles))
      /\ Piece(d, q[7], q[8], Varint(b.sideHeight))
      /\ Piece(d, q[8], q[9], Varint(b.difficulty[1]))
      /\ Piece(d, q[9], q[10], Varint(b.difficulty[2]))
      /\ Piece(d, q[10], q[11], Varint(b.cumulative[1]))
      /\ Piece(d, q[11], q[12], Varint(b.cumulative[2]))
      /\ Piece(d, q[12], q[13], <<p>>) /\ Piece(d, q[13], q[14], Hs(b.proof))
      /\ Piece(d, q[14], q[15], Varint(m))
      /\ Piece(d, q[15], q[16], FlattenSeq(ChainSeq(b.chains)))
      /\ Piece(d, q[16], q[17], FlattenSeq(WordSeq))
  BY DEF SideLaid
<1>2. /\ n \in Short /\ n \in Nat /\ n <= MaxUncles /\ p \in Nat /\ m \in Short /\ m \in Nat
      /\ b.wallet \in Nat /\ b.wallet + 1 \in Nat /\ b.parent \in Nat /\ n2 \in Nat
      /\ b.uncles \in Seq(Nat) /\ b.proof \in Seq(Nat) /\ b.chains \in Seq(Nat \X Short)
      /\ b.sideHeight \in Short
      /\ b.difficulty[1] \in Short /\ b.difficulty[2] \in Short
      /\ b.cumulative[1] \in Short /\ b.cumulative[2] \in Short
  BY SidechainTypes
<1> HIDE DEF n, p, m, n2
<1>3. Len(c) \in Nat /\ HashSize \in Nat
  BY PrefixBytes, SizesAssumption
<1>4. q[5] = uncles /\ Clip(c, q[5]) = uncles
  <2>1. /\ Len(H(b.wallet)) = HashSize /\ Len(H(b.wallet + 1)) = HashSize
        /\ Len(H(n2)) = HashSize /\ Len(H(b.parent)) = HashSize
    BY <1>2, HashBytes
  <2>2. /\ q[2] = q[1] + HashSize /\ q[3] = q[2] + HashSize /\ q[4] = q[3] + HashSize
        /\ q[5] = q[4] + HashSize
    BY <1>1, <2>1 DEF Piece
  <2>3. q[5] = uncles
    BY <1>1, <1>3, <2>2
  <2>4. QED
    BY <1>3, <2>3 DEF Clip
<1>5. /\ AfterVarint(c, uncles) = Clip(c, q[6])
      /\ nUncles = IF Clip(c, q[6]) # Fail THEN n ELSE 0
  <2> HIDE DEF uncles
  <2>1. Piece(d, q[5], q[6], Varint(n)) /\ n \in Short
    BY <1>1, <1>2
  <2>2. /\ AfterVarint(c, Clip(c, q[5])) = Clip(c, q[6])
        /\ VarintAt(c, Clip(c, q[5])) = IF Clip(c, q[6]) # Fail THEN n ELSE 0
    BY <2>1, VarintPart
  <2>3. QED
    BY <1>4, <2>2
<1>6. height = Clip(c, q[7])
  <2> HIDE DEF nUncles, uncles
  <2>1. ~(nUncles > MaxUncles)
    <3>1. nUncles = n \/ nUncles = 0
      BY <1>5
    <3>2. QED
      BY <1>2, <3>1 DEF MaxUncles
  <2>2. Clip(c, q[6]) # Fail => nUncles * HashSize = Len(Hs(b.uncles))
    <3>1. Len(Hs(b.uncles)) = n * HashSize
      BY <1>1, <1>2, HashesPart DEF n
    <3>2. QED
      BY <1>5, <3>1
  <2>3. After(c, Clip(c, q[6]), nUncles * HashSize) = Clip(c, q[7])
    BY <1>1, <2>2, CountPart
  <2>4. QED
    BY <1>5, <2>1, <2>3
<1> HIDE DEF uncles, nUncles, height
<1>7. /\ numbers[1] = Clip(c, q[8]) /\ numbers[2] = Clip(c, q[9])
      /\ numbers[3] = Clip(c, q[10]) /\ numbers[4] = Clip(c, q[11])
      /\ numbers[5] = Clip(c, q[12])
  <2>1. /\ numbers[0] = height /\ numbers[1] = AfterVarint(c, numbers[0])
        /\ numbers[2] = AfterVarint(c, numbers[1]) /\ numbers[3] = AfterVarint(c, numbers[2])
        /\ numbers[4] = AfterVarint(c, numbers[3]) /\ numbers[5] = AfterVarint(c, numbers[4])
    BY NumberPositions
  <2> HIDE DEF numbers
  <2>2. /\ AfterVarint(c, Clip(c, q[7])) = Clip(c, q[8])
        /\ AfterVarint(c, Clip(c, q[8])) = Clip(c, q[9])
        /\ AfterVarint(c, Clip(c, q[9])) = Clip(c, q[10])
        /\ AfterVarint(c, Clip(c, q[10])) = Clip(c, q[11])
        /\ AfterVarint(c, Clip(c, q[11])) = Clip(c, q[12])
    BY <1>1, <1>2, VarintPart
  <2>3. QED
    BY <1>6, <2>1, <2>2
<1> HIDE DEF numbers
<1>8. /\ proof = Clip(c, q[13])
      /\ nProof = (IF Clip(c, q[13]) # Fail THEN p ELSE 0)
  <2>1. Piece(d, q[12], q[13], <<p>>) /\ p \in Nat
    BY <1>1, <1>2
  <2>2. /\ After(c, Clip(c, q[12]), 1) = Clip(c, q[13])
        /\ ByteAt(c, Clip(c, q[12])) = IF Clip(c, q[13]) # Fail THEN p ELSE 0
    <3> HIDE DEF p
    <3>1. After(c, Clip(c, q[12]), 1) = Clip(c, q[13])
      BY <2>1, BytePart
    <3>2. ByteAt(c, Clip(c, q[12])) = IF Clip(c, q[13]) # Fail THEN p ELSE 0
      BY <2>1, ByteValue
    <3>3. QED
      BY <3>1, <3>2
  <2>3. QED
    BY <1>7, <2>2
<1> HIDE DEF proof, nProof
<1>9. mm = Clip(c, q[14])
  <2>1. Clip(c, q[13]) # Fail => nProof * HashSize = Len(Hs(b.proof))
    <3>1. Len(Hs(b.proof)) = p * HashSize
      BY <1>1, <1>2, HashesPart DEF p
    <3>2. QED
      BY <1>8, <3>1
  <2>2. After(c, Clip(c, q[13]), nProof * HashSize) = Clip(c, q[14])
    BY <1>1, <2>1, CountPart
  <2>3. QED
    BY <1>8, <2>2
<1> HIDE DEF mm
<1>10. /\ AfterVarint(c, mm) = Clip(c, q[15])
       /\ nMM = (IF Clip(c, q[15]) # Fail THEN m ELSE 0)
  <2>1. Piece(d, q[14], q[15], Varint(m)) /\ m \in Short
    BY <1>1, <1>2
  <2>2. /\ AfterVarint(c, Clip(c, q[14])) = Clip(c, q[15])
        /\ VarintAt(c, Clip(c, q[14])) = IF Clip(c, q[15]) # Fail THEN m ELSE 0
    BY <2>1, VarintPart
  <2>3. QED
    BY <1>9, <2>2
<1> HIDE DEF nMM
<1>11. chains[nMM] = Clip(c, q[16])
  <2>1. CASE Clip(c, q[15]) # Fail
    <3>1. chains = MergeMinings(c, Clip(c, q[15]), m) /\ nMM = m
      BY <1>10, <2>1
    <3> DEFINE x == b.chains
    <3>2. x \in Seq(Nat \X Short) /\ Len(x) = m /\ Piece(d, q[15], q[16], FlattenSeq(ChainSeq(x)))
      BY <1>1, <1>2 DEF m
    <3> HIDE DEF x
    <3>3. PICK r : ChainsAt(r, c, d, q[15], q[16], x)
      BY <3>2, MergeMiningsClip
    <3>4. /\ r[Len(x) + 1] = q[16]
          /\ \A i \in 0..Len(x) :
               MergeMinings(c, Clip(c, q[15]), Len(x))[i] = Clip(c, r[i + 1])
      BY <3>3 DEF ChainsAt
    <3>5. /\ r[m + 1] = q[16]
          /\ \A i \in 0..m : MergeMinings(c, Clip(c, q[15]), m)[i] = Clip(c, r[i + 1])
      BY <3>2, <3>4
    <3>6. m \in 0..m
      BY <1>2
    <3>7. MergeMinings(c, Clip(c, q[15]), m)[m] = Clip(c, q[16])
      BY <3>5, <3>6
    <3> HIDE DEF chains
    <3>8. QED
      BY <3>1, <3>7
  <2>2. CASE Clip(c, q[15]) = Fail
    <3>1. chains = MergeMinings(c, Fail, 0) /\ nMM = 0
      BY <1>10, <2>2
    <3> DEFINE t == [i \in {0} |-> Fail]
    <3>2. t[0] = Fail
      OBVIOUS
    <3> HIDE DEF t, chains
    <3>3. \A i \in 1..0 : MergeMining(c, t[i - 1]) = t[i]
      OBVIOUS
    <3>4. 0 \in 0..0 /\ 0 \in Nat
      OBVIOUS
    <3>5. \A i \in 0..0 : MergeMinings(c, Fail, 0)[i] = t[i]
      BY <3>2, <3>3, <3>4, MergeMiningPositions
    <3>6. MergeMinings(c, Fail, 0)[0] = Fail
      BY <3>2, <3>4, <3>5
    <3>7. Clip(c, q[16]) = Fail
      BY <1>1, <2>2, ClipPart
    <3>8. QED
      BY <3>1, <3>6, <3>7
  <2>3. QED
    BY <2>1, <2>2
<1> HIDE DEF chains
<1>12. AfterExtraBuf(c, chains[nMM]) = Clip(c, e)
  BY <1>1, <1>11, WordsPart
<1>13. QED
  BY <1>4, <1>5, <1>6, <1>7, <1>8, <1>9, <1>10, <1>11, <1>12
     DEF uncles, nUncles, height, numbers, proof, nProof, mm, nMM, chains, n, p, m

(* The data of the side chain ends where it is written to end, or is not   *)
(* all there.                                                              *)
LEMMA SidechainEnd ==
  ASSUME NEW b \in ShortBlock, NEW c, NEW d, PrefixOf(c, d), NEW q, NEW e, SideLaid(q, d, e, b)
  PROVE  Sidechain(c).end = Clip(c, e)
<1> DEFINE uncles   == 1 + 4 * HashSize
           nUncles  == VarintAt(c, uncles)
           height   == IF nUncles > MaxUncles THEN Fail
                       ELSE After(c, AfterVarint(c, uncles), nUncles * HashSize)
           numbers  == Numbers(c, height)
           nProof   == ByteAt(c, numbers[5])
           proof    == After(c, numbers[5], 1)
           mm       == After(c, proof, nProof * HashSize)
           nMM      == VarintAt(c, mm)
           chains   == MergeMinings(c, AfterVarint(c, mm), nMM)
           end      == AfterExtraBuf(c, chains[nMM])
           short    == 4 * HashSize
<1>1. Sidechain(c).end = IF Len(c) < short THEN Fail ELSE end
  BY DEF Sidechain
<1>2. Len(c) \in Nat /\ short \in Nat
  BY PrefixBytes, SizesAssumption
<1>3. CASE Len(c) >= short
  <2>1. end = Clip(c, e)
    BY <1>3, SidechainClip
  <2> HIDE DEF end, short
  <2>2. QED
    BY <1>1, <1>2, <1>3, <2>1
<1>4. CASE Len(c) < short
  <2>1. /\ q[1] = 1
        /\ Piece(d, q[1], q[2], H(b.wallet)) /\ Piece(d, q[2], q[3], H(b.wallet + 1))
        /\ Piece(d, q[3], q[4], H(2)) /\ Piece(d, q[4], q[5], H(b.parent))
    BY DEF SideLaid
  <2>2. /\ Piece(d, q[5], q[6], Varint(Len(b.uncles))) /\ Piece(d, q[6], q[7], Hs(b.uncles))
        /\ Piece(d, q[7], q[8], Varint(b.sideHeight))
        /\ Piece(d, q[8], q[9], Varint(b.difficulty[1]))
        /\ Piece(d, q[9], q[10], Varint(b.difficulty[2]))
        /\ Piece(d, q[10], q[11], Varint(b.cumulative[1]))
        /\ Piece(d, q[11], q[12], Varint(b.cumulative[2]))
        /\ Piece(d, q[12], q[13], <<Len(b.proof)>>) /\ Piece(d, q[13], q[14], Hs(b.proof))
        /\ Piece(d, q[14], q[15], Varint(Len(b.chains)))
        /\ Piece(d, q[15], q[16], FlattenSeq(ChainSeq(b.chains)))
        /\ Piece(d, q[16], q[17], FlattenSeq(WordSeq))
        /\ q[17] = e
    BY DEF SideLaid
  <2>3. /\ Len(H(b.wallet)) = HashSize /\ Len(H(b.wallet + 1)) = HashSize
        /\ Len(H(2)) = HashSize /\ Len(H(b.parent)) = HashSize /\ HashSize \in Nat
    <3>1. 2 \in Nat
      OBVIOUS
    <3>2. QED
      BY <3>1, SidechainTypes, HashBytes, SizesAssumption
  <2>4. /\ q[2] = q[1] + HashSize /\ q[3] = q[2] + HashSize /\ q[4] = q[3] + HashSize
        /\ q[5] = q[4] + HashSize
    BY <2>1, <2>3 DEF Piece
  <2>5. q[5] = 1 + 4 * HashSize
    BY <2>1, <2>3, <2>4
  <2>6. Clip(c, q[5]) = Fail
    <3>1. ~(q[5] - 1 <= Len(c))
      BY <1>2, <1>4, <2>5
    <3>2. QED
      BY <3>1 DEF Clip
  <2>7. /\ Clip(c, q[5]) = Fail => Clip(c, q[6]) = Fail
        /\ Clip(c, q[6]) = Fail => Clip(c, q[7]) = Fail
        /\ Clip(c, q[7]) = Fail => Clip(c, q[8]) = Fail
        /\ Clip(c, q[8]) = Fail => Clip(c, q[9]) = Fail
        /\ Clip(c, q[9]) = Fail => Clip(c, q[10]) = Fail
        /\ Clip(c, q[10]) = Fail => Clip(c, q[11]) = Fail
    BY <2>2, ClipPart
  <2>8. /\ Clip(c, q[11]) = Fail => Clip(c, q[12]) = Fail
        /\ Clip(c, q[12]) = Fail => Clip(c, q[13]) = Fail
        /\ Clip(c, q[13]) = Fail => Clip(c, q[14]) = Fail
        /\ Clip(c, q[14]) = Fail => Clip(c, q[15]) = Fail
        /\ Clip(c, q[15]) = Fail => Clip(c, q[16]) = Fail
        /\ Clip(c, q[16]) = Fail => Clip(c, q[17]) = Fail
    BY <2>2, ClipPart
  <2>9. Clip(c, e) = Fail
    BY <2>2, <2>6, <2>7, <2>8
  <2> HIDE DEF end, short
  <2>10. QED
    BY <1>1, <1>4, <2>9
<1>5. QED
  BY <1>2, <1>3, <1>4

(* Two hashes.                                                             *)
LEMMA TwoHashes ==
  ASSUME NEW d, NEW x, NEW y, Hash(d, 1) = x, Hash(d, 1 + HashSize) = y
  PROVE  Hashes(d, 1, 2) = <<x, y>>
<1> DEFINE f == [i \in 1..2 |-> Hash(d, 1 + (i - 1) * HashSize)]
<1>1. Hashes(d, 1, 2) = f
  BY DEF Hashes
<1>2. 1 + (1 - 1) * HashSize = 1 /\ 1 + (2 - 1) * HashSize = 1 + HashSize
  BY SizesAssumption
<1>3. f = [i \in 1..2 |-> f[i]] /\ f[1] = x /\ f[2] = y
  BY <1>2
<1> HIDE DEF f
<1>4. f = <<x, y>>
  BY <1>3
<1>5. QED
  BY <1>1, <1>4

(* The merge mined chains of a block, and what is left of them when of two *)
(* entries of a chain the last counts.                                     *)
ChainHashes(x) == {H(x[i][1]) : i \in 1..Len(x)}

LastOf(x, h) == Max({i \in 1..Len(x) : H(x[i][1]) = h})

ChainData(x) == [h \in ChainHashes(x) |-> Fixed(1, x[LastOf(x, h)][2])]

(* What the parser makes of n of them at o.                                *)
ReadChains(d, o, n) ==
  LET chains   == MergeMinings(d, o, n)
      Chain(i) == Hash(d, chains[i - 1])
  IN  [c \in {Chain(i) : i \in 1..n} |->
         MergeMiningData(d, chains[Max({i \in 1..n : Chain(i) = c}) - 1])]

(* It is what is left of them.                                             *)
LEMMA ChainsRead ==
  ASSUME NEW d \in ByteSeq, NEW a, NEW b, NEW x \in Seq(Nat \X Short),
         Piece(d, a, b, FlattenSeq(ChainSeq(x)))
  PROVE  ReadChains(d, a, Len(x)) = ChainData(x)
<1> DEFINE n == Len(x)
           chains == MergeMinings(d, a, n)
           Chain(i) == Hash(d, chains[i - 1])
           f == [c \in {Chain(i) : i \in 1..n} |->
                   MergeMiningData(d, chains[Max({i \in 1..n : Chain(i) = c}) - 1])]
<1>1. n \in Nat /\ \A i \in 1..n : x[i] \in Nat \X Short
  BY LenProperties, ElementOfSeq
<1>2. PICK q : ChainsAt(q, d, d, a, b, x)
  BY WholePrefix, MergeMiningsClip
<1>3. Clip(d, a) = a
  BY WholePiece
<1>4. \A i \in 0..n : chains[i] = Clip(d, q[i + 1])
  BY <1>2, <1>3 DEF ChainsAt
<1>5. \A i \in 1..n : Piece(d, q[i], q[i + 1], MergeMiningBytes(x[i]))
  BY <1>2 DEF ChainsAt
<1> HIDE DEF n, chains
<1>6. \A i \in 1..n : chains[i - 1] = q[i]
  <2>1. ASSUME NEW i \in 1..n PROVE chains[i - 1] = q[i]
    <3>1. i - 1 \in 0..n /\ (i - 1) + 1 = i
      BY <1>1
    <3>2. chains[i - 1] = Clip(d, q[i])
      BY <1>4, <3>1
    <3>3. QED
      BY <1>5, <3>2, WholePiece
  <2>2. QED
    BY <2>1
<1>7. \A i \in 1..n : /\ Chain(i) = H(x[i][1])
                      /\ MergeMiningData(d, chains[i - 1]) = Fixed(1, x[i][2])
  <2>1. ASSUME NEW i \in 1..n
        PROVE  Hash(d, q[i]) = H(x[i][1]) /\ MergeMiningData(d, q[i]) = Fixed(1, x[i][2])
    BY <1>1, <1>5, MergeMiningRead
  <2>2. QED
    BY <1>6, <2>1
<1> HIDE DEF Chain
<1>8. {Chain(i) : i \in 1..n} = ChainHashes(x)
  BY <1>7 DEF ChainHashes, n
<1>9. ASSUME NEW c \in ChainHashes(x)
      PROVE  f[c] = Fixed(1, x[LastOf(x, c)][2])
  <2> DEFINE S == {i \in 1..n : Chain(i) = c}
             T == {i \in 1..Len(x) : H(x[i][1]) = c}
  <2>1. S = T
    BY <1>7 DEF n
  <2>2. T # {} /\ T \in SUBSET (0..n)
    <3>1. PICK i \in 1..n : H(x[i][1]) = c
      BY DEF ChainHashes, n
    <3>2. i \in T
      BY <3>1 DEF n
    <3>3. \A k \in 1..n : k \in 0..n
      BY <1>1
    <3>4. QED
      BY <3>2, <3>3 DEF n
  <2> HIDE DEF T
  <2>3. Max(T) \in T
    BY <1>1, <2>2, MinMaxOf
  <2>4. Max(T) \in 1..n
    BY <2>3 DEF T, n
  <2>5. Max(T) = LastOf(x, c)
    BY DEF LastOf, T
  <2>6. f[c] = MergeMiningData(d, chains[Max(S) - 1])
    BY <1>8
  <2> HIDE DEF S, f
  <2>7. f[c] = MergeMiningData(d, chains[LastOf(x, c) - 1])
    BY <2>1, <2>5, <2>6
  <2>8. QED
    BY <1>7, <2>4, <2>5, <2>7
<1>10. f = [c \in ChainHashes(x) |-> f[c]]
  BY <1>8
<1> HIDE DEF f
<1>11. f = ChainData(x)
  BY <1>9, <1>10 DEF ChainData
<1>12. ReadChains(d, a, n) = f
  BY DEF ReadChains, f, Chain, chains
<1>13. QED
  BY <1>11, <1>12 DEF n

(* The fields of the side chain data of a whole block.                     *)
LEMMA SidechainFields ==
  ASSUME NEW b \in ShortBlock, NEW d \in ByteSeq, NEW q, NEW e, SideLaid(q, d, e, b)
  PROVE  Sidechain(d).fields = SidechainShare(b)
<1> DEFINE uncles   == 1 + 4 * HashSize
           nUncles  == VarintAt(d, uncles)
           height   == IF nUncles > MaxUncles THEN Fail
                       ELSE After(d, AfterVarint(d, uncles), nUncles * HashSize)
           numbers  == Numbers(d, height)
           nProof   == ByteAt(d, numbers[5])
           proof    == After(d, numbers[5], 1)
           mm       == After(d, proof, nProof * HashSize)
           nMM      == VarintAt(d, mm)
           chains   == MergeMinings(d, AfterVarint(d, mm), nMM)
           Chain(i) == Hash(d, chains[i - 1])
           extraBuf == chains[nMM]
           ex       == [c \in {Chain(i) : i \in 1..nMM} |->
                          MergeMiningData(d, chains[Max({i \in 1..nMM : Chain(i) = c}) - 1])]
           buf      == [i \in 1..4 |-> Word(d, extraBuf + (i - 1) * WordSize)]
           n        == Len(b.uncles)
           p        == Len(b.proof)
           m        == Len(b.chains)
           n2       == 2
<1>1. /\ q[1] = 1 /\ q[17] = e
      /\ Piece(d, q[1], q[2], H(b.wallet)) /\ Piece(d, q[2], q[3], H(b.wallet + 1))
      /\ Piece(d, q[3], q[4], H(n2)) /\ Piece(d, q[4], q[5], H(b.parent))
      /\ Piece(d, q[5], q[6], Varint(n)) /\ Piece(d, q[6], q[7], Hs(b.uncles))
      /\ Piece(d, q[7], q[8], Varint(b.sideHeight))
      /\ Piece(d, q[8], q[9], Varint(b.difficulty[1]))
      /\ Piece(d, q[9], q[10], Varint(b.difficulty[2]))
      /\ Piece(d, q[10], q[11], Varint(b.cumulative[1]))
      /\ Piece(d, q[11], q[12], Varint(b.cumulative[2]))
      /\ Piece(d, q[12], q[13], <<p>>) /\ Piece(d, q[13], q[14], Hs(b.proof))
      /\ Piece(d, q[14], q[15], Varint(m))
      /\ Piece(d, q[15], q[16], FlattenSeq(ChainSeq(b.chains)))
      /\ Piece(d, q[16], q[17], FlattenSeq(WordSeq))
  BY DEF SideLaid
<1>2. /\ n \in Short /\ n \in Nat /\ p \in Nat /\ m \in Short /\ m \in Nat
      /\ b.wallet \in Nat /\ b.wallet + 1 \in Nat /\ b.parent \in Nat /\ n2 \in Nat
      /\ b.uncles \in Seq(Nat) /\ b.proof \in Seq(Nat) /\ b.chains \in Seq(Nat \X Short)
      /\ b.sideHeight \in Short
      /\ b.difficulty[1] \in Short /\ b.difficulty[2] \in Short
      /\ b.cumulative[1] \in Short /\ b.cumulative[2] \in Short
  BY SidechainTypes
<1> HIDE DEF n2
<1>3. PrefixOf(d, d) /\ Len(d) \in Nat /\ HashSize \in Nat
  BY WholePrefix, PrefixBytes, SizesAssumption
<1>4. /\ q[2] = 1 + HashSize /\ q[3] = 1 + 2 * HashSize /\ q[4] = 1 + 3 * HashSize
      /\ q[5] = 1 + 4 * HashSize
  <2>1. /\ Len(H(b.wallet)) = HashSize /\ Len(H(b.wallet + 1)) = HashSize
        /\ Len(H(n2)) = HashSize /\ Len(H(b.parent)) = HashSize
    BY <1>2, HashBytes
  <2>2. /\ q[2] = q[1] + HashSize /\ q[3] = q[2] + HashSize /\ q[4] = q[3] + HashSize
        /\ q[5] = q[4] + HashSize
    BY <1>1, <2>1 DEF Piece
  <2>3. QED
    BY <1>1, <1>3, <2>2
<1>5. Len(d) >= 4 * HashSize
  <2>1. q[5] - 1 <= Len(d)
    BY <1>1, WholePiece
  <2>2. 4 * HashSize \in Nat /\ (1 + 4 * HashSize) - 1 = 4 * HashSize
    BY <1>3
  <2>3. QED
    BY <1>3, <1>4, <2>1, <2>2
<1>6. /\ Clip(d, q[6]) = q[6] /\ Clip(d, q[7]) = q[7] /\ Clip(d, q[8]) = q[8]
      /\ Clip(d, q[9]) = q[9] /\ Clip(d, q[10]) = q[10] /\ Clip(d, q[11]) = q[11]
      /\ Clip(d, q[12]) = q[12] /\ Clip(d, q[13]) = q[13] /\ Clip(d, q[14]) = q[14]
      /\ Clip(d, q[15]) = q[15] /\ Clip(d, q[16]) = q[16]
      /\ q[6] # Fail /\ q[8] # Fail /\ q[9] # Fail /\ q[10] # Fail /\ q[11] # Fail
      /\ q[12] # Fail /\ q[13] # Fail /\ q[15] # Fail
  <2>1. Piece(d, q[6], q[7], Hs(b.uncles))
    BY <1>1
  <2>2. Piece(d, q[8], q[9], Varint(b.difficulty[1]))
    BY <1>1
  <2>3. Piece(d, q[10], q[11], Varint(b.cumulative[1]))
    BY <1>1
  <2>4. Piece(d, q[12], q[13], <<p>>)
    BY <1>1
  <2>5. Piece(d, q[14], q[15], Varint(m))
    BY <1>1
  <2>6. Piece(d, q[16], q[17], FlattenSeq(WordSeq))
    BY <1>1
  <2> HIDE DEF n, p, m
  <2>7. /\ Clip(d, q[6]) = q[6] /\ q[6] # Fail
        /\ Clip(d, q[7]) = q[7] /\ q[7] # Fail
    BY <2>1, WholePiece
  <2>8. /\ Clip(d, q[8]) = q[8] /\ q[8] # Fail
        /\ Clip(d, q[9]) = q[9] /\ q[9] # Fail
    BY <2>2, WholePiece
  <2>9. /\ Clip(d, q[10]) = q[10] /\ q[10] # Fail
        /\ Clip(d, q[11]) = q[11] /\ q[11] # Fail
    BY <2>3, WholePiece
  <2>10. /\ Clip(d, q[12]) = q[12] /\ q[12] # Fail
        /\ Clip(d, q[13]) = q[13] /\ q[13] # Fail
    BY <2>4, WholePiece
  <2>11. /\ Clip(d, q[14]) = q[14] /\ q[14] # Fail
        /\ Clip(d, q[15]) = q[15] /\ q[15] # Fail
    BY <2>5, WholePiece
  <2>12. /\ Clip(d, q[16]) = q[16] /\ q[16] # Fail
    BY <2>6, WholePiece
  <2>13. QED
    BY <2>7, <2>8, <2>9, <2>10, <2>11, <2>12
<1>7. /\ AfterVarint(d, uncles) = q[6] /\ nUncles = n /\ height = q[7]
      /\ numbers[1] = q[8] /\ numbers[2] = q[9] /\ numbers[3] = q[10] /\ numbers[4] = q[11]
      /\ nProof = p /\ proof = q[13] /\ AfterVarint(d, mm) = q[15] /\ nMM = m
      /\ extraBuf = q[16]
  <2>1. /\ AfterVarint(d, uncles) = Clip(d, q[6])
        /\ nUncles = IF Clip(d, q[6]) # Fail THEN n ELSE 0
        /\ height = Clip(d, q[7])
        /\ numbers[1] = Clip(d, q[8]) /\ numbers[2] = Clip(d, q[9])
        /\ numbers[3] = Clip(d, q[10]) /\ numbers[4] = Clip(d, q[11])
        /\ nProof = (IF Clip(d, q[13]) # Fail THEN p ELSE 0)
        /\ proof = Clip(d, q[13])
        /\ AfterVarint(d, mm) = Clip(d, q[15])
        /\ nMM = (IF Clip(d, q[15]) # Fail THEN m ELSE 0)
        /\ chains[nMM] = Clip(d, q[16])
    BY <1>3, <1>5, SidechainClip
  <2> HIDE DEF uncles, nUncles, height, numbers, nProof, proof, mm, nMM, chains, n, p, m
  <2>2. QED
    BY <1>6, <2>1
<1>8. Hashes(d, 1, 2) = <<H(b.wallet), H(b.wallet + 1)>>
  <2>1. /\ Piece(d, q[1], q[2], H(b.wallet)) /\ Piece(d, q[2], q[3], H(b.wallet + 1))
        /\ b.wallet \in Nat /\ b.wallet + 1 \in Nat
    BY <1>1, <1>2
  <2>2. Hash(d, q[1]) = H(b.wallet) /\ Hash(d, q[2]) = H(b.wallet + 1)
    BY <2>1, WholeHash
  <2>3. Hash(d, 1) = H(b.wallet) /\ Hash(d, 1 + HashSize) = H(b.wallet + 1)
    BY <1>1, <1>4, <2>2
  <2>4. QED
    BY <2>3, TwoHashes
<1>9. Hash(d, 1 + 2 * HashSize) = H(2) /\ Hash(d, 1 + 3 * HashSize) = H(b.parent)
  <2>1. Piece(d, q[3], q[4], H(n2)) /\ Piece(d, q[4], q[5], H(b.parent))
    BY <1>1
  <2>2. n2 \in Nat /\ b.parent \in Nat
    BY <1>2
  <2>3. Hash(d, q[3]) = H(n2) /\ Hash(d, q[4]) = H(b.parent)
    BY <2>1, <2>2, WholeHash
  <2>4. QED
    BY <1>4, <2>3 DEF n2
<1>10. /\ Hashes(d, q[6], n) = [i \in DOMAIN b.uncles |-> H(b.uncles[i])]
       /\ Hashes(d, q[13], p) = [i \in DOMAIN b.proof |-> H(b.proof[i])]
  <2>1. Hashes(d, q[6], n) = HashSeq(b.uncles) /\ Hashes(d, q[13], p) = HashSeq(b.proof)
    BY <1>1, <1>2, <1>3, HashesPart
  <2>2. QED
    BY <2>1 DEF HashSeq
<1>11. /\ VarintAt(d, q[7]) = b.sideHeight
       /\ VarintAt(d, q[8]) = b.difficulty[1] /\ VarintAt(d, q[9]) = b.difficulty[2]
       /\ VarintAt(d, q[10]) = b.cumulative[1] /\ VarintAt(d, q[11]) = b.cumulative[2]
  <2>1. VarintAt(d, q[7]) = b.sideHeight
    <3>1. Piece(d, q[7], q[8], Varint(b.sideHeight)) /\ b.sideHeight \in Short
      BY <1>1, <1>2
    <3>2. QED
      BY <3>1, WholeVarint
  <2>2. VarintAt(d, q[8]) = b.difficulty[1]
    <3>1. Piece(d, q[8], q[9], Varint(b.difficulty[1])) /\ b.difficulty[1] \in Short
      BY <1>1, <1>2
    <3>2. QED
      BY <3>1, WholeVarint
  <2>3. VarintAt(d, q[9]) = b.difficulty[2]
    <3>1. Piece(d, q[9], q[10], Varint(b.difficulty[2])) /\ b.difficulty[2] \in Short
      BY <1>1, <1>2
    <3>2. QED
      BY <3>1, WholeVarint
  <2>4. VarintAt(d, q[10]) = b.cumulative[1]
    <3>1. Piece(d, q[10], q[11], Varint(b.cumulative[1])) /\ b.cumulative[1] \in Short
      BY <1>1, <1>2
    <3>2. QED
      BY <3>1, WholeVarint
  <2>5. VarintAt(d, q[11]) = b.cumulative[2]
    <3>1. Piece(d, q[11], q[12], Varint(b.cumulative[2])) /\ b.cumulative[2] \in Short
      BY <1>1, <1>2
    <3>2. QED
      BY <3>1, WholeVarint
  <2>6. QED
    BY <2>1, <2>2, <2>3, <2>4, <2>5
<1>12. /\ b.difficulty = <<b.difficulty[1], b.difficulty[2]>>
       /\ b.cumulative = <<b.cumulative[1], b.cumulative[2]>>
  BY SidechainTypes
<1> DEFINE g == [c \in {H(b.chains[i][1]) : i \in DOMAIN b.chains} |->
                   LET i == Max({k \in DOMAIN b.chains : H(b.chains[k][1]) = c})
                   IN  Fixed(1, b.chains[i][2])]
           words == [i \in 1..4 |-> Fixed(i, WordSize)]
<1>13. ex = g
  <2> DEFINE x == b.chains
  <2>1. ReadChains(d, q[15], Len(x)) = ChainData(x)
    BY <1>1, <1>2, ChainsRead
  <2>2. ex = ReadChains(d, AfterVarint(d, mm), nMM)
    BY DEF ReadChains
  <2>3. AfterVarint(d, mm) = q[15] /\ nMM = Len(x)
    BY <1>7
  <2>4. DOMAIN x = 1..Len(x)
    BY <1>2, LenProperties
  <2>5. g = ChainData(x)
    BY <2>4 DEF ChainData, ChainHashes, LastOf
  <2> HIDE DEF ex, g, mm, nMM
  <2>6. QED
    BY <2>1, <2>2, <2>3, <2>5
<1>14. buf = words
  <2>1. \A i \in 1..4 : Word(d, q[16] + (i - 1) * WordSize) = Fixed(i, WordSize)
    BY <1>1, <1>3, WordsPart
  <2> HIDE DEF extraBuf
  <2>2. QED
    BY <1>7, <2>1
<1>15. Sidechain(d).fields =
         [MinerWallet |-> Hashes(d, 1, 2),
          TxkeySecSeed |-> Hash(d, 1 + 2 * HashSize),
          Parent |-> Hash(d, 1 + 3 * HashSize),
          Uncles |-> Hashes(d, AfterVarint(d, uncles), nUncles),
          SidechainHeight |-> VarintAt(d, height),
          Difficulty |-> <<VarintAt(d, numbers[1]), VarintAt(d, numbers[2])>>,
          CumulativeDifficulty |-> <<VarintAt(d, numbers[3]), VarintAt(d, numbers[4])>>,
          MerkleProof |-> Hashes(d, proof, nProof),
          MergeMiningExtra |-> ex,
          SidechainExtraBuf |-> buf]
  BY DEF Sidechain
<1>16. SidechainShare(b) =
         [MinerWallet |-> <<H(b.wallet), H(b.wallet + 1)>>, TxkeySecSeed |-> H(2),
          Parent |-> H(b.parent), Uncles |-> [i \in DOMAIN b.uncles |-> H(b.uncles[i])],
          SidechainHeight |-> b.sideHeight, Difficulty |-> b.difficulty,
          CumulativeDifficulty |-> b.cumulative,
          MerkleProof |-> [i \in DOMAIN b.proof |-> H(b.proof[i])],
          MergeMiningExtra |-> g, SidechainExtraBuf |-> words]
  BY DEF SidechainShare
<1> HIDE DEF uncles, nUncles, height, numbers, nProof, proof, mm, nMM, chains, Chain, extraBuf,
             ex, buf, g, words, n, p, m
<1>17. Sidechain(d).fields =
         [MinerWallet |-> <<H(b.wallet), H(b.wallet + 1)>>, TxkeySecSeed |-> H(2),
          Parent |-> H(b.parent), Uncles |-> [i \in DOMAIN b.uncles |-> H(b.uncles[i])],
          SidechainHeight |-> b.sideHeight, Difficulty |-> b.difficulty,
          CumulativeDifficulty |-> b.cumulative,
          MerkleProof |-> [i \in DOMAIN b.proof |-> H(b.proof[i])],
          MergeMiningExtra |-> g, SidechainExtraBuf |-> words]
  BY <1>7, <1>8, <1>9, <1>10, <1>11, <1>12, <1>13, <1>14, <1>15
<1>18. QED
  BY <1>16, <1>17

-----------------------------------------------------------------------------
(***************************************************************************)
(* What data of the side chain takes at least.                             *)
(***************************************************************************)
(* A recursion over numbers has a solution, and in numbers.                *)
LEMMA NumberRecursion ==
  ASSUME NEW n \in Nat, NEW base \in Nat, NEW step \in [(1..n) \X Nat -> Nat]
  PROVE  \E f : IsIteration(f, n, base, step) /\ \A j \in 0..n : f[j] \in Nat
<1>1. PICK f : IsIteration(f, n, base, step)
  BY Iteration
<1>2. \A j \in 0..n : f[j] = IF j = 0 THEN base ELSE step[<<j, f[j - 1]>>]
  BY <1>1 DEF IsIteration
<1> DEFINE G == {j \in 0..n : f[j] \in Nat}
<1>3. 0 \in G
  <2>1. 0 \in 0..n
    OBVIOUS
  <2>2. f[0] = base
    BY <1>2, <2>1
  <2>3. QED
    BY <2>1, <2>2
<1>4. ASSUME NEW j \in 0..(n - 1), j \in G PROVE j + 1 \in G
  <2>1. j + 1 \in 1..n /\ j + 1 \in 0..n /\ (j + 1) - 1 = j /\ j + 1 # 0
    OBVIOUS
  <2>2. f[j + 1] = step[<<j + 1, f[j]>>]
    BY <1>2, <2>1
  <2>3. <<j + 1, f[j]>> \in (1..n) \X Nat
    BY <1>4, <2>1
  <2>4. QED
    BY <2>1, <2>2, <2>3
<1> HIDE DEF G
<1>5. \A j \in 0..n : j \in G
  BY <1>3, <1>4, IntervalInduction
<1>6. QED
  BY <1>1, <1>5 DEF G

(* p is a position at least k bytes after o, or there is none.             *)
Reached(p, o, k) == p \in Nat /\ (p # Fail => o # Fail /\ p >= o + k)

(* A varint takes a byte.                                                  *)
LEMMA VarintReached ==
  ASSUME NEW c \in ByteSeq, NEW o \in Nat
  PROVE  /\ Reached(AfterVarint(c, o), o, 1)
         /\ AfterVarint(c, o) # Fail => AfterVarint(c, o) - 1 <= Len(c)
<1> DEFINE T == VarintEnds(c, o)
<1>1. /\ VarintSize \in Nat \ {0} /\ Len(c) \in Nat
  BY SizesAssumption, LenProperties DEF ByteSeq
<1>2. CASE o = Fail \/ T = {}
  BY <1>2 DEF AfterVarint, Reached, Fail
<1>3. CASE o # Fail /\ T # {}
  <2>1. T \in SUBSET (0..Len(c)) /\ \A k \in T : k >= o
    BY <1>1 DEF VarintEnds
  <2> HIDE DEF T
  <2>2. Max(T) \in T
    BY <1>1, <1>3, <2>1, MinMaxOf
  <2>3. Max(T) \in Nat /\ Max(T) >= o /\ Max(T) <= Len(c)
    <3>1. Max(T) \in 0..Len(c) /\ Max(T) >= o
      BY <2>1, <2>2
    <3>2. QED
      BY <1>1, <3>1
  <2>4. AfterVarint(c, o) = Max(T) + 1
    BY <1>3 DEF AfterVarint, T
  <2>5. QED
    BY <1>1, <1>3, <2>3, <2>4 DEF Reached
<1>4. QED
  BY <1>2, <1>3

(* Its value is a number.                                                  *)
LEMMA VarintNat ==
  ASSUME NEW c \in ByteSeq, NEW o \in Nat
  PROVE  VarintAt(c, o) \in Nat
<1> DEFINE end == AfterVarint(c, o)
           n   == end - o
<1>1. Reached(end, o, 1) /\ (end # Fail => end - 1 <= Len(c)) /\ Len(c) \in Nat
  BY VarintReached, LenProperties DEF ByteSeq
<1>2. CASE end = Fail
  BY <1>2 DEF VarintAt
<1>3. CASE end # Fail
  <2>1. end \in Nat /\ n \in Nat /\ o # Fail /\ end - 1 <= Len(c)
    BY <1>1, <1>3 DEF Reached
  <2> DEFINE step == [x \in (1..n) \X Nat |-> (c[end - x[1]] % 128) + 128 * x[2]]
  <2>2. ASSUME NEW k \in 1..n PROVE c[end - k] \in Nat
    <3>1. end - k \in 1..Len(c)
      BY <1>1, <2>1 DEF Fail
    <3>2. QED
      BY <3>1, ElementOfSeq DEF ByteSeq
  <2>3. step \in [(1..n) \X Nat -> Nat]
    BY <2>2
  <2>4. \A k \in 1..n : \A v \in Nat : step[<<k, v>>] = (c[end - k] % 128) + 128 * v
    OBVIOUS
  <2> HIDE DEF step, n, end
  <2>5. PICK f : IsIteration(f, n, 0, step) /\ \A j \in 0..n : f[j] \in Nat
    BY <2>1, <2>3, NumberRecursion
  <2>6. ASSUME NEW k \in 0..n
        PROVE  f[k] = IF k = 0 THEN 0 ELSE (c[end - k] % 128) + 128 * f[k - 1]
    <3>1. f[k] = IF k = 0 THEN 0 ELSE step[<<k, f[k - 1]>>]
      BY <2>5 DEF IsIteration
    <3>2. CASE k = 0
      BY <3>1, <3>2
    <3>3. CASE k # 0
      <4>1. k \in 1..n /\ k - 1 \in 0..n
        BY <2>1, <3>3
      <4>2. f[k - 1] \in Nat
        BY <2>5, <4>1
      <4>3. QED
        BY <2>4, <3>1, <3>3, <4>1, <4>2
    <3>4. QED
      BY <3>2, <3>3
  <2>7. f = [k \in 0..n |-> f[k]]
    BY <2>5 DEF IsIteration
  <2>8. IsValue(f, c, end, n)
    BY <2>6, <2>7 DEF IsValue
  <2>9. PICK g : IsValue(g, c, end, n) /\ VarintAt(c, o) = g[n]
    BY <1>3, <2>8, VarintValue DEF end, n
  <2>10. \A k \in 0..n : g[k] = f[k]
    <3>1. \A k \in 0..n : g[k] = IF k = 0 THEN 0 ELSE (c[end - k] % 128) + 128 * g[k - 1]
      BY <2>9 DEF IsValue
    <3>2. 0 \in 0..n /\ \A i \in 1..n : i \in 0..n /\ i # 0
      BY <2>1
    <3>3. g[0] = f[0]
      BY <2>6, <3>1, <3>2
    <3>4. \A i \in 1..n : g[i - 1] = f[i - 1] => g[i] = f[i]
      BY <2>6, <3>1, <3>2
    <3>5. n \in Nat
      BY <2>1
    <3>6. QED
      BY <3>3, <3>4, <3>5, SamePositions
  <2>11. n \in 0..n
    BY <2>1
  <2>12. QED
    BY <2>5, <2>9, <2>10, <2>11
<1>4. QED
  BY <1>2, <1>3

(* Bytes that are skipped.                                                 *)
LEMMA AfterReached ==
  ASSUME NEW c \in ByteSeq, NEW o \in Nat, NEW n \in Nat
  PROVE  /\ Reached(After(c, o, n), o, n)
         /\ After(c, o, n) # Fail => After(c, o, n) - 1 <= Len(c)
<1>1. Len(c) \in Nat
  BY LenProperties DEF ByteSeq
<1>2. QED
  BY <1>1 DEF After, Reached, Fail

(* A byte is a number.                                                     *)
LEMMA ByteNat ==
  ASSUME NEW c \in ByteSeq, NEW o \in Nat
  PROVE  ByteAt(c, o) \in Nat
<1>1. Len(c) \in Nat
  BY LenProperties DEF ByteSeq
<1>2. CASE After(c, o, 1) = Fail
  BY <1>2 DEF ByteAt
<1>3. CASE After(c, o, 1) # Fail
  <2>1. o \in 1..Len(c)
    BY <1>1, <1>3 DEF After, Fail
  <2>2. QED
    BY <1>3, <2>1, ElementOfSeq DEF ByteAt, ByteSeq
<1>4. QED
  BY <1>2, <1>3

(* An entry of a chain is passed.                                          *)
LEMMA MergeMiningReached ==
  ASSUME NEW c \in ByteSeq, NEW o \in Nat
  PROVE  Reached(MergeMining(c, o), o, 0)
<1> DEFINE p == After(c, o, HashSize)
           r == AfterVarint(c, p)
           n == VarintAt(c, p)
           s == After(c, r, n)
<1>1. HashSize \in Nat
  BY SizesAssumption
<1>2. Reached(p, o, HashSize)
  BY <1>1, AfterReached
<1>3. p \in Nat
  BY <1>2 DEF Reached
<1> HIDE DEF p
<1>4. Reached(r, p, 1) /\ n \in Nat
  BY <1>3, VarintReached, VarintNat
<1>5. r \in Nat
  BY <1>4 DEF Reached
<1> HIDE DEF r, n
<1>6. Reached(s, r, n)
  BY <1>4, <1>5, AfterReached
<1> HIDE DEF s
<1>7. Reached(s, o, 0)
  BY <1>1, <1>2, <1>3, <1>4, <1>5, <1>6 DEF Reached
<1>8. MergeMining(c, o) = s
  BY DEF MergeMining, AfterBlob, s, r, n, p
<1>9. QED
  BY <1>7, <1>8

(* All entries are passed.                                                 *)
LEMMA MergeMiningsReached ==
  ASSUME NEW c \in ByteSeq, NEW o \in Nat, NEW n \in Nat
  PROVE  Reached(MergeMinings(c, o, n)[n], o, 0)
<1> DEFINE step == [x \in (1..n) \X Nat |-> MergeMining(c, x[2])]
<1>1. \A v \in Nat : MergeMining(c, v) \in Nat
  BY MergeMiningReached DEF Reached
<1>2. step \in [(1..n) \X Nat -> Nat]
  BY <1>1
<1>3. \A k \in 1..n : \A v \in Nat : step[<<k, v>>] = MergeMining(c, v)
  OBVIOUS
<1> HIDE DEF step
<1>4. PICK t : IsIteration(t, n, o, step) /\ \A j \in 0..n : t[j] \in Nat
  BY <1>2, NumberRecursion
<1>5. t[0] = o /\ \A i \in 1..n : MergeMining(c, t[i - 1]) = t[i]
  <2>1. \A j \in 0..n : t[j] = IF j = 0 THEN o ELSE step[<<j, t[j - 1]>>]
    BY <1>4 DEF IsIteration
  <2>2. ASSUME NEW i \in 1..n PROVE MergeMining(c, t[i - 1]) = t[i]
    <3>1. i \in 0..n /\ i # 0 /\ i - 1 \in 0..n
      OBVIOUS
    <3>2. QED
      BY <1>3, <1>4, <2>1, <3>1
  <2>3. 0 \in 0..n
    OBVIOUS
  <2>4. t[0] = o
    BY <2>1, <2>3
  <2>5. QED
    BY <2>2, <2>4
<1>6. MergeMinings(c, o, n)[n] = t[n]
  <2>1. n \in 0..n
    OBVIOUS
  <2>2. QED
    BY <1>5, <2>1, MergeMiningPositions
<1> DEFINE G == {j \in 0..n : Reached(t[j], o, 0)}
<1>7. 0 \in G
  BY <1>5 DEF Reached
<1>8. ASSUME NEW j \in 0..(n - 1), j \in G PROVE j + 1 \in G
  <2>1. j + 1 \in 1..n /\ j + 1 \in 0..n /\ j \in 0..n /\ (j + 1) - 1 = j
    OBVIOUS
  <2>2. t[j + 1] = MergeMining(c, t[j]) /\ t[j] \in Nat
    BY <1>4, <1>5, <2>1
  <2>3. Reached(t[j + 1], t[j], 0)
    BY <2>2, MergeMiningReached
  <2>4. Reached(t[j], o, 0)
    BY <1>8
  <2>5. Reached(t[j + 1], o, 0)
    BY <2>2, <2>3, <2>4 DEF Reached
  <2>6. QED
    BY <2>1, <2>5
<1> HIDE DEF G
<1>9. \A j \in 0..n : j \in G
  BY <1>7, <1>8, IntervalInduction
<1>10. n \in G
  BY <1>9
<1>11. QED
  BY <1>6, <1>10 DEF G

(* The five numbers are passed.                                            *)
LEMMA NumbersReached ==
  ASSUME NEW c \in ByteSeq, NEW o \in Nat
  PROVE  Reached(Numbers(c, o)[5], o, 5)
<1> DEFINE f == Numbers(c, o)
<1>1. /\ f[0] = o /\ f[1] = AfterVarint(c, f[0]) /\ f[2] = AfterVarint(c, f[1])
      /\ f[3] = AfterVarint(c, f[2]) /\ f[4] = AfterVarint(c, f[3])
      /\ f[5] = AfterVarint(c, f[4])
  BY NumberPositions
<1> HIDE DEF f
<1>2. \A v \in Nat : Reached(AfterVarint(c, v), v, 1)
  BY VarintReached
<1>3. f[1] \in Nat /\ Reached(f[1], o, 1)
  BY <1>1, <1>2 DEF Reached
<1>4. f[2] \in Nat /\ Reached(f[2], f[1], 1)
  BY <1>1, <1>2, <1>3 DEF Reached
<1>5. f[3] \in Nat /\ Reached(f[3], f[2], 1)
  BY <1>1, <1>2, <1>4 DEF Reached
<1>6. f[4] \in Nat /\ Reached(f[4], f[3], 1)
  BY <1>1, <1>2, <1>5 DEF Reached
<1>7. f[5] \in Nat /\ Reached(f[5], f[4], 1)
  BY <1>1, <1>2, <1>6 DEF Reached
<1>8. Reached(f[5], o, 5)
  <2>1. Reached(f[3], o, 3)
    BY <1>3, <1>4, <1>5 DEF Reached
  <2>2. Reached(f[5], o, 5)
    BY <1>5, <1>6, <1>7, <2>1 DEF Reached
  <2>3. QED
    BY <2>2
<1>9. QED
  BY <1>8 DEF f

(* Whatever data of the side chain is read to its end has four hashes, the *)
(* numbers, the lengths and the last field.                                *)
LEMMA SidechainNeeds ==
  ASSUME NEW c \in ByteSeq, Sidechain(c).end # Fail
  PROVE  Len(c) >= 4 * HashSize + 4 * WordSize + 8
<1> DEFINE uncles   == 1 + 4 * HashSize
           nUncles  == VarintAt(c, uncles)
           after    == AfterVarint(c, uncles)
           height   == IF nUncles > MaxUncles THEN Fail
                       ELSE After(c, AfterVarint(c, uncles), nUncles * HashSize)
           numbers  == Numbers(c, height)
           five     == numbers[5]
           nProof   == ByteAt(c, numbers[5])
           proof    == After(c, numbers[5], 1)
           mm       == After(c, proof, nProof * HashSize)
           first    == AfterVarint(c, mm)
           nMM      == VarintAt(c, mm)
           chains   == MergeMinings(c, AfterVarint(c, mm), nMM)
           extra    == chains[nMM]
           end      == AfterExtraBuf(c, chains[nMM])
<1>1. HashSize \in Nat /\ Len(c) \in Nat /\ WordSize \in Nat /\ 4 * WordSize \in Nat
  BY SizesAssumption, LenProperties DEF ByteSeq, WordSize
<1>2. end # Fail
  <2>1. Sidechain(c).end = IF Len(c) < 4 * HashSize THEN Fail ELSE end
    BY DEF Sidechain
  <2> HIDE DEF end
  <2>2. QED
    BY <2>1
<1>3. uncles \in Nat
  BY <1>1
<1>4. nUncles \in Nat /\ Reached(after, uncles, 1)
  BY <1>3, VarintNat, VarintReached
<1>5. after \in Nat
  BY <1>4 DEF Reached
<1> HIDE DEF after, nUncles
<1>6. Reached(height, after, 0)
  <2>1. nUncles * HashSize \in Nat
    BY <1>1, <1>4
  <2>2. Reached(After(c, after, nUncles * HashSize), after, nUncles * HashSize)
    BY <1>5, <2>1, AfterReached
  <2> DEFINE n == nUncles * HashSize
             p == After(c, after, n)
  <2>3. n \in Nat /\ Reached(p, after, n)
    BY <2>1, <2>2
  <2> HIDE DEF n, p
  <2>4. Reached(p, after, 0)
    BY <1>5, <2>3 DEF Reached
  <2>5. height = IF nUncles > MaxUncles THEN Fail ELSE p
    BY DEF after, p, n
  <2> HIDE DEF height
  <2>6. CASE nUncles > MaxUncles
    BY <2>5, <2>6 DEF Reached, Fail
  <2>7. CASE ~(nUncles > MaxUncles)
    BY <2>4, <2>5, <2>7
  <2>8. QED
    BY <2>6, <2>7
<1>7. height \in Nat
  BY <1>6 DEF Reached
<1> HIDE DEF height
<1>8. Reached(five, height, 5)
  BY <1>7, NumbersReached
<1>9. five \in Nat
  BY <1>8 DEF Reached
<1> HIDE DEF five
<1>10. Reached(proof, five, 1) /\ nProof \in Nat
  BY <1>9, AfterReached, ByteNat DEF five
<1>11. proof \in Nat
  BY <1>10 DEF Reached
<1> HIDE DEF proof, nProof
<1>12. Reached(mm, proof, 0)
  <2> DEFINE n == nProof * HashSize
  <2>1. n \in Nat
    BY <1>1, <1>10
  <2> HIDE DEF n
  <2>2. Reached(After(c, proof, n), proof, n)
    BY <1>11, <2>1, AfterReached
  <2>3. Reached(After(c, proof, n), proof, 0)
    BY <1>11, <2>1, <2>2 DEF Reached
  <2>4. QED
    BY <2>3 DEF n
<1>13. mm \in Nat
  BY <1>12 DEF Reached
<1> HIDE DEF mm
<1>14. Reached(first, mm, 1) /\ nMM \in Nat
  BY <1>13, VarintReached, VarintNat
<1>15. first \in Nat
  BY <1>14 DEF Reached
<1> HIDE DEF first, nMM
<1>16. Reached(extra, first, 0)
  <2>1. Reached(MergeMinings(c, first, nMM)[nMM], first, 0)
    BY <1>14, <1>15, MergeMiningsReached
  <2>2. QED
    BY <2>1 DEF first
<1>17. extra \in Nat
  BY <1>16 DEF Reached
<1>18. end = After(c, extra, 4 * WordSize)
  BY DEF AfterExtraBuf
<1> HIDE DEF extra, chains, end, uncles
<1>19. /\ Reached(end, extra, 4 * WordSize)
       /\ end - 1 <= Len(c)
  BY <1>1, <1>2, <1>17, <1>18, AfterReached
<1>20. end >= extra + 4 * WordSize /\ extra >= first /\ first >= mm + 1
       /\ end \in Nat
  BY <1>2, <1>14, <1>16, <1>19 DEF Reached
<1>21. first # Fail /\ mm # Fail /\ proof # Fail /\ five # Fail /\ height # Fail /\ after # Fail
  BY <1>2, <1>6, <1>8, <1>10, <1>12, <1>14, <1>16, <1>19 DEF Reached
<1>22. mm >= proof /\ proof >= five + 1 /\ five >= height + 5
  BY <1>8, <1>10, <1>12, <1>21, <1>9, <1>11 DEF Reached
<1>23. height >= after /\ after >= uncles + 1
  BY <1>4, <1>6, <1>21, <1>5 DEF Reached
<1>24. end >= uncles + 8 + 4 * WordSize
  BY <1>1, <1>3, <1>5, <1>7, <1>9, <1>11, <1>13, <1>15, <1>17, <1>20, <1>22, <1>23
<1>25. uncles = 1 + 4 * HashSize
  BY DEF uncles
<1>26. QED
  BY <1>1, <1>3, <1>19, <1>20, <1>24, <1>25

-----------------------------------------------------------------------------
(***************************************************************************)
(* Entries.                                                                *)
(***************************************************************************)
(* The bytes of a part, by its place.                                      *)
LEMMA SubSeqAt ==
  ASSUME NEW d \in ByteSeq, NEW p, NEW s, At(d, p, s)
  PROVE  SubSeq(d, p, p + Len(s) - 1) = s
<1>1. p \in Nat \ {0} /\ Len(d) \in Nat /\ Len(s) \in Nat /\ p + Len(s) - 1 <= Len(d)
  BY LenProperties DEF At, ByteSeq
<1>2. After(d, p, Len(s)) # Fail
  BY <1>1 DEF After, Fail
<1>3. Bytes(d, p, Len(s)) = SubSeq(d, p, p + Len(s) - 1)
  BY <1>2 DEF Bytes
<1>4. QED
  BY <1>3, BytesAt

(* Some bytes of a sequence.                                               *)
LEMMA SubBytes ==
  ASSUME NEW d \in ByteSeq, NEW m \in Nat \ {0}, NEW n \in Nat, m <= n + 1, n <= Len(d)
  PROVE  /\ SubSeq(d, m, n) \in ByteSeq /\ Len(SubSeq(d, m, n)) = n - m + 1
         /\ \A k \in 1..(n - m + 1) : SubSeq(d, m, n)[k] = d[m + k - 1]
<1>1. Len(d) \in Nat /\ \A i \in 1..Len(d) : d[i] \in Nat
  BY LenProperties, ElementOfSeq DEF ByteSeq
<1>2. m \in Int /\ n \in Int /\ \A i \in m..n : d[i] \in Nat
  BY <1>1
<1>3. /\ SubSeq(d, m, n) \in ByteSeq
      /\ Len(SubSeq(d, m, n)) = IF m <= n THEN n - m + 1 ELSE 0
      /\ \A i \in 1..(n - m + 1) : SubSeq(d, m, n)[i] = d[m + i - 1]
  <2>1. d \in Seq(Nat)
    BY DEF ByteSeq
  <2>2. SubSeq(d, m, n) \in Seq(Nat)
    BY <1>2, <2>1, SubSeqProperties
  <2>3. Len(SubSeq(d, m, n)) = IF m <= n THEN n - m + 1 ELSE 0
    BY <1>2, <2>1, SubSeqProperties
  <2>4. \A i \in 1..(n - m + 1) : SubSeq(d, m, n)[i] = d[m + i - 1]
    BY <1>2, <2>1, SubSeqProperties
  <2>5. QED
    BY <2>2, <2>3, <2>4 DEF ByteSeq
<1>4. (IF m <= n THEN n - m + 1 ELSE 0) = n - m + 1
  OBVIOUS
<1>5. QED
  BY <1>3, <1>4

(* The parts of a whole are where they were put.                           *)
LEMMA AtWhole ==
  ASSUME NEW d \in ByteSeq
  PROVE  At(d, 1, d)
<1>1. Len(d) \in Nat
  BY LenProperties DEF ByteSeq
<1>2. QED
  BY <1>1 DEF At

(* A number of four bytes.                                                 *)
Fits(n) == n \div 16777216 < 256

(* The quotients of the bytes of a number.                                 *)
LEMMA Quotients ==
  ASSUME NEW n \in Nat
  PROVE  /\ n \div 65536 = (n \div 256) \div 256
         /\ n \div 16777216 = ((n \div 256) \div 256) \div 256
<1> DEFINE a == n \div 256
           b == a \div 256
           c == b \div 256
<1>1. a \in Nat /\ 256 * a <= n /\ n < 256 * a + 256
  BY SMT
<1> HIDE DEF a
<1>2. b \in Nat /\ 256 * b <= a /\ a < 256 * b + 256
  BY SMT, <1>1
<1> HIDE DEF b
<1>3. c \in Nat /\ 256 * c <= b /\ b < 256 * c + 256
  BY SMT, <1>2
<1> HIDE DEF c
<1>4. 65536 * b <= n /\ n < 65536 * b + 65536
  BY SMT, <1>1, <1>2
<1>5. 16777216 * c <= n /\ n < 16777216 * c + 16777216
  BY SMT, <1>1, <1>2, <1>3
<1>6. n \div 65536 = b
  BY SMT, <1>2, <1>4
<1>7. n \div 16777216 = c
  BY SMT, <1>3, <1>5
<1>8. QED
  BY SMT, <1>6, <1>7 DEF a, b, c

(* A length, as bytes and back.                                            *)
LEMMA LittleNumber ==
  ASSUME NEW n \in Nat, Fits(n)
  PROVE  /\ Little(n) \in ByteSeq /\ Len(Little(n)) = WordSize
         /\ Number(Little(n)) = n
<1> DEFINE a == n \div 256
           b == n \div 65536
           c == n \div 16777216
           r0 == n % 256
           r1 == a % 256
           r2 == b % 256
           r3 == c % 256
<1>1. b = a \div 256 /\ c = b \div 256 /\ a \in Nat
  BY SMT, Quotients
<1>2. r0 \in Nat /\ n = 256 * a + r0
  BY SMT
<1>3. b \in Nat /\ c \in Nat /\ c < 256
  BY SMT DEF Fits
<1>4. Little(n) = <<r0, r1, r2, r3>>
  BY SMT DEF Little
<1> HIDE DEF a, b, c, r0
<1>5. r1 \in Nat /\ a = 256 * b + r1
  BY SMT, <1>1
<1> HIDE DEF r1
<1>6. r2 \in Nat /\ b = 256 * c + r2
  BY SMT, <1>1, <1>3
<1> HIDE DEF r2
<1>7. r3 = c /\ r3 \in Nat
  BY SMT, <1>3
<1> HIDE DEF r3
<1>8. r0 + 256 * r1 + 65536 * r2 + 16777216 * r3 = n
  BY SMT, <1>2, <1>3, <1>5, <1>6, <1>7, <1>1
<1>9. Number(Little(n)) = r0 + 256 * r1 + 65536 * r2 + 16777216 * r3
  BY SMT, <1>4 DEF Number
<1>10. Little(n) \in ByteSeq /\ Len(Little(n)) = WordSize
  <2>1. r0 \in Nat /\ r1 \in Nat /\ r2 \in Nat /\ r3 \in Nat
    BY SMT, <1>2, <1>5, <1>6, <1>7
  <2>2. <<r0, r1, r2, r3>> \in Seq(Nat) /\ Len(<<r0, r1, r2, r3>>) = 4
    BY <2>1
  <2>3. QED
    BY SMT, <1>4, <2>2 DEF ByteSeq, WordSize
<1>11. QED
  BY SMT, <1>8, <1>9, <1>10

(* The parts of an entry.                                                  *)
LEMMA EntryParts ==
  ASSUME NEW b, b.id \in Nat, NEW x \in ByteSeq, Fits(Len(x))
  PROVE  /\ EntryOf(b, x) \in ByteSeq /\ Len(EntryOf(b, x)) = Header + Len(x)
         /\ Header \in Nat /\ Header = HashSize + WordSize
         /\ \A e \in ByteSeq : At(e, 1, EntryOf(b, x)) =>
              /\ At(e, 1, H(b.id)) /\ At(e, HashSize + 1, Little(Len(x)))
              /\ At(e, Header + 1, x)
<1> DEFINE h == H(b.id)
           l == Little(Len(x))
<1>1. Len(x) \in Nat
  BY LenProperties DEF ByteSeq
<1>2. h \in ByteSeq /\ Len(h) = HashSize
  BY HashBytes
<1>3. l \in ByteSeq /\ Len(l) = WordSize
  BY <1>1, LittleNumber
<1>4. EntryOf(b, x) = (h \o l) \o x
  BY DEF EntryOf
<1>5. HashSize \in Nat /\ WordSize \in Nat /\ Header = HashSize + WordSize
  BY SizesAssumption DEF WordSize, Header
<1> HIDE DEF h, l
<1>6. h \o l \in ByteSeq /\ Len(h \o l) = HashSize + WordSize
  BY <1>2, <1>3, ConcatProperties DEF ByteSeq
<1>7. (h \o l) \o x \in ByteSeq /\ Len((h \o l) \o x) = Header + Len(x)
  BY <1>1, <1>5, <1>6, ConcatProperties DEF ByteSeq
<1>8. ASSUME NEW e \in ByteSeq, At(e, 1, (h \o l) \o x)
      PROVE  At(e, 1, h) /\ At(e, HashSize + 1, l) /\ At(e, Header + 1, x)
  <2>1. Len(e) \in Nat
    BY LenProperties DEF ByteSeq
  <2>2. At(e, 1, h \o l) /\ At(e, 1 + (HashSize + WordSize), x)
    <3>1. At(e, 1, h \o l) /\ At(e, 1 + Len(h \o l), x)
      BY <1>6, <1>8, <2>1, AtParts
    <3>2. QED
      BY <1>6, <3>1
  <2>3. At(e, 1, h) /\ At(e, 1 + HashSize, l)
    <3>1. At(e, 1, h) /\ At(e, 1 + Len(h), l)
      BY <1>2, <1>3, <2>1, <2>2, AtParts
    <3>2. QED
      BY <1>2, <3>1
  <2>4. 1 + HashSize = HashSize + 1 /\ 1 + (HashSize + WordSize) = Header + 1
    BY <1>5
  <2>5. QED
    BY <2>2, <2>3, <2>4
<1>9. Header \in Nat
  BY <1>5
<1>10. QED
  BY <1>4, <1>5, <1>7, <1>8, <1>9 DEF h, l

(* What the parser takes for the block of an entry.                        *)
LEMMA EntryRead ==
  ASSUME NEW b, b.id \in Nat, NEW x \in ByteSeq, Fits(Len(x)),
         NEW e \in ByteSeq, At(e, 1, EntryOf(b, x))
  PROVE  Complete(e) /\ BlockData(e) = x /\ Hash(e, 1) = H(b.id)
<1>1. /\ At(e, 1, H(b.id)) /\ At(e, HashSize + 1, Little(Len(x))) /\ At(e, Header + 1, x)
      /\ Header \in Nat /\ Header = HashSize + WordSize
  BY EntryParts
<1>2. Len(x) \in Nat /\ Len(e) \in Nat /\ HashSize \in Nat
  BY LenProperties, SizesAssumption DEF ByteSeq
<1>3. Len(Little(Len(x))) = WordSize /\ Number(Little(Len(x))) = Len(x)
  BY <1>2, LittleNumber
<1>4. Word(e, HashSize + 1) = Little(Len(x))
  BY <1>1, <1>3, BytesAt DEF Word
<1>5. Number(Word(e, HashSize + 1)) = Len(x)
  BY <1>3, <1>4
<1>6. Header + Len(x) <= Len(e)
  <2>1. Header + 1 + Len(x) - 1 <= Len(e)
    BY <1>1 DEF At
  <2>2. QED
    BY <1>1, <1>2, <2>1
<1>7. Complete(e)
  BY <1>1, <1>2, <1>5, <1>6 DEF Complete
<1>8. BlockData(e) = x
  <2>1. SubSeq(e, Header + 1, (Header + 1) + Len(x) - 1) = x
    BY <1>1, SubSeqAt
  <2>2. (Header + 1) + Len(x) - 1 = Header + Len(x)
    BY <1>1, <1>2
  <2>3. QED
    BY <1>5, <2>1, <2>2 DEF BlockData
<1>9. Hash(e, 1) = H(b.id)
  BY <1>1, HashAt
<1>10. QED
  BY <1>7, <1>8, <1>9

(* An entry that has lost bytes at its end is not complete.                *)
LEMMA EntryCut ==
  ASSUME NEW b, b.id \in Nat, NEW x \in ByteSeq, Fits(Len(x)),
         NEW n \in Nat \ {0}, n <= Len(x)
  PROVE  ~Complete(Cut(EntryOf(b, x), n))
<1> DEFINE f == EntryOf(b, x)
           k == Len(f) - n
           e == SubSeq(f, 1, k)
           l == Little(Len(x))
<1>1. /\ f \in ByteSeq /\ Len(f) = Header + Len(x) /\ Header = HashSize + WordSize
  BY EntryParts
<1>2. At(f, HashSize + 1, l)
  BY <1>1, AtWhole, EntryParts
<1>3. Len(x) \in Nat /\ HashSize \in Nat /\ WordSize \in Nat
  BY LenProperties, SizesAssumption DEF ByteSeq, WordSize
<1>4. Len(l) = WordSize /\ Number(l) = Len(x) /\ l \in ByteSeq
  BY <1>3, LittleNumber
<1> HIDE DEF f, l
<1>5. k \in Nat /\ k <= Len(f) /\ k >= HashSize + WordSize /\ k < Header + Len(x)
  BY <1>1, <1>3
<1> HIDE DEF k
<1>6. e \in ByteSeq /\ Len(e) = k /\ \A i \in 1..k : e[i] = f[i]
  <2>1. 1 \in Nat \ {0} /\ 1 <= k + 1 /\ k - 1 + 1 = k
    BY <1>5
  <2>2. /\ e \in ByteSeq /\ Len(e) = k - 1 + 1
        /\ \A i \in 1..(k - 1 + 1) : e[i] = f[1 + i - 1]
    BY <1>1, <1>5, <2>1, SubBytes
  <2> HIDE DEF e
  <2>3. \A i \in 1..k : 1 + i - 1 = i
    OBVIOUS
  <2>4. QED
    BY <2>1, <2>2, <2>3
<1> HIDE DEF e
<1>7. At(e, HashSize + 1, l)
  <2>1. \A i \in 1..Len(l) : f[HashSize + 1 + i - 1] = l[i]
    BY <1>2 DEF At
  <2>2. \A i \in 1..WordSize : HashSize + 1 + i - 1 \in 1..k
    BY <1>3, <1>5
  <2>3. \A i \in 1..WordSize : e[HashSize + 1 + i - 1] = l[i]
    BY <1>4, <1>6, <2>1, <2>2
  <2>4. HashSize + 1 \in Nat \ {0} /\ HashSize + 1 + WordSize - 1 <= k
    BY <1>3, <1>5
  <2>5. QED
    BY <1>4, <1>6, <2>3, <2>4 DEF At
<1>8. Word(e, HashSize + 1) = l
  BY <1>4, <1>6, <1>7, BytesAt DEF Word
<1>9. Number(Word(e, HashSize + 1)) = Len(x)
  BY <1>4, <1>8
<1>10. ~(k >= Header + Len(x))
  BY <1>1, <1>3, <1>5
<1>11. ~Complete(e)
  BY <1>6, <1>9, <1>10 DEF Complete
<1>12. QED
  BY <1>11 DEF Cut, e, k, f

(* The bytes of a block of four bytes of length at most.                   *)
BufferBlock == {b \in ShortBlock : Fits(Len(BlockBytes(b)))}

(* The parts of a block.                                                   *)
LEMMA BlockParts ==
  ASSUME NEW b \in ShortBlock
  PROVE  /\ BlockBytes(b) \in ByteSeq /\ b.id \in Nat \ {0} /\ b.major \in 1..20
         /\ MainchainBytes(b) \in ByteSeq /\ SidechainBytes(b) \in ByteSeq
         /\ \E e, q : /\ Piece(BlockBytes(b), 1, e, MainchainBytes(b))
                      /\ Piece(BlockBytes(b), e, Len(BlockBytes(b)) + 1, SidechainBytes(b))
                      /\ MainLaid(q, BlockBytes(b), e, b)
<1> DEFINE m == MainchainBytes(b)
           s == SidechainBytes(b)
           d == BlockBytes(b)
<1>1. m \in ByteSeq /\ s \in ByteSeq
  BY MainchainPartsType, SidechainPartsType
<1>2. d = m \o s
  BY DEF BlockBytes
<1> HIDE DEF m, s, d
<1>3. d \in ByteSeq
  BY <1>1, <1>2, ConcatProperties DEF ByteSeq
<1>4. Len(d) \in Nat
  BY <1>3, LenProperties DEF ByteSeq
<1>5. Piece(d, 1, Len(d) + 1, m \o s)
  <2>1. At(d, 1, d)
    BY <1>3, AtWhole
  <2>2. 1 + Len(d) = Len(d) + 1
    BY <1>4
  <2>3. QED
    BY <1>2, <2>1, <2>2, <1>4 DEF Piece
<1>6. PICK e : Piece(d, 1, e, m) /\ Piece(d, e, Len(d) + 1, s)
  BY <1>1, <1>3, <1>5, TwoPieces
<1>7. PICK q : MainLaid(q, d, e, b)
  BY <1>4, <1>6, MainchainLayout DEF m
<1>8. b.id \in Nat \ {0} /\ b.major \in 1..20
  <2>1. b \in Block
    BY DEF ShortBlock
  <2>2. QED
    BY <2>1, BlockFields
<1>9. QED
  BY <1>1, <1>3, <1>6, <1>7, <1>8 DEF m, s, d

(* The data of the side chain ends at its end.                             *)
LEMMA SidechainWhole ==
  ASSUME NEW b \in ShortBlock
  PROVE  LET s == SidechainBytes(b)
         IN  /\ Sidechain(s).end = Len(s) + 1 /\ Sidechain(s).fields = SidechainShare(b)
             /\ Len(s) \in Nat \ {0}
             /\ \A c : PrefixOf(c, s) /\ Len(c) < Len(s) => Sidechain(c).end = Fail
<1> DEFINE s == SidechainBytes(b)
           n == Len(s) + 1
<1>1. s \in ByteSeq
  BY SidechainPartsType
<1> HIDE DEF s
<1>2. Len(s) \in Nat /\ n \in Nat \ {0}
  BY <1>1, LenProperties DEF ByteSeq
<1>3. Piece(s, 1, n, s)
  <2>1. At(s, 1, s)
    BY <1>1, AtWhole
  <2>2. 1 + Len(s) = n
    BY <1>2
  <2>3. QED
    BY <1>2, <2>1, <2>2 DEF Piece
<1>4. PICK q : SideLaid(q, s, n, b)
  BY <1>2, <1>3, SidechainLayout DEF s
<1>5. Clip(s, n) = n
  BY <1>1, <1>3, WholePiece
<1>6. Sidechain(s).end = n /\ Sidechain(s).fields = SidechainShare(b)
  BY <1>1, <1>4, <1>5, WholePrefix, SidechainEnd, SidechainFields
<1>7. Len(s) # 0
  <2>1. n # Fail
    BY <1>2 DEF Fail
  <2>2. Len(s) >= 4 * HashSize + 4 * WordSize + 8
    BY <1>1, <1>6, <2>1, SidechainNeeds
  <2>3. HashSize \in Nat /\ WordSize \in Nat
    BY SizesAssumption DEF WordSize
  <2>4. QED
    BY <2>2, <2>3
<1>8. ASSUME NEW c, PrefixOf(c, s), Len(c) < Len(s)
      PROVE  Sidechain(c).end = Fail
  <2>1. Sidechain(c).end = Clip(c, n)
    BY <1>4, <1>8, SidechainEnd
  <2>2. Len(c) \in Nat
    BY <1>8, PrefixBytes
  <2>3. ~(n - 1 <= Len(c))
    BY <1>2, <1>8, <2>2
  <2>4. QED
    BY <2>1, <2>3 DEF Clip
<1>9. QED
  BY <1>2, <1>6, <1>7, <1>8 DEF s

(* What the parser makes of an entry, given its block.                     *)
LEMMA ParseOf ==
  ASSUME NEW e, NEW d, Complete(e), BlockData(e) = d
  PROVE  LET main == Mainchain(d)
             side == Sidechain(SubSeq(d, main.end, Len(d)))
         IN  ParseCacheEntry(e) =
               IF /\ Len(d) >= 2 /\ d[1] \in 1..20
                  /\ main.end # Fail /\ main.end <= Len(d) /\ side.end # Fail
               THEN {With(With([SidechainId |-> Hash(e, 1)], main.fields), side.fields)}
               ELSE {}
BY DEF ParseCacheEntry

(* An entry that has its block is the block's share, whatever follows it.  *)
LEMMA EntryWhole ==
  ASSUME NEW b \in BufferBlock, NEW e \in ByteSeq, At(e, 1, EntryOf(b, BlockBytes(b)))
  PROVE  ParseCacheEntry(e) = {ShareOf(b)} /\ ~PanicsOn(e)
<1> DEFINE d == BlockBytes(b)
           s == SidechainBytes(b)
<1>1. b \in ShortBlock /\ Fits(Len(d))
  BY DEF BufferBlock
<1>2. d \in ByteSeq /\ s \in ByteSeq /\ b.id \in Nat /\ b.major \in 1..20
  BY <1>1, BlockParts
<1>3. PICK m, q : /\ Piece(d, 1, m, MainchainBytes(b)) /\ Piece(d, m, Len(d) + 1, s)
                  /\ MainLaid(q, d, m, b)
  BY <1>1, BlockParts
<1>4. Complete(e) /\ BlockData(e) = d /\ Hash(e, 1) = H(b.id)
  BY <1>1, <1>2, EntryRead
<1>5. /\ Sidechain(s).end = Len(s) + 1 /\ Sidechain(s).fields = SidechainShare(b)
      /\ Len(s) \in Nat \ {0}
  BY <1>1, SidechainWhole
<1> HIDE DEF d, s
<1>6. Mainchain(d).end = m /\ Mainchain(d).fields = MainchainShare(b)
  BY <1>1, <1>2, <1>3, MainchainFields
<1>7. /\ m \in Nat \ {0} /\ Len(d) \in Nat /\ Len(d) + 1 = m + Len(s) /\ At(d, m, s)
  BY <1>2, <1>3, LenProperties DEF Piece, ByteSeq
<1>8. m # Fail /\ m <= Len(d) /\ m + Len(s) - 1 = Len(d)
  BY <1>5, <1>7 DEF Fail
<1>9. SubSeq(d, m, Len(d)) = s
  BY <1>2, <1>7, <1>8, SubSeqAt
<1>10. Sidechain(s).end # Fail
  BY <1>5 DEF Fail
<1>11. Len(d) >= 2 /\ d[1] = b.major
  <2>1. Piece(d, q[1], q[2], <<b.major>>) /\ Piece(d, q[2], q[3], <<0>>) /\ q[1] = 1
    BY <1>3 DEF MainLaid
  <2>2. d[1] = b.major
    BY <2>1, WholeByte
  <2>3. q[2] = 2 /\ q[3] = 3
    <3>1. Len(<<b.major>>) = 1 /\ Len(<<0>>) = 1
      OBVIOUS
    <3>2. q[2] = q[1] + 1 /\ q[3] = q[2] + 1
      BY <2>1, <3>1 DEF Piece
    <3>3. QED
      BY <2>1, <3>2
  <2>4. q[3] - 1 <= Len(d)
    BY <1>2, <2>1, WholePiece
  <2>5. QED
    BY <1>7, <2>2, <2>3, <2>4
<1>12. ParseCacheEntry(e) =
         {With(With([SidechainId |-> Hash(e, 1)], Mainchain(d).fields), Sidechain(s).fields)}
  BY <1>2, <1>4, <1>6, <1>8, <1>9, <1>10, <1>11, ParseOf
<1>13. ParseCacheEntry(e) = {ShareOf(b)}
  BY <1>4, <1>5, <1>6, <1>12 DEF ShareOf
<1>14. d # << >>
  <2>1. Len(<< >>) = 0
    OBVIOUS
  <2>2. Len(d) # 0
    BY <1>7, <1>11
  <2>3. QED
    BY <2>1, <2>2
<1>15. ~PanicsOn(e)
  BY <1>4, <1>14 DEF PanicsOn
<1>16. QED
  BY <1>13, <1>15

(* What is left of a block that has lost bytes is no share, unless its     *)
(* protocol transaction is long.                                           *)
LEMMA BlockCut ==
  ASSUME NEW b \in ShortBlock, NEW c, PrefixOf(c, BlockBytes(b)), Len(c) < Len(BlockBytes(b)),
         Len(ProtocolBytes(b)) < 8 * HashSize + 4 * WordSize + 10,
         Mainchain(c).end # Fail, Mainchain(c).end <= Len(c)
  PROVE  Sidechain(SubSeq(c, Mainchain(c).end, Len(c))).end = Fail
<1> DEFINE d == BlockBytes(b)
           s == SidechainBytes(b)
           m == Mainchain(c).end
           r == SubSeq(c, m, Len(c))
<1>1. d \in ByteSeq /\ s \in ByteSeq
  BY BlockParts
<1>2. PICK e, q : /\ Piece(d, 1, e, MainchainBytes(b)) /\ Piece(d, e, Len(d) + 1, s)
                  /\ MainLaid(q, d, e, b)
  BY BlockParts
<1>3. /\ Len(c) \in Nat /\ Len(d) \in Nat /\ \A k \in 1..Len(c) : c[k] = d[k]
      /\ c \in ByteSeq /\ HashSize \in Nat /\ WordSize \in Nat
  BY PrefixBytes, SizesAssumption DEF WordSize
<1>4. \/ m = Clip(c, e)
      \/ /\ m \in Nat \ {0}
         /\ Len(c) - m + 3 + 4 * HashSize <= Len(ProtocolBytes(b))
  BY <1>2, MainchainEnd
<1>5. /\ e \in Nat \ {0} /\ Len(d) + 1 = e + Len(s) /\ Len(s) \in Nat /\ At(d, e, s)
  BY <1>1, <1>2, LenProperties DEF Piece, ByteSeq
<1>6. \A x : PrefixOf(x, s) /\ Len(x) < Len(s) => Sidechain(x).end = Fail
  BY SidechainWhole
<1>7. Len(ProtocolBytes(b)) \in Nat
  <2>1. b \in Block
    BY DEF ShortBlock
  <2>2. QED
    BY <2>1, ProtocolBytesType, LenProperties DEF ByteSeq
<1> HIDE DEF d, s, m
<1>8. CASE m = Clip(c, e)
  <2>1. m = e
    BY <1>8 DEF Clip, m
  <2>2. e <= Len(c)
    BY <2>1 DEF m
  <2>3. /\ r \in ByteSeq /\ Len(r) = Len(c) - e + 1
        /\ \A k \in 1..(Len(c) - e + 1) : r[k] = c[e + k - 1]
    <3>1. e <= Len(c) + 1
      BY <1>3, <1>5, <2>2
    <3>2. QED
      BY <1>3, <1>5, <2>1, <3>1, SubBytes
  <2> HIDE DEF r
  <2>4. Len(r) < Len(s)
    BY <1>3, <1>5, <2>3 DEF d
  <2>5. ASSUME NEW k \in 1..Len(r) PROVE r[k] = s[k]
    <3>1. k \in 1..(Len(c) - e + 1) /\ k \in 1..Len(s) /\ e + k - 1 \in 1..Len(c)
      BY <1>3, <1>5, <2>2, <2>3, <2>4
    <3>2. r[k] = c[e + k - 1] /\ d[e + k - 1] = s[k]
      BY <1>5, <2>3, <3>1 DEF At
    <3>3. QED
      BY <1>3, <3>1, <3>2
  <2>6. PrefixOf(r, s)
    <3>1. Len(r) \in Nat
      BY <2>3, LenProperties DEF ByteSeq
    <3>2. Len(r) <= Len(s)
      BY <1>5, <2>4, <3>1
    <3>3. QED
      BY <1>1, <2>3, <2>5, <3>2 DEF PrefixOf
  <2>7. QED
    BY <1>6, <2>4, <2>6 DEF r, m
<1>9. CASE m \in Nat \ {0} /\ Len(c) - m + 3 + 4 * HashSize <= Len(ProtocolBytes(b))
  <2>1. m <= Len(c)
    BY DEF m
  <2>2. r \in ByteSeq /\ Len(r) = Len(c) - m + 1
    <3>1. m <= Len(c) + 1
      BY <1>3, <1>9, <2>1
    <3>2. QED
      BY <1>3, <1>9, <3>1, SubBytes
  <2> HIDE DEF r
  <2>3. ~(Len(r) >= 4 * HashSize + 4 * WordSize + 8)
    <3>1. Len(ProtocolBytes(b)) < 8 * HashSize + 4 * WordSize + 10
      OBVIOUS
    <3>2. QED
      BY <1>3, <1>7, <1>9, <2>2, <3>1
  <2>4. Sidechain(r).end = Fail
    BY <2>2, <2>3, SidechainNeeds
  <2>5. QED
    BY <2>4 DEF r, m
<1>10. QED
  BY <1>4, <1>8, <1>9

(* A smaller number has as many bytes at most.                             *)
LEMMA FitsLess ==
  ASSUME NEW m \in Nat, NEW n \in Nat, m <= n, Fits(n)
  PROVE  Fits(m)
BY SMT DEF Fits

(* What is left when bytes are lost.                                       *)
LEMMA CutPrefix ==
  ASSUME NEW d \in ByteSeq, NEW n \in Nat \ {0}, n <= Len(d)
  PROVE  /\ PrefixOf(Cut(d, n), d) /\ Cut(d, n) \in ByteSeq
         /\ Len(Cut(d, n)) \in Nat /\ Len(Cut(d, n)) < Len(d) /\ Len(d) \in Nat
<1> DEFINE k == Len(d) - n
           c == SubSeq(d, 1, k)
<1>1. Len(d) \in Nat
  BY LenProperties DEF ByteSeq
<1>2. k \in Nat /\ k <= Len(d) /\ k < Len(d)
  BY <1>1
<1> HIDE DEF k
<1>3. 1 \in Nat \ {0} /\ 1 <= k + 1 /\ k - 1 + 1 = k
  BY <1>2
<1>4. /\ c \in ByteSeq /\ Len(c) = k - 1 + 1 /\ \A i \in 1..(k - 1 + 1) : c[i] = d[1 + i - 1]
  BY <1>2, <1>3, SubBytes
<1> HIDE DEF c
<1>5. \A i \in 1..k : 1 + i - 1 = i
  OBVIOUS
<1>6. c \in ByteSeq /\ Len(c) = k /\ \A i \in 1..Len(c) : c[i] = d[i]
  BY <1>3, <1>4, <1>5
<1>7. Cut(d, n) = c
  BY DEF Cut, c, k
<1>8. PrefixOf(c, d)
  BY <1>2, <1>6 DEF PrefixOf
<1>9. QED
  BY <1>1, <1>2, <1>6, <1>7, <1>8

(* An entry whose block has lost bytes is no share.                        *)
LEMMA EntryShort ==
  ASSUME NEW b \in BufferBlock, NEW n \in Nat \ {0}, n <= Len(BlockBytes(b)),
         Len(ProtocolBytes(b)) < 8 * HashSize + 4 * WordSize + 10
  PROVE  ParseCacheEntry(EntryOf(b, Cut(BlockBytes(b), n))) = {}
<1> DEFINE d == BlockBytes(b)
           c == Cut(d, n)
           e == EntryOf(b, c)
           m == Mainchain(c).end
<1>1. b \in ShortBlock /\ Fits(Len(d))
  BY DEF BufferBlock
<1>2. d \in ByteSeq /\ b.id \in Nat
  BY <1>1, BlockParts
<1>3. /\ PrefixOf(c, d) /\ c \in ByteSeq /\ Len(c) \in Nat /\ Len(c) < Len(d) /\ Len(d) \in Nat
  BY <1>2, CutPrefix
<1> HIDE DEF c
<1>4. Fits(Len(c))
  <2>1. Len(c) <= Len(d)
    BY <1>3
  <2> HIDE DEF d
  <2>2. QED
    BY <1>1, <1>3, <2>1, FitsLess
<1>5. e \in ByteSeq
  BY <1>2, <1>3, <1>4, EntryParts
<1>6. Complete(e) /\ BlockData(e) = c
  BY <1>2, <1>3, <1>4, <1>5, AtWhole, EntryRead
<1>7. m # Fail /\ m <= Len(c) => Sidechain(SubSeq(c, m, Len(c))).end = Fail
  BY <1>1, <1>3, BlockCut
<1> HIDE DEF e
<1>8. ParseCacheEntry(e) = {}
  BY <1>6, <1>7, ParseOf
<1>9. QED
  BY <1>8 DEF e, c

(* An entry without a version is no share.                                 *)
LEMMA EntryVersion ==
  ASSUME NEW b \in BufferBlock
  PROVE  ParseCacheEntry(EntryOf(b, [BlockBytes(b) EXCEPT ![1] = 0])) = {}
<1> DEFINE d == BlockBytes(b)
           c == [d EXCEPT ![1] = 0]
           e == EntryOf(b, c)
<1>1. b \in ShortBlock /\ Fits(Len(d))
  BY DEF BufferBlock
<1>2. d \in ByteSeq /\ b.id \in Nat
  BY <1>1, BlockParts
<1> HIDE DEF d
<1>3. Len(d) \in Nat /\ d = [i \in 1..Len(d) |-> d[i]] /\ \A i \in 1..Len(d) : d[i] \in Nat
  BY <1>2, LenProperties, ElementOfSeq DEF ByteSeq
<1>4. c = [i \in 1..Len(d) |-> c[i]] /\ \A i \in 1..Len(d) : c[i] = IF i = 1 THEN 0 ELSE d[i]
  BY <1>3
<1> HIDE DEF c
<1>5. \A i \in 1..Len(d) : c[i] \in Nat
  BY <1>3, <1>4
<1>6. c \in ByteSeq /\ Len(c) = Len(d)
  BY <1>3, <1>4, <1>5, BytesOf
<1>7. e \in ByteSeq
  BY <1>1, <1>2, <1>6, EntryParts
<1>8. Complete(e) /\ BlockData(e) = c
  BY <1>1, <1>2, <1>6, <1>7, AtWhole, EntryRead
<1> HIDE DEF e
<1>9. ~(Len(c) >= 2 /\ c[1] \in 1..20)
  <2>1. Len(c) >= 2 => 1 \in 1..Len(d)
    BY <1>3, <1>6
  <2>2. Len(c) >= 2 => c[1] = 0
    BY <1>4, <2>1
  <2>3. QED
    BY <2>2
<1>10. ParseCacheEntry(e) = {}
  BY <1>8, <1>9, ParseOf
<1>11. QED
  BY <1>10 DEF e, c, d

(* An entry that is not complete is no share.                              *)
LEMMA EntryIncomplete ==
  ASSUME NEW b \in BufferBlock, NEW n \in Nat \ {0}, n <= Len(BlockBytes(b))
  PROVE  ParseCacheEntry(Cut(EntryOf(b, BlockBytes(b)), n)) = {}
<1>1. b \in ShortBlock /\ Fits(Len(BlockBytes(b)))
  BY DEF BufferBlock
<1>2. BlockBytes(b) \in ByteSeq /\ b.id \in Nat
  BY <1>1, BlockParts
<1>3. ~Complete(Cut(EntryOf(b, BlockBytes(b)), n))
  BY <1>1, <1>2, EntryCut
<1>4. QED
  BY <1>3 DEF ParseCacheEntry

(* The kinds of damage.                                                    *)
LEMMA DamageKinds ==
  ASSUME NEW dm \in Damages
  PROVE  /\ dm \in {Intact, Longer} <=> dm.kind \notin {"version", "value", "block"}
         /\ dm = Intact \/ dm = Longer \/ dm.kind \in {"version", "value", "block"}
         /\ dm.kind \in {"value", "block"} => dm.n \in Nat \ {0}
         /\ dm = Intact => dm.kind = "none"
         /\ dm = Longer => dm.kind = "longer" /\ dm.n = 3
<1>1. Intact.kind = "none" /\ Longer.kind = "longer" /\ Longer.n = 3
  BY DEF Intact, Longer
<1>2. \/ dm = Intact \/ dm = Longer
      \/ dm = [kind |-> "version", n |-> 0]
      \/ dm \in [kind : {"value", "block"}, n : Cuts]
  BY DEF Damages
<1>3. dm \in [kind : {"value", "block"}, n : Cuts] => dm.kind \in {"value", "block"} /\ dm.n \in Cuts
  OBVIOUS
<1>4. Cuts \subseteq Nat \ {0}
  BY CutsAssumption
<1>5. CASE dm = Intact \/ dm = Longer
  BY <1>1, <1>5
<1>6. CASE dm = [kind |-> "version", n |-> 0]
  <2>1. dm.kind = "version"
    BY <1>6
  <2>2. QED
    BY <1>1, <2>1
<1>7. CASE dm \in [kind : {"value", "block"}, n : Cuts]
  BY <1>1, <1>3, <1>4, <1>7
<1>8. QED
  BY <1>2, <1>5, <1>6, <1>7

(* What ParseCacheEntry makes of an entry (parser.go:18): the share of the *)
(* block it was written from, field for field and without a panic, if the  *)
(* entry is whole, whatever follows it; nothing, if bytes are missing from *)
(* the value or from the block, however many and wherever the parser meets *)
(* the end, or if the version is none.                                     *)
THEOREM EntryParsed ==
  ASSUME NEW b \in BufferBlock, NEW dm \in Damages, dm.n <= Len(BlockBytes(b)),
         Len(ProtocolBytes(b)) < 8 * HashSize + 4 * WordSize + 10
  PROVE  /\ dm \in {Intact, Longer} =>
              ParseCacheEntry(Entry(b, dm)) = {ShareOf(b)} /\ ~PanicsOn(Entry(b, dm))
         /\ dm \notin {Intact, Longer} => ParseCacheEntry(Entry(b, dm)) = {}
<1> DEFINE x == BlockBytes(b)
           e == EntryOf(b, x)
<1>1. b \in ShortBlock /\ Fits(Len(x))
  BY DEF BufferBlock
<1>2. x \in ByteSeq /\ b.id \in Nat
  BY <1>1, BlockParts
<1>3. e \in ByteSeq
  BY <1>1, <1>2, EntryParts
<1>4. At(e, 1, e)
  BY <1>3, AtWhole
<1>5. CASE dm = Intact
  <2>1. Entry(b, dm) = e
    BY <1>5, DamageKinds DEF Entry
  <2>2. ParseCacheEntry(e) = {ShareOf(b)} /\ ~PanicsOn(e)
    BY <1>3, <1>4, EntryWhole
  <2>3. QED
    BY <1>5, <2>1, <2>2
<1>6. CASE dm = Longer
  <2> DEFINE z == Fixed(0, 3)
             f == e \o z
  <2>1. z \in ByteSeq
    <3>1. 0 \in Nat /\ 3 \in Nat
      OBVIOUS
    <3>2. QED
      BY <3>1, FixedBytes
  <2>2. Entry(b, dm) = f
    BY <1>6, DamageKinds DEF Entry
  <2> HIDE DEF z, e
  <2>3. f \in ByteSeq
    BY <1>3, <2>1, ConcatProperties DEF ByteSeq
  <2>4. At(f, 1, e)
    <3>1. At(f, 1, f) /\ Len(f) \in Nat
      BY <2>3, AtWhole, LenProperties DEF ByteSeq
    <3>2. QED
      BY <1>3, <2>1, <3>1, AtParts
  <2> HIDE DEF f
  <2>5. ParseCacheEntry(f) = {ShareOf(b)} /\ ~PanicsOn(f)
    BY <2>3, <2>4, EntryWhole DEF e
  <2>6. QED
    BY <1>6, <2>2, <2>5
<1>7. CASE dm.kind \in {"version", "value", "block"}
  <2>1. dm \notin {Intact, Longer}
    BY <1>7, DamageKinds
  <2>2. CASE dm.kind = "version"
    <3>1. Entry(b, dm) = EntryOf(b, [x EXCEPT ![1] = 0])
      BY <2>2 DEF Entry
    <3>2. QED
      BY <2>1, <3>1, EntryVersion
  <2>3. CASE dm.kind = "value"
    <3>1. Entry(b, dm) = Cut(e, dm.n) /\ dm.n \in Nat \ {0}
      BY <2>3, DamageKinds DEF Entry
    <3>2. QED
      BY <2>1, <3>1, EntryIncomplete
  <2>4. CASE dm.kind = "block"
    <3>1. Entry(b, dm) = EntryOf(b, Cut(x, dm.n)) /\ dm.n \in Nat \ {0}
      BY <2>4, DamageKinds DEF Entry
    <3>2. QED
      BY <2>1, <3>1, EntryShort
  <2>5. QED
    BY <1>7, <2>2, <2>3, <2>4
<1>8. QED
  BY <1>5, <1>6, <1>7, DamageKinds

-----------------------------------------------------------------------------
(***************************************************************************)
(* The inductive invariant.                                                *)
(***************************************************************************)
(* Buffer, damage and what is still to be parsed.                          *)
BufferOK ==
  /\ buffer \in [Slot -> Blocks \cup {Empty}]
  /\ damage \in [Slot -> Damages]
  /\ \A i \in Used : damage[i].n <= Len(BlockBytes(buffer[i]))
  /\ todo \subseteq Used
  /\ phase = "loaded" => todo = {}

(* The map has the shares of the usable slots LoadAllShares has been to,   *)
(* and nothing else.                                                       *)
SharesOK ==
  phase \in {"loading", "loaded"} =>
    /\ DOMAIN shares = {H(buffer[i].id) : i \in Usable \ todo}
    /\ \A i \in Usable \ todo : shares[H(buffer[i].id)] = ShareOf(buffer[i])

BufferInv == BufferOK /\ SharesOK

(* Every block p2pool writes is one the lemmas are about, and no block is  *)
(* the empty slot.                                                         *)
LEMMA BlocksFit == Blocks \subseteq BufferBlock /\ Empty \notin Blocks
<1>1. ASSUME NEW b \in Blocks
      PROVE  b \in BufferBlock /\ b # Empty
  <2>1. b \in Block /\ Len(BlockBytes(b)) \div 16777216 < 256
    BY BlocksAssumption, SMT
  <2>2. Fits(Len(BlockBytes(b)))
    BY <2>1, SMT DEF Fits
  <2>3. /\ Len(b.rewards) \in Short /\ Len(b.txs) \in Short /\ Len(b.chains) \in Short
        /\ Len(b.uncles) <= MaxUncles /\ Len(b.proof) < 256
    BY BlocksAssumption, SMT
  <2> HIDE DEF Fits
  <2>4. b \in ShortBlock
    BY <2>1, <2>3, SMT DEF ShortBlock
  <2>5. b \in BufferBlock
    BY <2>2, <2>4, SMT DEF BufferBlock
  <2>6. b.id # 0
    BY <2>4, BlockParts
  <2>7. Empty.id = 0
    BY DEF Empty
  <2>8. QED
    BY <2>5, <2>6, <2>7
<1>2. QED
  BY <1>1

(* Blocks with the same name are the same.                                 *)
LEMMA BlockNames ==
  ASSUME NEW a \in Blocks, NEW b \in Blocks, H(a.id) = H(b.id)
  PROVE  a = b
<1>1. a \in ShortBlock /\ b \in ShortBlock
  BY BlocksFit DEF BufferBlock
<1>2. a.id \in Nat /\ b.id \in Nat
  BY <1>1, BlockParts
<1>3. a.id = b.id
  BY <1>2, HashNames
<1>4. \A p, q \in Blocks : p.id = q.id => p = q
  BY BlocksAssumption, SMT
<1>5. QED
  BY <1>3, <1>4

(* What With makes.                                                        *)
LEMMA WithFields ==
  ASSUME NEW s, NEW f
  PROVE  /\ DOMAIN With(s, f) = DOMAIN s \cup DOMAIN f
         /\ \A x \in DOMAIN s : With(s, f)[x] = s[x]
         /\ \A x \in DOMAIN f \ DOMAIN s : With(s, f)[x] = f[x]
BY DEF With

(* A share has the name of its block.                                      *)
LEMMA ShareName ==
  ASSUME NEW b
  PROVE  ShareOf(b).SidechainId = H(b.id)
<1> DEFINE r == [SidechainId |-> H(b.id)]
           m == With(r, MainchainShare(b))
<1>1. "SidechainId" \in DOMAIN r /\ r["SidechainId"] = H(b.id)
  OBVIOUS
<1> HIDE DEF r
<1>2. "SidechainId" \in DOMAIN m /\ m["SidechainId"] = H(b.id)
  BY <1>1, WithFields
<1> HIDE DEF m
<1>3. With(m, SidechainShare(b))["SidechainId"] = H(b.id)
  BY <1>2, WithFields
<1>4. QED
  BY <1>3 DEF ShareOf, m, r

(* The map the shares of one entry are added to.                           *)
Added(parsed, old) ==
  With([id \in {s.SidechainId : s \in parsed} |-> CHOOSE s \in parsed : TRUE], old)

(* An entry that is no share changes nothing.                              *)
LEMMA NothingAdded ==
  ASSUME NEW old
  PROVE  /\ DOMAIN Added({}, old) = DOMAIN old
         /\ \A x \in DOMAIN old : Added({}, old)[x] = old[x]
<1> DEFINE f == [id \in {s.SidechainId : s \in {}} |-> CHOOSE s \in {} : TRUE]
<1>1. DOMAIN f = {}
  OBVIOUS
<1> HIDE DEF f
<1>2. /\ DOMAIN With(f, old) = DOMAIN f \cup DOMAIN old
      /\ \A x \in DOMAIN old \ DOMAIN f : With(f, old)[x] = old[x]
  BY WithFields
<1>3. DOMAIN With(f, old) = DOMAIN old /\ \A x \in DOMAIN old : With(f, old)[x] = old[x]
  BY <1>1, <1>2
<1>4. With(f, old) = Added({}, old)
  BY DEF Added, f
<1>5. QED
  BY <1>3, <1>4

(* A share is added under its name, in place of an earlier one.            *)
LEMMA ShareAdded ==
  ASSUME NEW b, NEW old
  PROVE  /\ DOMAIN Added({ShareOf(b)}, old) = {H(b.id)} \cup DOMAIN old
         /\ Added({ShareOf(b)}, old)[H(b.id)] = ShareOf(b)
         /\ \A x \in DOMAIN old \ {H(b.id)} : Added({ShareOf(b)}, old)[x] = old[x]
<1> DEFINE v == ShareOf(b)
           f == [id \in {s.SidechainId : s \in {v}} |-> CHOOSE s \in {v} : TRUE]
<1>1. v.SidechainId = H(b.id)
  BY ShareName
<1> HIDE DEF v
<1>2. {s.SidechainId : s \in {v}} = {H(b.id)}
  BY <1>1
<1>3. (CHOOSE s \in {v} : TRUE) = v
  OBVIOUS
<1>4. DOMAIN f = {H(b.id)} /\ f[H(b.id)] = v
  BY <1>2, <1>3
<1> HIDE DEF f
<1>5. /\ DOMAIN With(f, old) = DOMAIN f \cup DOMAIN old
      /\ \A x \in DOMAIN f : With(f, old)[x] = f[x]
      /\ \A x \in DOMAIN old \ DOMAIN f : With(f, old)[x] = old[x]
  BY WithFields
<1>6. With(f, old)[H(b.id)] = v
  BY <1>4, <1>5
<1>7. /\ DOMAIN With(f, old) = {H(b.id)} \cup DOMAIN old
      /\ \A x \in DOMAIN old \ {H(b.id)} : With(f, old)[x] = old[x]
  BY <1>4, <1>5
<1>8. With(f, old) = Added({ShareOf(b)}, old)
  BY DEF Added, f, v
<1>9. QED
  BY <1>6, <1>7, <1>8 DEF v

(* Parse, with the map it makes named.                                     *)
LEMMA ParseSteps ==
  ASSUME NEW i, Parse(i)
  PROVE  /\ phase = "loading" /\ i \in todo
         /\ buffer' = buffer /\ damage' = damage
         /\ \/ phase' = "dead" /\ todo' = {} /\ PanicsOn(Entry(buffer[i], damage[i]))
            \/ /\ shares' = Added(ParseCacheEntry(Entry(buffer[i], damage[i])), shares)
               /\ todo' = todo \ {i} /\ phase' = phase
<1> DEFINE e == Entry(buffer[i], damage[i])
<1> HIDE DEF e
<1>1. /\ phase = "loading" /\ i \in todo /\ buffer' = buffer /\ damage' = damage
      /\ IF PanicsOn(e)
         THEN phase' = "dead" /\ todo' = {} /\ shares' = << >>
         ELSE /\ shares' = Added(ParseCacheEntry(e), shares)
              /\ todo' = todo \ {i} /\ phase' = phase
  BY DEF Parse, Added, e
<1>2. QED
  BY <1>1 DEF e

(* A step that leaves buffer and damage alone leaves the slots alone.      *)
LEMMA SameSlots ==
  ASSUME buffer' = buffer, damage' = damage
  PROVE  Used' = Used /\ Usable' = Usable
BY DEF Used, Usable

(* Init.                                                                   *)
LEMMA BufferInit == Init => BufferInv
<1> SUFFICES ASSUME Init PROVE BufferInv
  OBVIOUS
<1>1. /\ buffer = [i \in Slot |-> Empty] /\ damage = [i \in Slot |-> Intact]
      /\ todo = {} /\ phase = "idle"
  BY DEF Init
<1>2. Intact \in Damages
  BY DEF Damages
<1>3. Used = {}
  BY <1>1 DEF Used
<1>4. buffer \in [Slot -> Blocks \cup {Empty}] /\ damage \in [Slot -> Damages]
  BY <1>1, <1>2
<1>5. BufferOK
  BY <1>1, <1>3, <1>4 DEF BufferOK
<1>6. SharesOK
  BY <1>1 DEF SharesOK
<1>7. QED
  BY <1>5, <1>6 DEF BufferInv

(* p2pool writes a slot.                                                   *)
LEMMA WriteKeeps ==
  ASSUME BufferInv, NEW i \in Slot, NEW b \in Blocks, Write(i, b)
  PROVE  BufferInv'
<1>1. /\ phase = "idle" /\ phase' = phase /\ todo' = todo
      /\ buffer' = [buffer EXCEPT ![i] = b] /\ damage' = [damage EXCEPT ![i] = Intact]
  BY DEF Write
<1>2. /\ buffer \in [Slot -> Blocks \cup {Empty}] /\ damage \in [Slot -> Damages]
      /\ todo \subseteq Used
      /\ \A k \in Used : damage[k].n <= Len(BlockBytes(buffer[k]))
  BY DEF BufferInv, BufferOK
<1>3. Intact \in Damages /\ Intact.n = 0
  BY DEF Damages, Intact
<1>4. buffer' \in [Slot -> Blocks \cup {Empty}] /\ damage' \in [Slot -> Damages]
  BY <1>1, <1>2, <1>3
<1>5. /\ buffer'[i] = b /\ damage'[i] = Intact
      /\ \A k \in Slot \ {i} : buffer'[k] = buffer[k] /\ damage'[k] = damage[k]
  BY <1>1, <1>2
<1>6. Used' = Used \cup {i}
  <2>1. b # Empty
    BY BlocksFit
  <2>2. Used' = {k \in Slot : buffer'[k] # Empty}
    BY DEF Used
  <2>3. QED
    BY <1>5, <2>1, <2>2 DEF Used
<1>7. 0 <= Len(BlockBytes(b))
  <2>1. BlockBytes(b) \in ByteSeq
    BY BlocksFit, BlockParts DEF BufferBlock
  <2>2. QED
    BY <2>1, LenProperties DEF ByteSeq
<1>8. \A k \in Used' : damage'[k].n <= Len(BlockBytes(buffer'[k]))
  <2> SUFFICES ASSUME NEW k \in Used' PROVE damage'[k].n <= Len(BlockBytes(buffer'[k]))
    OBVIOUS
  <2>1. CASE k = i
    <3>1. damage'[k].n = 0 /\ buffer'[k] = b
      BY <1>3, <1>5, <2>1
    <3>2. QED
      BY <1>7, <3>1
  <2>2. CASE k # i
    <3>1. k \in Used /\ k \in Slot \ {i}
      BY <1>6, <2>2 DEF Used
    <3>2. QED
      BY <1>2, <1>5, <3>1
  <2>3. QED
    BY <2>1, <2>2
<1>9. BufferOK'
  <2>1. todo' \subseteq Used'
    <3>1. todo \subseteq Used
      BY <1>2
    <3>2. QED
      BY <1>1, <1>6, <3>1
  <2>2. phase' # "loaded"
    BY <1>1
  <2>3. QED
    BY <1>4, <1>8, <2>1, <2>2 DEF BufferOK
<1>10. SharesOK'
  BY <1>1 DEF SharesOK
<1>11. QED
  BY <1>9, <1>10 DEF BufferInv

(* An entry is damaged.                                                    *)
LEMMA DamageKeeps ==
  ASSUME BufferInv, NEW i \in Slot, NEW dm \in Damages, Damage(i, dm)
  PROVE  BufferInv'
<1>1. /\ phase = "idle" /\ phase' = phase /\ todo' = todo /\ buffer' = buffer
      /\ damage' = [damage EXCEPT ![i] = dm] /\ dm.n <= Len(BlockBytes(buffer[i]))
  BY DEF Damage
<1>2. /\ buffer \in [Slot -> Blocks \cup {Empty}] /\ damage \in [Slot -> Damages]
      /\ todo \subseteq Used
      /\ \A k \in Used : damage[k].n <= Len(BlockBytes(buffer[k]))
  BY DEF BufferInv, BufferOK
<1>3. damage' \in [Slot -> Damages]
  BY <1>1, <1>2
<1>4. Used' = Used /\ Used \subseteq Slot
  BY <1>1 DEF Used
<1>5. damage'[i] = dm /\ \A k \in Slot \ {i} : damage'[k] = damage[k]
  BY <1>1, <1>2
<1>6. \A k \in Used' : damage'[k].n <= Len(BlockBytes(buffer'[k]))
  <2> SUFFICES ASSUME NEW k \in Used' PROVE damage'[k].n <= Len(BlockBytes(buffer[k]))
    BY <1>1
  <2>1. CASE k = i
    BY <1>1, <1>5, <2>1
  <2>2. CASE k # i
    BY <1>2, <1>4, <1>5, <2>2
  <2>3. QED
    BY <2>1, <2>2
<1>7. BufferOK'
  <2>1. todo' \subseteq Used' /\ buffer' \in [Slot -> Blocks \cup {Empty}]
    BY <1>1, <1>2, <1>4
  <2>2. phase' # "loaded"
    BY <1>1
  <2>3. QED
    BY <1>3, <1>6, <2>1, <2>2 DEF BufferOK
<1>8. SharesOK'
  BY <1>1 DEF SharesOK
<1>9. QED
  BY <1>7, <1>8 DEF BufferInv

(* The steps that only move the phase.                                     *)
LEMMA PhasesKeep ==
  ASSUME BufferInv, Load \/ Loaded \/ Rest
  PROVE  BufferInv'
<1>1. buffer' = buffer /\ damage' = damage
  BY DEF Load, Loaded, Rest
<1>2. Used' = Used /\ Usable' = Usable /\ Usable \subseteq Used
  BY <1>1, SameSlots DEF Usable
<1>3. /\ buffer \in [Slot -> Blocks \cup {Empty}] /\ damage \in [Slot -> Damages]
      /\ todo \subseteq Used
      /\ \A k \in Used : damage[k].n <= Len(BlockBytes(buffer[k]))
  BY DEF BufferInv, BufferOK
<1> DEFINE Entries == /\ buffer \in [Slot -> Blocks \cup {Empty}]
                      /\ damage \in [Slot -> Damages]
                      /\ \A k \in Used : damage[k].n <= Len(BlockBytes(buffer[k]))
<1>4. Entries' /\ todo \subseteq Used
  BY <1>1, <1>2, <1>3
<1> HIDE DEF Entries
<1>5. ASSUME todo' \subseteq Used', phase' = "loaded" => todo' = {}
      PROVE  BufferOK'
  BY <1>4, <1>5 DEF BufferOK, Entries
<1>6. CASE Load
  <2>1. phase' = "loading" /\ todo' = Used /\ shares' = << >>
    BY <1>6 DEF Load
  <2>2. BufferOK'
    <3>1. todo' \subseteq Used' /\ (phase' = "loaded" => todo' = {})
      BY <1>2, <1>4, <2>1
    <3>2. QED
      BY <1>5, <3>1
  <2>3. Usable' \ todo' = {} /\ DOMAIN shares' = {}
    BY <1>2, <2>1
  <2>4. SharesOK'
    BY <2>3 DEF SharesOK
  <2>5. QED
    BY <2>2, <2>4 DEF BufferInv
<1>7. CASE Loaded
  <2>1. /\ phase = "loading" /\ phase' = "loaded" /\ todo' = todo /\ todo = {}
        /\ shares' = shares
    BY <1>7 DEF Loaded
  <2>2. BufferOK'
    <3>1. todo' \subseteq Used' /\ (phase' = "loaded" => todo' = {})
      BY <1>2, <1>4, <2>1
    <3>2. QED
      BY <1>5, <3>1
  <2>3. SharesOK'
    BY <1>1, <1>2, <2>1 DEF BufferInv, SharesOK
  <2>4. QED
    BY <2>2, <2>3 DEF BufferInv
<1>8. CASE Rest
  <2>1. phase' = "idle" /\ todo' = todo
    BY <1>8 DEF Rest
  <2>2. BufferOK'
    <3>1. todo' \subseteq Used' /\ (phase' = "loaded" => todo' = {})
      BY <1>2, <1>4, <2>1
    <3>2. QED
      BY <1>5, <3>1
  <2>3. SharesOK'
    BY <2>1 DEF SharesOK
  <2>4. QED
    BY <2>2, <2>3 DEF BufferInv
<1>9. QED
  BY <1>6, <1>7, <1>8

(* LoadAllShares parses a slot.                                            *)
LEMMA ParseKeeps ==
  ASSUME ShortProtocols, BufferInv, NEW i \in Slot, Parse(i)
  PROVE  BufferInv'
<1> DEFINE b == buffer[i]
           p == ParseCacheEntry(Entry(b, damage[i]))
<1>1. phase = "loading" /\ i \in todo /\ buffer' = buffer /\ damage' = damage
  BY ParseSteps
<1>2. \/ phase' = "dead" /\ todo' = {}
      \/ shares' = Added(p, shares) /\ todo' = todo \ {i} /\ phase' = phase
  BY ParseSteps
<1>3. Used' = Used /\ Usable' = Usable /\ Usable \subseteq Used
  BY <1>1, SameSlots DEF Usable
<1>4. /\ buffer \in [Slot -> Blocks \cup {Empty}] /\ damage \in [Slot -> Damages]
      /\ todo \subseteq Used
      /\ \A k \in Used : damage[k].n <= Len(BlockBytes(buffer[k]))
  BY DEF BufferInv, BufferOK
<1>5. \A k \in Used : k \in Slot /\ buffer[k] \in Blocks
  BY <1>4 DEF Used
<1>6. b \in BufferBlock /\ damage[i] \in Damages /\ damage[i].n <= Len(BlockBytes(b))
  <2>1. i \in Used
    BY <1>1, <1>4
  <2>2. b \in Blocks
    BY <1>5, <2>1
  <2>3. b \in BufferBlock
    BY <2>2, BlocksFit
  <2>4. damage[i] \in Damages
    BY <1>4
  <2>5. damage[i].n <= Len(BlockBytes(b))
    BY <1>4, <2>1
  <2>6. QED
    BY <2>3, <2>4, <2>5
<1>7. Len(ProtocolBytes(b)) < 8 * HashSize + 4 * WordSize + 10
  <2>1. b \in Blocks
    BY <1>1, <1>4, <1>5
  <2>2. QED
    BY <2>1 DEF ShortProtocols
<1>8. /\ damage[i] \in {Intact, Longer} => p = {ShareOf(b)}
      /\ damage[i] \notin {Intact, Longer} => p = {}
  BY <1>6, <1>7, EntryParsed
<1> HIDE DEF p
<1>9. BufferOK'
  <2>1. /\ buffer' \in [Slot -> Blocks \cup {Empty}] /\ damage' \in [Slot -> Damages]
        /\ \A k \in Used' : damage'[k].n <= Len(BlockBytes(buffer'[k]))
    BY <1>1, <1>3, <1>4
  <2>2. todo' \subseteq Used'
    BY <1>2, <1>3, <1>4
  <2>3. phase' # "loaded"
    BY <1>1, <1>2
  <2>4. QED
    BY <2>1, <2>2, <2>3 DEF BufferOK
<1>10. /\ DOMAIN shares = {H(buffer[k].id) : k \in Usable \ todo}
       /\ \A k \in Usable \ todo : shares[H(buffer[k].id)] = ShareOf(buffer[k])
  BY <1>1 DEF BufferInv, SharesOK
<1>11. CASE phase' = "dead"
  BY <1>9, <1>11 DEF SharesOK, BufferInv
<1>12. CASE /\ shares' = Added(p, shares) /\ todo' = todo \ {i}
            /\ i \in Usable
  <2>1. p = {ShareOf(b)}
    BY <1>8, <1>12 DEF Usable
  <2>2. /\ DOMAIN shares' = {H(b.id)} \cup DOMAIN shares
        /\ shares'[H(b.id)] = ShareOf(b)
        /\ \A x \in DOMAIN shares \ {H(b.id)} : shares'[x] = shares[x]
    <3>1. shares' = Added({ShareOf(b)}, shares)
      BY <1>12, <2>1
    <3> HIDE DEF b
    <3>2. /\ DOMAIN Added({ShareOf(b)}, shares) = {H(b.id)} \cup DOMAIN shares
          /\ Added({ShareOf(b)}, shares)[H(b.id)] = ShareOf(b)
          /\ \A x \in DOMAIN shares \ {H(b.id)} :
               Added({ShareOf(b)}, shares)[x] = shares[x]
      BY ShareAdded
    <3>3. QED
      BY <3>1, <3>2
  <2>3. Usable' \ todo' = (Usable \ todo) \cup {i}
    BY <1>1, <1>3, <1>12
  <2>4. DOMAIN shares' = {H(buffer'[k].id) : k \in Usable' \ todo'}
    BY <1>1, <1>10, <2>2, <2>3
  <2>5. ASSUME NEW k \in Usable' \ todo'
        PROVE  shares'[H(buffer'[k].id)] = ShareOf(buffer'[k])
    <3>1. CASE H(buffer[k].id) = H(b.id)
      <4>1. buffer[k] \in Blocks /\ b \in Blocks
        BY <1>3, <1>4, <1>1, <1>5
      <4>2. buffer[k] = b
        BY <3>1, <4>1, BlockNames
      <4>3. QED
        BY <1>1, <2>2, <4>2
    <3>2. CASE H(buffer[k].id) # H(b.id)
      <4>1. k \in Usable \ todo
        BY <2>3, <3>2
      <4>2. H(buffer[k].id) \in DOMAIN shares \ {H(b.id)}
        BY <1>10, <3>2, <4>1
      <4>3. QED
        BY <1>1, <1>10, <2>2, <4>1, <4>2
    <3>3. QED
      BY <3>1, <3>2
  <2>6. SharesOK'
    BY <2>4, <2>5 DEF SharesOK
  <2>7. QED
    BY <1>9, <2>6 DEF BufferInv
<1>13. CASE /\ shares' = Added(p, shares) /\ todo' = todo \ {i}
            /\ i \notin Usable
  <2>1. p = {}
    <3>1. i \in Used
      BY <1>1, <1>4
    <3>2. damage[i] \notin {Intact, Longer}
      BY <1>13, <3>1 DEF Usable
    <3>3. QED
      BY <1>8, <3>2
  <2>2. /\ DOMAIN shares' = DOMAIN shares
        /\ \A x \in DOMAIN shares : shares'[x] = shares[x]
    BY <1>13, <2>1, NothingAdded
  <2>3. Usable' \ todo' = Usable \ todo
    BY <1>3, <1>13
  <2>4. DOMAIN shares' = {H(buffer'[k].id) : k \in Usable' \ todo'}
    BY <1>1, <1>10, <2>2, <2>3
  <2>5. ASSUME NEW k \in Usable' \ todo'
        PROVE  shares'[H(buffer'[k].id)] = ShareOf(buffer'[k])
    <3>1. k \in Usable \ todo
      BY <2>3
    <3>2. H(buffer[k].id) \in DOMAIN shares
      BY <1>10, <3>1
    <3>3. QED
      BY <1>1, <1>10, <2>2, <3>1, <3>2
  <2>6. SharesOK'
    BY <2>4, <2>5 DEF SharesOK
  <2>7. QED
    BY <1>9, <2>6 DEF BufferInv
<1>14. QED
  BY <1>2, <1>11, <1>12, <1>13

(***************************************************************************)
(* The theorems.                                                           *)
(***************************************************************************)
(* While LoadAllShares works, its map is that of the usable entries it has *)
(* come to: no entry, whatever happened to it, puts in, takes away or      *)
(* replaces the share of another slot (cache.go:122, parser.go:20).        *)
THEOREM BufferInvariant ==
  ASSUME ShortProtocols
  PROVE  Spec => []BufferInv
<1>1. Init => BufferInv
  BY BufferInit
<1>2. BufferInv /\ [Next]_vars => BufferInv'
  <2> SUFFICES ASSUME BufferInv, [Next]_vars PROVE BufferInv'
    OBVIOUS
  <2>1. CASE UNCHANGED vars
    <3>1. /\ buffer' = buffer /\ damage' = damage /\ todo' = todo
          /\ shares' = shares /\ phase' = phase
      BY <2>1 DEF vars
    <3>2. QED
      BY <3>1 DEF BufferInv, BufferOK, SharesOK, Used, Usable
  <2>2. ASSUME NEW i \in Slot, Parse(i) PROVE BufferInv'
    BY <2>2, ParseKeeps
  <2>3. ASSUME NEW i \in Slot, NEW b \in Blocks, Write(i, b) PROVE BufferInv'
    BY <2>3, WriteKeeps
  <2>4. ASSUME NEW i \in Slot, NEW dm \in Damages \ {Intact}, Damage(i, dm)
        PROVE  BufferInv'
    BY <2>4, DamageKeeps
  <2>5. CASE Load \/ Loaded \/ Rest
    BY <2>5, PhasesKeep
  <2>6. QED
    BY <2>1, <2>2, <2>3, <2>4, <2>5 DEF Next
<1>3. QED
  BY <1>1, <1>2, PTL DEF Spec

(* Every usable entry becomes the share it was written from, for every     *)
(* number of slots, all sizes and all blocks (parser.go:81, 302, 448).     *)
THEOREM UsableAreLoaded ==
  ASSUME ShortProtocols
  PROVE  Spec => []UsableLoaded
<1>1. BufferInv => UsableLoaded
  <2> SUFFICES ASSUME BufferInv, phase = "loaded", NEW i \in Usable
               PROVE  /\ H(buffer[i].id) \in DOMAIN shares
                      /\ shares[H(buffer[i].id)] = ShareOf(buffer[i])
    BY DEF UsableLoaded
  <2>1. i \in Usable \ todo
    BY DEF BufferInv, BufferOK
  <2>2. QED
    BY <2>1 DEF BufferInv, SharesOK
<1>2. QED
  BY <1>1, BufferInvariant, PTL

(* An entry that lost bytes, at whatever place, leaves no share behind,    *)
(* for all its blocks and cuts (parser.go:32, 51, 434).                    *)
THEOREM NothingElseLoaded ==
  ASSUME ShortProtocols
  PROVE  Spec => []NothingElse
<1>1. BufferInv => NothingElse
  <2> SUFFICES ASSUME BufferInv, phase = "loaded"
               PROVE  DOMAIN shares = {H(buffer[i].id) : i \in Usable}
    BY DEF NothingElse
  <2>1. Usable \ todo = Usable
    BY DEF BufferInv, BufferOK
  <2>2. QED
    BY <2>1 DEF BufferInv, SharesOK
<1>2. QED
  BY <1>1, BufferInvariant, PTL

=============================================================================
