------------------------------ MODULE ShareParser ------------------------------
(***************************************************************************)
(* How the shares of p2pool's buffer in Redis become the map the daemon    *)
(* works on: ParseCacheEntry and what it calls (p2pool/parser.go, and the  *)
(* readers of types.go).                                                   *)
(*                                                                         *)
(* An entry is a sequence of bytes.  A position is that of the next byte,  *)
(* Fail once a reader has failed; a reader passes a Fail on.  Lengths that *)
(* only say how much is skipped are constants; varints are small.          *)
(***************************************************************************)
EXTENDS Integers, Sequences, FiniteSetsExt

CONSTANTS
  HashSize,     \* bytes of a hash or key: 32
  TagSize,      \* bytes of a view tag: 3
  AnchorSize,   \* bytes of an encrypted anchor: 16
  VarintSize    \* bytes of the longest varint: 10

ASSUME SizesAssumption ==
  /\ HashSize \in Nat \ {0}
  /\ TagSize \in Nat /\ AnchorSize \in Nat
  /\ VarintSize \in Nat \ {0, 1}

WordSize == 4   \* bytes of a uint32

Fail == 0

-----------------------------------------------------------------------------
(* The readers.  A varint ends with the first byte below 128.              *)
VarintEnds(d, o) ==
  {e \in o..(o + VarintSize - 1) :
     e <= Len(d) /\ d[e] < 128 /\ \A k \in o..(e - 1) : d[k] >= 128}

AfterVarint(d, o) ==
  IF o # Fail /\ VarintEnds(d, o) # {} THEN Max(VarintEnds(d, o)) + 1 ELSE Fail

(* Seven bits of each byte, the last byte's first.                         *)
VarintAt(d, o) ==
  LET end == AfterVarint(d, o)
      value[k \in 0..(end - o)] ==
        IF k = 0 THEN 0 ELSE (d[end - k] % 128) + 128 * value[k - 1]
  IN  IF end = Fail THEN 0 ELSE value[end - o]

VarintIs(d, o, v) == IF VarintAt(d, o) = v THEN AfterVarint(d, o) ELSE Fail

(* ReadHash, ReadUint32LE, SkipBytes.                                      *)
After(d, o, n) == IF o # Fail /\ o + n - 1 <= Len(d) THEN o + n ELSE Fail

Bytes(d, o, n) == IF After(d, o, n) = Fail THEN << >> ELSE SubSeq(d, o, o + n - 1)
Hash(d, o)     == Bytes(d, o, HashSize)
Word(d, o)     == Bytes(d, o, WordSize)

(* ReadByte, and a byte the parser insists on.                             *)
ByteAt(d, o) == IF After(d, o, 1) = Fail THEN 0 ELSE d[o]

ByteIs(d, o, b) == IF ByteAt(d, o) = b THEN After(d, o, 1) ELSE Fail

(* A length and as many bytes; n times the reader R; n hashes.             *)
AfterBlob(d, o) == After(d, AfterVarint(d, o), VarintAt(d, o))

Positions(R(_, _), d, o, n) ==
  LET at[i \in 0..n] == IF i = 0 THEN o ELSE R(d, at[i - 1])
  IN  at

Hashes(d, o, n) == [i \in 1..n |-> Hash(d, o + (i - 1) * HashSize)]

-----------------------------------------------------------------------------
(* parseMainchainData.                                                     *)
Gen == 255

CarrotOutput(d, o) ==
  LET asset == After(d, AfterVarint(d, o), 1 + HashSize)
  IN  After(d, After(d, After(d, asset, 1), ByteAt(d, asset)), TagSize + AnchorSize)

CarrotOutputs(d, o, n) == Positions(CarrotOutput, d, o, n)

CompactOutputs(d, o) == After(d, AfterVarint(d, AfterVarint(d, o)), HashSize)

AfterOutputs(d, o) ==
  LET n == VarintAt(d, o)
  IN  IF n > 0 THEN CarrotOutputs(d, AfterVarint(d, o), n)[n]
               ELSE CompactOutputs(d, AfterVarint(d, o))

ProtocolOutput(d, o) == After(d, AfterVarint(d, o), 1 + HashSize)

ProtocolOutputs(d, o, n) == Positions(ProtocolOutput, d, o, n)

(* Mutation: there is no protocol transaction.                             *)
SkipNoProtocolTx(d, o) == o

(* skipProtocolTx: where it was, unless all of it is there.                *)
SkipProtocolTx(d, o) ==
  LET inputs  == VarintIs(d, VarintIs(d, o, 4), 60)
      outputs == AfterVarint(d, ByteIs(d, VarintIs(d, inputs, 1), Gen))
      n       == VarintAt(d, outputs)
      extra   == ProtocolOutputs(d, AfterVarint(d, outputs), n)[n]
      end     == After(d, AfterVarint(d, AfterBlob(d, extra)), 1)
  IN  IF o + 2 > Len(d) \/ end = Fail THEN o ELSE end

Mainchain(d) ==
  LET prevId   == AfterVarint(d, 3)
      nonce    == After(d, prevId, HashSize)
      unlock   == ByteIs(d, After(d, nonce, WordSize), 4)
      height   == ByteIs(d, ByteIs(d, AfterVarint(d, unlock), 1), Gen)
      extra    == AfterOutputs(d, AfterVarint(d, height))
      rct      == AfterVarint(d, AfterVarint(d, AfterBlob(d, extra)))
      protocol == After(d, rct, 1)
      txs      == IF d[1] >= 10 THEN SkipProtocolTx(d, protocol) ELSE protocol
  IN  [end    |-> IF Len(d) < HashSize + 8 THEN Fail
                  ELSE After(d, AfterVarint(d, txs), VarintAt(d, txs) * HashSize),
       fields |-> [MajorVersion |-> d[1], MinorVersion |-> d[2],
                   Timestamp |-> VarintAt(d, 3), PrevId |-> Hash(d, prevId),
                   Nonce |-> Word(d, nonce),
                   MainchainHeight |-> VarintAt(d, height)]]

-----------------------------------------------------------------------------
(* parseSidechainData.                                                     *)
MaxUncles == 10

MergeMining(d, o) == AfterBlob(d, After(d, o, HashSize))

MergeMinings(d, o, n) == Positions(MergeMining, d, o, n)

MergeMiningData(d, o) ==
  LET data == After(d, o, HashSize)
  IN  Bytes(d, AfterVarint(d, data), VarintAt(d, data))

(* The height and the two words of either difficulty.                      *)
Numbers(d, o) == Positions(AfterVarint, d, o, 5)

(* Mutation: the last field is not looked for.                             *)
AfterExtraBufAlways(d, o) == o

AfterExtraBuf(d, o) == After(d, o, 4 * WordSize)

Sidechain(d) ==
  LET uncles   == 1 + 4 * HashSize
      nUncles  == VarintAt(d, uncles)
      height   == IF nUncles > MaxUncles THEN Fail
                  ELSE After(d, AfterVarint(d, uncles), nUncles * HashSize)
      numbers  == Numbers(d, height)
      nProof   == ByteAt(d, numbers[5])
      proof    == After(d, numbers[5], 1)
      mm       == After(d, proof, nProof * HashSize)
      nMM      == VarintAt(d, mm)
      chains   == MergeMinings(d, AfterVarint(d, mm), nMM)
      Chain(i) == Hash(d, chains[i - 1])
      extraBuf == chains[nMM]
  IN  [end    |-> IF Len(d) < 4 * HashSize THEN Fail ELSE AfterExtraBuf(d, extraBuf),
       fields |-> [MinerWallet |-> Hashes(d, 1, 2),
                   TxkeySecSeed |-> Hash(d, 1 + 2 * HashSize),
                   Parent |-> Hash(d, 1 + 3 * HashSize),
                   Uncles |-> Hashes(d, AfterVarint(d, uncles), nUncles),
                   SidechainHeight |-> VarintAt(d, height),
                   Difficulty |-> <<VarintAt(d, numbers[1]), VarintAt(d, numbers[2])>>,
                   CumulativeDifficulty |-> <<VarintAt(d, numbers[3]),
                                              VarintAt(d, numbers[4])>>,
                   MerkleProof |-> Hashes(d, proof, nProof),
                   MergeMiningExtra |->   \* of two entries of a chain the last counts
                     [c \in {Chain(i) : i \in 1..nMM} |->
                        MergeMiningData(d, chains[Max({i \in 1..nMM : Chain(i) = c}) - 1])],
                   SidechainExtraBuf |-> [i \in 1..4 |-> Word(d, extraBuf + (i - 1) * WordSize)]]]

-----------------------------------------------------------------------------
(* ParseCacheEntry: {the share}, or {} for an error.                       *)
Header == HashSize + WordSize

Number(w) == w[1] + 256 * w[2] + 65536 * w[3] + 16777216 * w[4]

BlockData(e) == SubSeq(e, Header + 1, Header + Number(Word(e, HashSize + 1)))

Complete(e) ==
  Len(e) >= Header /\ Len(e) >= Header + Number(Word(e, HashSize + 1))

(* The message of the version check looks at the first byte of a block     *)
(* that may have none.                                                     *)
PanicsOn(e) == Complete(e) /\ BlockData(e) = << >>

(* The fields of s and those f adds, that is s @@ f.                       *)
With(s, f) ==
  [x \in DOMAIN s \cup DOMAIN f |-> IF x \in DOMAIN s THEN s[x] ELSE f[x]]

ParseCacheEntry(e) ==
  LET d    == BlockData(e)
      main == Mainchain(d)
      side == Sidechain(SubSeq(d, main.end, Len(d)))
  IN  IF /\ Complete(e)
         /\ Len(d) >= 2 /\ d[1] \in 1..20
         /\ main.end # Fail /\ main.end <= Len(d)
         /\ side.end # Fail
      THEN {With(With([SidechainId |-> Hash(e, 1)], main.fields), side.fields)}
      ELSE {}

=============================================================================
