------------------------------ MODULE ShareBuffer ------------------------------
(***************************************************************************)
(* p2pool's circular buffer of shares in Redis and LoadAllShares           *)
(* (p2pool/cache.go), which reads it all at once, parses the slots in any  *)
(* order and skips those that do not parse.  p2pool writes whole entries;  *)
(* one of them may be damaged.                                             *)
(***************************************************************************)
EXTENDS ShareParser, SequencesExt

CONSTANTS
  Slot,      \* the fields of the hash
  Blocks,    \* the blocks p2pool finds, as records
  Cuts       \* bytes an entry may have lost at its end

(* What a varint of one or two bytes holds: a bound.                       *)
Short == 0..16383

VARIABLES
  buffer,    \* the block of each slot
  damage,    \* what happened to each entry
  todo,      \* the slots LoadAllShares has not come to
  shares,    \* the map it makes
  phase      \* "idle", "loading", "loaded", or "dead" after a panic

vars == <<buffer, damage, todo, shares, phase>>

-----------------------------------------------------------------------------
(* How p2pool writes a block (external: block_cache.cpp, pool_block.cpp).  *)
Varint(n) == IF n < 128 THEN <<n>> ELSE <<128 + (n % 128), n \div 128>>

Blob(b) == Varint(Len(b)) \o b

Fixed(n, size) == [k \in 1..size |-> n]
H(n)           == Fixed(n, HashSize)

Hs(names) == FlattenSeq([i \in DOMAIN names |-> H(names[i])])

CarrotBytes(reward) ==
  FlattenSeq(<<Varint(reward), <<4>>, H(9), <<4>>, Fixed(83, 4), Fixed(7, TagSize + AnchorSize)>>)

CompactBytes == FlattenSeq(<<Varint(300), Varint(60), H(8)>>)

OutputsBytes(b) ==
  Varint(Len(b.rewards))
  \o IF b.rewards = << >> THEN CompactBytes
     ELSE FlattenSeq([i \in DOMAIN b.rewards |-> CarrotBytes(b.rewards[i])])

ProtocolOutputBytes == FlattenSeq(<<Varint(200), <<2>>, H(5)>>)

ProtocolBytes(b) ==
  IF b.major < 10 THEN << >>
  ELSE FlattenSeq(<<Varint(4), Varint(60), Varint(1), <<Gen>>, Varint(b.height),
                    Varint(b.protocolOutputs),
                    FlattenSeq([i \in 1..b.protocolOutputs |-> ProtocolOutputBytes]),
                    Blob(<<1, 2>>), Varint(2), <<0>>>>)

MainchainBytes(b) ==
  FlattenSeq(<<<<b.major>>, <<0>>, Varint(b.timestamp), H(3), Fixed(6, WordSize),
               <<4>>, Varint(60), <<1>>, <<Gen>>, Varint(b.height),
               OutputsBytes(b), Blob(<<1, 4, 60>>), Varint(1), Varint(0), <<0>>,
               ProtocolBytes(b), Varint(Len(b.txs)), Hs(b.txs)>>)

MergeMiningBytes(chain) == H(chain[1]) \o Blob(Fixed(1, chain[2]))

SidechainBytes(b) ==
  FlattenSeq(<<H(b.wallet), H(b.wallet + 1), H(2), H(b.parent),
               Varint(Len(b.uncles)), Hs(b.uncles), Varint(b.sideHeight),
               Varint(b.difficulty[1]), Varint(b.difficulty[2]),
               Varint(b.cumulative[1]), Varint(b.cumulative[2]),
               <<Len(b.proof)>>, Hs(b.proof), Varint(Len(b.chains)),
               FlattenSeq([i \in DOMAIN b.chains |-> MergeMiningBytes(b.chains[i])]),
               FlattenSeq([i \in 1..4 |-> Fixed(i, WordSize)])>>)

(* A uint32, the lowest byte first.                                        *)
Little(n) ==
  <<n % 256, (n \div 256) % 256, (n \div 65536) % 256, (n \div 16777216) % 256>>

EntryOf(b, block) == H(b.id) \o Little(Len(block)) \o block

BlockBytes(b) == MainchainBytes(b) \o SidechainBytes(b)

(* The share a block is.                                                   *)
MainchainShare(b) ==
  [MajorVersion |-> b.major, MinorVersion |-> 0, Timestamp |-> b.timestamp,
   PrevId |-> H(3), Nonce |-> Fixed(6, WordSize), MainchainHeight |-> b.height]

SidechainShare(b) ==
  [MinerWallet |-> <<H(b.wallet), H(b.wallet + 1)>>, TxkeySecSeed |-> H(2),
   Parent |-> H(b.parent), Uncles |-> [i \in DOMAIN b.uncles |-> H(b.uncles[i])],
   SidechainHeight |-> b.sideHeight, Difficulty |-> b.difficulty,
   CumulativeDifficulty |-> b.cumulative,
   MerkleProof |-> [i \in DOMAIN b.proof |-> H(b.proof[i])],
   MergeMiningExtra |->
     [c \in {H(b.chains[i][1]) : i \in DOMAIN b.chains} |->
        LET i == Max({k \in DOMAIN b.chains : H(b.chains[k][1]) = c})
        IN  Fixed(1, b.chains[i][2])],
   SidechainExtraBuf |-> [i \in 1..4 |-> Fixed(i, WordSize)]]

ShareOf(b) ==
  With(With([SidechainId |-> H(b.id)], MainchainShare(b)), SidechainShare(b))

(* The blocks there are: hashes are named by numbers, and of a block's     *)
(* sequences the lengths have one or two bytes too.                        *)
Block ==
  [id : Nat \ {0}, major : 1..20, timestamp : Short, height : Short,
   rewards : Seq(Short), protocolOutputs : Short, txs : Seq(Nat),
   wallet : Nat, parent : Nat, uncles : Seq(Nat), sideHeight : Short,
   difficulty : Short \X Short, cumulative : Short \X Short,
   proof : Seq(Nat), chains : Seq(Nat \X Short)]

ASSUME BlocksAssumption ==
  /\ Blocks \subseteq Block
  /\ \A b \in Blocks :
       /\ Len(b.rewards) \in Short /\ Len(b.txs) \in Short /\ Len(b.chains) \in Short
       /\ Len(b.uncles) <= MaxUncles /\ Len(b.proof) < 256
       /\ Len(BlockBytes(b)) \div 16777216 < 256
  /\ \A a, b \in Blocks : a.id = b.id => a = b

ASSUME CutsAssumption == Cuts \subseteq Nat \ {0}

(* A protocol transaction that is cut off is taken for the number of the   *)
(* transactions and four hashes; these protocol transactions are so short  *)
(* that what is left of one after them is not also taken for the data of   *)
(* the side chain.                                                         *)
ShortProtocols ==
  \A b \in Blocks : Len(ProtocolBytes(b)) < 8 * HashSize + 4 * WordSize + 10

-----------------------------------------------------------------------------
(* What may have happened to an entry: its value or its block has lost n   *)
(* bytes, the version is none, or the value is longer than its block.      *)
Intact  == [kind |-> "none", n |-> 0]
Longer  == [kind |-> "longer", n |-> 3]
Damages == {Intact, Longer, [kind |-> "version", n |-> 0]}
             \cup [kind : {"value", "block"}, n : Cuts]

Cut(s, n) == SubSeq(s, 1, Len(s) - n)

Entry(b, d) ==
  LET block == BlockBytes(b)
  IN  CASE d.kind = "block"   -> EntryOf(b, Cut(block, d.n))
        [] d.kind = "value"   -> Cut(EntryOf(b, block), d.n)
        [] d.kind = "version" -> EntryOf(b, [block EXCEPT ![1] = 0])
        [] d.kind = "longer"  -> EntryOf(b, block) \o Fixed(0, d.n)
        [] OTHER              -> EntryOf(b, block)

Empty == [id |-> 0]

Used   == {i \in Slot : buffer[i] # Empty}
Usable == {i \in Used : damage[i] \in {Intact, Longer}}

Init ==
  /\ buffer = [i \in Slot |-> Empty]
  /\ damage = [i \in Slot |-> Intact]
  /\ todo = {}
  /\ shares = << >>
  /\ phase = "idle"

(* p2pool writes a slot.                                                   *)
Write(i, b) ==
  /\ phase = "idle"
  /\ buffer' = [buffer EXCEPT ![i] = b]
  /\ damage' = [damage EXCEPT ![i] = Intact]
  /\ UNCHANGED <<todo, shares, phase>>

(* At most one entry is damaged: a bound.                                  *)
Damage(i, d) ==
  /\ phase = "idle" /\ i \in Used
  /\ \A k \in Slot : damage[k] = Intact
  /\ d.n <= Len(BlockBytes(buffer[i]))
  /\ damage' = [damage EXCEPT ![i] = d]
  /\ UNCHANGED <<buffer, todo, shares, phase>>

(* HGETALL.                                                                *)
Load ==
  /\ phase = "idle"
  /\ phase' = "loading"
  /\ todo' = Used
  /\ shares' = << >>
  /\ UNCHANGED <<buffer, damage>>

Parse(i) ==
  /\ phase = "loading" /\ i \in todo
  /\ LET e == Entry(buffer[i], damage[i])
     IN  IF PanicsOn(e)
         THEN phase' = "dead" /\ todo' = {} /\ shares' = << >>
         ELSE /\ shares' = With([id \in {s.SidechainId : s \in ParseCacheEntry(e)} |->
                                   CHOOSE s \in ParseCacheEntry(e) : TRUE], shares)
              /\ todo' = todo \ {i}
              /\ UNCHANGED phase
  /\ UNCHANGED <<buffer, damage>>

Loaded ==
  /\ phase = "loading" /\ todo = {}
  /\ phase' = "loaded"
  /\ UNCHANGED <<buffer, damage, todo, shares>>

(* The cycle is over, or systemd starts the daemon again.                  *)
Rest ==
  /\ phase \in {"loaded", "dead"}
  /\ phase' = "idle"
  /\ shares' = << >>
  /\ UNCHANGED <<buffer, damage, todo>>

Next ==
  \/ \E i \in Slot : \/ Parse(i)
                     \/ \E b \in Blocks : Write(i, b)
                     \/ \E d \in Damages \ {Intact} : Damage(i, d)
  \/ Load \/ Loaded \/ Rest

Spec == Init /\ [][Next]_vars

-----------------------------------------------------------------------------
(***************************************************************************)
(* Properties.                                                             *)
(***************************************************************************)
(* Every usable entry becomes the share it was written from, field for     *)
(* field, in whatever form its outputs are, with or without a protocol     *)
(* transaction, and whatever another slot holds (parser.go:81, 302, 448).  *)
UsableLoaded ==
  phase = "loaded" =>
    \A i \in Usable : /\ H(buffer[i].id) \in DOMAIN shares
                      /\ shares[H(buffer[i].id)] = ShareOf(buffer[i])

(* An entry that lost bytes, in its value or in its block, at whatever     *)
(* place, leaves no share behind, not even one of the fields it still has  *)
(* (parser.go:32, 51, 434).                                                *)
NothingElse ==
  phase = "loaded" =>
    DOMAIN shares = {H(buffer[i].id) : i \in Usable}

=============================================================================
