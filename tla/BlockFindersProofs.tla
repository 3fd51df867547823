-------------------------- MODULE BlockFindersProofs --------------------------
(***************************************************************************)
(* Proofs about BlockFinders, for any shares, blocks, heights, miners and  *)
(* times, any size of the buffer and any points where the daemon may die:  *)
(* the finder of a height is stored once and for all, is a miner of that   *)
(* height, and is the one shown; at rest the keys about the found blocks   *)
(* agree; types, the effort of a round among them.                         *)
(***************************************************************************)
EXTENDS BlockFinders, InductionLemmas, TLAPS

(* The shares of a cycle have been mined.                                  *)
SharesMined ==
  /\ mined \in 0..Len(Shares)
  /\ shares \subseteq {Shares[k] : k \in 1..mined}

(* A finder mined a share of the height.                                   *)
MinerAt(h, m) == \E k \in 1..mined : MainHeight[Shares[k]] = h /\ MinerOf[Shares[k]] = m

HadShare(finders) == \A h \in Height : finders[h] # None => MinerAt(h, finders[h])

(* Past the load of a cycle, and in a daemon that remembers any finder at  *)
(* all, the stored finders are among those in memory: if a daemon without  *)
(* finders can read them.                                                  *)
Remembers == blockFinders # NoFinders \/ pc \notin {"down", "load"}

Remembered ==
  "cold" \notin GetMayFail /\ Remembers => \A h \in Height : findersKey[h] # None => blockFinders[h] = findersKey[h]

Inv ==
  /\ pc \in Point
  /\ findersKey \in Finders /\ blockFinders \in Finders
  /\ SharesMined
  /\ HadShare(findersKey) /\ HadShare(blockFinders)
  /\ Remembered

(* No finder is known at the start.                                        *)
LEMMA InvInit == Init => Inv
<1> SUFFICES ASSUME Init PROVE Inv
  OBVIOUS
<1>1. NoFinders \in Finders /\ \A h \in Height : NoFinders[h] = None
  BY DEF NoFinders, Finders
<1>2. Len(Shares) \in Nat
  BY FinderAssumption
<1>3. QED
  BY <1>1, <1>2 DEF Init, Inv, Point, SharesMined, HadShare, Remembered, Remembers

(* p2pool and the main chain: what was mined stays mined.                  *)
LEMMA WorldKeeps ==
  ASSUME Inv, World
  PROVE  Inv'
<1>1. UNCHANGED <<redis, daemon, pc>> /\ mined' \in mined..Len(Shares) /\ mined \in 0..Len(Shares)
  BY FinderAssumption DEF World, MineShare, ReportBlock, ChainMoves, Inv, SharesMined
<1>2. SharesMined'
  <2>1. Len(Shares) \in Nat /\ 1..mined \subseteq 1..mined' /\ mined' \in 0..Len(Shares)
    BY <1>1, FinderAssumption
  <2>2. {Shares[k] : k \in 1..mined} \subseteq {Shares[k] : k \in 1..mined'}
    BY <2>1
  <2>3. QED
    BY <1>1, <2>1, <2>2 DEF Inv, SharesMined, daemon
<1>3. \A h \in Height, m \in Miner : MinerAt(h, m) => MinerAt(h, m)'
  BY <1>1, FinderAssumption DEF MinerAt
<1>4. HadShare(findersKey)' /\ HadShare(blockFinders)'
  BY <1>1, <1>3 DEF Inv, HadShare, Finders, redis, daemon
<1>5. QED
  BY <1>1, <1>2, <1>4 DEF Inv, Remembered, Remembers, redis, daemon

(* A cycle begins with the shares that are in the buffer.                  *)
LEMMA BeginCycleKeeps ==
  ASSUME Inv, BeginCycle
  PROVE  Inv'
<1>1. UNCHANGED <<mined, findersKey, blockFinders>> /\ pc' = "load" /\ shares' = Buffer
  BY DEF BeginCycle, world, redis
<1>2. Buffer \subseteq {Shares[k] : k \in 1..mined}
  BY DEF Buffer
<1>3. SharesMined'
  BY <1>1, <1>2 DEF Inv, SharesMined
<1>4. HadShare(findersKey)' /\ HadShare(blockFinders)'
  BY <1>1 DEF Inv, HadShare, MinerAt
<1>5. Remembered'
  <2>1. CASE blockFinders = NoFinders
    BY <1>1, <2>1 DEF Remembered, Remembers
  <2>2. CASE blockFinders # NoFinders
    BY <1>1, <2>2 DEF Inv, Remembered, Remembers
  <2>3. QED
    BY <2>1, <2>2
<1>6. QED
  BY <1>1, <1>3, <1>4, <1>5 DEF Inv, Point

(* The stored finders come into memory.                                    *)
LEMMA LoadKeeps ==
  ASSUME Inv, LoadBlockFinders
  PROVE  Inv'
<1>1. UNCHANGED <<mined, shares, findersKey>> /\ pc' = "read" /\ blockFinders' = Merged
  BY DEF LoadBlockFinders, world, redis
<1>2. /\ Merged \in Finders
      /\ \A h \in Height : /\ findersKey[h] # None => Merged[h] = findersKey[h]
                           /\ Merged[h] \in {findersKey[h], blockFinders[h]}
  BY DEF Inv, Merged, Finders
<1>3. SharesMined'
  BY <1>1 DEF Inv, SharesMined
<1>4. HadShare(findersKey)' /\ HadShare(blockFinders)'
  BY <1>1, <1>2 DEF Inv, HadShare, MinerAt
<1>5. Remembered'
  BY <1>1, <1>2 DEF Remembered
<1>6. QED
  BY <1>1, <1>2, <1>3, <1>4, <1>5 DEF Inv, Point

(* Without them, a daemon that has a finder in memory has them all.        *)
LEMMA SkipKeeps ==
  ASSUME Inv, SkipBlockFinders
  PROVE  Inv'
<1>1. UNCHANGED <<mined, shares, findersKey, blockFinders>> /\ pc' = "read"
  BY DEF SkipBlockFinders, world, redis, daemon
<1>2. "cold" \notin GetMayFail => blockFinders # NoFinders
  BY DEF SkipBlockFinders
<1>3. HadShare(findersKey)' /\ HadShare(blockFinders)'
  BY <1>1 DEF Inv, HadShare, MinerAt
<1>4. QED
  BY <1>1, <1>2, <1>3 DEF Inv, SharesMined, Remembered, Remembers, Point

(* Only heights without a finder get one, from the shares of that height.  *)
LEMMA ReadKeeps ==
  ASSUME Inv, ReadFoundList
  PROVE  Inv'
<1>1. UNCHANGED <<mined, shares, findersKey>> /\ pc = "read" /\ pc' = "publish"
      /\ blockFinders' \in Resolved
  BY DEF ReadFoundList, world, redis
<1>2. blockFinders' \in Finders
  BY <1>1 DEF Resolved
<1>3. ASSUME NEW h \in Height
      PROVE  \/ blockFinders'[h] = blockFinders[h]
             \/ /\ blockFinders[h] = None
                /\ MinerAt(h, blockFinders'[h])
  <2>1. CASE h \notin Listed \/ AlreadyKnown(h) \/ Candidates(h) = {}
    BY <1>1, <2>1 DEF Resolved
  <2>2. CASE ~(h \notin Listed \/ AlreadyKnown(h) \/ Candidates(h) = {})
    <3>1. PICK s \in Nearest(h) : blockFinders'[h] = MinerOf[s]
      BY <1>1, <2>2 DEF Resolved
    <3>2. s \in shares /\ MainHeight[s] = h
      BY <3>1 DEF Nearest, Candidates
    <3>3. MinerAt(h, blockFinders'[h])
      BY <3>1, <3>2 DEF Inv, SharesMined, MinerAt
    <3>4. QED
      BY <2>2, <3>3 DEF AlreadyKnown
  <2>3. QED
    BY <2>1, <2>2
<1>4. SharesMined' /\ HadShare(findersKey)'
  BY <1>1 DEF Inv, SharesMined, HadShare, MinerAt
<1>5. HadShare(blockFinders)'
  BY <1>1, <1>3 DEF Inv, HadShare, MinerAt
<1>6. Remembered'
  BY <1>1, <1>3 DEF Inv, Remembered, Remembers
<1>7. QED
  BY <1>1, <1>2, <1>4, <1>5, <1>6 DEF Inv, Point

(* The finders are stored: those that were stored are among them.          *)
LEMMA SaveKeeps ==
  ASSUME Inv, SaveFinders
  PROVE  /\ Inv'
         /\ "cold" \notin GetMayFail
              => \A h \in Height : findersKey[h] # None => findersKey'[h] = findersKey[h]
<1>1. UNCHANGED <<mined, shares, blockFinders>> /\ pc = "save" /\ pc' = "check"
      /\ findersKey' \in {findersKey, blockFinders}
  BY DEF SaveFinders, Stores, world, daemon
<1>2. "cold" \notin GetMayFail
        => \A h \in Height : findersKey[h] # None => findersKey'[h] = findersKey[h]
  BY <1>1 DEF Inv, Remembered, Remembers
<1>3. HadShare(findersKey)' /\ HadShare(blockFinders)'
  BY <1>1 DEF Inv, HadShare, MinerAt
<1>4. findersKey' \in Finders /\ SharesMined'
  BY <1>1 DEF Inv, SharesMined
<1>5. Remembered'
  BY <1>1 DEF Inv, Remembered, Remembers
<1>6. Inv'
  BY <1>1, <1>3, <1>4, <1>5 DEF Inv, Point
<1>7. QED
  BY <1>2, <1>6

(* The other steps of a cycle have nothing to do with finders.             *)
LEMMA OtherStepsKeep ==
  ASSUME Inv, SkipFoundList \/ PublishFound \/ StoreNumber \/ StoreLastFound
              \/ RemoveOrphanedBlocks \/ Republish \/ StoreEffort
  PROVE  Inv'
<1>1. /\ UNCHANGED <<mined, shares, findersKey, blockFinders>>
      /\ pc \notin {"down", "load"} /\ pc' \notin {"down", "load"} /\ pc' \in Point
  BY DEF SkipFoundList, PublishFound, StoreNumber, StoreLastFound, RemoveOrphanedBlocks,
    Republish, StoreEffort, world, redis, daemon, Point
<1>2. QED
  BY <1>1 DEF Inv, SharesMined, HadShare, MinerAt, Remembered, Remembers

(* A daemon that dies forgets what it has in memory.                       *)
LEMMA CrashKeeps ==
  ASSUME Inv, Crash
  PROVE  Inv'
<1>1. UNCHANGED <<mined, findersKey>> /\ shares' = {} /\ blockFinders' = NoFinders
      /\ pc' = "down"
  BY DEF Crash, world, redis
<1>2. NoFinders \in Finders /\ \A h \in Height : NoFinders[h] = None
  BY DEF NoFinders, Finders
<1>3. HadShare(findersKey)' /\ HadShare(blockFinders)'
  BY <1>1, <1>2 DEF Inv, HadShare, MinerAt
<1>4. QED
  BY <1>1, <1>2, <1>3 DEF Inv, SharesMined, Remembered, Remembers, Point

(* The invariant holds in every state.                                     *)
THEOREM InvHolds == Spec => []Inv
<1>1. Inv /\ [Next]_vars => Inv'
  <2> SUFFICES ASSUME Inv, [Next]_vars PROVE Inv'
    OBVIOUS
  <2>1. CASE World
    BY <2>1, WorldKeeps
  <2>2. CASE Cycle
    BY <2>2, BeginCycleKeeps, LoadKeeps, SkipKeeps, ReadKeeps, SaveKeeps, OtherStepsKeep DEF Cycle
  <2>3. CASE Crash
    BY <2>3, CrashKeeps
  <2>4. CASE UNCHANGED vars
    BY <2>4 DEF vars, world, redis, daemon, Inv, SharesMined, HadShare, MinerAt, Remembered,
      Remembers
  <2>5. QED
    BY <2>1, <2>2, <2>3, <2>4 DEF Next
<1>2. QED
  BY <1>1, InvInit, PTL DEF Spec

(* No miner is named for a height it mined no share for (main.go:705).     *)
THEOREM FinderMinedThere == Spec => []FinderHadShare
<1>1. Inv => FinderHadShare
  BY DEF Inv, HadShare, MinerAt, FinderHadShare
<1>2. QED
  BY <1>1, InvHolds, PTL

(* A stored finder is never lost or replaced if a daemon that has just     *)
(* started can read the finders (main.go:696, 742, 1055).                  *)
THEOREM FinderStays ==
  ASSUME "cold" \notin GetMayFail
  PROVE  Spec => FindersKept
<1>1. Inv /\ [Next]_vars
        => [\A h \in Height : findersKey[h] # None => findersKey'[h] = findersKey[h]]_vars
  <2> SUFFICES ASSUME Inv, [Next]_vars, vars' # vars
               PROVE  \A h \in Height : findersKey[h] # None => findersKey'[h] = findersKey[h]
    OBVIOUS
  <2>1. CASE SaveFinders
    BY <2>1, SaveKeeps
  <2>2. CASE ~SaveFinders
    <3>1. findersKey' = findersKey
      BY <2>2 DEF vars, Next, World, Cycle, Crash, MineShare, ReportBlock, ChainMoves, BeginCycle,
        LoadBlockFinders, SkipBlockFinders, ReadFoundList, SkipFoundList, PublishFound,
        StoreNumber, StoreLastFound, RemoveOrphanedBlocks, Republish, StoreEffort, world, redis
    <3>2. QED
      BY <3>1
  <2>3. QED
    BY <2>1, <2>2
<1>2. QED
  BY <1>1, InvHolds, PTL DEF Spec, FindersKept

-----------------------------------------------------------------------------
(* What is published is what is in memory, unless memory has just changed; *)
(* its number follows.                                                     *)
PublishedInv ==
  pc \notin {"publish", "republish"} /\ foundBlocks # << >> => published = foundBlocks

NumberInv ==
  pc \notin {"publish", "count", "republish", "recount"} /\ foundBlocks # << >>
    => blocksFound = Len(foundBlocks)

(* A step publishes what is in memory, if the SET of it does not fail.     *)
LEMMA PublishedNext ==
  ASSUME "found" \notin SetMayFail, PublishedInv, [Next]_vars
  PROVE  PublishedInv'
<1> USE DEF PublishedInv
<1>1. CASE World \/ UNCHANGED vars
  <2>1. UNCHANGED <<redis, daemon, pc>>
    BY <1>1 DEF World, MineShare, ReportBlock, ChainMoves, vars
  <2>2. QED
    BY <2>1 DEF redis, daemon
<1>2. CASE BeginCycle \/ LoadBlockFinders \/ SkipBlockFinders \/ SkipFoundList
  BY <1>2 DEF BeginCycle, LoadBlockFinders, SkipBlockFinders, SkipFoundList, redis, daemon
<1>3. CASE ReadFoundList
  BY <1>3 DEF ReadFoundList
<1>4. CASE PublishFound \/ Republish
  BY <1>4 DEF PublishFound, Republish, Stores, daemon
<1>5. CASE StoreNumber \/ StoreLastFound \/ SaveFinders \/ StoreEffort
  BY <1>5 DEF StoreNumber, StoreLastFound, SaveFinders, StoreEffort, daemon
<1>6. CASE RemoveOrphanedBlocks
  BY <1>6 DEF RemoveOrphanedBlocks, redis
<1>7. CASE Crash
  BY <1>7 DEF Crash
<1>8. QED
  BY <1>1, <1>2, <1>3, <1>4, <1>5, <1>6, <1>7 DEF Next, Cycle

(* A step keeps the keys about the found blocks together, if their SETs do *)
(* not fail.                                                               *)
LEMMA AgreeNext ==
  ASSUME {"number", "effort"} \cap SetMayFail = {},
         PublishedInv, NumberInv, AgreeAtRest, [Next]_vars
  PROVE  (NumberInv /\ AgreeAtRest)'
<1>1. CASE World \/ UNCHANGED vars
  <2>1. UNCHANGED <<redis, daemon, pc>>
    BY <1>1 DEF World, MineShare, ReportBlock, ChainMoves, vars
  <2>2. QED
    BY <2>1 DEF NumberInv, AgreeAtRest, redis, daemon
<1>2. CASE BeginCycle \/ LoadBlockFinders \/ SkipBlockFinders \/ SkipFoundList
  <2>1. /\ UNCHANGED <<foundBlocks, blocksFound>>
        /\ pc \notin {"publish", "count", "republish", "recount"} /\ pc' # "idle"
    BY <1>2 DEF BeginCycle, LoadBlockFinders, SkipBlockFinders, SkipFoundList, redis, daemon
  <2>2. QED
    BY <2>1 DEF NumberInv, AgreeAtRest
<1>3. CASE ReadFoundList \/ PublishFound \/ Republish
  BY <1>3 DEF ReadFoundList, PublishFound, Republish, NumberInv, AgreeAtRest
<1>4. CASE StoreNumber
  BY <1>4 DEF StoreNumber, Stores, daemon, NumberInv, AgreeAtRest
<1>5. CASE StoreLastFound \/ SaveFinders
  BY <1>5 DEF StoreLastFound, SaveFinders, daemon, NumberInv, AgreeAtRest
<1>6. CASE RemoveOrphanedBlocks
  BY <1>6 DEF RemoveOrphanedBlocks, redis, NumberInv, AgreeAtRest
<1>7. CASE StoreEffort
  BY <1>7 DEF StoreEffort, Stores, daemon, PublishedInv, NumberInv, AgreeAtRest
<1>8. CASE Crash
  BY <1>8 DEF Crash, NumberInv, AgreeAtRest
<1>9. QED
  BY <1>1, <1>2, <1>3, <1>4, <1>5, <1>6, <1>7, <1>8 DEF Next, Cycle

(* At rest the published blocks, their number and the effort belong        *)
(* together, with any orphans removed and wherever the daemon died before, *)
(* if the SETs of the three do not fail (main.go:732, 791, 848).           *)
THEOREM AgreesAtRest ==
  ASSUME {"found", "number", "effort"} \cap SetMayFail = {}
  PROVE  Spec => []AgreeAtRest
<1>1. Init => PublishedInv /\ NumberInv /\ AgreeAtRest
  BY DEF Init, PublishedInv, NumberInv, AgreeAtRest
<1>2. PublishedInv /\ NumberInv /\ AgreeAtRest /\ [Next]_vars
        => (PublishedInv /\ NumberInv /\ AgreeAtRest)'
  BY PublishedNext, AgreeNext
<1>3. QED
  BY <1>1, <1>2, PTL DEF Spec

-----------------------------------------------------------------------------
(***************************************************************************)
(* Taking entries off a list (removeOrphanedBlocks).                       *)
(***************************************************************************)

(* What is left of a list is in the list and not among what is taken off.  *)
LEMMA WithoutKeeps ==
  ASSUME NEW S, NEW seq \in Seq(S), NEW gone
  PROVE  /\ Without(seq, gone) \in Seq(S)
         /\ \A j \in DOMAIN Without(seq, gone) :
              \E k \in DOMAIN seq : Without(seq, gone)[j] = seq[k] /\ seq[k] \notin gone
<1> DEFINE kept == {k \in DOMAIN seq : seq[k] \notin gone}
           c    == Cardinality(kept)
           pick(j) == CHOOSE k \in kept : Cardinality({n \in kept : n <= k}) = j
           left == [j \in 1..c |-> seq[pick(j)]]
<1>1. DOMAIN seq = 1..Len(seq) /\ Len(seq) \in Nat
  BY LenProperties
<1>2. kept \in SUBSET (1..Len(seq))
  BY <1>1
<1>3. c \in Nat
  <2>1. IsFiniteSet(1..Len(seq))
    BY <1>1, FS_Interval
  <2>2. QED
    BY <1>2, <2>1, FS_Subset, FS_CardinalityType
<1>4. ASSUME NEW j \in 1..c PROVE pick(j) \in kept
  <2>1. \E k \in kept : Cardinality(Upto(kept, k)) = j
    <3> HIDE DEF kept
    <3>1. QED
      BY <1>1, <1>2, RankedPosition
  <2>2. \E k \in kept : Cardinality({n \in kept : n <= k}) = j
    BY <2>1 DEF Upto
  <2> HIDE DEF kept
  <2>3. QED
    BY <2>2
<1>5. Without(seq, gone) = left
  BY DEF Without
<1> HIDE DEF pick, c
<1>6. ASSUME NEW j \in 1..c
      PROVE  left[j] \in S /\ \E k \in DOMAIN seq : left[j] = seq[k] /\ seq[k] \notin gone
  <2>1. pick(j) \in DOMAIN seq /\ seq[pick(j)] \notin gone /\ left[j] = seq[pick(j)]
    BY <1>4
  <2>2. seq[pick(j)] \in S
    BY <1>1, <2>1, ElementOfSeq
  <2>3. QED
    BY <2>1, <2>2
<1>7. left \in [1..c -> S] /\ DOMAIN left = 1..c
  BY <1>6
<1> HIDE DEF left
<1>8. left \in Seq(S)
  BY <1>3, <1>7, SeqDef
<1>9. QED
  BY <1>5, <1>6, <1>7, <1>8

-----------------------------------------------------------------------------
(***************************************************************************)
(* Type correctness.                                                       *)
(***************************************************************************)

(* A cycle that goes on has shares, and blocks once it has read the list.  *)
Busy ==
  /\ pc \notin {"down", "idle"} => shares # {}
  /\ pc \in {"publish", "count", "last", "save"} => foundBlocks # << >>

(* A list of some blocks is a list of more blocks.                         *)
LEMMA WiderList ==
  ASSUME NEW S, NEW T, S \subseteq T, NEW s \in Seq(S)
  PROVE  s \in Seq(T)
<1>1. Len(s) \in Nat /\ s \in [1..Len(s) -> T]
  BY LenProperties, ElementOfSeq
<1>2. QED
  BY <1>1, SeqDef

(* Every share has its place in the side chain.                            *)
LEMMA IndexType ==
  ASSUME NEW s \in Share
  PROVE  Index(s) \in 1..Len(Shares)
<1>1. \E k \in DOMAIN Shares : Shares[k] = s
  BY DEF Share, Range
<1>2. DOMAIN Shares = 1..Len(Shares)
  BY FinderAssumption, LenProperties
<1>3. QED
  BY <1>1, <1>2 DEF Index

(* The hashes of a round are never negative (main.go:817).                 *)
LEMMA RoundType ==
  ASSUME shares \subseteq Share, shares # {}, NEW b \in Solves
  PROVE  RoundHashes(b) \in Nat
<1> DEFINE places == {Index(s) : s \in shares}
           tip    == Max(places)
<1>1. Len(Shares) \in Nat
  BY FinderAssumption, LenProperties
<1>2. places \in SUBSET (0..Len(Shares)) /\ places # {}
  BY <1>1, IndexType
<1> HIDE DEF places
<1>3. tip \in places
  BY <1>1, <1>2, MinMaxOf
<1>4. tip \in Nat
  <2>1. places \subseteq Nat
    BY <1>1, <1>2
  <2>2. QED
    BY <1>3, <2>1
<1>5. Index(b) \in Nat
  BY FinderAssumption, IndexType
<1> HIDE DEF tip
<1>6. RoundHashes(b) = IF tip > Index(b) THEN tip - Index(b) ELSE 0
  BY DEF RoundHashes, tip, places
<1>7. QED
  BY <1>4, <1>5, <1>6

(* Nothing is known at the start.                                          *)
LEMMA TypeInit == Init => TypeOK /\ Busy
<1> SUFFICES ASSUME Init PROVE TypeOK /\ Busy
  OBVIOUS
<1>1. Len(Shares) \in Nat
  BY FinderAssumption, LenProperties
<1>2. NoFinders \in Finders /\ [h \in Height |-> Foreign] \in [Height -> Solves \cup {Foreign}]
  BY DEF NoFinders, Finders
<1>3. << >> \in Seq({}) /\ << >> \in Seq(Entry)
  BY EmptySeq
<1>4. QED
  BY <1>1, <1>2, <1>3 DEF Init, TypeOK, Busy, Point

(* p2pool and the main chain.                                              *)
LEMMA TypeWorld ==
  ASSUME TypeOK, Busy, World
  PROVE  (TypeOK /\ Busy)'
<1>1. UNCHANGED <<redis, daemon, pc>>
  BY DEF World, MineShare, ReportBlock, ChainMoves
<1>2. /\ mined' \in 0..Len(Shares)
      /\ reported' \subseteq Solves
      /\ list' \in Seq(reported')
      /\ chain' \in [Height -> Solves \cup {Foreign}]
  <2>1. CASE MineShare
    <3>1. Len(Shares) \in Nat
      BY FinderAssumption, LenProperties
    <3>2. QED
      BY <2>1, <3>1 DEF MineShare, TypeOK
  <2>2. ASSUME NEW b \in Solves, ReportBlock(b)
        PROVE  /\ mined' \in 0..Len(Shares)
               /\ reported' \subseteq Solves
               /\ list' \in Seq(reported')
               /\ chain' \in [Height -> Solves \cup {Foreign}]
    <3>1. /\ mined' = mined /\ list' = Append(list, b) /\ reported' = reported \cup {b}
          /\ \E c \in {b, chain[MainHeight[b]]} : chain' = [chain EXCEPT ![MainHeight[b]] = c]
      BY <2>2 DEF ReportBlock
    <3>2. MainHeight[b] \in Height
      BY FinderAssumption DEF Height
    <3>3. list \in Seq(reported') /\ b \in reported'
      BY <3>1, WiderList DEF TypeOK
    <3>4. list' \in Seq(reported')
      BY <3>1, <3>3, AppendProperties
    <3>5. QED
      BY <3>1, <3>2, <3>4 DEF TypeOK
  <2>3. ASSUME NEW h \in Height, ChainMoves(h)
        PROVE  /\ mined' \in 0..Len(Shares)
               /\ reported' \subseteq Solves
               /\ list' \in Seq(reported')
               /\ chain' \in [Height -> Solves \cup {Foreign}]
    BY <2>3 DEF ChainMoves, TypeOK
  <2>4. QED
    BY <2>1, <2>2, <2>3 DEF World
<1>3. QED
  BY <1>1, <1>2 DEF TypeOK, Busy, redis, daemon

(* The list is read: an entry for every block of it.                       *)
LEMMA TypeRead ==
  ASSUME TypeOK, Busy, ReadFoundList
  PROVE  (TypeOK /\ Busy)'
<1>1. /\ UNCHANGED <<world, redis, shares>> /\ pc = "read" /\ pc' = "publish"
      /\ blockFinders' \in Finders
      /\ foundBlocks' = [k \in DOMAIN list |->
           [block |-> list[k], finder |-> blockFinders'[MainHeight[list[k]]]]]
  BY DEF ReadFoundList, Resolved
<1>2. list \in Seq(Solves)
  BY WiderList DEF TypeOK
<1>3. DOMAIN list = 1..Len(list) /\ Len(list) \in Nat
  BY <1>2, LenProperties
<1>4. ASSUME NEW k \in DOMAIN list
      PROVE  [block |-> list[k], finder |-> blockFinders'[MainHeight[list[k]]]] \in Entry
  <2>1. list[k] \in Solves
    BY <1>2, <1>3, ElementOfSeq
  <2>2. MainHeight[list[k]] \in Height
    BY <2>1, FinderAssumption DEF Height
  <2>3. QED
    BY <1>1, <2>1, <2>2 DEF Finders, Entry
<1>5. foundBlocks' \in [1..Len(list) -> Entry]
  BY <1>1, <1>3, <1>4
<1>6. foundBlocks' \in Seq(Entry)
  BY <1>3, <1>5, SeqDef
<1>7. foundBlocks' # << >>
  <2>1. Len(list) # 0
    BY <1>2, EmptySeq DEF ReadFoundList
  <2>2. DOMAIN foundBlocks' = 1..Len(list)
    BY <1>1, <1>3
  <2>3. 1 \in DOMAIN foundBlocks' /\ 1 \notin DOMAIN << >>
    BY <1>3, <2>1, <2>2
  <2>4. QED
    BY <2>3
<1>8. QED
  BY <1>1, <1>6, <1>7 DEF TypeOK, Busy, world, redis, Point

(* The orphans are taken off.                                              *)
LEMMA TypeOrphans ==
  ASSUME TypeOK, Busy, RemoveOrphanedBlocks
  PROVE  (TypeOK /\ Busy)'
<1>1. /\ UNCHANGED <<mined, reported, chain, redis, shares, blockFinders>>
      /\ pc = "check" /\ pc' \in {"effort", "republish"}
  BY DEF RemoveOrphanedBlocks
<1>2. \/ UNCHANGED <<foundBlocks, list>>
      \/ \E orphans : /\ foundBlocks' = Without(foundBlocks, orphans)
                      /\ list' = Without(list, {e.block : e \in orphans})
  BY DEF RemoveOrphanedBlocks
<1>3. foundBlocks' \in Seq(Entry) /\ list' \in Seq(reported)
  <2>1. foundBlocks \in Seq(Entry) /\ list \in Seq(reported)
    BY DEF TypeOK
  <2>2. /\ \A gone : Without(foundBlocks, gone) \in Seq(Entry)
        /\ \A gone : Without(list, gone) \in Seq(reported)
    BY <2>1, WithoutKeeps
  <2>3. QED
    BY <1>2, <2>1, <2>2
<1>4. QED
  BY <1>1, <1>3 DEF TypeOK, Busy, redis, Point

(* The last entry of a list that is not empty.                             *)
LEMMA LastType ==
  ASSUME TypeOK, foundBlocks # << >>
  PROVE  Last(foundBlocks).block \in Solves
<1>1. foundBlocks \in Seq(Entry) /\ Len(foundBlocks) \in Nat
  BY LenProperties DEF TypeOK
<1>2. Len(foundBlocks) # 0
  BY <1>1, EmptySeq
<1>3. Last(foundBlocks) \in Entry
  BY <1>1, <1>2, ElementOfSeq DEF Last
<1>4. QED
  BY <1>3 DEF Entry

(* The effort is stored.                                                   *)
LEMMA TypeEffort ==
  ASSUME TypeOK, Busy, StoreEffort
  PROVE  (TypeOK /\ Busy)'
<1>1. /\ UNCHANGED <<world, findersKey, published, blocksFound, lastFound, daemon>>
      /\ pc = "effort" /\ pc' = "idle"
      /\ \/ effort' = effort
         \/ /\ foundBlocks # << >>
            /\ effort' = [block |-> Last(foundBlocks).block,
                          round |-> RoundHashes(Last(foundBlocks).block),
                          total |-> Len(foundBlocks)]
  BY DEF StoreEffort, Stores
<1>2. effort' \in Effort \cup {None}
  <2>1. CASE effort' = effort
    BY <2>1 DEF TypeOK
  <2>2. CASE effort' # effort /\ foundBlocks # << >>
    <3>1. Last(foundBlocks).block \in Solves /\ Len(foundBlocks) \in Nat
      BY <2>2, LastType, LenProperties DEF TypeOK
    <3>2. RoundHashes(Last(foundBlocks).block) \in Nat
      BY <1>1, <3>1, RoundType DEF TypeOK, Busy
    <3>3. QED
      BY <1>1, <2>2, <3>1, <3>2 DEF Effort
  <2>3. QED
    BY <1>1, <2>1, <2>2
<1>3. QED
  BY <1>1, <1>2 DEF TypeOK, Busy, world, daemon, Point

(* Every step keeps the types.                                             *)
LEMMA TypeNext == TypeOK /\ Busy /\ [Next]_vars => (TypeOK /\ Busy)'
<1> SUFFICES ASSUME TypeOK, Busy, [Next]_vars PROVE (TypeOK /\ Busy)'
  OBVIOUS
<1>1. CASE World \/ ReadFoundList \/ RemoveOrphanedBlocks \/ StoreEffort
  BY <1>1, TypeWorld, TypeRead, TypeOrphans, TypeEffort
<1>2. CASE BeginCycle
  <2>1. Buffer \subseteq Share
    <3>1. mined \in Nat /\ mined <= Len(Shares) /\ Len(Shares) \in Nat
      BY FinderAssumption, LenProperties DEF TypeOK
    <3>2. \A k \in 1..mined : Shares[k] \in Share
      BY <3>1, FinderAssumption, ElementOfSeq
    <3>3. QED
      BY <3>2 DEF Buffer
  <2>2. QED
    BY <1>2, <2>1 DEF BeginCycle, TypeOK, Busy, world, redis, Point
<1>3. CASE LoadBlockFinders
  <2>1. Merged \in Finders
    BY DEF Merged, TypeOK, Finders
  <2>2. QED
    BY <1>3, <2>1 DEF LoadBlockFinders, TypeOK, Busy, world, redis, Point
<1>4. CASE SkipBlockFinders \/ SkipFoundList \/ SaveFinders
  BY <1>4 DEF SkipBlockFinders, SkipFoundList, SaveFinders, Stores, TypeOK, Busy, world, redis,
    daemon, Point
<1>5. CASE PublishFound \/ Republish \/ StoreNumber
  <2>1. Len(foundBlocks) \in Nat
    BY LenProperties DEF TypeOK
  <2>2. QED
    BY <1>5, <2>1 DEF PublishFound, Republish, StoreNumber, Stores, TypeOK, Busy, world, daemon, Point
<1>6. CASE Crash
  <2>1. NoFinders \in Finders /\ << >> \in Seq(Entry)
    BY EmptySeq DEF NoFinders, Finders
  <2>2. QED
    BY <1>6, <2>1 DEF Crash, TypeOK, Busy, world, redis, Point
<1>7. CASE UNCHANGED vars
  BY <1>7 DEF vars, TypeOK, Busy, world, redis, daemon
<1>8. CASE StoreLastFound
  <2>1. Last(foundBlocks).block \in Solves
    BY <1>8, LastType DEF StoreLastFound, Busy
  <2>2. QED
    BY <1>8, <2>1 DEF StoreLastFound, LastBlock, Stores, TypeOK, Busy, world, daemon, Point
<1>9. QED
  BY <1>1, <1>2, <1>3, <1>4, <1>5, <1>6, <1>7, <1>8 DEF Next, Cycle

(* Every value of the state is of its kind, the effort of a round is never *)
(* negative, and the last block is only looked for where there is one.     *)
THEOREM FinderTypes == Spec => []TypeOK
BY TypeInit, TypeNext, PTL DEF Spec

-----------------------------------------------------------------------------
(***************************************************************************)
(* The finder that is shown.                                               *)
(***************************************************************************)

(* A daemon that has found blocks in memory remembers the stored finders   *)
(* and shows those it has in memory.                                       *)
InMemory ==
  foundBlocks # << >> =>
    /\ \A h \in Height : findersKey[h] # None => blockFinders[h] = findersKey[h]
    /\ \A k \in DOMAIN foundBlocks :
         foundBlocks[k].finder = blockFinders[MainHeight[foundBlocks[k].block]]

ShownInv == InMemory /\ FinderShown

(* An entry is of a block of some height.                                  *)
LEMMA EntryHeight ==
  ASSUME NEW bs \in Seq(Entry), NEW k \in DOMAIN bs
  PROVE  bs[k].block \in Solves /\ MainHeight[bs[k].block] \in Height
<1>1. bs[k] \in Entry
  BY LenProperties, ElementOfSeq
<1>2. QED
  BY <1>1, FinderAssumption DEF Entry, Height

(* What is in memory may be published.                                     *)
LEMMA ShownPublish ==
  ASSUME TypeOK, ShownInv, PublishFound \/ Republish
  PROVE  ShownInv'
<1>1. published' \in {published, foundBlocks}
      /\ UNCHANGED <<findersKey, blockFinders, foundBlocks>>
  BY DEF PublishFound, Republish, Stores, daemon
<1>2. ASSUME NEW k \in DOMAIN foundBlocks,
             findersKey[MainHeight[foundBlocks[k].block]] # None
      PROVE  foundBlocks[k].finder = findersKey[MainHeight[foundBlocks[k].block]]
  <2>1. MainHeight[foundBlocks[k].block] \in Height
    BY EntryHeight DEF TypeOK
  <2>2. foundBlocks # << >>
    OBVIOUS
  <2>3. QED
    BY <1>2, <2>1, <2>2 DEF ShownInv, InMemory
<1>3. FinderShown'
  BY <1>1, <1>2 DEF ShownInv, FinderShown
<1>4. QED
  BY <1>1, <1>3 DEF ShownInv, InMemory

(* What is stored is shown by what was published just before.              *)
LEMMA ShownSave ==
  ASSUME Busy, PublishedInv, ShownInv, SaveFinders
  PROVE  ShownInv'
<1>1. /\ findersKey' \in {findersKey, blockFinders}
      /\ UNCHANGED <<published, blockFinders, foundBlocks>>
      /\ foundBlocks # << >> /\ published = foundBlocks
  BY DEF SaveFinders, Stores, daemon, Busy, PublishedInv
<1>2. \A k \in DOMAIN foundBlocks :
        foundBlocks[k].finder = blockFinders[MainHeight[foundBlocks[k].block]]
  BY <1>1 DEF ShownInv, InMemory
<1>3. QED
  BY <1>1, <1>2 DEF ShownInv, InMemory, FinderShown

(* A finder that memory has is taken for the entries of the list.          *)
LEMMA ShownRead ==
  ASSUME "cold" \notin GetMayFail, TypeOK, Inv, ShownInv, ReadFoundList
  PROVE  ShownInv'
<1>1. /\ UNCHANGED <<findersKey, published>> /\ pc = "read"
      /\ foundBlocks' = [k \in DOMAIN list |->
           [block |-> list[k], finder |-> blockFinders'[MainHeight[list[k]]]]]
  BY DEF ReadFoundList, redis
<1>2. \A h \in Height : blockFinders[h] # None => blockFinders'[h] = blockFinders[h]
  BY DEF ReadFoundList, Resolved, AlreadyKnown
<1>3. \A h \in Height : findersKey[h] # None => blockFinders'[h] = findersKey[h]
  BY <1>1, <1>2 DEF Inv, Remembered, Remembers
<1>4. \A k \in DOMAIN foundBlocks' :
        foundBlocks'[k].finder = blockFinders'[MainHeight[foundBlocks'[k].block]]
  BY <1>1
<1>5. QED
  BY <1>1, <1>3, <1>4 DEF ShownInv, InMemory, FinderShown

(* Taking orphans off leaves entries that are in memory.                   *)
LEMMA ShownOrphans ==
  ASSUME TypeOK, Busy, ShownInv, RemoveOrphanedBlocks
  PROVE  ShownInv'
<1>1. UNCHANGED <<findersKey, published, blockFinders>>
  BY DEF RemoveOrphanedBlocks, redis
<1>2. foundBlocks' = foundBlocks \/ \E orphans : foundBlocks' = Without(foundBlocks, orphans)
  BY DEF RemoveOrphanedBlocks
<1>3. ASSUME NEW k \in DOMAIN foundBlocks'
      PROVE  \E j \in DOMAIN foundBlocks : foundBlocks'[k] = foundBlocks[j]
  <2>1. foundBlocks \in Seq(Entry)
    BY DEF TypeOK
  <2>2. \A gone : \A n \in DOMAIN Without(foundBlocks, gone) :
          \E j \in DOMAIN foundBlocks : Without(foundBlocks, gone)[n] = foundBlocks[j]
    BY <2>1, WithoutKeeps
  <2>3. QED
    BY <1>2, <1>3, <2>2
<1>4. ASSUME foundBlocks' # << >> PROVE foundBlocks # << >>
  <2>1. foundBlocks' \in Seq(Entry)
    BY TypeOrphans DEF TypeOK
  <2>2. QED
    BY <1>3, <1>4, <2>1, EmptySeq
<1>5. QED
  BY <1>1, <1>3, <1>4 DEF ShownInv, InMemory, FinderShown

(* No step breaks what is shown.                                           *)
LEMMA ShownNext ==
  ASSUME "cold" \notin GetMayFail, TypeOK, Busy, Inv, PublishedInv, ShownInv, [Next]_vars
  PROVE  ShownInv'
<1>1. CASE World \/ UNCHANGED vars
  <2>1. UNCHANGED <<redis, daemon>>
    BY <1>1 DEF World, MineShare, ReportBlock, ChainMoves, vars
  <2>2. QED
    BY <2>1 DEF ShownInv, InMemory, FinderShown, redis, daemon
<1>2. CASE BeginCycle \/ SkipBlockFinders \/ SkipFoundList \/ StoreNumber \/ StoreLastFound
           \/ StoreEffort
  <2>1. UNCHANGED <<findersKey, published, blockFinders, foundBlocks>>
    BY <1>2 DEF BeginCycle, SkipBlockFinders, SkipFoundList, StoreNumber, StoreLastFound,
      StoreEffort, redis, daemon
  <2>2. QED
    BY <2>1 DEF ShownInv, InMemory, FinderShown
<1>3. CASE LoadBlockFinders
  <2>1. UNCHANGED <<findersKey, published, foundBlocks>> /\ blockFinders' = Merged
    BY <1>3 DEF LoadBlockFinders, redis
  <2>2. ASSUME foundBlocks # << >> PROVE blockFinders' = blockFinders
    <3>1. \A h \in Height : Merged[h] = blockFinders[h]
      BY <2>2 DEF Merged, ShownInv, InMemory
    <3>2. QED
      BY <2>1, <3>1 DEF Merged, TypeOK, Finders
  <2>3. QED
    BY <2>1, <2>2 DEF ShownInv, InMemory, FinderShown
<1>4. CASE PublishFound \/ Republish \/ SaveFinders \/ ReadFoundList \/ RemoveOrphanedBlocks
  BY <1>4, ShownPublish, ShownSave, ShownRead, ShownOrphans
<1>5. CASE Crash
  BY <1>5 DEF Crash, redis, ShownInv, InMemory, FinderShown
<1>6. QED
  BY <1>1, <1>2, <1>3, <1>4, <1>5 DEF Next, Cycle

(* Every block that is published for a height whose finder is stored shows *)
(* this finder, between the SETs of a cycle and after a crash between them *)
(* too, if a daemon that has just started can read the finders and the SET *)
(* of the published blocks does not fail (main.go:696, 732, 742).          *)
THEOREM StoredFinderShown ==
  ASSUME "cold" \notin GetMayFail, "found" \notin SetMayFail
  PROVE  Spec => []FinderShown
<1>1. Init => TypeOK /\ Busy /\ Inv /\ PublishedInv /\ ShownInv
  <2>1. Init => PublishedInv /\ ShownInv
    BY DEF Init, PublishedInv, ShownInv, InMemory, FinderShown
  <2>2. QED
    BY <2>1, TypeInit, InvInit
<1>2. TypeOK /\ Busy /\ PublishedInv /\ Inv /\ ShownInv /\ [Next]_vars
        => (PublishedInv /\ ShownInv)'
  BY ShownNext, PublishedNext
<1>3. ShownInv => FinderShown
  BY DEF ShownInv
<1>4. QED
  BY <1>1, <1>2, <1>3, TypeNext, InvHolds, PTL DEF Spec

=============================================================================
