------------------------ MODULE PayoutLedgerProofs ------------------------
(***************************************************************************)
(* What holds of the payout ledger for any number of blocks, heights,      *)
(* miners and orders: types, the append-only history, one payout a height, *)
(* the recorded order, paid heights in cycles and at rest, and the book    *)
(* that the ledger implements.                                             *)
(***************************************************************************)
EXTENDS PayoutRebuild, SequenceTheorems, TLAPS

-----------------------------------------------------------------------------
(***************************************************************************)
(* The operators the daemon is built from.                                 *)
(***************************************************************************)

(* Removing an entry from a list of blocks leaves a list of blocks         *)
(* (removeOrphanedBlocks' LREM).                                           *)
LEMMA LremType ==
  ASSUME NEW list \in Seq(Block), NEW x \in Block
  PROVE  Lrem(list, x) \in Seq(Block)
<1>1. CASE x \in Legacy \/ \A k \in 1..Len(list) : list[k] # x
  BY <1>1 DEF Lrem
<1>2. CASE ~(x \in Legacy \/ \A k \in 1..Len(list) : list[k] # x)
  <2> DEFINE at == CHOOSE k \in 1..Len(list) : list[k] = x
             n  == Len(list) - 1
             cut == [k \in 1..n |-> IF k < at THEN list[k] ELSE list[k + 1]]
  <2>1. at \in 1..Len(list)
    BY <1>2
  <2>2. n \in Nat
    BY <2>1, LenProperties
  <2>3. \A k \in 1..n : k \in 1..Len(list) /\ k + 1 \in 1..Len(list)
    BY <2>2, LenProperties
  <2>4. \A k \in 1..n : (IF k < at THEN list[k] ELSE list[k + 1]) \in Block
    BY <2>3, ElementOfSeq
  <2>5. cut \in [1..n -> Block]
    BY <2>4
  <2>6. cut \in Seq(Block)
    BY <2>2, <2>5, SeqDef
  <2>7. Lrem(list, x) = cut
    BY <1>2 DEF Lrem
  <2> QED
    BY <2>6, <2>7
<1> QED
  BY <1>1, <1>2

(* What the parse loop of loadFoundBlocks makes of the list.               *)
LEMMA ParseType ==
  ASSUME NEW list \in Seq(Block)
  PROVE  [k \in 1..Len(list) |-> [block |-> list[k], reward |-> FALSE]]
           \in Seq(FoundBlock)
<1> DEFINE parsed == [k \in 1..Len(list) |-> [block |-> list[k], reward |-> FALSE]]
<1>1. \A k \in 1..Len(list) : [block |-> list[k], reward |-> FALSE] \in FoundBlock
  BY ElementOfSeq DEF FoundBlock
<1>2. parsed \in [1..Len(list) -> FoundBlock]
  BY <1>1
<1>3. Len(list) \in Nat
  BY LenProperties
<1> QED
  BY <1>2, <1>3, SeqDef

(* Crediting a coinbase keeps a map of payout lists.                       *)
LEMMA CreditType ==
  ASSUME NEW pay \in [Miner -> Seq(Payout)], NEW x \in Block,
         NEW src \in Block \cup {Foreign}, NEW addrs \in Seq(Miner)
  PROVE  Credit(pay, x, src, addrs) \in [Miner -> Seq(Payout)]
<1>1. MatchCount(src, addrs) \in Nat
  BY LedgerAssumption, LenProperties DEF MatchCount
<1>2. \A k \in 1..MatchCount(src, addrs) : PayoutAt(x, src, k) \in Payout
  BY <1>1 DEF PayoutAt, Payout
<1>3. ASSUME NEW m \in Miner, \E k \in 1..MatchCount(src, addrs) : addrs[k] = m
      PROVE  Append(pay[m], PayoutAt(x, src,
               CHOOSE k \in 1..MatchCount(src, addrs) : addrs[k] = m)) \in Seq(Payout)
  <2> DEFINE at == CHOOSE k \in 1..MatchCount(src, addrs) : addrs[k] = m
  <2>1. at \in 1..MatchCount(src, addrs)
    BY <1>3
  <2>2. PayoutAt(x, src, at) \in Payout
    BY <2>1, <1>2
  <2>3. pay[m] \in Seq(Payout)
    OBVIOUS
  <2> QED
    BY <2>2, <2>3, AppendProperties
<1> QED
  BY <1>3 DEF Credit

-----------------------------------------------------------------------------
(***************************************************************************)
(* Type correctness.                                                       *)
(***************************************************************************)
LEMMA TypeInit == Init => TypeOK
<1> SUFFICES ASSUME Init PROVE TypeOK
  OBVIOUS
<1>1. /\ << >> \in Seq(Block)
      /\ << >> \in Seq(FoundBlock)
      /\ << >> \in Seq(Payout)
  BY EmptySeq
<1>2. NoPayouts \in [Miner -> Seq(Payout)]
  BY <1>1 DEF NoPayouts
<1>3. NoSnapshot \in [Height -> Order \cup {NoOrder}]
  BY DEF NoSnapshot
<1>4. chain \in [Height -> Block \cup {Foreign, NoBlock}]
  BY DEF Init
<1> QED
  <2>1. /\ redisPayouts \in [Miner -> Seq(Payout)]
        /\ minerPayouts \in [Miner -> Seq(Payout)]
    BY <1>2 DEF Init, MemoryEmpty
  <2>2. /\ redisSnapshots \in [Height -> Order \cup {NoOrder}]
        /\ pplnsSnapshots \in [Height -> Order \cup {NoOrder}]
    BY <1>3 DEF Init, MemoryEmpty
  <2>3. /\ foundList \in Seq(Block)
        /\ redisFound \in Seq(FoundBlock)
        /\ foundBlocks \in Seq(FoundBlock)
        /\ validBlocks \in Seq(FoundBlock)
    BY <1>1 DEF Init, MemoryEmpty
  <2>4. /\ mined \subseteq Block
        /\ redisProcessed \subseteq Height
        /\ processedPayouts \subseteq Height
        /\ pc \in Point \cup {"down"}
        /\ order \in Order \cup {NoOrder}
        /\ i \in Nat \ {0}
        /\ unsaved \subseteq Miner
    BY DEF Init, MemoryEmpty
  <2>5. FlagsOK /\ IndexOK
    BY DEF Init, FlagsOK, IndexOK
  <2> QED
    BY <1>4, <2>1, <2>2, <2>3, <2>4, <2>5 DEF TypeOK

(* The entry the daemon is at, inside the two loops.                       *)
LEMMA CurrentType ==
  ASSUME TypeOK, i <= Len(foundBlocks)
  PROVE  /\ i \in 1..Len(foundBlocks)
         /\ Current \in FoundBlock
         /\ CurrentH \in Height
         /\ SnapshotOf(CurrentH) \in Order \cup {NoOrder}
<1>1. i \in 1..Len(foundBlocks)
  BY LenProperties DEF TypeOK
<1>2. Current \in FoundBlock
  BY <1>1, ElementOfSeq DEF TypeOK, Current
<1>3. CurrentH \in Height
  BY <1>2, LedgerAssumption DEF CurrentH, FoundBlock
<1> QED
  BY <1>1, <1>2, <1>3 DEF SnapshotOf, TypeOK

(* Filling in a reward keeps the list of found blocks.                     *)
LEMMA RewardType ==
  ASSUME TypeOK, i <= Len(foundBlocks)
  PROVE  [foundBlocks EXCEPT ![i].reward = TRUE] \in Seq(FoundBlock)
<1>1. /\ foundBlocks \in Seq(FoundBlock)
      /\ i \in 1..Len(foundBlocks)
      /\ foundBlocks[i] \in FoundBlock
  BY CurrentType DEF TypeOK, Current
<1>2. [foundBlocks[i] EXCEPT !.reward = TRUE] \in FoundBlock
  BY <1>1 DEF FoundBlock
<1>3. [foundBlocks EXCEPT ![i] = [foundBlocks[i] EXCEPT !.reward = TRUE]]
        \in Seq(FoundBlock)
  BY <1>1, <1>2, ExceptSeq
<1> QED
  BY <1>3

(* The coinbase of a height is a block's, and an order credits miners.     *)
LEMMA CoinbaseType ==
  ASSUME TypeOK, NEW h \in Height, HasCoinbase(h)
  PROVE  chain[h] \in Block \cup {Foreign}
BY DEF TypeOK, HasCoinbase

(* An order of TopMiners, or none, is a list of miners.                    *)
LEMMA OrderType ==
  ASSUME NEW o \in Order \cup {NoOrder}
  PROVE  o \in Seq(Miner)
BY LedgerAssumption, EmptySeq DEF NoOrder

(* The three flags stay truth values.                                      *)
LEMMA FlagsNext == FlagsOK /\ [Next]_vars => FlagsOK'
<1> SUFFICES ASSUME FlagsOK, [Next]_vars PROVE FlagsOK'
  OBVIOUS
<1> USE DEF locals, FlagsOK
<1>1. CASE UNCHANGED vars
  BY <1>1 DEF vars
<1>2. CASE World
  BY <1>2 DEF World, Mine, ChainMoves
<1>3. CASE BeginCycle \/ ReadFoundList \/ SkipFoundList \/ PublishFound
  BY <1>3 DEF BeginCycle, ReadFoundList, SkipFoundList, PublishFound
<1>4. CASE KeepBlock \/ DetectOrphan \/ RemoveOrphan \/ EndCheck
  BY <1>4 DEF KeepBlock, DetectOrphan, RemoveOrphan, EndCheck
<1>5. CASE NothingFound \/ LoadLedger \/ RefetchReward
  BY <1>5 DEF NothingFound, LoadLedger, RefetchReward
<1>6. CASE PayNewBlock \/ SnapshotOnly
  BY <1>6 DEF PayNewBlock, SnapshotOnly
<1>7. CASE EndPay \/ (\E m \in Miner : SavePayouts(m))
  BY <1>7 DEF EndPay, SavePayouts
<1>8. CASE SaveProcessed \/ SaveSnapshots \/ EndCycle
  BY <1>8 DEF SaveProcessed, SaveSnapshots, EndCycle
<1>10. CASE Start \/ Crash
  BY <1>10 DEF Start, Crash, ProcessEnds
<1> QED
  BY <1>1, <1>2, <1>3, <1>4, <1>5, <1>6, <1>7, <1>8, <1>10
     DEF Next, Daemon

(* The loop index stays on an entry while its LREM is pending.             *)
LEMMA IndexNext == IndexOK /\ [Next]_vars => IndexOK'
<1> SUFFICES ASSUME IndexOK, [Next]_vars, pc' = "lrem"
             PROVE  (i <= Len(foundBlocks))'
  BY DEF IndexOK
<1> USE DEF memory, locals
<1>1. CASE UNCHANGED vars
  BY <1>1 DEF vars, IndexOK
<1>2. CASE World
  BY <1>2 DEF World, Mine, ChainMoves, IndexOK
<1>3. CASE DetectOrphan
  BY <1>3 DEF DetectOrphan
<1>4. CASE Start \/ Crash
  BY <1>4 DEF Start, Crash, ProcessEnds
<1>5. CASE Daemon /\ ~DetectOrphan
  BY <1>5 DEF Daemon, BeginCycle, ReadFoundList, SkipFoundList, PublishFound,
     KeepBlock, RemoveOrphan, EndCheck, NothingFound, LoadLedger,
     RefetchReward, PayNewBlock, SnapshotOnly, EndPay, SavePayouts,
     SaveProcessed, SaveSnapshots, EndCycle
<1> QED
  BY <1>1, <1>2, <1>3, <1>4, <1>5 DEF Next

(* Every step of the daemon and of the world keeps the types.              *)
LEMMA TypeNext == TypeOK /\ [Next]_vars => TypeOK'
<1> SUFFICES ASSUME TypeOK, [Next]_vars PROVE TypeOK'
  OBVIOUS
<1> USE DEF world, ledger, redis, memory, locals
<1>0. FlagsOK' /\ IndexOK'
  BY FlagsNext, IndexNext DEF TypeOK
<1>1. CASE UNCHANGED vars
  BY <1>1, <1>0 DEF TypeOK, vars
<1>2. ASSUME NEW b \in Block, Mine(b) PROVE TypeOK'
  <2>1. foundList' \in Seq(Block)
    BY <1>2, <1>0, AppendProperties DEF TypeOK, Mine
  <2>2. chain' \in [Height -> Block \cup {Foreign, NoBlock}]
    BY <1>2, <1>0 DEF TypeOK, Mine
  <2> QED
    BY <1>2, <1>0, <2>1, <2>2 DEF TypeOK, Mine
<1>3. ASSUME NEW h \in Height, ChainMoves(h) PROVE TypeOK'
  BY <1>3, <1>0 DEF TypeOK, ChainMoves
<1>4. CASE BeginCycle
  BY <1>4, <1>0 DEF TypeOK, BeginCycle, Point
<1>5. CASE ReadFoundList
  BY <1>5, <1>0, ParseType DEF TypeOK, ReadFoundList, Point
<1>6. CASE SkipFoundList
  BY <1>6, <1>0 DEF TypeOK, SkipFoundList, Point
<1>7. CASE PublishFound
  BY <1>7, <1>0, EmptySeq DEF TypeOK, PublishFound, Stores, Point
<1>8. CASE KeepBlock
  <2>1. Current \in FoundBlock
    BY <1>8, CurrentType DEF KeepBlock
  <2>2. validBlocks' \in Seq(FoundBlock)
    BY <1>8, <1>0, <2>1, AppendProperties DEF TypeOK, KeepBlock
  <2> QED
    BY <1>8, <1>0, <2>2 DEF TypeOK, KeepBlock
<1>9. CASE DetectOrphan
  BY <1>9, <1>0 DEF TypeOK, DetectOrphan, Point
<1>10. CASE RemoveOrphan
  <2>1. Current.block \in Block
    BY <1>10, CurrentType DEF TypeOK, IndexOK, RemoveOrphan, FoundBlock
  <2>2. foundList' \in Seq(Block)
    BY <1>10, <1>0, <2>1, LremType DEF TypeOK, RemoveOrphan, Stores
  <2> QED
    BY <1>10, <1>0, <2>2 DEF TypeOK, RemoveOrphan, Point
<1>11. CASE EndCheck
  BY <1>11, <1>0 DEF TypeOK, EndCheck, Stores, Point
<1>12. CASE NothingFound
  BY <1>12, <1>0 DEF TypeOK, NothingFound, Point
<1>13. CASE LoadLedger
  <2>1. minerPayouts' \in [Miner -> Seq(Payout)]
    BY <1>13, <1>0, EmptySeq DEF TypeOK, LoadLedger, LoadsPayouts
  <2>2. processedPayouts' \subseteq Height
    BY <1>13, <1>0 DEF TypeOK, LoadLedger, Loads
  <2>3. pplnsSnapshots' \in [Height -> Order \cup {NoOrder}]
    BY <1>13, <1>0 DEF TypeOK, LoadLedger, Loads, NoSnapshot
  <2> QED
    BY <1>13, <1>0, <2>1, <2>2, <2>3 DEF TypeOK, LoadLedger, Point
<1>14. CASE RefetchReward
  <2>1. foundBlocks' \in Seq(FoundBlock)
    BY <1>14, <1>0, RewardType DEF TypeOK, RefetchReward
  <2> QED
    BY <1>14, <1>0, <2>1 DEF TypeOK, RefetchReward
<1>15. CASE PayNewBlock
  <2>1. i <= Len(foundBlocks) /\ HasCoinbase(CurrentH)
    BY <1>15 DEF PayNewBlock
  <2>2. /\ Current.block \in Block
        /\ CurrentH \in Height
        /\ chain[CurrentH] \in Block \cup {Foreign}
        /\ SnapshotOf(CurrentH) \in Order \cup {NoOrder}
        /\ SnapshotOf(CurrentH) \in Seq(Miner)
    BY <2>1, CurrentType, CoinbaseType, OrderType DEF FoundBlock
  <2>3. minerPayouts' \in [Miner -> Seq(Payout)]
    BY <1>15, <1>0, <2>2, CreditType DEF TypeOK, PayNewBlock, Marked
  <2>4. foundBlocks' \in Seq(FoundBlock)
    BY <1>15, <2>1, RewardType DEF PayNewBlock
  <2>5. pplnsSnapshots' \in [Height -> Order \cup {NoOrder}]
    BY <1>15, <1>0, <2>2 DEF TypeOK, PayNewBlock, Marked
  <2> QED
    BY <1>15, <1>0, <2>2, <2>3, <2>4, <2>5 DEF TypeOK, PayNewBlock, Marked
<1>16. CASE SnapshotOnly
  BY <1>16, <1>0, CurrentType DEF TypeOK, SnapshotOnly
<1>17. CASE EndPay
  BY <1>17, <1>0 DEF TypeOK, EndPay, Point
<1>18. ASSUME NEW m \in Miner, SavePayouts(m) PROVE TypeOK'
  BY <1>18, <1>0 DEF TypeOK, SavePayouts, Stores
<1>19. CASE SaveProcessed
  BY <1>19, <1>0 DEF TypeOK, SaveProcessed, Stores, Point
<1>20. CASE SaveSnapshots
  BY <1>20, <1>0 DEF TypeOK, SaveSnapshots, Stores, Point
<1>21. CASE EndCycle
  <2>1. validBlocks' \in Seq(FoundBlock)
    BY <1>21, EmptySeq DEF EndCycle
  <2>2. redisFound' \in Seq(FoundBlock)
    BY <1>21, <1>0 DEF TypeOK, EndCycle, Stores
  <2> QED
    BY <1>21, <1>0, <2>1, <2>2 DEF TypeOK, EndCycle, Point
<1>24. ASSUME ProcessEnds
       PROVE  /\ foundBlocks' \in Seq(FoundBlock)
              /\ processedPayouts' \subseteq Height
              /\ minerPayouts' \in [Miner -> Seq(Payout)]
              /\ pplnsSnapshots' \in [Height -> Order \cup {NoOrder}]
              /\ pc' = "down"
              /\ order' \in Order \cup {NoOrder}
              /\ i' \in Nat \ {0}
              /\ validBlocks' \in Seq(FoundBlock)
              /\ unsaved' \subseteq Miner
  <2>1. /\ foundBlocks' \in Seq(FoundBlock)
        /\ validBlocks' \in Seq(FoundBlock)
    BY <1>24, EmptySeq DEF ProcessEnds
  <2>2. NoPayouts \in [Miner -> Seq(Payout)]
    BY EmptySeq DEF NoPayouts
  <2>3. NoSnapshot \in [Height -> Order \cup {NoOrder}]
    BY DEF NoSnapshot
  <2> QED
    BY <1>24, <2>1, <2>2, <2>3 DEF ProcessEnds
<1>26. CASE Crash
  BY <1>26, <1>0, <1>24 DEF TypeOK, Crash
<1>27. CASE Start
  BY <1>27, <1>0 DEF TypeOK, Start, Point
<1> QED
  BY <1>1, <1>2, <1>3, <1>4, <1>5, <1>6, <1>7, <1>8, <1>9, <1>10, <1>11,
     <1>12, <1>13, <1>14, <1>15, <1>16, <1>17, <1>18, <1>19, <1>20, <1>21,
     <1>26, <1>27
     DEF Next, World, Daemon

(* Every value of the state is of its kind in every reachable state.       *)
THEOREM TypeCorrect == Spec => []TypeOK
BY TypeInit, TypeNext, PTL DEF Spec

-----------------------------------------------------------------------------
(***************************************************************************)
(* The history of a miner is append-only.                                  *)
(***************************************************************************)

(* t is s, or s with one payout of block x at the end.                     *)
Appended(s, t, x) ==
  t = s \/ \E p \in Payout : p.block = x /\ t = Append(s, p)

(* Crediting a coinbase appends at most one payout to a miner's list.      *)
LEMMA CreditAppends ==
  ASSUME NEW pay \in [Miner -> Seq(Payout)], NEW x \in Block,
         NEW src \in Block \cup {Foreign}, NEW addrs \in Seq(Miner),
         NEW m \in Miner
  PROVE  Appended(pay[m], Credit(pay, x, src, addrs)[m], x)
<1> DEFINE n  == MatchCount(src, addrs)
           at == CHOOSE k \in 1..n : addrs[k] = m
<1>1. n \in Nat
  BY LedgerAssumption, LenProperties DEF MatchCount
<1>2. CASE \E k \in 1..n : addrs[k] = m
  <2>1. at \in 1..n
    BY <1>2
  <2> HIDE DEF at
  <2>2. PayoutAt(x, src, at) \in Payout /\ PayoutAt(x, src, at).block = x
    BY <1>1, <2>1 DEF PayoutAt, Payout
  <2> USE DEF at
  <2>3. Credit(pay, x, src, addrs)[m] = Append(pay[m], PayoutAt(x, src, at))
    BY <1>2 DEF Credit
  <2> HIDE DEF at
  <2> QED
    BY <2>2, <2>3 DEF Appended
<1>3. CASE ~ \E k \in 1..n : addrs[k] = m
  BY <1>3 DEF Credit, Appended
<1> QED
  BY <1>2, <1>3

(* So does the payment of a new block, to every miner's list.              *)
LEMMA PayAppends ==
  ASSUME TypeOK, PayNewBlock, NEW m \in Miner
  PROVE  /\ Current.block \in Block
         /\ Appended(minerPayouts[m], minerPayouts'[m], Current.block)
<1>1. i <= Len(foundBlocks) /\ HasCoinbase(CurrentH)
  BY DEF PayNewBlock
<1>2. /\ Current.block \in Block
      /\ CurrentH \in Height
      /\ SnapshotOf(CurrentH) \in Order \cup {NoOrder}
  BY <1>1, CurrentType DEF FoundBlock
<1>3. /\ chain[CurrentH] \in Block \cup {Foreign}
      /\ SnapshotOf(CurrentH) \in Seq(Miner)
  BY <1>1, <1>2, CoinbaseType, OrderType
<1>4. minerPayouts \in [Miner -> Seq(Payout)]
  BY DEF TypeOK
<1>5. Appended(minerPayouts[m],
               Credit(minerPayouts, Current.block, chain[CurrentH],
                      SnapshotOf(CurrentH))[m],
               Current.block)
  BY <1>2, <1>3, <1>4, CreditAppends
<1>6. minerPayouts' = Credit(minerPayouts, Current.block, chain[CurrentH],
                             SnapshotOf(CurrentH))
  BY DEF PayNewBlock
<1> QED
  BY <1>2, <1>5, <1>6

(* Extends: a history extends itself,                                      *)
LEMMA ExtendsReflexive ==
  ASSUME NEW s \in Seq(Payout) PROVE Extends(s, s)
BY LenProperties DEF Extends

(* it still does after the longer one grows (an append of Credit),         *)
LEMMA ExtendsAppend ==
  ASSUME NEW s \in Seq(Payout), NEW t \in Seq(Payout), NEW p \in Payout,
         Extends(s, t)
  PROVE  Extends(s, Append(t, p))
BY LenProperties, AppendProperties DEF Extends

(* and every history extends the empty one (a key that is absent).         *)
LEMMA ExtendsEmpty ==
  ASSUME NEW t \in Seq(Payout) PROVE Extends(<< >>, t)
BY EmptySeq, LenProperties DEF Extends

(* Memory is ahead of Redis: what the daemon would save extends what is    *)
(* stored, except while the map is empty and still to be loaded.           *)
Ahead == \A m \in Miner : Extends(redisPayouts[m], minerPayouts[m])

AheadInv ==
  /\ minerPayouts = NoPayouts \/ Ahead
  /\ pc \in {"pay", "save"} => Ahead

(* The payouts can be read when the daemon starts.                         *)
HistoryReadable == "payouts" \notin GetMayFail

(* Nothing is stored and nothing is in memory at the beginning.            *)
LEMMA AheadInit == Init => AheadInv
BY DEF Init, MemoryEmpty, AheadInv

(* Memory stays ahead of Redis: loading makes them equal, paying appends   *)
(* to memory, and a SET, done or failed, leaves Redis behind or equal.     *)
LEMMA AheadNext ==
  ASSUME HistoryReadable, TypeOK, AheadInv, [Next]_vars
  PROVE  AheadInv'
<1> USE DEF world, ledger, redis, memory, locals
<1>1. CASE UNCHANGED vars
  BY <1>1 DEF vars, AheadInv, Ahead
<1>2. CASE World
  BY <1>2 DEF World, Mine, ChainMoves, AheadInv, Ahead
<1>3. CASE LoadLedger
  <2>0. LoadsPayouts = {redisPayouts}
    BY DEF LoadsPayouts, HistoryReadable
  <2>a. minerPayouts' \in IF minerPayouts = NoPayouts THEN LoadsPayouts
                                                     ELSE {minerPayouts}
    BY <1>3 DEF LoadLedger
  <2>b. minerPayouts = NoPayouts \/ Ahead
    BY DEF AheadInv
  <2>1. minerPayouts' = redisPayouts \/ (minerPayouts' = minerPayouts /\ Ahead)
    BY <2>0, <2>a, <2>b
  <2>2. Ahead'
    BY <1>3, <2>1, ExtendsReflexive DEF LoadLedger, Ahead, TypeOK
  <2> QED
    BY <1>3, <2>2 DEF LoadLedger, AheadInv
<1>4. CASE PayNewBlock
  <2>1. Ahead
    BY <1>4 DEF PayNewBlock, AheadInv
  <2>2. ASSUME NEW m \in Miner
        PROVE  Extends(redisPayouts[m], minerPayouts'[m])
    <3>1. /\ redisPayouts[m] \in Seq(Payout)
          /\ minerPayouts[m] \in Seq(Payout)
          /\ Extends(redisPayouts[m], minerPayouts[m])
      BY <2>1 DEF TypeOK, Ahead
    <3> QED
      BY <1>4, <3>1, PayAppends, ExtendsAppend DEF Appended
  <2> QED
    BY <1>4, <2>2 DEF PayNewBlock, AheadInv, Ahead
<1>5. ASSUME NEW x \in Miner, SavePayouts(x) PROVE AheadInv'
  <2>1. Ahead
    BY <1>5 DEF SavePayouts, AheadInv
  <2>2. ASSUME NEW m \in Miner
        PROVE  Extends(redisPayouts'[m], minerPayouts[m])
    BY <1>5, <2>1, ExtendsReflexive DEF SavePayouts, Stores, Ahead, TypeOK
  <2> QED
    BY <1>5, <2>2 DEF SavePayouts, AheadInv, Ahead
<1>6. CASE BeginCycle \/ ReadFoundList \/ SkipFoundList \/ PublishFound
  BY <1>6 DEF BeginCycle, ReadFoundList, SkipFoundList, PublishFound,
     AheadInv, Ahead
<1>7. CASE KeepBlock \/ DetectOrphan \/ RemoveOrphan \/ EndCheck \/ NothingFound
  BY <1>7 DEF KeepBlock, DetectOrphan, RemoveOrphan, EndCheck, NothingFound,
     AheadInv, Ahead
<1>8. CASE RefetchReward \/ SnapshotOnly \/ EndPay
  BY <1>8 DEF RefetchReward, SnapshotOnly, EndPay, AheadInv, Ahead
<1>9. CASE SaveProcessed \/ SaveSnapshots \/ EndCycle
  BY <1>9 DEF SaveProcessed, SaveSnapshots, EndCycle, AheadInv, Ahead
<1>11. CASE Start \/ Crash
  BY <1>11 DEF Start, Crash, ProcessEnds, AheadInv, Ahead
<1> QED
  BY <1>1, <1>2, <1>3, <1>4, <1>5, <1>6, <1>7, <1>8, <1>9, <1>11
     DEF Next, Daemon

(* One step of the daemon only ever appends.                               *)
LEMMA AheadAppends ==
  ASSUME TypeOK, AheadInv, [Next]_vars
  PROVE  \A m \in Miner : Extends(redisPayouts[m], redisPayouts'[m])
<1> SUFFICES ASSUME NEW m \in Miner
             PROVE  Extends(redisPayouts[m], redisPayouts'[m])
  OBVIOUS
<1> USE DEF world, ledger, redis, memory, locals
<1>1. redisPayouts' = redisPayouts \/ \E x \in Miner : SavePayouts(x)
  BY DEF vars, Next, World, Mine, ChainMoves, Daemon, BeginCycle,
     ReadFoundList, SkipFoundList, PublishFound, KeepBlock, DetectOrphan,
     RemoveOrphan, EndCheck, NothingFound, LoadLedger, RefetchReward,
     PayNewBlock, SnapshotOnly, EndPay, SaveProcessed, SaveSnapshots,
     EndCycle, Start,
     Crash
<1>2. CASE redisPayouts' = redisPayouts
  BY <1>2, ExtendsReflexive DEF TypeOK
<1>3. ASSUME NEW x \in Miner, SavePayouts(x)
      PROVE  Extends(redisPayouts[m], redisPayouts'[m])
  BY <1>3, ExtendsReflexive
     DEF SavePayouts, Stores, AheadInv, Ahead, TypeOK
<1> QED
  BY <1>1, <1>2, <1>3

(* No crash, failed SET or reorganisation makes the daemon lose or rewrite *)
(* a recorded payout, as long as it can read its own history when it       *)
(* starts.                                                                 *)
THEOREM AppendOnly ==
  ASSUME HistoryReadable
  PROVE  Spec => LedgerAppendOnly
<1>1. TypeOK /\ AheadInv /\ [Next]_vars => AheadInv'
  BY AheadNext
<1>2. TypeOK /\ AheadInv /\ [Next]_vars
        => [\A m \in Miner : Extends(redisPayouts[m], redisPayouts'[m])]_vars
  BY AheadAppends
<1> QED
  BY TypeInit, TypeNext, AheadInit, <1>1, <1>2, PTL DEF Spec, LedgerAppendOnly

-----------------------------------------------------------------------------
(***************************************************************************)
(* A miner is paid at most once for a height.                              *)
(***************************************************************************)

Distinct(s) ==
  \A j, k \in DOMAIN s : HeightOf[s[j].block] = HeightOf[s[k].block] => j = k

HeightsIn(s, H) == \A k \in DOMAIN s : HeightOf[s[k].block] \in H

(* A payout for a height not paid yet keeps the heights distinct.          *)
LEMMA AppendedOnce ==
  ASSUME NEW s \in Seq(Payout), NEW t, NEW x \in Block, NEW H,
         Appended(s, t, x), Distinct(s), HeightsIn(s, H), HeightOf[x] \notin H
  PROVE  Distinct(t) /\ HeightsIn(t, H \cup {HeightOf[x]})
<1>1. CASE t = s
  BY <1>1 DEF HeightsIn
<1>2. ASSUME NEW p \in Payout, p.block = x, t = Append(s, p)
      PROVE  Distinct(t) /\ HeightsIn(t, H \cup {HeightOf[x]})
  <2>1. /\ Len(s) \in Nat
        /\ DOMAIN s = 1..Len(s)
        /\ DOMAIN t = 1..(Len(s) + 1)
        /\ t[Len(s) + 1] = p
        /\ \A k \in 1..Len(s) : t[k] = s[k]
    BY <1>2, LenProperties, AppendProperties
  <2>2. \A k \in 1..Len(s) : HeightOf[t[k].block] \in H
    BY <2>1 DEF HeightsIn
  <2>3. HeightOf[t[Len(s) + 1].block] = HeightOf[x]
    BY <1>2, <2>1
  <2>4. \A k \in DOMAIN t : k \in 1..Len(s) \/ k = Len(s) + 1
    BY <2>1
  <2>5. HeightsIn(t, H \cup {HeightOf[x]})
    BY <2>2, <2>3, <2>4 DEF HeightsIn
  <2>6. ASSUME NEW j \in DOMAIN t, NEW k \in DOMAIN t,
               HeightOf[t[j].block] = HeightOf[t[k].block]
        PROVE  j = k
    <3>1. CASE j \in 1..Len(s) /\ k \in 1..Len(s)
      BY <2>1, <2>6, <3>1 DEF Distinct
    <3>2. CASE j = Len(s) + 1 /\ k = Len(s) + 1
      BY <3>2
    <3>3. CASE j \in 1..Len(s) /\ k = Len(s) + 1
      BY <2>2, <2>3, <2>6, <3>3
    <3>4. CASE j = Len(s) + 1 /\ k \in 1..Len(s)
      BY <2>2, <2>3, <2>6, <3>4
    <3> QED
      BY <2>4, <3>1, <3>2, <3>3, <3>4
  <2> QED
    BY <2>5, <2>6 DEF Distinct
<1> QED
  BY <1>1, <1>2 DEF Appended

(* A history within a set of heights is within every larger set.           *)
LEMMA HeightsInMonotone ==
  ASSUME NEW s, NEW H, NEW J, HeightsIn(s, H), H \subseteq J
  PROVE  HeightsIn(s, J)
BY DEF HeightsIn

(* Every list is free of repeats; every payout in memory is of a processed *)
(* height; what is stored is covered by the stored heights, except during  *)
(* a save, when it is covered by the heights about to be stored.           *)
OnceInv ==
  /\ \A m \in Miner : Distinct(redisPayouts[m]) /\ Distinct(minerPayouts[m])
  /\ \A m \in Miner : HeightsIn(minerPayouts[m], processedPayouts)
  /\ pc # "save" => \A m \in Miner : HeightsIn(redisPayouts[m], redisProcessed)
  /\ pc = "save" => \A m \in Miner : HeightsIn(redisPayouts[m], processedPayouts)
  /\ processedPayouts = {} \/ redisProcessed \subseteq processedPayouts
  /\ pc \in {"pay", "save"} => redisProcessed \subseteq processedPayouts

(* Redis keeps and returns the payouts and the processed heights, and the  *)
(* daemon does not die between the first payouts key and the processed     *)
(* heights of a save.                                                      *)
SavesWhole ==
  /\ {"payouts", "processed"} \cap (SetMayFail \cup GetMayFail) = {}
  /\ "save" \notin CrashPoint

(* There is no payout at the beginning.                                    *)
LEMMA OnceInit == Init => OnceInv
BY DEF Init, MemoryEmpty, OnceInv, NoPayouts, Distinct, HeightsIn

(* What a restarted daemon pays from is what the last save left.           *)
LEMMA OnceLoad ==
  ASSUME SavesWhole, TypeOK, OnceInv, LoadLedger
  PROVE  OnceInv'
<1> USE DEF world, ledger, redis, memory, locals
<1>1. /\ LoadsPayouts = {redisPayouts}
      /\ Loads("processed", redisProcessed, {}) = {redisProcessed}
  BY DEF LoadsPayouts, Loads, SavesWhole
<1>2. pc = "load" /\ pc' = "pay"
  BY DEF LoadLedger
<1>3. /\ processedPayouts \subseteq processedPayouts'
      /\ redisProcessed \subseteq processedPayouts'
  <2>1. CASE processedPayouts = {}
    BY <1>1, <2>1 DEF LoadLedger
  <2>2. CASE processedPayouts # {}
    BY <2>2 DEF LoadLedger, OnceInv
  <2> QED
    BY <2>1, <2>2
<1>4. minerPayouts' = redisPayouts \/ minerPayouts' = minerPayouts
  <2>1. CASE minerPayouts = NoPayouts
    BY <1>1, <2>1 DEF LoadLedger
  <2>2. CASE minerPayouts # NoPayouts
    BY <2>2 DEF LoadLedger
  <2> QED
    BY <2>1, <2>2
<1>5. redisPayouts' = redisPayouts /\ redisProcessed' = redisProcessed
  BY DEF LoadLedger
<1>6. ASSUME NEW m \in Miner
      PROVE  /\ Distinct(redisPayouts'[m])
             /\ Distinct(minerPayouts'[m])
             /\ HeightsIn(minerPayouts'[m], processedPayouts')
             /\ HeightsIn(redisPayouts'[m], redisProcessed')
  <2>1. /\ Distinct(redisPayouts[m]) /\ Distinct(minerPayouts[m])
        /\ HeightsIn(minerPayouts[m], processedPayouts)
        /\ HeightsIn(redisPayouts[m], redisProcessed)
    BY <1>2 DEF OnceInv
  <2> QED
    BY <2>1, <1>3, <1>4, <1>5, HeightsInMonotone
<1> QED
  BY <1>2, <1>3, <1>5, <1>6 DEF OnceInv

(* calculatePayouts appends payouts of a height only while the height is   *)
(* not processed, and marks it in the same step.                           *)
LEMMA OncePay ==
  ASSUME TypeOK, OnceInv, PayNewBlock
  PROVE  OnceInv'
<1> USE DEF world, ledger, redis, memory, locals
<1>1. /\ pc = "pay" /\ pc' = "pay"
      /\ redisPayouts' = redisPayouts /\ redisProcessed' = redisProcessed
      /\ processedPayouts' = processedPayouts \cup {HeightOf[Current.block]}
      /\ HeightOf[Current.block] \notin processedPayouts
  BY DEF PayNewBlock, Marked, CurrentH
<1>2. ASSUME NEW m \in Miner
      PROVE  /\ Distinct(minerPayouts'[m])
             /\ HeightsIn(minerPayouts'[m], processedPayouts')
  <2>1. /\ minerPayouts[m] \in Seq(Payout)
        /\ Distinct(minerPayouts[m])
        /\ HeightsIn(minerPayouts[m], processedPayouts)
    BY DEF TypeOK, OnceInv
  <2>2. /\ Current.block \in Block
        /\ Appended(minerPayouts[m], minerPayouts'[m], Current.block)
    BY PayAppends
  <2> QED
    BY <1>1, <2>1, <2>2, AppendedOnce
<1> QED
  BY <1>1, <1>2 DEF OnceInv

(* While it saves, each key is either what it was or what memory holds.    *)
LEMMA OnceSave ==
  ASSUME SavesWhole, TypeOK, OnceInv, NEW x \in Miner, SavePayouts(x)
  PROVE  OnceInv'
<1> USE DEF world, ledger, redis, memory, locals
<1>1. /\ pc = "save" /\ pc' = "save"
      /\ UNCHANGED <<minerPayouts, processedPayouts, redisProcessed>>
  BY DEF SavePayouts, OnceInv
<1>2. redisPayouts' = [redisPayouts EXCEPT ![x] = minerPayouts[x]]
  BY DEF SavePayouts, Stores, SavesWhole
<1>3. ASSUME NEW m \in Miner
      PROVE  /\ Distinct(redisPayouts'[m])
             /\ HeightsIn(redisPayouts'[m], processedPayouts)
  <2>1. redisPayouts'[m] \in {redisPayouts[m], minerPayouts[m]}
    BY <1>2 DEF TypeOK
  <2> QED
    BY <1>1, <2>1 DEF OnceInv
<1> QED
  BY <1>1, <1>3 DEF OnceInv

(* No step, whoever takes it, breaks the strengthened invariant.           *)
LEMMA OnceNext ==
  ASSUME SavesWhole, TypeOK, OnceInv, [Next]_vars
  PROVE  OnceInv'
<1> USE DEF world, ledger, redis, memory, locals
<1>1. CASE UNCHANGED vars
  BY <1>1 DEF vars, OnceInv
<1>2. CASE World
  BY <1>2 DEF World, Mine, ChainMoves, OnceInv
<1>3. CASE LoadLedger \/ PayNewBlock \/ \E x \in Miner : SavePayouts(x)
  BY <1>3, OnceLoad, OncePay, OnceSave
<1>4. CASE EndPay
  <2>1. /\ pc = "pay" /\ pc' \in {"save", "reward"}
        /\ UNCHANGED <<redisPayouts, redisProcessed, minerPayouts, processedPayouts>>
    BY <1>4 DEF EndPay, OnceInv
  <2>2. \A m \in Miner : HeightsIn(redisPayouts[m], processedPayouts)
    BY <2>1, HeightsInMonotone DEF OnceInv
  <2> QED
    BY <2>1, <2>2 DEF OnceInv
<1>5. CASE SaveProcessed
  <2>1. redisProcessed' = processedPayouts
    BY <1>5 DEF SaveProcessed, Stores, SavesWhole
  <2> QED
    BY <1>5, <2>1 DEF SaveProcessed, OnceInv
<1>6. CASE BeginCycle \/ ReadFoundList \/ SkipFoundList \/ PublishFound
  BY <1>6 DEF BeginCycle, ReadFoundList, SkipFoundList, PublishFound, OnceInv
<1>7. CASE KeepBlock \/ DetectOrphan \/ RemoveOrphan \/ EndCheck \/ NothingFound
  BY <1>7 DEF KeepBlock, DetectOrphan, RemoveOrphan, EndCheck, NothingFound,
     OnceInv
<1>8. CASE RefetchReward \/ SnapshotOnly
  BY <1>8 DEF RefetchReward, SnapshotOnly, OnceInv
<1>9. CASE SaveSnapshots \/ EndCycle \/ Start
  BY <1>9 DEF SaveSnapshots, EndCycle, Start, OnceInv
<1>11. CASE Crash
  <2>1. /\ pc # "save" /\ pc' = "down"
        /\ UNCHANGED <<redisPayouts, redisProcessed>>
        /\ minerPayouts' = NoPayouts /\ processedPayouts' = {}
    BY <1>11 DEF Crash, ProcessEnds, SavesWhole
  <2>2. \A m \in Miner : /\ Distinct(minerPayouts'[m])
                         /\ HeightsIn(minerPayouts'[m], processedPayouts')
    BY <2>1 DEF NoPayouts, Distinct, HeightsIn
  <2> QED
    BY <2>1, <2>2 DEF OnceInv
<1> QED
  BY <1>1, <1>2, <1>3, <1>4, <1>5, <1>6, <1>7, <1>8, <1>9, <1>11
     DEF Next, Daemon

(* No restart outside a save, reorganisation, failed RPC or second block   *)
(* at the same height makes the ledger pay a miner twice for a height.     *)
THEOREM PaidOnce ==
  ASSUME SavesWhole
  PROVE  Spec => []OncePerHeight
<1>1. TypeOK /\ OnceInv /\ [Next]_vars => OnceInv'
  BY OnceNext
<1>2. OnceInv => OncePerHeight
  BY DEF OnceInv, OncePerHeight, Distinct
<1> QED
  BY TypeInit, TypeNext, OnceInit, <1>1, <1>2, PTL DEF Spec

-----------------------------------------------------------------------------
(***************************************************************************)
(* The order recorded for a height.                                        *)
(***************************************************************************)

(* What is stored is in memory too.                                        *)
Recalled ==
  \A h \in Height : redisSnapshots[h] # NoOrder =>
    pplnsSnapshots[h] = redisSnapshots[h]

(* The only exception is a daemon that has not loaded the snapshots yet.   *)
RecallInv ==
  /\ Recalled \/ pplnsSnapshots = NoSnapshot
  /\ pc \in {"pay", "save"} => Recalled
  /\ pc = "snap" => Recalled

(* The snapshots can be read when the daemon starts.                       *)
SnapshotsReadable == "snapshots" \notin GetMayFail

(* Nothing has been recorded at the beginning.                             *)
LEMMA RecallInit == Init => RecallInv
BY DEF Init, MemoryEmpty, RecallInv, NoSnapshot, Recalled

(* calculatePayouts takes the order of a height from memory if it has one. *)
LEMMA RecallPay ==
  ASSUME TypeOK, Recalled, PayNewBlock \/ SnapshotOnly
  PROVE  Recalled'
<1>1. /\ redisSnapshots' = redisSnapshots
      /\ pplnsSnapshots' =
           [pplnsSnapshots EXCEPT ![CurrentH] = SnapshotOf(CurrentH)]
  BY DEF PayNewBlock, SnapshotOnly, redis, ledger
<1>2. pplnsSnapshots \in [Height -> Order \cup {NoOrder}]
  BY DEF TypeOK
<1>3. ASSUME NEW h \in Height, redisSnapshots[h] # NoOrder
      PROVE  pplnsSnapshots'[h] = redisSnapshots[h]
  <2>1. pplnsSnapshots[h] = redisSnapshots[h]
    BY <1>3 DEF Recalled
  <2>2. h = CurrentH => SnapshotOf(CurrentH) = pplnsSnapshots[h]
    BY <1>3, <2>1 DEF SnapshotOf
  <2> QED
    BY <1>1, <1>2, <2>1, <2>2
<1> QED
  BY <1>1, <1>3 DEF Recalled

(* Loading, recording and saving keep memory and Redis in agreement.       *)
LEMMA RecallNext ==
  ASSUME SnapshotsReadable, TypeOK, RecallInv, [Next]_vars
  PROVE  RecallInv'
<1> USE DEF world, ledger, redis, memory, locals
<1>1. CASE UNCHANGED vars
  BY <1>1 DEF vars, RecallInv, Recalled
<1>2. CASE World
  BY <1>2 DEF World, Mine, ChainMoves, RecallInv, Recalled
<1>3. CASE LoadLedger
  <2>1. Loads("snapshots", redisSnapshots, NoSnapshot) = {redisSnapshots}
    BY DEF Loads, SnapshotsReadable
  <2>2. /\ pc' = "pay" /\ redisSnapshots' = redisSnapshots
        /\ pplnsSnapshots = NoSnapshot => pplnsSnapshots' = redisSnapshots
        /\ pplnsSnapshots # NoSnapshot => pplnsSnapshots' = pplnsSnapshots
    BY <1>3, <2>1 DEF LoadLedger
  <2>3. Recalled'
    BY <2>2 DEF RecallInv, Recalled
  <2> QED
    BY <2>2, <2>3 DEF RecallInv
<1>4. CASE PayNewBlock \/ SnapshotOnly
  <2>1. pc = "pay" /\ pc' = "pay"
    BY <1>4 DEF PayNewBlock, SnapshotOnly
  <2> QED
    BY <1>4, <2>1, RecallPay DEF RecallInv
<1>5. CASE SaveSnapshots
  <2>1. /\ redisSnapshots' \in {redisSnapshots, pplnsSnapshots}
        /\ pplnsSnapshots' = pplnsSnapshots
        /\ pc = "snap" /\ pc' = "reward"
    BY <1>5 DEF SaveSnapshots, Stores
  <2>2. Recalled'
    BY <2>1 DEF RecallInv, Recalled
  <2> QED
    BY <2>1, <2>2 DEF RecallInv
<1>6. CASE BeginCycle \/ ReadFoundList \/ SkipFoundList \/ PublishFound
  BY <1>6 DEF BeginCycle, ReadFoundList, SkipFoundList, PublishFound,
     RecallInv, Recalled
<1>7. CASE KeepBlock \/ DetectOrphan \/ RemoveOrphan \/ EndCheck \/ NothingFound
  BY <1>7 DEF KeepBlock, DetectOrphan, RemoveOrphan, EndCheck, NothingFound,
     RecallInv, Recalled
<1>8. CASE RefetchReward \/ EndPay \/ SaveProcessed \/ EndCycle
  BY <1>8 DEF RefetchReward, EndPay, SaveProcessed, EndCycle, RecallInv,
     Recalled
<1>9. ASSUME NEW m \in Miner, SavePayouts(m) PROVE RecallInv'
  BY <1>9 DEF SavePayouts, RecallInv, Recalled
<1>11. CASE Start \/ Crash
  BY <1>11 DEF Start, Crash, ProcessEnds, RecallInv, Recalled
<1> QED
  BY <1>1, <1>2, <1>3, <1>4, <1>5, <1>6, <1>7, <1>8, <1>9, <1>11
     DEF Next, Daemon

(* The snapshots are SET from a memory that has all that is stored.        *)
LEMMA RecallKeeps ==
  ASSUME RecallInv, [Next]_vars
  PROVE  \A h \in Height : redisSnapshots[h] # NoOrder =>
           redisSnapshots'[h] = redisSnapshots[h]
<1> USE DEF world, ledger, redis, memory, locals
<1>1. redisSnapshots' = redisSnapshots \/ SaveSnapshots
  BY DEF vars, Next, World, Mine, ChainMoves, Daemon, BeginCycle,
     ReadFoundList, SkipFoundList, PublishFound, KeepBlock, DetectOrphan,
     RemoveOrphan, EndCheck, NothingFound, LoadLedger, RefetchReward,
     PayNewBlock, SnapshotOnly, EndPay, SavePayouts, SaveProcessed, EndCycle,
     Start, Crash
<1>2. CASE SaveSnapshots
  BY <1>2 DEF SaveSnapshots, Stores, RecallInv, Recalled
<1> QED
  BY <1>1, <1>2

(* The order recorded for a height is never replaced or forgotten by       *)
(* calculatePayouts, a crash or a failed SET, as long as a daemon that     *)
(* starts can read the recorded ones.                                      *)
THEOREM OrderStays ==
  ASSUME SnapshotsReadable
  PROVE  Spec => SnapshotStable
<1>1. TypeOK /\ RecallInv /\ [Next]_vars => RecallInv'
  BY RecallNext
<1>2. RecallInv /\ [Next]_vars
        => [\A h \in Height : redisSnapshots[h] # NoOrder =>
              redisSnapshots'[h] = redisSnapshots[h]]_vars
  BY RecallKeeps
<1> QED
  BY TypeInit, TypeNext, RecallInit, <1>1, <1>2, PTL DEF Spec, SnapshotStable

-----------------------------------------------------------------------------
(***************************************************************************)
(* The daemon only handles blocks that this pool has mined.                *)
(***************************************************************************)

Known == [block : mined, reward : BOOLEAN]

MinedInv ==
  /\ \A h \in Height : chain[h] \in mined \cup {Foreign, NoBlock}
  /\ foundList \in Seq(mined)
  /\ foundBlocks \in Seq(Known)
  /\ validBlocks \in Seq(Known)

(* A list of some values is a list of more values (the list when p2pool    *)
(* finds another block).                                                   *)
LEMMA SeqWider ==
  ASSUME NEW S, NEW T, S \subseteq T, NEW s \in Seq(S)
  PROVE  s \in Seq(T)
<1>1. /\ Len(s) \in Nat
      /\ s \in [1..Len(s) -> T]
  BY LenProperties, ElementOfSeq
<1> QED
  BY <1>1, SeqDef

(* LREM leaves only entries that were in the list.                         *)
LEMMA LremKeeps ==
  ASSUME NEW S, NEW list \in Seq(S), NEW x
  PROVE  Lrem(list, x) \in Seq(S)
<1>1. CASE x \in Legacy \/ \A k \in 1..Len(list) : list[k] # x
  BY <1>1 DEF Lrem
<1>2. CASE ~(x \in Legacy \/ \A k \in 1..Len(list) : list[k] # x)
  <2> DEFINE at == CHOOSE k \in 1..Len(list) : list[k] = x
             n  == Len(list) - 1
             cut == [k \in 1..n |-> IF k < at THEN list[k] ELSE list[k + 1]]
  <2>1. at \in 1..Len(list)
    BY <1>2
  <2>2. n \in Nat
    BY <2>1, LenProperties
  <2>3. \A k \in 1..n : k \in 1..Len(list) /\ k + 1 \in 1..Len(list)
    BY <2>2, LenProperties
  <2>4. cut \in [1..n -> S]
    BY <2>3, ElementOfSeq
  <2>5. cut \in Seq(S)
    BY <2>2, <2>4, SeqDef
  <2>6. Lrem(list, x) = cut
    BY <1>2 DEF Lrem
  <2> QED
    BY <2>5, <2>6
<1> QED
  BY <1>1, <1>2

(* loadFoundBlocks makes found blocks of the entries of the list only.     *)
LEMMA ParseKeeps ==
  ASSUME NEW S, NEW list \in Seq(S)
  PROVE  [k \in 1..Len(list) |-> [block |-> list[k], reward |-> FALSE]]
           \in Seq([block : S, reward : BOOLEAN])
<1> DEFINE T == [block : S, reward : BOOLEAN]
           parsed == [k \in 1..Len(list) |-> [block |-> list[k], reward |-> FALSE]]
<1>1. \A k \in 1..Len(list) : [block |-> list[k], reward |-> FALSE] \in T
  BY ElementOfSeq
<1>2. parsed \in [1..Len(list) -> T]
  BY <1>1
<1>3. Len(list) \in Nat
  BY LenProperties
<1> QED
  BY <1>2, <1>3, SeqDef

(* Filling in a reward does not change which block an entry stands for.    *)
LEMMA RewardKeeps ==
  ASSUME TypeOK, MinedInv, i <= Len(foundBlocks)
  PROVE  /\ Current \in Known
         /\ [foundBlocks EXCEPT ![i].reward = TRUE] \in Seq(Known)
<1>1. /\ foundBlocks \in Seq(Known)
      /\ i \in 1..Len(foundBlocks)
      /\ foundBlocks[i] \in Known
  BY CurrentType, ElementOfSeq DEF MinedInv
<1>2. [foundBlocks[i] EXCEPT !.reward = TRUE] \in Known
  BY <1>1 DEF Known
<1>3. [foundBlocks EXCEPT ![i] = [foundBlocks[i] EXCEPT !.reward = TRUE]]
        \in Seq(Known)
  BY <1>1, <1>2, ExceptSeq
<1> QED
  BY <1>1, <1>3 DEF Current

(* Nothing has been found at the beginning.                                *)
LEMMA MinedInit == Init => MinedInv
BY EmptySeq DEF Init, MemoryEmpty, MinedInv

(* Every list of the daemon is taken from the list p2pool appends to.      *)
LEMMA MinedNext ==
  ASSUME TypeOK, MinedInv, [Next]_vars
  PROVE  MinedInv'
<1> USE DEF world, ledger, redis, memory, locals
<1>1. CASE UNCHANGED vars
  BY <1>1 DEF vars, MinedInv, Known
<1>2. ASSUME NEW b \in Block, Mine(b) PROVE MinedInv'
  <2>1. mined' = mined \cup {b}
    BY <1>2 DEF Mine
  <2>2. mined \subseteq mined' /\ Known \subseteq Known'
    BY <2>1 DEF Known
  <2>3. foundList \in Seq(mined')
    BY <2>2, SeqWider DEF MinedInv
  <2>4. foundList' \in Seq(mined')
    BY <1>2, <2>1, <2>3, AppendProperties DEF Mine
  <2>5. foundBlocks' = foundBlocks /\ validBlocks' = validBlocks
    BY <1>2 DEF Mine
  <2>6. foundBlocks' \in Seq(Known') /\ validBlocks' \in Seq(Known')
    BY <2>2, <2>5, SeqWider DEF MinedInv
  <2>7. \A h \in Height : chain'[h] \in mined' \cup {Foreign, NoBlock}
    BY <1>2, <2>1 DEF Mine, MinedInv, TypeOK
  <2> QED
    BY <2>4, <2>6, <2>7 DEF MinedInv
<1>3. ASSUME NEW h \in Height, ChainMoves(h) PROVE MinedInv'
  BY <1>3 DEF ChainMoves, MinedInv, TypeOK, Known
<1>4. CASE ReadFoundList
  <2>1. foundBlocks' \in Seq(Known)
    BY <1>4, ParseKeeps DEF ReadFoundList, MinedInv, Known
  <2> QED
    BY <1>4, <2>1 DEF ReadFoundList, MinedInv, Known
<1>5. CASE KeepBlock
  <2>1. Current \in Known
    BY <1>5, RewardKeeps DEF KeepBlock
  <2>2. validBlocks' \in Seq(Known)
    BY <1>5, <2>1, AppendProperties DEF KeepBlock, MinedInv
  <2> QED
    BY <1>5, <2>2 DEF KeepBlock, MinedInv, Known
<1>6. CASE RemoveOrphan
  BY <1>6, LremKeeps DEF RemoveOrphan, Stores, MinedInv, Known
<1>7. CASE RefetchReward
  BY <1>7, RewardKeeps DEF RefetchReward, MinedInv, Known
<1>8. CASE PayNewBlock
  BY <1>8, RewardKeeps DEF PayNewBlock, MinedInv, Known
<1>9. CASE BeginCycle \/ SkipFoundList \/ DetectOrphan \/ EndCheck \/ NothingFound
  BY <1>9 DEF BeginCycle, SkipFoundList, DetectOrphan, EndCheck, NothingFound,
     MinedInv, Known
<1>10. CASE PublishFound \/ EndCycle
  BY <1>10, EmptySeq DEF PublishFound, EndCycle, MinedInv, Known
<1>11. CASE LoadLedger \/ SnapshotOnly \/ EndPay
  BY <1>11 DEF LoadLedger, SnapshotOnly, EndPay, MinedInv, Known
<1>12. ASSUME NEW m \in Miner, SavePayouts(m) PROVE MinedInv'
  BY <1>12 DEF SavePayouts, MinedInv, Known
<1>13. CASE SaveProcessed \/ SaveSnapshots
  BY <1>13 DEF SaveProcessed, SaveSnapshots,
     MinedInv, Known
<1>14. CASE Crash
  BY <1>14, EmptySeq DEF Crash, ProcessEnds, MinedInv, Known
<1>15. CASE Start
  BY <1>15 DEF Start, MinedInv, Known
<1> QED
  BY <1>1, <1>2, <1>3, <1>4, <1>5, <1>6, <1>7, <1>8, <1>9, <1>10, <1>11,
     <1>12, <1>13, <1>14, <1>15 DEF Next, World, Daemon

-----------------------------------------------------------------------------
(***************************************************************************)
(* What a height is paid with.                                             *)
(***************************************************************************)

(* Every output of the coinbase of c that has a miner in o is in that      *)
(* miner's list, as a payout of b.                                         *)
SettledBy(pay, h, b, c, o) ==
  /\ HeightOf[b] = h
  /\ Outputs[c] > 0
  /\ \A k \in 1..MatchCount(c, o) : PayoutAt(b, c, k) \in Elements(pay[o[k]])

PaidFrom(pay, h, orders) ==
  \E b \in mined, c \in mined \cup {Foreign}, o \in orders :
    SettledBy(pay, h, b, c, o)

OrdersOf(o) == IF o = NoOrder THEN Order ELSE {o}

(* A recorded order is one of TopMiners', and the absent one is none.      *)
LEMMA OrderFacts ==
  /\ NoOrder \notin Order
  /\ \A o \in Order \cup {NoOrder} : OrdersOf(o) \subseteq Order
BY LedgerAssumption DEF NoOrder, OrdersOf

(* The matched outputs of a coinbase are those of miners of the order.     *)
LEMMA MatchedMiner ==
  ASSUME NEW c \in Block \cup {Foreign}, NEW o \in Order,
         NEW k \in 1..MatchCount(c, o)
  PROVE  k \in DOMAIN o /\ o[k] \in Miner
<1>1. o \in Seq(Miner) /\ Outputs[c] \in Nat
  BY LedgerAssumption
<1>2. k \in 1..Len(o)
  BY <1>1, LenProperties DEF MatchCount
<1> QED
  BY <1>1, <1>2, LenProperties, ElementOfSeq

(* A longer history contains what the shorter one did.                     *)
LEMMA ExtendsElements ==
  ASSUME NEW s \in Seq(Payout), NEW t \in Seq(Payout), Extends(s, t)
  PROVE  Elements(s) \subseteq Elements(t)
BY LenProperties DEF Extends, Elements

(* A height stays paid while the histories grow.                           *)
LEMMA PaidFromGrows ==
  ASSUME NEW pay \in [Miner -> Seq(Payout)], NEW more \in [Miner -> Seq(Payout)],
         \A m \in Miner : Extends(pay[m], more[m]),
         mined \subseteq Block,
         NEW h, NEW orders, NEW wider, orders \subseteq wider, wider \subseteq Order,
         PaidFrom(pay, h, orders)
  PROVE  PaidFrom(more, h, wider)
<1>1. PICK b \in mined, c \in mined \cup {Foreign}, o \in orders :
        SettledBy(pay, h, b, c, o)
  BY DEF PaidFrom
<1>2. ASSUME NEW k \in 1..MatchCount(c, o)
      PROVE  PayoutAt(b, c, k) \in Elements(more[o[k]])
  <2>1. o[k] \in Miner
    BY MatchedMiner
  <2>2. Elements(pay[o[k]]) \subseteq Elements(more[o[k]])
    BY <2>1, ExtendsElements
  <2> QED
    BY <1>1, <2>2 DEF SettledBy
<1>3. SettledBy(more, h, b, c, o)
  BY <1>1, <1>2 DEF SettledBy
<1> QED
  BY <1>3 DEF PaidFrom

(* calculatePayouts credits every output of the coinbase that has a miner. *)
LEMMA CreditSettles ==
  ASSUME NEW pay \in [Miner -> Seq(Payout)], NEW x \in Block,
         NEW c \in Block \cup {Foreign}, NEW o \in Order, Outputs[c] > 0
  PROVE  SettledBy(Credit(pay, x, c, o), HeightOf[x], x, c, o)
<1> DEFINE n == MatchCount(c, o)
<1>1. ASSUME NEW k \in 1..n
      PROVE  PayoutAt(x, c, k) \in Elements(Credit(pay, x, c, o)[o[k]])
  <2> DEFINE at == CHOOSE j \in 1..n : o[j] = o[k]
  <2>1. at \in 1..n /\ o[at] = o[k]
    OBVIOUS
  <2> HIDE DEF at
  <2>2. at \in DOMAIN o /\ k \in DOMAIN o /\ o[k] \in Miner
    BY <2>1, MatchedMiner
  <2>3. at = k
    BY <2>1, <2>2, LedgerAssumption DEF Injective
  <2>4. \E j \in 1..n : o[j] = o[k]
    OBVIOUS
  <2>5. Credit(pay, x, c, o)[o[k]] = Append(pay[o[k]], PayoutAt(x, c, at))
    BY <2>2, <2>4 DEF Credit, at
  <2>6. pay[o[k]] \in Seq(Payout)
    BY <2>2
  <2>7. n \in Nat
    BY LedgerAssumption, LenProperties DEF MatchCount
  <2>8. PayoutAt(x, c, k) \in Payout
    BY <2>7 DEF PayoutAt, Payout
  <2> DEFINE longer == Append(pay[o[k]], PayoutAt(x, c, k))
  <2>9. /\ Len(pay[o[k]]) + 1 \in DOMAIN longer
        /\ longer[Len(pay[o[k]]) + 1] = PayoutAt(x, c, k)
    BY <2>6, <2>8, LenProperties, AppendProperties
  <2>10. Credit(pay, x, c, o)[o[k]] = longer
    BY <2>3, <2>5
  <2> HIDE DEF longer
  <2> QED
    BY <2>9, <2>10 DEF Elements
<1> QED
  BY <1>1 DEF SettledBy

-----------------------------------------------------------------------------
(***************************************************************************)
(* A processed height has been paid.                                       *)
(***************************************************************************)

(* Memory holds all that Redis does, and every height it counts as         *)
(* processed is paid in memory; an order that a height was paid in is      *)
(* forgotten only once the height is stored as processed.                  *)
MemoryLoaded ==
  /\ Ahead
  /\ Recalled
  /\ redisProcessed \subseteq processedPayouts
  /\ \A h \in processedPayouts :
       /\ PaidFrom(minerPayouts, h, OrdersOf(pplnsSnapshots[h]))
       /\ h \in redisProcessed \/ pplnsSnapshots[h] # NoOrder

MemoryFresh ==
  /\ processedPayouts = {}
  /\ minerPayouts = NoPayouts
  /\ pplnsSnapshots = NoSnapshot

(* A save has stored the payouts of every miner it is through with.        *)
SaveInv ==
  /\ pc = "save" => \A m \in Miner \ unsaved : redisPayouts[m] = minerPayouts[m]
  /\ pc = "snap" => redisPayouts = minerPayouts

PaidInv ==
  /\ MemoryLoaded \/ MemoryFresh
  /\ pc \in {"pay", "save", "snap"} => MemoryLoaded
  /\ pc \notin {"idle", "down"} => order \in Order
  /\ SaveInv
  /\ ProcessedIsPaid

(* A daemon that starts can read its payouts, the processed heights and    *)
(* the recorded orders, and the SET of a miner's payouts does not fail.    *)
(* Every other SET may fail, and it may die at any point.                  *)
NothingUnread ==
  /\ {"payouts", "processed", "snapshots"} \cap GetMayFail = {}
  /\ "payouts" \notin SetMayFail

(* The invariant in terms of the operators above.                          *)
LEMMA ProcessedPaidFrom ==
  ProcessedIsPaid <=>
    \A h \in redisProcessed :
      PaidFrom(redisPayouts, h, OrdersOf(redisSnapshots[h]))
BY DEF ProcessedIsPaid, FullyPaid, PaidFrom, SettledBy, OrdersOf

(* A step that changes nothing in Redis, and no block, keeps the invariant.*)
LEMMA ProcessedSame ==
  ASSUME ProcessedIsPaid,
         UNCHANGED <<mined, redisPayouts, redisProcessed, redisSnapshots>>
  PROVE  ProcessedIsPaid'
BY DEF ProcessedIsPaid, FullyPaid

(* No height is processed at the beginning.                                *)
LEMMA PaidInit == Init => PaidInv
BY DEF Init, MemoryEmpty, PaidInv, MemoryFresh, SaveInv, ProcessedIsPaid

(* What a daemon loads, at its start or later in its life, is paid.        *)
LEMMA PaidLoad ==
  ASSUME NothingUnread, TypeOK, MinedInv, PaidInv, LoadLedger
  PROVE  PaidInv'
<1>1. /\ LoadsPayouts = {redisPayouts}
      /\ Loads("processed", redisProcessed, {}) = {redisProcessed}
      /\ Loads("snapshots", redisSnapshots, NoSnapshot) = {redisSnapshots}
  BY DEF LoadsPayouts, Loads, NothingUnread
<1>2. /\ pc = "load" /\ pc' = "pay"
      /\ UNCHANGED <<mined, redisPayouts, redisProcessed, redisSnapshots, order>>
  BY DEF LoadLedger, world, redis, ledger
<1>3. /\ processedPayouts = {} => processedPayouts' = redisProcessed
      /\ processedPayouts # {} => processedPayouts' = processedPayouts
      /\ minerPayouts = NoPayouts => minerPayouts' = redisPayouts
      /\ minerPayouts # NoPayouts => minerPayouts' = minerPayouts
      /\ pplnsSnapshots = NoSnapshot => pplnsSnapshots' = redisSnapshots
      /\ pplnsSnapshots # NoSnapshot => pplnsSnapshots' = pplnsSnapshots
  BY <1>1 DEF LoadLedger
<1>4. /\ redisPayouts \in [Miner -> Seq(Payout)]
      /\ minerPayouts \in [Miner -> Seq(Payout)]
      /\ mined \subseteq Block
      /\ redisProcessed \subseteq Height /\ processedPayouts \subseteq Height
      /\ redisSnapshots \in [Height -> Order \cup {NoOrder}]
      /\ pplnsSnapshots \in [Height -> Order \cup {NoOrder}]
  BY DEF TypeOK
<1>5. \A m \in Miner : Extends(redisPayouts[m], redisPayouts[m])
  BY <1>4, ExtendsReflexive
<1>6. minerPayouts' \in [Miner -> Seq(Payout)]
  BY <1>3, <1>4
<1>7. \A h \in redisProcessed :
        PaidFrom(redisPayouts, h, OrdersOf(redisSnapshots[h]))
  BY ProcessedPaidFrom DEF PaidInv
<1>8. CASE MemoryFresh
  <2>1. /\ processedPayouts' = redisProcessed
        /\ minerPayouts' = redisPayouts
        /\ pplnsSnapshots' = redisSnapshots
    BY <1>3, <1>8 DEF MemoryFresh
  <2>2. ASSUME NEW h \in processedPayouts'
        PROVE  PaidFrom(minerPayouts, h, OrdersOf(pplnsSnapshots[h]))'
    BY <1>2, <1>7, <2>1 DEF PaidFrom
  <2>3. MemoryLoaded'
    BY <1>2, <1>5, <2>1, <2>2 DEF MemoryLoaded, Ahead, Recalled
  <2>4. ProcessedIsPaid'
    BY <1>2, ProcessedSame DEF PaidInv
  <2> QED
    BY <1>2, <2>3, <2>4 DEF PaidInv, SaveInv
<1>9. CASE MemoryLoaded
  <2>1. processedPayouts' = processedPayouts
    BY <1>3, <1>9 DEF MemoryLoaded
  <2>2. \A m \in Miner : Extends(redisPayouts[m], minerPayouts'[m])
    BY <1>3, <1>5, <1>9 DEF MemoryLoaded, Ahead
  <2>3. \A m \in Miner : Extends(minerPayouts[m], minerPayouts'[m])
    <3>1. CASE minerPayouts = NoPayouts
      BY <1>3, <1>4, <3>1, ExtendsEmpty DEF NoPayouts
    <3>2. CASE minerPayouts # NoPayouts
      BY <1>3, <1>4, <3>2, ExtendsReflexive
    <3> QED
      BY <3>1, <3>2
  <2>4. \A h \in Height : redisSnapshots[h] # NoOrder =>
          pplnsSnapshots'[h] = redisSnapshots[h]
    BY <1>3, <1>9 DEF MemoryLoaded, Recalled
  <2>5. ASSUME NEW h \in processedPayouts
        PROVE  /\ PaidFrom(minerPayouts', h, OrdersOf(pplnsSnapshots'[h]))
               /\ h \in redisProcessed \/ pplnsSnapshots'[h] # NoOrder
    <3>1. CASE pplnsSnapshots = NoSnapshot
      <4>1. pplnsSnapshots'[h] = redisSnapshots[h] /\ h \in Height
        BY <1>3, <1>4, <3>1
      <4>2. h \in redisProcessed
        BY <1>9, <3>1, <4>1 DEF MemoryLoaded, NoSnapshot
      <4>3. PaidFrom(redisPayouts, h, OrdersOf(redisSnapshots[h]))
        BY <1>7, <4>2
      <4>4. OrdersOf(redisSnapshots[h]) \subseteq Order
        BY <1>4, <4>1, OrderFacts
      <4>5. PaidFrom(minerPayouts', h, OrdersOf(redisSnapshots[h]))
        BY <1>4, <1>6, <2>2, <4>3, <4>4, PaidFromGrows
      <4> QED
        BY <4>1, <4>2, <4>5
    <3>2. CASE pplnsSnapshots # NoSnapshot
      <4>1. /\ pplnsSnapshots' = pplnsSnapshots
            /\ PaidFrom(minerPayouts, h, OrdersOf(pplnsSnapshots[h]))
            /\ h \in redisProcessed \/ pplnsSnapshots[h] # NoOrder
        BY <1>3, <1>9, <3>2 DEF MemoryLoaded
      <4>2. OrdersOf(pplnsSnapshots[h]) \subseteq Order
        BY <1>4, OrderFacts
      <4>3. PaidFrom(minerPayouts', h, OrdersOf(pplnsSnapshots[h]))
        BY <1>4, <1>6, <2>3, <4>1, <4>2, PaidFromGrows
      <4> QED
        BY <4>1, <4>3
    <3> QED
      BY <3>1, <3>2
  <2>6. ASSUME NEW h \in processedPayouts'
        PROVE  /\ PaidFrom(minerPayouts, h, OrdersOf(pplnsSnapshots[h]))'
               /\ h \in redisProcessed' \/ pplnsSnapshots'[h] # NoOrder
    BY <1>2, <2>1, <2>5 DEF PaidFrom
  <2>7. MemoryLoaded'
    BY <1>2, <1>9, <2>1, <2>2, <2>4, <2>6 DEF MemoryLoaded, Ahead, Recalled
  <2>8. ProcessedIsPaid'
    BY <1>2, ProcessedSame DEF PaidInv
  <2> QED
    BY <1>2, <2>7, <2>8 DEF PaidInv, SaveInv
<1> QED
  BY <1>8, <1>9 DEF PaidInv

(* Paying a new height adds it, paid along the order kept for it.          *)
LEMMA PaidPay ==
  ASSUME NothingUnread, TypeOK, MinedInv, PaidInv, AheadInv', Recalled',
         PayNewBlock
  PROVE  PaidInv'
<1> DEFINE o == SnapshotOf(CurrentH)
           c == chain[CurrentH]
           x == Current.block
<1>1. /\ pc = "pay" /\ pc' = "pay"
      /\ UNCHANGED <<mined, redisPayouts, redisProcessed, redisSnapshots, order>>
      /\ pplnsSnapshots' = [pplnsSnapshots EXCEPT ![CurrentH] = o]
      /\ minerPayouts' = Credit(minerPayouts, x, c, o)
      /\ processedPayouts' = processedPayouts \cup {CurrentH}
      /\ CurrentH \notin processedPayouts
      /\ HasCoinbase(CurrentH)
      /\ i <= Len(foundBlocks)
  BY DEF PayNewBlock, Marked, world, redis, ledger
<1>2. /\ minerPayouts \in [Miner -> Seq(Payout)]
      /\ minerPayouts' \in [Miner -> Seq(Payout)]
      /\ pplnsSnapshots \in [Height -> Order \cup {NoOrder}]
      /\ mined \subseteq Block
      /\ processedPayouts \subseteq Height
  <2>1. TypeOK'
    BY TypeNext DEF Next, Daemon
  <2> QED
    BY <2>1 DEF TypeOK
<1>3. x \in mined /\ x \in Block /\ CurrentH \in Height /\ CurrentH = HeightOf[x]
  BY <1>1, CurrentType, RewardKeeps DEF Known, FoundBlock, CurrentH
<1>4. c \in mined \cup {Foreign} /\ Outputs[c] > 0
  BY <1>1, <1>3 DEF MinedInv, HasCoinbase
<1>5. order \in Order /\ MemoryLoaded
  BY <1>1 DEF PaidInv
<1>6. o \in Order
  BY <1>2, <1>3, <1>5 DEF SnapshotOf
<1> HIDE DEF o, c, x
<1>7. SettledBy(minerPayouts', CurrentH, x, c, o)
  BY <1>1, <1>2, <1>3, <1>4, <1>6, CreditSettles
<1>8. \A m \in Miner : Extends(minerPayouts[m], minerPayouts'[m])
  <2>1. ASSUME NEW m \in Miner
        PROVE  Extends(minerPayouts[m], minerPayouts'[m])
    <3>1. minerPayouts[m] \in Seq(Payout)
      BY <1>2
    <3>2. \/ minerPayouts'[m] = minerPayouts[m]
          \/ \E p \in Payout : minerPayouts'[m] = Append(minerPayouts[m], p)
      BY PayAppends DEF Appended
    <3> QED
      BY <3>1, <3>2, ExtendsReflexive, ExtendsAppend
  <2> QED
    BY <2>1
<1>9. ASSUME NEW h \in processedPayouts'
      PROVE  /\ PaidFrom(minerPayouts', h, OrdersOf(pplnsSnapshots'[h]))
             /\ h \in redisProcessed \/ pplnsSnapshots'[h] # NoOrder
  <2>1. CASE h = CurrentH
    <3>1. pplnsSnapshots'[h] = o /\ o # NoOrder
      BY <1>1, <1>2, <1>3, <1>6, <2>1, OrderFacts
    <3>2. o \in OrdersOf(pplnsSnapshots'[h])
      BY <3>1 DEF OrdersOf
    <3> QED
      BY <1>3, <1>4, <1>7, <2>1, <3>1, <3>2 DEF PaidFrom
  <2>2. CASE h # CurrentH
    <3>1. h \in processedPayouts /\ pplnsSnapshots'[h] = pplnsSnapshots[h]
      BY <1>1, <1>2, <2>2
    <3>2. /\ PaidFrom(minerPayouts, h, OrdersOf(pplnsSnapshots[h]))
          /\ h \in redisProcessed \/ pplnsSnapshots[h] # NoOrder
      BY <1>5, <3>1 DEF MemoryLoaded
    <3>3. OrdersOf(pplnsSnapshots[h]) \subseteq Order
      BY <1>2, <3>1, OrderFacts
    <3>4. PaidFrom(minerPayouts', h, OrdersOf(pplnsSnapshots[h]))
      BY <1>2, <1>8, <3>2, <3>3, PaidFromGrows
    <3> QED
      BY <3>1, <3>2, <3>4
  <2> QED
    BY <2>1, <2>2
<1>10. \A h \in processedPayouts' :
         /\ PaidFrom(minerPayouts, h, OrdersOf(pplnsSnapshots[h]))'
         /\ h \in redisProcessed' \/ pplnsSnapshots'[h] # NoOrder
  BY <1>1, <1>9 DEF PaidFrom
<1>11. MemoryLoaded'
  BY <1>1, <1>5, <1>10 DEF MemoryLoaded, AheadInv
<1>12. ProcessedIsPaid'
  <2>1. UNCHANGED <<mined, redisPayouts, redisProcessed, redisSnapshots>>
    BY <1>1
  <2>2. ProcessedIsPaid
    BY DEF PaidInv
  <2> QED
    BY <2>1, <2>2 DEF ProcessedIsPaid, FullyPaid
<1> QED
  BY <1>1, <1>5, <1>11, <1>12 DEF PaidInv, SaveInv

(* The order of a height that cannot be paid yet is recorded; the heights  *)
(* that have been paid keep theirs.                                        *)
LEMMA PaidSnapshot ==
  ASSUME TypeOK, PaidInv, Recalled', SnapshotOnly
  PROVE  PaidInv'
<1>1. /\ pc = "pay" /\ pc' = "pay"
      /\ UNCHANGED <<mined, redisPayouts, redisProcessed, redisSnapshots,
                     order, minerPayouts, processedPayouts>>
      /\ pplnsSnapshots' =
           [pplnsSnapshots EXCEPT ![CurrentH] = SnapshotOf(CurrentH)]
      /\ CurrentH \notin processedPayouts
  BY DEF SnapshotOnly, world, redis, ledger
<1>2. pplnsSnapshots \in [Height -> Order \cup {NoOrder}]
  BY DEF TypeOK
<1>3. MemoryLoaded /\ order \in Order
  BY <1>1 DEF PaidInv
<1>4. \A h \in processedPayouts : pplnsSnapshots'[h] = pplnsSnapshots[h]
  BY <1>1, <1>2
<1>5. \A h \in processedPayouts' :
        /\ PaidFrom(minerPayouts, h, OrdersOf(pplnsSnapshots[h]))'
        /\ h \in redisProcessed' \/ pplnsSnapshots'[h] # NoOrder
  BY <1>1, <1>3, <1>4 DEF MemoryLoaded, PaidFrom
<1>6. MemoryLoaded'
  BY <1>1, <1>3, <1>5 DEF MemoryLoaded, Ahead
<1>7. ProcessedIsPaid'
  BY <1>1, ProcessedSame DEF PaidInv
<1> QED
  BY <1>1, <1>3, <1>6, <1>7 DEF PaidInv, SaveInv

(* A SET of a payouts key brings Redis closer to memory, and what is paid  *)
(* stays paid.                                                             *)
LEMMA PaidSave ==
  ASSUME NothingUnread, TypeOK, PaidInv, AheadInv, AheadInv',
         NEW x \in Miner, SavePayouts(x)
  PROVE  PaidInv'
<1>1. /\ pc = "save" /\ pc' = "save"
      /\ UNCHANGED <<mined, redisProcessed, redisSnapshots, order,
                     minerPayouts, processedPayouts, pplnsSnapshots>>
      /\ unsaved' = unsaved \ {x}
      /\ redisPayouts' = [redisPayouts EXCEPT ![x] = minerPayouts[x]]
  BY DEF SavePayouts, Stores, NothingUnread, PaidInv, world, memory
<1>2. /\ redisPayouts \in [Miner -> Seq(Payout)]
      /\ redisPayouts' \in [Miner -> Seq(Payout)]
      /\ redisSnapshots \in [Height -> Order \cup {NoOrder}]
      /\ redisProcessed \subseteq Height /\ mined \subseteq Block
  <2>1. TypeOK'
    BY TypeNext DEF Next, Daemon
  <2> QED
    BY <2>1 DEF TypeOK
<1>3. \A m \in Miner : Extends(redisPayouts[m], redisPayouts'[m])
  BY AheadAppends DEF Next, Daemon
<1>4. MemoryLoaded
  BY <1>1 DEF PaidInv
<1>5. \A h \in processedPayouts' :
        /\ PaidFrom(minerPayouts, h, OrdersOf(pplnsSnapshots[h]))'
        /\ h \in redisProcessed' \/ pplnsSnapshots'[h] # NoOrder
  BY <1>1, <1>4 DEF MemoryLoaded, PaidFrom
<1>6. MemoryLoaded'
  <2>1. Ahead'
    BY <1>1 DEF AheadInv
  <2> QED
    BY <1>1, <1>4, <1>5, <2>1 DEF MemoryLoaded, Recalled
<1>7. \A m \in Miner \ unsaved' : redisPayouts'[m] = minerPayouts'[m]
  BY <1>1, <1>2 DEF PaidInv, SaveInv
<1>8. ProcessedIsPaid'
  <2>1. ASSUME NEW h \in redisProcessed
        PROVE  PaidFrom(redisPayouts', h, OrdersOf(redisSnapshots[h]))
    <3>1. PaidFrom(redisPayouts, h, OrdersOf(redisSnapshots[h]))
      BY ProcessedPaidFrom DEF PaidInv
    <3>2. OrdersOf(redisSnapshots[h]) \subseteq Order
      BY <1>2, OrderFacts
    <3> QED
      BY <1>2, <1>3, <3>1, <3>2, PaidFromGrows
  <2>2. \A h \in redisProcessed' :
          PaidFrom(redisPayouts, h, OrdersOf(redisSnapshots[h]))'
    BY <1>1, <2>1 DEF PaidFrom
  <2> QED
    BY <2>2 DEF ProcessedIsPaid, FullyPaid, PaidFrom, SettledBy, OrdersOf
<1>9. order' \in Order
  BY <1>1 DEF PaidInv
<1> QED
  BY <1>1, <1>6, <1>7, <1>8, <1>9 DEF PaidInv, SaveInv

(* When the processed heights are stored, the payouts of all of them have  *)
(* been; a SET that fails leaves fewer heights processed, not more.        *)
LEMMA PaidMark ==
  ASSUME TypeOK, PaidInv, SaveProcessed
  PROVE  PaidInv'
<1>1. /\ pc = "save" /\ pc' = "snap" /\ unsaved = {}
      /\ UNCHANGED <<mined, redisPayouts, redisSnapshots, order,
                     minerPayouts, processedPayouts, pplnsSnapshots>>
      /\ redisProcessed' \in {processedPayouts, redisProcessed}
  BY DEF SaveProcessed, Stores, PaidInv, world, memory, locals
<1>2. /\ redisPayouts \in [Miner -> Seq(Payout)]
      /\ minerPayouts \in [Miner -> Seq(Payout)]
      /\ redisSnapshots \in [Height -> Order \cup {NoOrder}]
      /\ pplnsSnapshots \in [Height -> Order \cup {NoOrder}]
      /\ processedPayouts \subseteq Height /\ mined \subseteq Block
  BY DEF TypeOK
<1>3. MemoryLoaded
  BY <1>1 DEF PaidInv
<1>4. redisPayouts = minerPayouts
  BY <1>1, <1>2 DEF PaidInv, SaveInv
<1>5. redisProcessed \subseteq redisProcessed' /\ redisProcessed' \subseteq processedPayouts
  BY <1>1, <1>3 DEF MemoryLoaded
<1>6. \A h \in processedPayouts' :
        /\ PaidFrom(minerPayouts, h, OrdersOf(pplnsSnapshots[h]))'
        /\ h \in redisProcessed' \/ pplnsSnapshots'[h] # NoOrder
  BY <1>1, <1>3, <1>5 DEF MemoryLoaded, PaidFrom
<1>7. MemoryLoaded'
  BY <1>1, <1>3, <1>5, <1>6 DEF MemoryLoaded, Ahead, Recalled
<1>8. ProcessedIsPaid'
  <2>1. ASSUME NEW h \in processedPayouts
        PROVE  PaidFrom(redisPayouts, h, OrdersOf(redisSnapshots[h]))
    <3>1. PaidFrom(minerPayouts, h, OrdersOf(pplnsSnapshots[h]))
      BY <1>3 DEF MemoryLoaded
    <3>2. /\ OrdersOf(pplnsSnapshots[h]) \subseteq OrdersOf(redisSnapshots[h])
          /\ OrdersOf(redisSnapshots[h]) \subseteq Order
      <4>1. /\ h \in Height
            /\ redisSnapshots[h] # NoOrder => pplnsSnapshots[h] = redisSnapshots[h]
        BY <1>2, <1>3 DEF MemoryLoaded, Recalled
      <4> QED
        BY <1>2, <4>1, OrderFacts DEF OrdersOf
    <3>3. \A m \in Miner : Extends(minerPayouts[m], redisPayouts[m])
      BY <1>2, <1>4, ExtendsReflexive
    <3> QED
      BY <1>2, <3>1, <3>2, <3>3, PaidFromGrows
  <2>2. \A h \in redisProcessed' :
          PaidFrom(redisPayouts, h, OrdersOf(redisSnapshots[h]))'
    BY <1>1, <1>5, <2>1 DEF PaidFrom
  <2> QED
    BY <2>2 DEF ProcessedIsPaid, FullyPaid, PaidFrom, SettledBy, OrdersOf
<1>9. order' \in Order
  BY <1>1 DEF PaidInv
<1> QED
  BY <1>1, <1>4, <1>7, <1>8, <1>9 DEF PaidInv, SaveInv

(* The orders are stored after the heights they were paid along.           *)
LEMMA PaidRecord ==
  ASSUME TypeOK, PaidInv, Recalled', SaveSnapshots
  PROVE  PaidInv'
<1>1. /\ pc = "snap" /\ pc' = "reward"
      /\ UNCHANGED <<mined, redisPayouts, redisProcessed, order,
                     minerPayouts, processedPayouts, pplnsSnapshots>>
      /\ redisSnapshots' \in {pplnsSnapshots, redisSnapshots}
  BY DEF SaveSnapshots, Stores, PaidInv, world, memory, locals
<1>2. MemoryLoaded /\ redisPayouts = minerPayouts /\ order' \in Order
  BY <1>1 DEF PaidInv, SaveInv
<1>3. \A h \in processedPayouts' :
        /\ PaidFrom(minerPayouts, h, OrdersOf(pplnsSnapshots[h]))'
        /\ h \in redisProcessed' \/ pplnsSnapshots'[h] # NoOrder
  BY <1>1, <1>2 DEF MemoryLoaded, PaidFrom
<1>4. MemoryLoaded'
  BY <1>1, <1>2, <1>3 DEF MemoryLoaded, Ahead
<1>5. ProcessedIsPaid'
  <2>1. ASSUME NEW h \in redisProcessed
        PROVE  PaidFrom(redisPayouts, h, OrdersOf(redisSnapshots'[h]))
    <3>1. PaidFrom(redisPayouts, h, OrdersOf(redisSnapshots[h]))
      BY ProcessedPaidFrom DEF PaidInv
    <3>2. PaidFrom(redisPayouts, h, OrdersOf(pplnsSnapshots[h]))
      BY <1>2 DEF MemoryLoaded
    <3> QED
      BY <1>1, <3>1, <3>2
  <2>2. \A h \in redisProcessed' :
          PaidFrom(redisPayouts, h, OrdersOf(redisSnapshots[h]))'
    BY <1>1, <2>1 DEF PaidFrom
  <2> QED
    BY <2>2 DEF ProcessedIsPaid, FullyPaid, PaidFrom, SettledBy, OrdersOf
<1> QED
  BY <1>1, <1>2, <1>4, <1>5 DEF PaidInv, SaveInv

(* A save begins with the keys of the miners that have payouts; the key of *)
(* any other miner is absent.                                              *)
LEMMA PaidBegin ==
  ASSUME TypeOK, PaidInv, EndPay
  PROVE  PaidInv'
<1>1. /\ pc = "pay" /\ pc' \in {"save", "reward"}
      /\ UNCHANGED <<mined, redisPayouts, redisProcessed, redisSnapshots, order,
                     minerPayouts, processedPayouts, pplnsSnapshots>>
      /\ pc' = "save" => unsaved' = {m \in Miner : minerPayouts[m] # << >>}
  BY DEF EndPay, PaidInv, world, redis, ledger, memory
<1>2. MemoryLoaded /\ order' \in Order
  BY <1>1 DEF PaidInv
<1>3. \A h \in processedPayouts' :
        /\ PaidFrom(minerPayouts, h, OrdersOf(pplnsSnapshots[h]))'
        /\ h \in redisProcessed' \/ pplnsSnapshots'[h] # NoOrder
  BY <1>1, <1>2 DEF MemoryLoaded, PaidFrom
<1>4. MemoryLoaded'
  BY <1>1, <1>2, <1>3 DEF MemoryLoaded, Ahead, Recalled
<1>5. ASSUME NEW m \in Miner, minerPayouts[m] = << >>
      PROVE  redisPayouts[m] = << >>
  <2>1. redisPayouts[m] \in Seq(Payout) /\ Extends(redisPayouts[m], << >>)
    BY <1>2, <1>5 DEF MemoryLoaded, Ahead, TypeOK
  <2>2. Len(redisPayouts[m]) = 0
    BY <2>1, EmptySeq, LenProperties DEF Extends
  <2> QED
    BY <2>1, <2>2, EmptySeq
<1>6. SaveInv'
  BY <1>1, <1>5 DEF SaveInv
<1>7. ProcessedIsPaid'
  BY <1>1, ProcessedSame DEF PaidInv
<1> QED
  BY <1>1, <1>2, <1>4, <1>6, <1>7 DEF PaidInv

(* What pc and order may do in a step that leaves the ledger alone.        *)
LEMMA PaidFrame ==
  ASSUME PaidInv, mined \subseteq mined',
         UNCHANGED <<redisPayouts, redisProcessed, redisSnapshots,
                     minerPayouts, processedPayouts, pplnsSnapshots>>,
         \/ pc' = pc /\ UNCHANGED <<order, unsaved>>
         \/ /\ pc' \notin {"pay", "save", "snap"}
            /\ pc' \in {"idle", "down"} \/ order' \in Order
  PROVE  PaidInv'
<1>1. ASSUME NEW pay, NEW h, NEW orders, PaidFrom(pay, h, orders)
      PROVE  \E b \in mined', c \in mined' \cup {Foreign}, o \in orders :
               SettledBy(pay, h, b, c, o)
  BY <1>1 DEF PaidFrom
<1>2. MemoryLoaded => MemoryLoaded'
  <2> SUFFICES ASSUME MemoryLoaded PROVE MemoryLoaded'
    OBVIOUS
  <2>1. \A h \in processedPayouts' :
          PaidFrom(minerPayouts, h, OrdersOf(pplnsSnapshots[h]))'
    BY <1>1 DEF MemoryLoaded, PaidFrom
  <2> QED
    BY <2>1 DEF MemoryLoaded, Ahead, Recalled
<1>3. MemoryFresh => MemoryFresh'
  BY DEF MemoryFresh
<1>4. ProcessedIsPaid'
  <2>1. \A h \in redisProcessed' :
          PaidFrom(redisPayouts, h, OrdersOf(redisSnapshots[h]))'
    BY <1>1, ProcessedPaidFrom DEF PaidInv, PaidFrom
  <2> QED
    BY <2>1 DEF ProcessedIsPaid, FullyPaid, PaidFrom, SettledBy, OrdersOf
<1>5. SaveInv'
  BY DEF SaveInv, PaidInv
<1> QED
  BY <1>2, <1>3, <1>4, <1>5 DEF PaidInv

(* A process that ends leaves Redis, where every processed height is paid. *)
LEMMA PaidCrash ==
  ASSUME PaidInv, Crash
  PROVE  PaidInv'
<1>1. /\ pc' = "down" /\ MemoryFresh'
      /\ UNCHANGED <<mined, redisPayouts, redisProcessed, redisSnapshots>>
  BY DEF Crash, ProcessEnds, MemoryFresh, world, redis, ledger
<1>2. ProcessedIsPaid'
  BY <1>1, ProcessedSame DEF PaidInv
<1> QED
  BY <1>1, <1>2 DEF PaidInv, SaveInv

(* No step, whoever takes it, leaves a height processed and not paid.      *)
LEMMA PaidNext ==
  ASSUME NothingUnread, TypeOK, MinedInv, RecallInv, AheadInv, PaidInv,
         [Next]_vars
  PROVE  PaidInv'
<1>0. HistoryReadable /\ SnapshotsReadable
  BY DEF NothingUnread, HistoryReadable, SnapshotsReadable
<1>1. RecallInv' /\ AheadInv'
  BY <1>0, RecallNext, AheadNext
<1>2. CASE UNCHANGED vars
  <2>1. mined \subseteq mined'
    BY <1>2 DEF vars, world, PaidInv
  <2> QED
    BY <1>2, <2>1, PaidFrame DEF vars, redis, ledger, memory, locals
<1>3. CASE World
  <2>1. /\ mined \subseteq mined' /\ pc' = pc
        /\ UNCHANGED <<ledger, memory, locals>>
    BY <1>3 DEF World, Mine, ChainMoves, PaidInv, redis
  <2> QED
    BY <2>1, PaidFrame DEF ledger, memory, locals
<1>4. CASE LoadLedger
  BY <1>4, PaidLoad
<1>5. CASE PayNewBlock \/ SnapshotOnly
  <2>1. pc = "pay"
    BY <1>5 DEF PayNewBlock, SnapshotOnly
  <2>2. Recalled'
    BY <1>5, <2>1, RecallPay DEF PaidInv, MemoryLoaded
  <2> QED
    BY <1>1, <1>5, <2>2, PaidPay, PaidSnapshot
<1>6. ASSUME NEW m \in Miner, SavePayouts(m) PROVE PaidInv'
  BY <1>1, <1>6, PaidSave
<1>7. CASE EndPay \/ SaveProcessed
  BY <1>7, PaidBegin, PaidMark
<1>8. CASE SaveSnapshots
  <2>1. Recalled'
    BY <1>8 DEF SaveSnapshots, Stores, PaidInv, MemoryLoaded, Recalled, memory
  <2> QED
    BY <1>8, <2>1, PaidRecord
<1>9. CASE BeginCycle \/ ReadFoundList \/ SkipFoundList \/ PublishFound
  <2>1. /\ mined' = mined
        /\ pc' \in {"found", "publish", "load", "check"}
        /\ order' \in Order
        /\ UNCHANGED <<redisPayouts, redisProcessed, redisSnapshots,
                       minerPayouts, processedPayouts, pplnsSnapshots>>
    BY <1>9 DEF BeginCycle, ReadFoundList, SkipFoundList, PublishFound,
       PaidInv, world, redis, ledger, memory, locals
  <2> QED
    BY <2>1, PaidFrame
<1>10. CASE KeepBlock \/ DetectOrphan \/ RemoveOrphan \/ EndCheck
  <2>1. /\ mined' = mined
        /\ pc' \in {"check", "lrem", "load"}
        /\ order' \in Order
        /\ UNCHANGED <<redisPayouts, redisProcessed, redisSnapshots,
                       minerPayouts, processedPayouts, pplnsSnapshots>>
    BY <1>10 DEF KeepBlock, DetectOrphan, RemoveOrphan, EndCheck,
       PaidInv, world, redis, ledger, memory, locals
  <2> QED
    BY <2>1, PaidFrame
<1>11. CASE NothingFound \/ EndCycle \/ Start
  <2>1. /\ mined' = mined /\ pc' = "idle"
        /\ UNCHANGED <<redisPayouts, redisProcessed, redisSnapshots,
                       minerPayouts, processedPayouts, pplnsSnapshots>>
    BY <1>11 DEF NothingFound, EndCycle, Start, PaidInv, world, redis, ledger,
       memory, locals
  <2> QED
    BY <2>1, PaidFrame
<1>12. CASE RefetchReward
  <2>1. /\ mined' = mined /\ pc' = pc
        /\ UNCHANGED <<redisPayouts, redisProcessed, redisSnapshots, order,
                       minerPayouts, processedPayouts, pplnsSnapshots, unsaved>>
    BY <1>12 DEF RefetchReward, PaidInv, world, redis, ledger
  <2> QED
    BY <2>1, PaidFrame
<1>14. CASE Crash
  BY <1>14, PaidCrash
<1> QED
  BY <1>2, <1>3, <1>4, <1>5, <1>6, <1>7, <1>8, <1>9, <1>10, <1>11, <1>12,
     <1>14 DEF Next, Daemon

(* A height is never marked processed, and so never left alone by the      *)
(* cycles to come, before every output of its coinbase that has a miner is *)
(* stored, along the recorded order if one is: wherever the daemon dies,   *)
(* whatever the chain does, and if the SET of the processed heights or of  *)
(* the orders fails.                                                       *)
THEOREM ProcessedPaid ==
  ASSUME NothingUnread
  PROVE  Spec => []ProcessedIsPaid
<1>1. Init => TypeOK /\ MinedInv /\ RecallInv /\ AheadInv /\ PaidInv
  BY TypeInit, MinedInit, RecallInit, AheadInit, PaidInit
<1>2. /\ TypeOK /\ MinedInv /\ RecallInv /\ AheadInv /\ PaidInv
      /\ [Next]_vars
      => (TypeOK /\ MinedInv /\ RecallInv /\ AheadInv /\ PaidInv)'
  <2>1. HistoryReadable /\ SnapshotsReadable
    BY DEF NothingUnread, HistoryReadable, SnapshotsReadable
  <2> QED
    BY <2>1, TypeNext, MinedNext, RecallNext, AheadNext, PaidNext
<1>3. PaidInv => ProcessedIsPaid
  BY DEF PaidInv
<1> QED
  BY <1>1, <1>2, <1>3, PTL DEF Spec

-----------------------------------------------------------------------------
(***************************************************************************)
(* The ledger implements PayoutBook.                                       *)
(***************************************************************************)

(* The entries that a miner's list gives for a height, and the page that   *)
(* all lists give.                                                         *)
EntriesIn(s, m, h) ==
  {[miner |-> m, block |-> p.block, output |-> p.output] :
     p \in {p \in Elements(s) : HeightOf[p.block] = h}}

PageIn(pay, h) == UNION {EntriesIn(pay[m], m, h) : m \in Miner}

(* An append adds one element.                                             *)
LEMMA AppendElements ==
  ASSUME NEW s \in Seq(Payout), NEW p \in Payout
  PROVE  Elements(Append(s, p)) = Elements(s) \cup {p}
<1> DEFINE t == Append(s, p)
<1>1. /\ Len(s) \in Nat
      /\ DOMAIN s = 1..Len(s)
      /\ DOMAIN t = 1..(Len(s) + 1)
      /\ t[Len(s) + 1] = p
      /\ \A k \in 1..Len(s) : t[k] = s[k]
  BY LenProperties, AppendProperties
<1> HIDE DEF t
<1>2. \A k \in DOMAIN t : t[k] \in Elements(s) \cup {p}
  BY <1>1 DEF Elements
<1>3. \A k \in DOMAIN s : s[k] \in Elements(t)
  BY <1>1 DEF Elements
<1>4. p \in Elements(t)
  BY <1>1 DEF Elements
<1>5. Elements(t) = Elements(s) \cup {p}
  BY <1>2, <1>3, <1>4 DEF Elements
<1> QED
  BY <1>5 DEF t

(* Crediting a block leaves the entries of the other heights alone.        *)
LEMMA CreditOther ==
  ASSUME NEW s \in Seq(Payout), NEW t, NEW x \in Block, Appended(s, t, x),
         NEW m, NEW h, h # HeightOf[x]
  PROVE  EntriesIn(t, m, h) = EntriesIn(s, m, h)
<1>1. CASE t = s
  BY <1>1
<1>2. ASSUME NEW p \in Payout, p.block = x, t = Append(s, p)
      PROVE  EntriesIn(t, m, h) = EntriesIn(s, m, h)
  <2>1. Elements(t) = Elements(s) \cup {p}
    BY <1>2, AppendElements
  <2>2. {q \in Elements(t) : HeightOf[q.block] = h} =
          {q \in Elements(s) : HeightOf[q.block] = h}
    BY <1>2, <2>1
  <2> QED
    BY <2>2 DEF EntriesIn
<1> QED
  BY <1>1, <1>2 DEF Appended

(* Crediting a coinbase fills the page of a height that had none with its  *)
(* settlement, no more and no less.                                        *)
LEMMA CreditPage ==
  ASSUME NEW pay \in [Miner -> Seq(Payout)], NEW x \in Block,
         NEW c \in Block \cup {Foreign}, NEW o \in Order, Outputs[c] > 0,
         \A m \in Miner : EntriesIn(pay[m], m, HeightOf[x]) = {}
  PROVE  PageIn(Credit(pay, x, c, o), HeightOf[x]) = Book!Settlement(x, c, o)
<1> DEFINE n   == MatchCount(c, o)
           new == Credit(pay, x, c, o)
           entry(k) == [miner |-> o[k], block |-> x, output |-> <<c, k>>]
<1>1. /\ Outputs[c] \in Nat /\ Len(o) \in Nat /\ DOMAIN o = 1..Len(o) /\ n \in Nat
      /\ \A k : k \in 1..n <=> k \in DOMAIN o /\ k <= Outputs[c]
  BY LedgerAssumption, LenProperties DEF MatchCount
<1>2. ASSUME NEW m \in Miner, NEW e \in EntriesIn(new[m], m, HeightOf[x])
      PROVE  \E k \in 1..n : e = entry(k)
  <2>1. CASE \E k \in 1..n : o[k] = m
    <3> DEFINE at == CHOOSE k \in 1..n : o[k] = m
    <3>1. at \in 1..n /\ o[at] = m
      BY <2>1
    <3>2. new[m] = Append(pay[m], PayoutAt(x, c, at))
      BY <2>1 DEF Credit
    <3> HIDE DEF at
    <3>3. PayoutAt(x, c, at) \in Payout
      BY <1>1, <3>1 DEF PayoutAt, Payout
    <3>4. Elements(new[m]) = Elements(pay[m]) \cup {PayoutAt(x, c, at)}
      BY <3>2, <3>3, AppendElements
    <3>5. PICK p \in Elements(new[m]) :
            /\ HeightOf[p.block] = HeightOf[x]
            /\ e = [miner |-> m, block |-> p.block, output |-> p.output]
      BY <1>2 DEF EntriesIn
    <3>6. p \notin Elements(pay[m])
      BY <3>5 DEF EntriesIn
    <3>7. p = PayoutAt(x, c, at)
      BY <3>4, <3>5, <3>6
    <3> QED
      BY <3>1, <3>5, <3>7 DEF PayoutAt
  <2>2. CASE ~ \E k \in 1..n : o[k] = m
    <3>1. new[m] = pay[m]
      BY <2>2 DEF Credit
    <3> QED
      BY <1>2, <3>1
  <2> QED
    BY <2>1, <2>2
<1>3. ASSUME NEW k \in 1..n
      PROVE  entry(k) \in EntriesIn(new[o[k]], o[k], HeightOf[x]) /\ o[k] \in Miner
  <2>1. PayoutAt(x, c, k) \in Elements(new[o[k]])
    BY CreditSettles DEF SettledBy
  <2>2. /\ PayoutAt(x, c, k).block = x
        /\ PayoutAt(x, c, k).output = <<c, k>>
    BY DEF PayoutAt
  <2> QED
    BY <2>1, <2>2, MatchedMiner DEF EntriesIn
<1> HIDE DEF new, n
<1>4. Book!Settlement(x, c, o) = {entry(k) : k \in 1..n}
  BY <1>1 DEF Book!Settlement
<1>5. PageIn(new, HeightOf[x]) \subseteq {entry(k) : k \in 1..n}
  BY <1>2 DEF PageIn
<1>6. {entry(k) : k \in 1..n} \subseteq PageIn(new, HeightOf[x])
  BY <1>3 DEF PageIn
<1> QED
  BY <1>4, <1>5, <1>6 DEF new

(* A settlement gives somebody something.                                  *)
LEMMA SettlementsFull ==
  ASSUME NEW h PROVE {} \notin Book!Settlements(h)
<1> SUFFICES ASSUME NEW b \in Block, NEW c \in Block \cup {Foreign},
                    NEW o \in Order, Outputs[c] > 0
             PROVE  Book!Settlement(b, c, o) # {}
  BY DEF Book!Settlements
<1>1. 1 \in DOMAIN o /\ 1 <= Outputs[c]
  <2>1. o \in Seq(Miner) /\ o # << >> /\ Outputs[c] \in Nat
    BY LedgerAssumption
  <2> QED
    BY <2>1, LenProperties, EmptySeq
<1>2. [miner |-> o[1], block |-> b, output |-> <<c, 1>>] \in Book!Settlement(b, c, o)
  BY <1>1 DEF Book!Settlement
<1> QED
  BY <1>2

(* The node reports for a height a block of that height.                   *)
ChainInv == \A h \in Height : chain[h] \in Block => HeightOf[chain[h]] = h

(* A cycle pays with an order it has computed.                             *)
OrderInv == pc \notin {"idle", "down"} => order \in Order

(* Memory and Redis have the same entries for the heights that are stored. *)
Agree ==
  \A h \in redisProcessed : \A m \in Miner :
    EntriesIn(redisPayouts[m], m, h) = EntriesIn(minerPayouts[m], m, h)

(* The pages of the stored heights are settled, and so are those memory    *)
(* has yet to store; memory agrees with Redis unless it is still to load.  *)
BookInv ==
  /\ \A h \in redisProcessed : PageIn(redisPayouts, h) \in Book!Settlements(h)
  /\ \A h \in processedPayouts : PageIn(minerPayouts, h) \in Book!Settlements(h)
  /\ Agree \/ processedPayouts = {}
  /\ pc \in {"pay", "save"} => Agree
  /\ SaveInv

(* The chain is unknown, no cycle runs and every page is open at first.    *)
LEMMA BookInit == Init => ChainInv /\ OrderInv /\ BookInv /\ Book!Init
<1> SUFFICES ASSUME Init PROVE ChainInv /\ OrderInv /\ BookInv /\ Book!Init
  OBVIOUS
<1>1. ChainInv
  BY LedgerAssumption DEF Init, ChainInv
<1>2. OrderInv
  BY DEF Init, OrderInv
<1>3. BookInv
  BY DEF Init, MemoryEmpty, BookInv, SaveInv
<1>4. Book!Init
  BY DEF Init, Book!Init, PageOf, Book!Open
<1> QED
  BY <1>1, <1>2, <1>3, <1>4

(* Reorganisations keep a block at its height.                             *)
LEMMA ChainNext ==
  ASSUME TypeOK, ChainInv, [Next]_vars
  PROVE  ChainInv'
<1> USE DEF world, ledger, redis, memory, locals
<1>1. CASE chain' = chain
  BY <1>1 DEF ChainInv
<1>2. ASSUME NEW b \in Block, Mine(b) PROVE ChainInv'
  <2>1. chain \in [Height -> Block \cup {Foreign, NoBlock}]
    BY DEF TypeOK
  <2>2. chain' = chain \/ chain' = [chain EXCEPT ![HeightOf[b]] = b]
    BY <1>2 DEF Mine
  <2> QED
    BY <2>1, <2>2 DEF ChainInv
<1>3. ASSUME NEW h \in Height, ChainMoves(h) PROVE ChainInv'
  BY <1>3, LedgerAssumption DEF ChainMoves, ChainInv, TypeOK
<1>4. chain' = chain \/ World
  BY DEF vars, Next, Daemon, BeginCycle,
     ReadFoundList, SkipFoundList, PublishFound, KeepBlock, DetectOrphan,
     RemoveOrphan, EndCheck, NothingFound, LoadLedger, RefetchReward,
     PayNewBlock, SnapshotOnly, EndPay, SavePayouts, SaveProcessed,
     SaveSnapshots, EndCycle, Start,
     Crash
<1> QED
  BY <1>1, <1>2, <1>3, <1>4 DEF World

(* The order is there from the beginning of a cycle to its end.            *)
LEMMA OrderNext ==
  ASSUME OrderInv, [Next]_vars
  PROVE  OrderInv'
<1> USE DEF world, ledger, redis, memory, locals
<1>1. CASE UNCHANGED vars
  BY <1>1 DEF vars, OrderInv
<1>2. CASE World
  BY <1>2 DEF World, Mine, ChainMoves, OrderInv
<1>3. CASE BeginCycle \/ Start
  BY <1>3 DEF BeginCycle, Start, OrderInv
<1>4. CASE NothingFound \/ EndCycle \/ Crash
  BY <1>4 DEF NothingFound, EndCycle, Crash, ProcessEnds, OrderInv
<1>5. CASE ReadFoundList \/ SkipFoundList \/ PublishFound \/ KeepBlock
  BY <1>5 DEF ReadFoundList, SkipFoundList, PublishFound, KeepBlock, OrderInv
<1>6. CASE DetectOrphan \/ RemoveOrphan \/ EndCheck \/ LoadLedger
  BY <1>6 DEF DetectOrphan, RemoveOrphan, EndCheck, LoadLedger, OrderInv
<1>7. CASE RefetchReward \/ PayNewBlock \/ SnapshotOnly \/ EndPay
  BY <1>7 DEF RefetchReward, PayNewBlock, SnapshotOnly, EndPay, OrderInv
<1>8. ASSUME NEW m \in Miner, SavePayouts(m) PROVE OrderInv'
  BY <1>8 DEF SavePayouts, OrderInv
<1>9. CASE SaveProcessed \/ SaveSnapshots
  BY <1>9 DEF SaveProcessed, SaveSnapshots, OrderInv
<1> QED
  BY <1>1, <1>2, <1>3, <1>4, <1>5, <1>6, <1>7, <1>8, <1>9 DEF Next, Daemon

(* A daemon that has no processed height has no payouts either, and loads  *)
(* both; one that has some has payouts, and loads neither.                 *)
LEMMA BookLoad ==
  ASSUME SavesWhole, TypeOK, OnceInv, BookInv, LoadLedger
  PROVE  BookInv'
<1>1. /\ LoadsPayouts = {redisPayouts}
      /\ Loads("processed", redisProcessed, {}) = {redisProcessed}
  BY DEF LoadsPayouts, Loads, SavesWhole
<1>2. pc' = "pay" /\ UNCHANGED <<redisPayouts, redisProcessed>>
  BY DEF LoadLedger, redis, ledger
<1>3. /\ processedPayouts = {} => processedPayouts' = redisProcessed
      /\ processedPayouts # {} => processedPayouts' = processedPayouts
      /\ minerPayouts = NoPayouts => minerPayouts' = redisPayouts
      /\ minerPayouts # NoPayouts => minerPayouts' = minerPayouts
  BY <1>1 DEF LoadLedger
<1>4. minerPayouts \in [Miner -> Seq(Payout)]
  BY DEF TypeOK
<1>5. CASE processedPayouts = {}
  <2>1. ASSUME NEW m \in Miner
        PROVE  minerPayouts[m] = << >>
    <3>1. /\ minerPayouts[m] \in Seq(Payout)
          /\ \A k \in DOMAIN minerPayouts[m] : FALSE
      BY <1>4, <1>5 DEF OnceInv, HeightsIn
    <3>2. Len(minerPayouts[m]) = 0
      <4>1. /\ Len(minerPayouts[m]) \in Nat
            /\ DOMAIN minerPayouts[m] = 1..Len(minerPayouts[m])
        BY <3>1, LenProperties
      <4>2. Len(minerPayouts[m]) > 0 => 1 \in DOMAIN minerPayouts[m]
        BY <4>1
      <4> QED
        BY <3>1, <4>1, <4>2
    <3> QED
      BY <3>1, <3>2, EmptySeq
  <2>2. minerPayouts = NoPayouts
    BY <1>4, <2>1 DEF NoPayouts
  <2>3. processedPayouts' = redisProcessed /\ minerPayouts' = redisPayouts
    BY <1>3, <1>5, <2>2
  <2> QED
    BY <1>2, <2>3 DEF BookInv, Agree, SaveInv
<1>6. CASE processedPayouts # {}
  <2>1. PICK h \in processedPayouts : PageIn(minerPayouts, h) \in Book!Settlements(h)
    BY <1>6 DEF BookInv
  <2>2. minerPayouts # NoPayouts
    <3> SUFFICES ASSUME minerPayouts = NoPayouts PROVE FALSE
      OBVIOUS
    <3>1. \A m \in Miner : EntriesIn(minerPayouts[m], m, h) = {}
      BY DEF NoPayouts, EntriesIn, Elements
    <3>2. PageIn(minerPayouts, h) = {}
      BY <3>1 DEF PageIn
    <3> QED
      BY <2>1, <3>2, SettlementsFull
  <2>3. UNCHANGED <<processedPayouts, minerPayouts>>
    BY <1>3, <1>6, <2>2
  <2> QED
    BY <1>2, <1>6, <2>3 DEF BookInv, Agree, SaveInv
<1> QED
  BY <1>5, <1>6

(* Paying a new height settles its page in memory, and no other.           *)
LEMMA BookPay ==
  ASSUME SavesWhole, TypeOK, OnceInv, ChainInv, OrderInv, BookInv, PayNewBlock
  PROVE  BookInv'
<1> DEFINE o == SnapshotOf(CurrentH)
           c == chain[CurrentH]
           x == Current.block
<1>1. /\ pc = "pay" /\ pc' = "pay"
      /\ UNCHANGED <<redisPayouts, redisProcessed>>
      /\ minerPayouts' = Credit(minerPayouts, x, c, o)
      /\ processedPayouts' = processedPayouts \cup {CurrentH}
      /\ CurrentH \notin processedPayouts
      /\ HasCoinbase(CurrentH)
      /\ i <= Len(foundBlocks)
  BY DEF PayNewBlock, Marked, redis, ledger
<1>2. minerPayouts \in [Miner -> Seq(Payout)]
  BY DEF TypeOK
<1>3. x \in Block /\ CurrentH \in Height /\ CurrentH = HeightOf[x]
  BY <1>1, CurrentType DEF FoundBlock, CurrentH
<1>4. /\ c \in Block \cup {Foreign} /\ Outputs[c] > 0
      /\ c \in Block => HeightOf[c] = CurrentH
  BY <1>1, <1>3, CoinbaseType DEF HasCoinbase, ChainInv
<1>5. o \in Order
  BY <1>1, <1>3 DEF SnapshotOf, OrderInv, TypeOK
<1>6. /\ redisProcessed \subseteq processedPayouts /\ Agree
      /\ \A m \in Miner : HeightsIn(minerPayouts[m], processedPayouts)
  BY <1>1 DEF OnceInv, BookInv
<1>7. \A m \in Miner : Appended(minerPayouts[m], minerPayouts'[m], x)
  BY PayAppends
<1> HIDE DEF o, c, x
<1>8. \A m \in Miner : EntriesIn(minerPayouts[m], m, CurrentH) = {}
  BY <1>1, <1>6 DEF HeightsIn, EntriesIn, Elements
<1>9. PageIn(minerPayouts', CurrentH) = Book!Settlement(x, c, o)
  BY <1>1, <1>2, <1>3, <1>4, <1>5, <1>8, CreditPage
<1>10. Book!Settlement(x, c, o) \in Book!Settlements(CurrentH)
  BY <1>3, <1>4, <1>5 DEF Book!Settlements
<1>11. ASSUME NEW h, h # CurrentH, NEW m \in Miner
       PROVE  EntriesIn(minerPayouts'[m], m, h) = EntriesIn(minerPayouts[m], m, h)
  <2>1. minerPayouts[m] \in Seq(Payout)
    BY <1>2
  <2> QED
    BY <1>3, <1>7, <1>11, <2>1, CreditOther
<1>12. ASSUME NEW h \in processedPayouts'
       PROVE  PageIn(minerPayouts', h) \in Book!Settlements(h)
  <2>1. CASE h = CurrentH
    BY <1>9, <1>10, <2>1
  <2>2. CASE h # CurrentH
    <3>1. h \in processedPayouts
      BY <1>1, <2>2
    <3>2. PageIn(minerPayouts', h) = PageIn(minerPayouts, h)
      BY <1>11, <2>2 DEF PageIn
    <3> QED
      BY <3>1, <3>2 DEF BookInv
  <2> QED
    BY <2>1, <2>2
<1>13. Agree'
  <2>1. ASSUME NEW h \in redisProcessed, NEW m \in Miner
        PROVE  EntriesIn(redisPayouts[m], m, h) = EntriesIn(minerPayouts'[m], m, h)
    <3>1. h # CurrentH
      BY <1>1, <1>6
    <3> QED
      BY <1>6, <1>11, <3>1 DEF Agree
  <2> QED
    BY <1>1, <2>1 DEF Agree
<1>14. \A h \in redisProcessed' : PageIn(redisPayouts', h) \in Book!Settlements(h)
  <2>1. UNCHANGED <<redisPayouts, redisProcessed>>
    BY <1>1
  <2> QED
    BY <2>1 DEF BookInv
<1>15. pc' = "pay"
  BY <1>1
<1> QED
  BY <1>12, <1>13, <1>14, <1>15 DEF BookInv, SaveInv

(* A SET of a payouts key changes no entry of a height that is stored.     *)
LEMMA BookSave ==
  ASSUME SavesWhole, TypeOK, BookInv, NEW x \in Miner, SavePayouts(x)
  PROVE  /\ BookInv'
         /\ \A h \in redisProcessed : PageIn(redisPayouts', h) = PageIn(redisPayouts, h)
<1>1. /\ pc = "save" /\ pc' = "save"
      /\ UNCHANGED <<redisProcessed, minerPayouts, processedPayouts>>
      /\ unsaved' = unsaved \ {x}
      /\ redisPayouts' = [redisPayouts EXCEPT ![x] = minerPayouts[x]]
  BY DEF SavePayouts, Stores, SavesWhole, memory
<1>2. redisPayouts \in [Miner -> Seq(Payout)]
  BY DEF TypeOK
<1>3. Agree
  BY <1>1 DEF BookInv
<1>4. ASSUME NEW h \in redisProcessed, NEW m \in Miner
      PROVE  EntriesIn(redisPayouts'[m], m, h) = EntriesIn(redisPayouts[m], m, h)
  <2>1. redisPayouts'[m] \in {redisPayouts[m], minerPayouts[m]}
    BY <1>1, <1>2
  <2> QED
    BY <1>3, <2>1 DEF Agree
<1>5. \A h \in redisProcessed : PageIn(redisPayouts', h) = PageIn(redisPayouts, h)
  BY <1>4 DEF PageIn
<1>6. Agree'
  BY <1>1, <1>3, <1>4 DEF Agree
<1>7. SaveInv'
  BY <1>1, <1>2 DEF BookInv, SaveInv
<1>8. /\ \A h \in redisProcessed' : PageIn(redisPayouts', h) \in Book!Settlements(h)
      /\ \A h \in processedPayouts' : PageIn(minerPayouts', h) \in Book!Settlements(h)
  BY <1>1, <1>5 DEF BookInv
<1> QED
  BY <1>5, <1>6, <1>7, <1>8 DEF BookInv

(* The SET of the processed heights settles the pages memory has settled.  *)
LEMMA BookMark ==
  ASSUME SavesWhole, TypeOK, BookInv, SaveProcessed
  PROVE  /\ BookInv'
         /\ UNCHANGED redisPayouts
         /\ \A h \in redisProcessed' : PageIn(redisPayouts, h) \in Book!Settlements(h)
<1>1. /\ pc = "save" /\ pc' = "snap" /\ unsaved = {}
      /\ UNCHANGED <<redisPayouts, minerPayouts, processedPayouts>>
      /\ redisProcessed' = processedPayouts
  BY DEF SaveProcessed, Stores, SavesWhole, memory
<1>2. redisPayouts = minerPayouts
  BY <1>1 DEF BookInv, SaveInv, TypeOK
<1>3. \A h \in redisProcessed' : PageIn(redisPayouts, h) \in Book!Settlements(h)
  BY <1>1, <1>2 DEF BookInv
<1>4. Agree' /\ SaveInv'
  BY <1>1, <1>2 DEF Agree, SaveInv
<1> QED
  BY <1>1, <1>3, <1>4 DEF BookInv

(* A save begins with the keys of the miners that have payouts.            *)
LEMMA BookBegin ==
  ASSUME TypeOK, AheadInv, BookInv, EndPay
  PROVE  BookInv'
<1>1. /\ pc = "pay" /\ pc' \in {"save", "reward"}
      /\ UNCHANGED <<redisPayouts, redisProcessed, minerPayouts, processedPayouts>>
      /\ pc' = "save" => unsaved' = {m \in Miner : minerPayouts[m] # << >>}
  BY DEF EndPay, redis, ledger, memory
<1>2. Ahead /\ Agree
  BY <1>1 DEF AheadInv, BookInv
<1>3. ASSUME NEW m \in Miner, minerPayouts[m] = << >>
      PROVE  redisPayouts[m] = << >>
  <2>1. redisPayouts[m] \in Seq(Payout) /\ Extends(redisPayouts[m], << >>)
    BY <1>2, <1>3 DEF Ahead, TypeOK
  <2>2. Len(redisPayouts[m]) = 0
    BY <2>1, EmptySeq, LenProperties DEF Extends
  <2> QED
    BY <2>1, <2>2, EmptySeq
<1>4. SaveInv'
  BY <1>1, <1>3 DEF SaveInv
<1> QED
  BY <1>1, <1>2, <1>4 DEF BookInv, Agree

(* The other steps leave every entry alone, in Redis and in memory.        *)
LEMMA BookFrame ==
  ASSUME BookInv,
         UNCHANGED <<redisPayouts, redisProcessed, minerPayouts, processedPayouts>>,
         (pc' = pc /\ unsaved' = unsaved) \/ pc' \notin {"pay", "save", "snap"}
  PROVE  BookInv'
<1>1. SaveInv'
  BY DEF SaveInv, BookInv
<1> QED
  BY <1>1 DEF BookInv, Agree

(* Every step keeps the pages, or settles some that were open.             *)
LEMMA BookStep ==
  ASSUME SavesWhole, TypeOK, ChainInv, OrderInv, OnceInv, AheadInv, BookInv,
         [Next]_vars
  PROVE  /\ BookInv'
         /\ \/ UNCHANGED <<redisPayouts, redisProcessed>>
            \/ \E x \in Miner : SavePayouts(x)
            \/ SaveProcessed
<1> DEFINE Kept == UNCHANGED <<redisPayouts, redisProcessed>>
<1>1. CASE UNCHANGED vars
  BY <1>1, BookFrame DEF vars, redis, ledger, memory, locals
<1>2. CASE World
  BY <1>2, BookFrame DEF World, Mine, ChainMoves, redis, ledger, memory, locals
<1>3. CASE LoadLedger
  BY <1>3, BookLoad DEF LoadLedger, redis, ledger
<1>4. CASE PayNewBlock
  BY <1>4, BookPay DEF PayNewBlock, redis, ledger
<1>5. ASSUME NEW x \in Miner, SavePayouts(x) PROVE BookInv'
  BY <1>5, BookSave
<1>6. CASE EndPay
  BY <1>6, BookBegin DEF EndPay, redis, ledger
<1>7. CASE SaveProcessed
  BY <1>7, BookMark
<1>8. CASE SnapshotOnly \/ RefetchReward
  BY <1>8, BookFrame DEF SnapshotOnly, RefetchReward, redis, ledger
<1>9. CASE BeginCycle \/ ReadFoundList \/ SkipFoundList \/ PublishFound
  <2>1. /\ pc' \in {"found", "publish", "load", "check"}
        /\ UNCHANGED <<redisPayouts, redisProcessed, minerPayouts, processedPayouts>>
    BY <1>9 DEF BeginCycle, ReadFoundList, SkipFoundList, PublishFound,
       redis, ledger, memory
  <2> QED
    BY <2>1, BookFrame
<1>10. CASE KeepBlock \/ DetectOrphan \/ RemoveOrphan \/ EndCheck
  <2>1. /\ pc' \in {"check", "lrem", "load"}
        /\ UNCHANGED <<redisPayouts, redisProcessed, minerPayouts, processedPayouts>>
    BY <1>10 DEF KeepBlock, DetectOrphan, RemoveOrphan, EndCheck, redis, ledger, memory
  <2> QED
    BY <2>1, BookFrame
<1>11. CASE NothingFound \/ EndCycle \/ Start \/ SaveSnapshots
  <2>1. /\ pc' \in {"idle", "reward"}
        /\ UNCHANGED <<redisPayouts, redisProcessed, minerPayouts, processedPayouts>>
    BY <1>11 DEF NothingFound, EndCycle, Start, SaveSnapshots, redis, ledger, memory
  <2> QED
    BY <2>1, BookFrame
<1>13. CASE Crash
  <2>1. /\ pc' = "down" /\ processedPayouts' = {}
        /\ UNCHANGED <<redisPayouts, redisProcessed>>
    BY <1>13 DEF Crash, ProcessEnds, redis, ledger
  <2> QED
    BY <2>1 DEF BookInv, SaveInv
<1> QED
  BY <1>1, <1>2, <1>3, <1>4, <1>5, <1>6, <1>7, <1>8, <1>9, <1>10, <1>11,
     <1>13 DEF Next, Daemon

(* The pages change only from open to settled.                             *)
LEMMA PagesSettle ==
  ASSUME SavesWhole, TypeOK, ChainInv, OrderInv, OnceInv, AheadInv, BookInv,
         [Next]_vars
  PROVE  \A h \in Height :
           PageOf(h)' # PageOf(h) =>
             PageOf(h) = Book!Open /\ PageOf(h)' \in Book!Settlements(h)
<1> SUFFICES ASSUME NEW h \in Height, PageOf(h)' # PageOf(h)
             PROVE  PageOf(h) = Book!Open /\ PageOf(h)' \in Book!Settlements(h)
  OBVIOUS
<1>1. /\ PageOf(h) = IF h \in redisProcessed THEN PageIn(redisPayouts, h) ELSE {}
      /\ PageOf(h)' = IF h \in redisProcessed' THEN PageIn(redisPayouts', h) ELSE {}
  BY DEF PageOf, PageIn, EntriesOf, EntriesIn
<1>2. CASE UNCHANGED <<redisPayouts, redisProcessed>>
  BY <1>1, <1>2
<1>3. ASSUME NEW x \in Miner, SavePayouts(x) PROVE FALSE
  <2>1. redisProcessed' = redisProcessed
    BY <1>3 DEF SavePayouts
  <2>2. h \in redisProcessed => PageIn(redisPayouts', h) = PageIn(redisPayouts, h)
    BY <1>3, BookSave
  <2> QED
    BY <1>1, <2>1, <2>2
<1>4. CASE SaveProcessed
  <2>1. /\ redisPayouts' = redisPayouts
        /\ \A g \in redisProcessed' : PageIn(redisPayouts, g) \in Book!Settlements(g)
    BY <1>4, BookMark
  <2>2. redisProcessed \subseteq redisProcessed'
    BY <1>4 DEF SaveProcessed, Stores, SavesWhole, OnceInv
  <2>3. h \in redisProcessed' /\ h \notin redisProcessed
    BY <1>1, <2>1, <2>2
  <2> QED
    BY <1>1, <2>1, <2>3 DEF Book!Open
<1> QED
  BY <1>2, <1>3, <1>4, BookStep

(* What the daemon does to the payouts, over all restarts outside a save,  *)
(* reorganisations and postponed payments, is what PayoutBook promises: it *)
(* settles the page of a height whole, from one coinbase along one order,  *)
(* and never touches it again.                                             *)
THEOREM ImplementsBook ==
  ASSUME SavesWhole
  PROVE  Spec => BookSpec
<1> DEFINE All == TypeOK /\ ChainInv /\ OrderInv /\ OnceInv /\ AheadInv /\ BookInv
<1>1. Init => All /\ Book!Init
  BY TypeInit, OnceInit, AheadInit, BookInit
<1>2. All /\ [Next]_vars => All'
  <2>1. HistoryReadable
    BY DEF SavesWhole, HistoryReadable
  <2> QED
    BY <2>1, TypeNext, ChainNext, OrderNext, OnceNext, AheadNext, BookStep
<1>3. All /\ [Next]_vars => [Book!Settle]_([h \in Height |-> PageOf(h)])
  <2> SUFFICES ASSUME All, [Next]_vars PROVE Book!Settle
    OBVIOUS
  <2>1. \A h \in Height :
          PageOf(h)' # PageOf(h) =>
            PageOf(h) = Book!Open /\ PageOf(h)' \in Book!Settlements(h)
    BY PagesSettle
  <2> QED
    BY <2>1 DEF Book!Settle
<1> HIDE DEF All
<1> QED
  BY <1>1, <1>2, <1>3, PTL DEF Spec, BookSpec, Book!Spec
-----------------------------------------------------------------------------
(***************************************************************************)
(* The daemon beside a rebuild.                                            *)
(***************************************************************************)

(* What the cycle of the daemon relies on.                                 *)
CycleInv == TypeOK /\ MinedInv /\ OrderInv

(* What a rebuild has in its own memory; the heights it counts as          *)
(* processed are always paid there, in its own order.                      *)
RebuildInv ==
  /\ rFoundBlocks \in Seq(Known)
  /\ rValid \in Seq(Known)
  /\ rPayouts \in [Miner -> Seq(Payout)]
  /\ rProcessed \subseteq Height
  /\ rI \in Nat \ {0}
  /\ rPc # "down" => rOrder \in Order
  /\ \A h \in rProcessed : PaidFrom(rPayouts, h, Order)

(* The daemon is inside the load only before it pays.                      *)
LoadInv ==
  /\ loading \in {"no", "keys", "gets"}
  /\ unread \subseteq Miner
  /\ loading # "no" => pc = "load" /\ foundBlocks # << >>
  /\ unread # {} => loading = "gets"

(* The processed heights that the daemon holds are paid in what it holds,  *)
(* and so are those of Redis, if it still has to read them.                *)
Sound ==
  /\ \A h \in processedPayouts : PaidFrom(minerPayouts, h, Order)
  /\ processedPayouts = {} /\ minerPayouts # NoPayouts =>
       \A h \in redisProcessed : PaidFrom(minerPayouts, h, Order)

(* Half of the load is done, and Redis is what it was when it began.       *)
Reading == loading = "keys" \/ unread # {}

HalfRead ==
  /\ "redis" \notin torn
  /\ processedPayouts \subseteq redisProcessed
  /\ loading = "keys" => minerPayouts = NoPayouts
  /\ loading = "gets" =>
       \A m \in Miner \ unread : minerPayouts[m] = redisPayouts[m]

(* What is not torn is paid, and a save that is not torn has stored the    *)
(* payouts of every miner it is through with.                              *)
UntornInv ==
  /\ "redis" \notin torn => \A h \in redisProcessed : PaidFrom(redisPayouts, h, Order)
  /\ "memory" \notin torn => IF Reading THEN HalfRead ELSE Sound
  /\ pc = "save" /\ "daemon" \notin torn => \A m \in Miner \ unsaved :
       minerPayouts[m] # << >> => redisPayouts[m] = minerPayouts[m]
  /\ rPc = "save" /\ "rebuild" \notin torn => \A m \in Miner \ rUnsaved :
       rPayouts[m] # << >> => redisPayouts[m] = rPayouts[m]

BothInv == CycleInv /\ RebuildInv /\ LoadInv /\ UntornInv

(* The payouts keys can be read and SET, and the SET of the processed      *)
(* heights does not fail.  Either process may die anywhere, in the middle  *)
(* of a save too, and every other GET and SET may fail.                    *)
RestReadable ==
  /\ "payouts" \notin GetMayFail \cup SetMayFail
  /\ "processed" \notin SetMayFail

(* At the beginning nothing is stored and nothing runs.                    *)
LEMMA BothInit == RebuildInit => BothInv
<1> SUFFICES ASSUME RebuildInit PROVE BothInv
  OBVIOUS
<1>1. CycleInv
  BY TypeInit, MinedInit DEF RebuildInit, CycleInv, OrderInv, Init
<1>2. NoPayouts \in [Miner -> Seq(Payout)]
  BY EmptySeq DEF NoPayouts
<1>3. RebuildInv
  BY <1>2, EmptySeq DEF RebuildInit, R!Init, R!MemoryEmpty, R!NoPayouts, NoPayouts,
     RebuildInv
<1>4. LoadInv
  BY DEF RebuildInit, LoadInv
<1>5. UntornInv
  BY DEF RebuildInit, Init, MemoryEmpty, R!Init, R!MemoryEmpty, UntornInv, Reading,
     Sound
<1> QED
  BY <1>1, <1>3, <1>4, <1>5 DEF BothInv

(* A height stays paid while p2pool finds blocks.                          *)
LEMMA PaidFromMined ==
  ASSUME mined \subseteq mined', NEW pay, NEW h, PaidFrom(pay, h, Order)
  PROVE  \E b \in mined', c \in mined' \cup {Foreign}, o \in Order :
           SettledBy(pay, h, b, c, o)
BY DEF PaidFrom

(* No height is paid by payouts nobody has: a coinbase that pays has an    *)
(* output, and an order has a miner.                                       *)
LEMMA NothingPaid ==
  ASSUME mined \subseteq Block, NEW h
  PROVE  ~PaidFrom(NoPayouts, h, Order)
<1> SUFFICES ASSUME PaidFrom(NoPayouts, h, Order) PROVE FALSE
  OBVIOUS
<1>1. PICK b \in mined, c \in mined \cup {Foreign}, o \in Order :
        SettledBy(NoPayouts, h, b, c, o)
  BY DEF PaidFrom
<1>2. c \in Block \cup {Foreign}
  BY <1>1
<1>3. 1 \in 1..MatchCount(c, o)
  <2>1. /\ o \in Seq(Miner) /\ o # << >>
        /\ Outputs[c] \in Nat /\ Outputs[c] > 0
    BY <1>1, <1>2, LedgerAssumption DEF SettledBy
  <2>2. Len(o) \in Nat /\ Len(o) > 0
    BY <2>1, EmptySeq, LenProperties
  <2> QED
    BY <2>1, <2>2 DEF MatchCount
<1>4. o[1] \in Miner
  BY <1>2, <1>3, MatchedMiner
<1>5. NoPayouts[o[1]] = << >>
  BY <1>4 DEF NoPayouts
<1>6. PayoutAt(b, c, 1) \in Elements(<< >>)
  BY <1>1, <1>3, <1>5 DEF SettledBy
<1> QED
  BY <1>6, EmptySeq DEF Elements

(* What a rebuild and a load store or read is of the right types.          *)
LEMMA StoredTypes ==
  ASSUME CycleInv,
         UNCHANGED <<world, redisSnapshots, memory, pc, locals>>,
         foundList' \in Seq(mined), redisFound' \in Seq(FoundBlock),
         redisPayouts' \in [Miner -> Seq(Payout)], redisProcessed' \subseteq Height
  PROVE  CycleInv'
<1> USE DEF world, memory, locals
<1>1. foundList' \in Seq(Block)
  BY SeqWider DEF CycleInv, TypeOK
<1>2. FlagsOK' /\ IndexOK'
  BY DEF CycleInv, TypeOK, FlagsOK, IndexOK
<1>3. TypeOK'
  BY <1>1, <1>2 DEF CycleInv, TypeOK
<1>4. MinedInv'
  BY DEF CycleInv, MinedInv, Known
<1> QED
  BY <1>3, <1>4 DEF CycleInv, OrderInv

(* The invariant speaks of the ledger only: a step that touches neither    *)
(* the stored nor the loaded payouts, and begins no save, keeps it.        *)
LEMMA UntornFrame ==
  ASSUME UntornInv, mined \subseteq mined',
         UNCHANGED <<redisPayouts, redisProcessed, processedPayouts, minerPayouts,
                     load, rPayouts, torn>>,
         pc' = "save" => pc = "save" /\ unsaved' = unsaved,
         rPc' = "save" => rPc = "save" /\ rUnsaved' = rUnsaved
  PROVE  UntornInv'
<1>1. "redis" \notin torn' =>
        \A h \in redisProcessed' : PaidFrom(redisPayouts, h, Order)'
  BY PaidFromMined DEF UntornInv, PaidFrom
<1>2. Sound => Sound'
  <2> SUFFICES ASSUME Sound PROVE Sound'
    OBVIOUS
  <2>1. \A h \in processedPayouts' : PaidFrom(minerPayouts, h, Order)'
    BY PaidFromMined DEF Sound, PaidFrom
  <2>2. processedPayouts' = {} /\ minerPayouts' # NoPayouts =>
          \A h \in redisProcessed' : PaidFrom(minerPayouts, h, Order)'
    BY PaidFromMined DEF Sound, PaidFrom
  <2> QED
    BY <2>1, <2>2 DEF Sound
<1>3. (HalfRead => HalfRead') /\ (Reading' <=> Reading)
  BY DEF HalfRead, Reading, load
<1>4. "memory" \notin torn' => IF Reading' THEN HalfRead' ELSE Sound'
  BY <1>2, <1>3 DEF UntornInv
<1>5. /\ pc' = "save" /\ "daemon" \notin torn' => \A m \in Miner \ unsaved' :
           minerPayouts'[m] # << >> => redisPayouts'[m] = minerPayouts'[m]
      /\ rPc' = "save" /\ "rebuild" \notin torn' => \A m \in Miner \ rUnsaved' :
           rPayouts'[m] # << >> => redisPayouts'[m] = rPayouts'[m]
  BY DEF UntornInv
<1> QED
  BY <1>1, <1>4, <1>5 DEF UntornInv

(* The rebuild is another process: what the daemon does leaves it alone.   *)
LEMMA RebuildFrame ==
  ASSUME RebuildInv, mined \subseteq mined', UNCHANGED process
  PROVE  RebuildInv'
<1> USE DEF process
<1>1. Known \subseteq Known'
  BY DEF Known
<1>2. rFoundBlocks' \in Seq(Known') /\ rValid' \in Seq(Known')
  BY <1>1, SeqWider DEF RebuildInv
<1>3. \A h \in rProcessed' : PaidFrom(rPayouts, h, Order)'
  BY PaidFromMined DEF RebuildInv, PaidFrom
<1> QED
  BY <1>2, <1>3 DEF RebuildInv

(* The steps of PayoutLedger keep what they rely on beside a rebuild too.  *)
LEMMA CycleStep ==
  ASSUME CycleInv, [Next]_vars
  PROVE  CycleInv'
BY TypeNext, MinedNext, OrderNext DEF CycleInv

(* p2pool and the main chain move beside both processes.                   *)
LEMMA WorldKeeps ==
  ASSUME BothInv, WorldMoves
  PROVE  BothInv'
<1>1. /\ World
      /\ mined \subseteq mined' /\ UNCHANGED <<process, load, torn>>
      /\ UNCHANGED <<redisPayouts, redisProcessed, processedPayouts, minerPayouts,
                     foundBlocks, pc, unsaved>>
  BY RebuildAssumption DEF WorldMoves, World, Mine, ChainMoves, redis, ledger,
     memory, locals
<1>2. CycleInv'
  BY <1>1, CycleStep DEF BothInv, Next
<1>3. RebuildInv'
  BY <1>1, RebuildFrame DEF BothInv
<1>4. LoadInv'
  BY <1>1 DEF BothInv, LoadInv, load
<1>5. UntornInv'
  BY <1>1, UntornFrame DEF BothInv, process
<1> QED
  BY <1>2, <1>3, <1>4, <1>5 DEF BothInv

(* Crediting a coinbase keeps what was paid and pays its height, in a      *)
(* cycle and in a rebuild alike.                                           *)
LEMMA RestCredit ==
  ASSUME mined \subseteq Block, NEW pay \in [Miner -> Seq(Payout)],
         NEW x \in mined, NEW c \in mined \cup {Foreign}, Outputs[c] > 0,
         NEW o \in Order, NEW P, \A h \in P : PaidFrom(pay, h, Order)
  PROVE  /\ Credit(pay, x, c, o) \in [Miner -> Seq(Payout)]
         /\ \A h \in P \cup {HeightOf[x]} : PaidFrom(Credit(pay, x, c, o), h, Order)
<1> DEFINE more == Credit(pay, x, c, o)
<1>1. x \in Block /\ c \in Block \cup {Foreign} /\ o \in Seq(Miner)
  BY LedgerAssumption
<1>2. more \in [Miner -> Seq(Payout)]
  BY <1>1, CreditType
<1>3. \A m \in Miner : Appended(pay[m], more[m], x)
  BY <1>1, CreditAppends
<1>4. SettledBy(more, HeightOf[x], x, c, o)
  BY <1>1, CreditSettles
<1> HIDE DEF more
<1>5. ASSUME NEW m \in Miner
      PROVE  Extends(pay[m], more[m])
  <2>1. pay[m] \in Seq(Payout)
    OBVIOUS
  <2> QED
    BY <1>3, <2>1, ExtendsReflexive, ExtendsAppend DEF Appended
<1>6. ASSUME NEW h \in P \cup {HeightOf[x]}
      PROVE  PaidFrom(more, h, Order)
  <2>1. CASE h = HeightOf[x]
    BY <1>4, <2>1 DEF PaidFrom
  <2>2. CASE h \in P
    BY <1>2, <1>5, <2>2, PaidFromGrows
  <2> QED
    BY <2>1, <2>2
<1> QED
  BY <1>2, <1>6 DEF more

(* The steps of a cycle between the load and the save.                     *)
LEMMA CycleKeeps ==
  ASSUME BothInv, DaemonCycle
  PROVE  BothInv'
<1> USE DEF world, redis, ledger, memory, locals
<1>1. Next /\ UNCHANGED <<load, process, torn>>
  BY DEF DaemonCycle, Next, Daemon
<1>2. CycleInv'
  BY <1>1, CycleStep DEF BothInv
<1>3. /\ pc' # "save" /\ loading = "no"
      /\ UNCHANGED <<mined, redisPayouts, redisProcessed>>
      /\ PayNewBlock \/ UNCHANGED <<processedPayouts, minerPayouts>>
  <2>1. CASE BeginCycle \/ ReadFoundList \/ SkipFoundList \/ PublishFound
    BY <2>1 DEF BeginCycle, ReadFoundList, SkipFoundList, PublishFound, BothInv,
       LoadInv
  <2>2. CASE KeepBlock \/ DetectOrphan \/ RemoveOrphan \/ EndCheck
    BY <2>2 DEF KeepBlock, DetectOrphan, RemoveOrphan, EndCheck, BothInv, LoadInv
  <2>3. CASE NothingFound \/ RefetchReward \/ PayNewBlock \/ SnapshotOnly
    BY <2>3 DEF NothingFound, RefetchReward, PayNewBlock, SnapshotOnly, BothInv,
       LoadInv
  <2>4. CASE SaveSnapshots \/ EndCycle \/ Start
    BY <2>4 DEF SaveSnapshots, EndCycle, Start, BothInv, LoadInv
  <2> QED
    BY <2>1, <2>2, <2>3, <2>4 DEF DaemonCycle
<1>4. RebuildInv'
  BY <1>1, <1>3, RebuildFrame DEF BothInv
<1>5. LoadInv'
  BY <1>1, <1>3 DEF BothInv, LoadInv, load
<1>6. CASE UNCHANGED <<processedPayouts, minerPayouts>>
  <2>1. UntornInv'
    BY <1>1, <1>3, <1>6, UntornFrame DEF BothInv, process
  <2> QED
    BY <1>2, <1>4, <1>5, <2>1 DEF BothInv
<1>7. CASE PayNewBlock
  <2>1. /\ mined \subseteq Block /\ minerPayouts \in [Miner -> Seq(Payout)]
        /\ pc = "pay" /\ i <= Len(foundBlocks) /\ HasCoinbase(CurrentH)
    BY <1>7 DEF BothInv, CycleInv, TypeOK, PayNewBlock
  <2>2. /\ Current.block \in mined /\ CurrentH \in Height
        /\ CurrentH = HeightOf[Current.block]
    BY <2>1, CurrentType, RewardKeeps DEF BothInv, CycleInv, Known, CurrentH
  <2>3. chain[CurrentH] \in mined \cup {Foreign} /\ Outputs[chain[CurrentH]] > 0
    BY <2>1, <2>2 DEF BothInv, CycleInv, MinedInv, HasCoinbase
  <2>4. SnapshotOf(CurrentH) \in Order
    BY <2>1, CurrentType DEF SnapshotOf, OrderInv, TypeOK, BothInv, CycleInv
  <2>5. /\ minerPayouts' = Credit(minerPayouts, Current.block, chain[CurrentH],
                                  SnapshotOf(CurrentH))
        /\ processedPayouts' = processedPayouts \cup {HeightOf[Current.block]}
    BY <1>7, <2>2 DEF PayNewBlock, Marked
  <2>6. ASSUME "memory" \notin torn'
        PROVE  Sound'
    <3>1. \A h \in processedPayouts : PaidFrom(minerPayouts, h, Order)
      BY <1>1, <1>3, <2>6 DEF BothInv, UntornInv, LoadInv, Reading, Sound
    <3>2. \A h \in processedPayouts' : PaidFrom(minerPayouts', h, Order)
      BY <2>1, <2>2, <2>3, <2>4, <2>5, <3>1, RestCredit
    <3>3. \A h \in processedPayouts' : PaidFrom(minerPayouts, h, Order)'
      BY <1>3, <3>2 DEF PaidFrom
    <3> QED
      BY <2>5, <3>3 DEF Sound
  <2>7. ~Reading'
    BY <1>1, <1>3 DEF BothInv, LoadInv, Reading, load
  <2>8. "redis" \notin torn' =>
          \A h \in redisProcessed' : PaidFrom(redisPayouts, h, Order)'
    BY <1>1, <1>3 DEF BothInv, UntornInv, PaidFrom
  <2>9. /\ pc' = "save" /\ "daemon" \notin torn' => \A m \in Miner \ unsaved' :
             minerPayouts'[m] # << >> => redisPayouts'[m] = minerPayouts'[m]
        /\ rPc' = "save" /\ "rebuild" \notin torn' => \A m \in Miner \ rUnsaved' :
             rPayouts'[m] # << >> => redisPayouts'[m] = rPayouts'[m]
    BY <1>1, <1>3 DEF BothInv, UntornInv, process
  <2>10. UntornInv'
    BY <2>6, <2>7, <2>8, <2>9 DEF UntornInv
  <2> QED
    BY <1>2, <1>4, <1>5, <2>10 DEF BothInv
<1> QED
  BY <1>3, <1>6, <1>7

(* The daemon begins a load: it takes the processed heights of an untorn   *)
(* Redis, or those that go with what it holds.                             *)
LEMMA LoadProcessedKeeps ==
  ASSUME BothInv, LoadProcessed
  PROVE  BothInv'
<1> USE DEF world, redis, ledger, memory, locals
<1>1. /\ pc = "load" /\ pc' = "load" /\ loading = "no" /\ loading' \in {"keys", "gets"}
      /\ foundBlocks # << >> /\ unread = {}
      /\ UNCHANGED <<chain, mined, foundList, redisFound, redisPayouts,
                     redisProcessed, redisSnapshots, foundBlocks, minerPayouts,
                     pplnsSnapshots, unread, process>>
      /\ UNCHANGED <<order, i, validBlocks, dirty, rewardsUpdated, unsaved>>
  BY DEF LoadProcessed, BothInv, LoadInv
<1>2. processedPayouts' \in {processedPayouts, redisProcessed, {}}
  BY DEF LoadProcessed, Loads
<1>3. CycleInv'
  <2>1. FlagsOK' /\ IndexOK'
    BY <1>1 DEF BothInv, CycleInv, TypeOK, FlagsOK, IndexOK
  <2>2. TypeOK'
    BY <1>1, <1>2, <2>1 DEF BothInv, CycleInv, TypeOK
  <2>3. MinedInv' /\ OrderInv'
    BY <1>1 DEF BothInv, CycleInv, MinedInv, Known, OrderInv
  <2> QED
    BY <2>2, <2>3 DEF CycleInv
<1>4. RebuildInv'
  BY <1>1, RebuildFrame DEF BothInv
<1>5. LoadInv'
  BY <1>1 DEF BothInv, LoadInv
<1>6. "redis" \notin torn' =>
        \A h \in redisProcessed' : PaidFrom(redisPayouts, h, Order)'
  BY <1>1 DEF LoadProcessed, BothInv, UntornInv, PaidFrom
<1>7. ASSUME "memory" \notin torn'
      PROVE  IF Reading' THEN HalfRead' ELSE Sound'
  <2>1. Sound /\ "memory" \notin torn
    BY <1>1, <1>7 DEF LoadProcessed, BothInv, UntornInv, Reading
  <2>2. CASE minerPayouts = NoPayouts
    <3>1. processedPayouts = {}
      BY <2>1, <2>2, NothingPaid DEF Sound, BothInv, CycleInv, TypeOK
    <3>2. "redis" \notin torn' /\ loading' = "keys"
      BY <1>7, <2>2, <3>1 DEF LoadProcessed
    <3>3. processedPayouts' \subseteq redisProcessed'
      BY <1>1, <1>2, <3>1
    <3> QED
      BY <1>1, <2>2, <3>2, <3>3 DEF Reading, HalfRead
  <2>3. CASE minerPayouts # NoPayouts
    <3>1. ~Reading'
      BY <1>1, <2>3 DEF LoadProcessed, Reading
    <3>2. \A h \in processedPayouts' : PaidFrom(minerPayouts, h, Order)
      BY <2>1, <2>3 DEF LoadProcessed, Loads, Sound
    <3>3. processedPayouts' = {} =>
            \A h \in redisProcessed : PaidFrom(minerPayouts, h, Order)
      BY <2>1, <2>3 DEF LoadProcessed, Sound
    <3>4. Sound'
      BY <1>1, <3>2, <3>3 DEF Sound, PaidFrom
    <3> QED
      BY <3>1, <3>4
  <2> QED
    BY <2>2, <2>3
<1>8. /\ pc' = "save" /\ "daemon" \notin torn' => \A m \in Miner \ unsaved' :
           minerPayouts'[m] # << >> => redisPayouts'[m] = minerPayouts'[m]
      /\ rPc' = "save" /\ "rebuild" \notin torn' => \A m \in Miner \ rUnsaved' :
           rPayouts'[m] # << >> => redisPayouts'[m] = rPayouts'[m]
  BY <1>1 DEF BothInv, UntornInv, process, LoadProcessed
<1>9. UntornInv'
  BY <1>6, <1>7, <1>8 DEF UntornInv
<1> QED
  BY <1>3, <1>4, <1>5, <1>9 DEF BothInv

(* When every key is read, the daemon holds what Redis does.               *)
LEMMA ReadSound ==
  ASSUME CycleInv, "redis" \notin torn,
         \A h \in redisProcessed : PaidFrom(redisPayouts, h, Order),
         processedPayouts \subseteq redisProcessed,
         \A m \in Miner : minerPayouts[m] = redisPayouts[m]
  PROVE  Sound
<1>1. minerPayouts = redisPayouts
  BY DEF CycleInv, TypeOK
<1> QED
  BY <1>1 DEF Sound

(* KEYS names the payouts keys there are: the others are read as absent.   *)
LEMMA ListKeeps ==
  ASSUME RestReadable, BothInv, ListPayouts
  PROVE  BothInv'
<1> USE DEF vars, world, redis, ledger, memory, locals
<1>1. /\ loading = "keys" /\ loading' = "gets" /\ pc = "load"
      /\ unread' = {m \in Miner : redisPayouts[m] # << >>}
      /\ UNCHANGED <<vars, process, torn>>
  BY DEF ListPayouts, Loads, RestReadable, BothInv, LoadInv
<1>2. CycleInv'
  BY <1>1, CycleStep DEF BothInv
<1>3. RebuildInv'
  BY <1>1, RebuildFrame DEF BothInv
<1>4. LoadInv'
  BY <1>1 DEF BothInv, LoadInv
<1>5. "redis" \notin torn' =>
        \A h \in redisProcessed' : PaidFrom(redisPayouts, h, Order)'
  BY <1>1 DEF BothInv, UntornInv, PaidFrom
<1>6. ASSUME "memory" \notin torn'
      PROVE  IF Reading' THEN HalfRead' ELSE Sound'
  <2>1. HalfRead
    BY <1>1, <1>6 DEF BothInv, UntornInv, Reading
  <2>2. \A m \in Miner \ unread' : minerPayouts[m] = redisPayouts[m]
    BY <1>1, <2>1 DEF HalfRead, NoPayouts
  <2>3. HalfRead'
    BY <1>1, <2>1, <2>2 DEF HalfRead
  <2>4. CASE ~Reading'
    <3>1. unread' = {}
      BY <2>4 DEF Reading
    <3>2. Sound
      BY <2>1, <2>2, <3>1, ReadSound DEF BothInv, UntornInv, HalfRead
    <3>3. Sound'
      BY <1>1, <3>2 DEF Sound, PaidFrom
    <3> QED
      BY <2>4, <3>3
  <2> QED
    BY <2>3, <2>4
<1>7. /\ pc' = "save" /\ "daemon" \notin torn' => \A m \in Miner \ unsaved' :
           minerPayouts'[m] # << >> => redisPayouts'[m] = minerPayouts'[m]
      /\ rPc' = "save" /\ "rebuild" \notin torn' => \A m \in Miner \ rUnsaved' :
           rPayouts'[m] # << >> => redisPayouts'[m] = rPayouts'[m]
  BY <1>1 DEF BothInv, UntornInv, process
<1>8. UntornInv'
  BY <1>5, <1>6, <1>7 DEF UntornInv
<1> QED
  BY <1>2, <1>3, <1>4, <1>8 DEF BothInv

(* One more key is read.                                                   *)
LEMMA LoadPayoutsKeeps ==
  ASSUME RestReadable, BothInv, NEW x \in Miner, LoadPayouts(x)
  PROVE  BothInv'
<1> USE DEF world, redis, ledger, memory, locals
<1>1. /\ x \in unread /\ unread' = unread \ {x}
      /\ loading = "gets" /\ loading' = "gets" /\ pc = "load" /\ pc' = "load"
      /\ foundBlocks # << >>
      /\ minerPayouts' = [minerPayouts EXCEPT ![x] = redisPayouts[x]]
      /\ UNCHANGED <<chain, mined, foundList, redisFound, redisPayouts,
                     redisProcessed, redisSnapshots, foundBlocks, processedPayouts,
                     pplnsSnapshots, process, torn>>
      /\ UNCHANGED <<order, i, validBlocks, dirty, rewardsUpdated, unsaved>>
  BY DEF LoadPayouts, Loads, RestReadable, BothInv, LoadInv
<1>2. /\ redisPayouts \in [Miner -> Seq(Payout)]
      /\ minerPayouts \in [Miner -> Seq(Payout)]
  BY DEF BothInv, CycleInv, TypeOK
<1>3. /\ minerPayouts' \in [Miner -> Seq(Payout)]
      /\ \A m \in Miner : minerPayouts'[m] = IF m = x THEN redisPayouts[m]
                                                      ELSE minerPayouts[m]
  BY <1>1, <1>2
<1>4. CycleInv'
  <2>1. FlagsOK' /\ IndexOK'
    BY <1>1 DEF BothInv, CycleInv, TypeOK, FlagsOK, IndexOK
  <2>2. TypeOK'
    BY <1>1, <1>3, <2>1 DEF BothInv, CycleInv, TypeOK
  <2>3. MinedInv' /\ OrderInv'
    BY <1>1 DEF BothInv, CycleInv, MinedInv, Known, OrderInv
  <2> QED
    BY <2>2, <2>3 DEF CycleInv
<1>5. RebuildInv'
  BY <1>1, RebuildFrame DEF BothInv
<1>6. LoadInv'
  BY <1>1 DEF BothInv, LoadInv
<1>7. "redis" \notin torn' =>
        \A h \in redisProcessed' : PaidFrom(redisPayouts, h, Order)'
  BY <1>1 DEF BothInv, UntornInv, PaidFrom
<1>8. ASSUME "memory" \notin torn'
      PROVE  IF Reading' THEN HalfRead' ELSE Sound'
  <2>1. HalfRead
    BY <1>1, <1>8 DEF BothInv, UntornInv, Reading
  <2>2. \A m \in Miner \ unread' : minerPayouts'[m] = redisPayouts[m]
    BY <1>1, <1>3, <2>1 DEF HalfRead
  <2>3. HalfRead'
    BY <1>1, <2>1, <2>2 DEF HalfRead
  <2>4. CASE ~Reading'
    <3>1. unread' = {}
      BY <2>4 DEF Reading
    <3>2. minerPayouts' = redisPayouts
      BY <1>2, <1>3, <2>2, <3>1
    <3>3. \A h \in redisProcessed : PaidFrom(redisPayouts, h, Order)
      BY <2>1 DEF HalfRead, BothInv, UntornInv
    <3>4. processedPayouts' \subseteq redisProcessed
      BY <1>1, <2>1 DEF HalfRead
    <3>5. \A h \in redisProcessed : PaidFrom(minerPayouts', h, Order)
      BY <3>2, <3>3
    <3>6. \A h \in redisProcessed : PaidFrom(minerPayouts, h, Order)'
      BY <1>1, <3>5 DEF PaidFrom
    <3>7. Sound'
      BY <1>1, <3>4, <3>6 DEF Sound
    <3> QED
      BY <2>4, <3>7
  <2> QED
    BY <2>3, <2>4
<1>9. /\ pc' = "save" /\ "daemon" \notin torn' => \A m \in Miner \ unsaved' :
           minerPayouts'[m] # << >> => redisPayouts'[m] = minerPayouts'[m]
      /\ rPc' = "save" /\ "rebuild" \notin torn' => \A m \in Miner \ rUnsaved' :
           rPayouts'[m] # << >> => redisPayouts'[m] = rPayouts'[m]
  BY <1>1 DEF BothInv, UntornInv, process
<1>10. UntornInv'
  BY <1>7, <1>8, <1>9 DEF UntornInv
<1> QED
  BY <1>4, <1>5, <1>6, <1>10 DEF BothInv

(* The load ends with the recorded orders.                                 *)
LEMMA LoadSnapshotsKeeps ==
  ASSUME BothInv, LoadSnapshots
  PROVE  BothInv'
<1> USE DEF world, redis, ledger, memory, locals
<1>1. /\ loading = "gets" /\ loading' = "no" /\ unread = {} /\ unread' = {}
      /\ pc = "load" /\ pc' = "pay" /\ i' = 1 /\ dirty' = FALSE /\ rewardsUpdated' = FALSE
      /\ UNCHANGED <<chain, mined, foundList, redisFound, redisPayouts,
                     redisProcessed, redisSnapshots, foundBlocks, processedPayouts,
                     minerPayouts, order, validBlocks, unsaved, process, torn>>
  BY DEF LoadSnapshots, BothInv, LoadInv
<1>2. CycleInv'
  <2>1. FlagsOK' /\ IndexOK'
    BY <1>1 DEF BothInv, CycleInv, TypeOK, FlagsOK, IndexOK
  <2>2. pplnsSnapshots' \in [Height -> Order \cup {NoOrder}]
    BY DEF LoadSnapshots, Loads, NoSnapshot, BothInv, CycleInv, TypeOK
  <2>3. TypeOK'
    BY <1>1, <2>1, <2>2 DEF BothInv, CycleInv, TypeOK, Point
  <2>4. MinedInv' /\ OrderInv'
    BY <1>1 DEF BothInv, CycleInv, MinedInv, Known, OrderInv
  <2> QED
    BY <2>3, <2>4 DEF CycleInv
<1>3. RebuildInv'
  BY <1>1, RebuildFrame DEF BothInv
<1>4. LoadInv'
  BY <1>1 DEF BothInv, LoadInv
<1>5. "redis" \notin torn' =>
        \A h \in redisProcessed' : PaidFrom(redisPayouts, h, Order)'
  BY <1>1 DEF BothInv, UntornInv, PaidFrom
<1>6. ASSUME "memory" \notin torn'
      PROVE  Sound' /\ ~Reading'
  <2>1. Sound
    BY <1>1, <1>6 DEF BothInv, UntornInv, Reading
  <2> QED
    BY <1>1, <2>1 DEF Sound, PaidFrom, Reading
<1>7. /\ pc' = "save" /\ "daemon" \notin torn' => \A m \in Miner \ unsaved' :
           minerPayouts'[m] # << >> => redisPayouts'[m] = minerPayouts'[m]
      /\ rPc' = "save" /\ "rebuild" \notin torn' => \A m \in Miner \ rUnsaved' :
           rPayouts'[m] # << >> => redisPayouts'[m] = rPayouts'[m]
  BY <1>1 DEF BothInv, UntornInv, process
<1>8. UntornInv'
  BY <1>5, <1>6, <1>7 DEF UntornInv
<1> QED
  BY <1>2, <1>3, <1>4, <1>8 DEF BothInv

(* When every key is saved, what is processed in memory is paid in Redis:  *)
(* of the daemon and of a rebuild alike.                                   *)
LEMMA RestSaved ==
  ASSUME mined \subseteq Block, redisPayouts \in [Miner -> Seq(Payout)],
         NEW pay \in [Miner -> Seq(Payout)],
         \A m \in Miner : pay[m] # << >> => redisPayouts[m] = pay[m],
         NEW P, \A h \in P : PaidFrom(pay, h, Order)
  PROVE  \A h \in P : PaidFrom(redisPayouts, h, Order)
<1>1. ASSUME NEW m \in Miner PROVE Extends(pay[m], redisPayouts[m])
  <2>1. redisPayouts[m] \in Seq(Payout) /\ pay[m] \in Seq(Payout)
    OBVIOUS
  <2> QED
    BY <2>1, ExtendsReflexive, ExtendsEmpty
<1> QED
  BY <1>1, PaidFromGrows

(* A save goes through the keys of the miners that have payouts.           *)
LEMMA EndPayKeeps ==
  ASSUME BothInv, DaemonEndPay
  PROVE  BothInv'
<1> USE DEF world, redis, ledger, memory
<1>1. /\ pc = "pay" /\ pc' \in {"save", "reward"} /\ loading = "no" /\ unread = {}
      /\ UNCHANGED <<mined, redisPayouts, redisProcessed, minerPayouts,
                     processedPayouts, foundBlocks, load, process>>
      /\ pc' = "save" => unsaved' = {m \in Miner : minerPayouts[m] # << >>}
      /\ Next /\ torn' = torn \ {"daemon"}
  BY DEF DaemonEndPay, EndPay, BothInv, LoadInv, Next, Daemon
<1>2. CycleInv'
  BY <1>1, CycleStep DEF BothInv
<1>3. RebuildInv'
  BY <1>1, RebuildFrame DEF BothInv
<1>4. LoadInv'
  BY <1>1 DEF BothInv, LoadInv, load
<1>5. "redis" \notin torn' =>
        \A h \in redisProcessed' : PaidFrom(redisPayouts, h, Order)'
  BY <1>1 DEF BothInv, UntornInv, PaidFrom
<1>6. ASSUME "memory" \notin torn'
      PROVE  Sound' /\ ~Reading'
  <2>1. Sound
    BY <1>1, <1>6 DEF BothInv, UntornInv, Reading
  <2> QED
    BY <1>1, <2>1 DEF Sound, PaidFrom, Reading, load
<1>7. /\ pc' = "save" /\ "daemon" \notin torn' => \A m \in Miner \ unsaved' :
           minerPayouts'[m] # << >> => redisPayouts'[m] = minerPayouts'[m]
      /\ rPc' = "save" /\ "rebuild" \notin torn' => \A m \in Miner \ rUnsaved' :
           rPayouts'[m] # << >> => redisPayouts'[m] = rPayouts'[m]
  BY <1>1 DEF BothInv, UntornInv, process
<1>8. UntornInv'
  BY <1>5, <1>6, <1>7 DEF UntornInv
<1> QED
  BY <1>2, <1>3, <1>4, <1>8 DEF BothInv

(* The SET of a payouts key of the daemon: what is stored is torn until    *)
(* the save ends, and so is the save of a rebuild that is under way.       *)
LEMMA DaemonSaveKeeps ==
  ASSUME RestReadable, BothInv, DaemonSave
  PROVE  BothInv'
<1> USE DEF world, redis, ledger, memory
<1>1. PICK x \in Miner : SavePayouts(x)
  BY DEF DaemonSave
<1>2. /\ pc = "save" /\ pc' = "save" /\ loading = "no" /\ unread = {}
      /\ redisPayouts' = [redisPayouts EXCEPT ![x] = minerPayouts[x]]
      /\ unsaved' = unsaved \ {x}
      /\ UNCHANGED <<mined, redisProcessed, minerPayouts, processedPayouts,
                     foundBlocks, load, process>>
      /\ Next
      /\ torn' = torn \cup {"redis"} \cup (IF rPc = "save" THEN {"rebuild"} ELSE {})
  BY <1>1 DEF DaemonSave, DaemonStores, SavePayouts, Stores, RestReadable, BothInv,
     LoadInv, Next, Daemon
<1>3. CycleInv'
  BY <1>2, CycleStep DEF BothInv
<1>4. RebuildInv'
  BY <1>2, RebuildFrame DEF BothInv
<1>5. LoadInv'
  BY <1>2 DEF BothInv, LoadInv, load
<1>6. ASSUME "memory" \notin torn'
      PROVE  Sound' /\ ~Reading'
  <2>1. Sound
    BY <1>2, <1>6 DEF BothInv, UntornInv, Reading
  <2> QED
    BY <1>2, <2>1 DEF Sound, PaidFrom, Reading, load
<1>7. ASSUME "daemon" \notin torn', NEW m \in Miner \ unsaved', minerPayouts'[m] # << >>
      PROVE  redisPayouts'[m] = minerPayouts'[m]
  <2>1. redisPayouts \in [Miner -> Seq(Payout)]
    BY DEF BothInv, CycleInv, TypeOK
  <2>2. m = x \/ redisPayouts[m] = minerPayouts[m]
    BY <1>2, <1>7 DEF BothInv, UntornInv
  <2> QED
    BY <1>2, <2>1, <2>2
<1>8. rPc' = "save" => "rebuild" \in torn'
  BY <1>2 DEF process
<1>9. "redis" \in torn'
  BY <1>2
<1>10. UntornInv'
  BY <1>6, <1>7, <1>8, <1>9 DEF UntornInv
<1> QED
  BY <1>3, <1>4, <1>5, <1>10 DEF BothInv

(* The SET of the processed heights ends the save of the daemon.           *)
LEMMA DaemonMarkKeeps ==
  ASSUME RestReadable, BothInv, DaemonMark
  PROVE  BothInv'
<1> USE DEF world, redis, ledger, memory
<1>1. /\ pc = "save" /\ pc' = "snap" /\ loading = "no" /\ unread = {} /\ unsaved = {}
      /\ redisProcessed' = processedPayouts
      /\ UNCHANGED <<mined, redisPayouts, minerPayouts, processedPayouts,
                     foundBlocks, load, process>>
      /\ Next
      /\ torn' = DaemonStored
  BY DEF DaemonMark, SaveProcessed, Stores, RestReadable, BothInv, LoadInv, Next,
     Daemon
<1>2. CycleInv'
  BY <1>1, CycleStep DEF BothInv
<1>3. RebuildInv'
  BY <1>1, RebuildFrame DEF BothInv
<1>4. LoadInv'
  BY <1>1 DEF BothInv, LoadInv, load
<1>5. "memory" \notin torn => Sound
  BY <1>1 DEF BothInv, UntornInv, Reading
<1>6. ASSUME "redis" \notin torn'
      PROVE  \A h \in redisProcessed' : PaidFrom(redisPayouts, h, Order)'
  <2>1. "daemon" \notin torn /\ "memory" \notin torn
    BY <1>1, <1>6 DEF DaemonStored
  <2>2. \A m \in Miner : minerPayouts[m] # << >> => redisPayouts[m] = minerPayouts[m]
    BY <1>1, <2>1 DEF BothInv, UntornInv
  <2>3. \A h \in processedPayouts : PaidFrom(minerPayouts, h, Order)
    BY <1>5, <2>1 DEF Sound
  <2>4. /\ mined \subseteq Block /\ redisPayouts \in [Miner -> Seq(Payout)]
        /\ minerPayouts \in [Miner -> Seq(Payout)]
    BY DEF BothInv, CycleInv, TypeOK
  <2>5. \A h \in processedPayouts : PaidFrom(redisPayouts, h, Order)
    BY <2>2, <2>3, <2>4, RestSaved
  <2> QED
    BY <1>1, <2>5 DEF PaidFrom
<1>7. ASSUME "memory" \notin torn'
      PROVE  Sound' /\ ~Reading'
  <2>1. Sound
    BY <1>1, <1>5, <1>7 DEF DaemonStored
  <2> QED
    BY <1>1, <2>1 DEF Sound, PaidFrom, Reading, load
<1>8. rPc' = "save" /\ "rebuild" \notin torn' => \A m \in Miner \ rUnsaved' :
        rPayouts'[m] # << >> => redisPayouts'[m] = rPayouts'[m]
  BY <1>1 DEF BothInv, UntornInv, process, DaemonStored
<1>9. UntornInv'
  BY <1>1, <1>6, <1>7, <1>8 DEF UntornInv
<1> QED
  BY <1>2, <1>3, <1>4, <1>9 DEF BothInv

(* A daemon that dies leaves Redis as it is, torn or not.                  *)
LEMMA DaemonDiesKeeps ==
  ASSUME BothInv, DaemonDies
  PROVE  BothInv'
<1> USE DEF world, redis, ledger
<1>1. /\ pc' = "down" /\ loading' = "no" /\ unread' = {}
      /\ UNCHANGED <<mined, redisPayouts, redisProcessed, process>>
      /\ minerPayouts' = NoPayouts /\ processedPayouts' = {}
      /\ Next
      /\ torn' = torn \ {"daemon", "memory"}
  BY DEF DaemonDies, Crash, ProcessEnds, Next
<1>2. CycleInv'
  BY <1>1, CycleStep DEF BothInv
<1>3. RebuildInv'
  BY <1>1, RebuildFrame DEF BothInv
<1>4. LoadInv'
  BY <1>1 DEF LoadInv
<1>5. "redis" \notin torn' =>
        \A h \in redisProcessed' : PaidFrom(redisPayouts, h, Order)'
  BY <1>1 DEF BothInv, UntornInv, PaidFrom
<1>6. Sound' /\ ~Reading'
  BY <1>1 DEF Sound, Reading
<1>7. rPc' = "save" /\ "rebuild" \notin torn' => \A m \in Miner \ rUnsaved' :
        rPayouts'[m] # << >> => redisPayouts'[m] = rPayouts'[m]
  BY <1>1 DEF BothInv, UntornInv, process
<1>8. UntornInv'
  BY <1>1, <1>5, <1>6, <1>7 DEF UntornInv
<1> QED
  BY <1>2, <1>3, <1>4, <1>8 DEF BothInv

(* What a rebuild does in its own memory.                                  *)
LEMMA RebuildOwn ==
  ASSUME BothInv,
         UNCHANGED <<world, redisSnapshots, memory, pc, locals, load>>,
         UNCHANGED <<redisPayouts, redisProcessed>>,
         foundList' \in Seq(mined), redisFound' \in Seq(FoundBlock),
         RebuildInv',
         \/ rPc' # "save" /\ torn' \in {torn, torn \ {"rebuild"}}
         \/ /\ torn' = torn \ {"rebuild"} /\ UNCHANGED rPayouts
            /\ rUnsaved' = {m \in Miner : rPayouts[m] # << >>}
  PROVE  BothInv'
<1> USE DEF world, memory, locals, load
<1>1. CycleInv'
  BY StoredTypes DEF BothInv, CycleInv, TypeOK
<1>2. LoadInv'
  BY DEF BothInv, LoadInv
<1>3. "redis" \notin torn' =>
        \A h \in redisProcessed' : PaidFrom(redisPayouts, h, Order)'
  BY DEF BothInv, UntornInv, PaidFrom
<1>4. (Sound => Sound') /\ (HalfRead => HalfRead') /\ (Reading' <=> Reading)
  <2>1. ("redis" \in torn') <=> ("redis" \in torn)
    OBVIOUS
  <2> QED
    BY <2>1 DEF Sound, HalfRead, Reading, PaidFrom
<1>5. "memory" \notin torn' => IF Reading' THEN HalfRead' ELSE Sound'
  BY <1>4 DEF BothInv, UntornInv
<1>6. /\ pc' = "save" /\ "daemon" \notin torn' => \A m \in Miner \ unsaved' :
           minerPayouts'[m] # << >> => redisPayouts'[m] = minerPayouts'[m]
      /\ rPc' = "save" /\ "rebuild" \notin torn' => \A m \in Miner \ rUnsaved' :
           rPayouts'[m] # << >> => redisPayouts'[m] = rPayouts'[m]
  BY DEF BothInv, UntornInv
<1>7. UntornInv'
  BY <1>3, <1>5, <1>6 DEF UntornInv
<1> QED
  BY <1>1, <1>2, <1>7 DEF BothInv

(* The entry that a rebuild is at, inside its two loops.                   *)
LEMMA RebuildCurrent ==
  ASSUME RebuildInv, rI <= Len(rFoundBlocks)
  PROVE  R!Current \in Known
<1>1. rI \in 1..Len(rFoundBlocks)
  BY LenProperties DEF RebuildInv
<1> QED
  BY <1>1, ElementOfSeq DEF RebuildInv, R!Current

(* loadFoundBlocks in the process that rebuilds.                           *)
LEMMA RebuildFindsKeeps ==
  ASSUME BothInv, RebuildFinds
  PROVE  BothInv'
<1> USE DEF R!world, R!ledger, R!redis, R!memory, R!locals
<1>1. /\ UNCHANGED <<world, redisSnapshots, memory, pc, locals, load, torn>>
      /\ UNCHANGED <<redisPayouts, redisProcessed, rPayouts, rProcessed, rOrder>>
      /\ rPc # "down" /\ rPc' \notin {"down", "save"}
  BY DEF RebuildFinds, world, R!ReadFoundList, R!SkipFoundList, R!PublishFound,
     R!KeepBlock, R!DetectOrphan, R!RemoveOrphan, R!EndCheck
<1>2. mined' = mined /\ Known' = Known
  BY <1>1 DEF world, Known
<1>3. /\ rFoundBlocks \in Seq(Known) /\ rValid \in Seq(Known)
      /\ foundList \in Seq(mined) /\ redisFound \in Seq(FoundBlock)
      /\ Known \subseteq FoundBlock
  BY DEF BothInv, RebuildInv, CycleInv, MinedInv, TypeOK, Known, FoundBlock
<1>4. /\ foundList' \in Seq(mined) /\ redisFound' \in Seq(FoundBlock)
      /\ rFoundBlocks' \in Seq(Known) /\ rValid' \in Seq(Known)
      /\ rI' \in Nat \ {0}
  <2>1. CASE R!ReadFoundList
    BY <1>3, <2>1, ParseKeeps DEF R!ReadFoundList, Known, BothInv, RebuildInv
  <2>2. CASE R!SkipFoundList \/ R!DetectOrphan
    BY <1>3, <2>2 DEF R!SkipFoundList, R!DetectOrphan, BothInv, RebuildInv
  <2>3. CASE R!PublishFound
    <3>1. rFoundBlocks \in Seq(FoundBlock) /\ << >> \in Seq(Known)
      BY <1>3, SeqWider, EmptySeq
    <3>2. redisFound' \in {redisFound, rFoundBlocks}
      BY <2>3 DEF R!PublishFound, R!Stores
    <3> QED
      BY <1>3, <2>3, <3>1, <3>2 DEF R!PublishFound
  <2>4. CASE R!KeepBlock
    <3>1. R!Current \in Known
      BY <2>4, RebuildCurrent DEF R!KeepBlock, BothInv
    <3>2. rValid' \in Seq(Known)
      BY <1>3, <2>4, <3>1, AppendProperties DEF R!KeepBlock
    <3> QED
      BY <1>3, <2>4, <3>2 DEF R!KeepBlock, BothInv, RebuildInv
  <2>5. CASE R!RemoveOrphan
    <3>1. foundList' \in {foundList, Lrem(foundList, R!Current.block)}
      BY <2>5 DEF R!RemoveOrphan, R!Stores, R!Lrem, Lrem
    <3>2. foundList' \in Seq(mined)
      BY <1>3, <3>1, LremKeeps
    <3> QED
      BY <1>3, <2>5, <3>2 DEF R!RemoveOrphan, BothInv, RebuildInv
  <2>6. CASE R!EndCheck
    <3>1. rValid \in Seq(FoundBlock)
      BY <1>3, SeqWider
    <3>2. redisFound' \in {redisFound, rValid} /\ rFoundBlocks' \in {rFoundBlocks, rValid}
      BY <2>6 DEF R!EndCheck, R!Stores
    <3> QED
      BY <1>3, <2>6, <3>1, <3>2 DEF R!EndCheck, BothInv, RebuildInv
  <2> QED
    BY <2>1, <2>2, <2>3, <2>4, <2>5, <2>6 DEF RebuildFinds
<1>5. RebuildInv'
  BY <1>1, <1>2, <1>4 DEF BothInv, RebuildInv, PaidFrom
<1> QED
  BY <1>1, <1>4, <1>5, RebuildOwn

(* A rebuild starts with nothing, and clears what it has.                  *)
LEMMA RebuildStartKeeps ==
  ASSUME BothInv, StartRebuild \/ RebuildClear
  PROVE  BothInv'
<1> USE DEF vars, world, ledger, redis, memory, locals
<1>1. /\ UNCHANGED <<vars, load, torn, rFoundBlocks, rValid>>
      /\ rPc' \in {"found", "pay"}
      /\ rOrder' \in Order /\ rI' \in Nat \ {0}
      /\ \/ UNCHANGED <<rPayouts, rProcessed>>
         \/ rPayouts' = NoPayouts /\ rProcessed' = {}
  BY DEF StartRebuild, RebuildClear, BothInv, RebuildInv
<1>2. NoPayouts \in [Miner -> Seq(Payout)]
  BY EmptySeq DEF NoPayouts
<1>3. RebuildInv'
  BY <1>1, <1>2 DEF BothInv, RebuildInv, Known, PaidFrom
<1>4. foundList' \in Seq(mined) /\ redisFound' \in Seq(FoundBlock)
  BY <1>1 DEF BothInv, CycleInv, MinedInv, TypeOK
<1> QED
  BY <1>1, <1>3, <1>4, RebuildOwn

(* RebuildAllPayouts' payment of a block in the current order.             *)
LEMMA RebuildBlockKeeps ==
  ASSUME BothInv, RebuildBlock
  PROVE  BothInv'
<1> USE DEF vars, world, ledger, redis, memory, locals
<1>1. /\ UNCHANGED <<vars, load, torn, rFoundBlocks, rValid, rOrder, rPc>>
      /\ rPc = "pay" /\ rI <= Len(rFoundBlocks) /\ rI' = rI + 1
  BY DEF RebuildBlock
<1>2. /\ rOrder \in Order /\ rI' \in Nat \ {0}
      /\ rPayouts \in [Miner -> Seq(Payout)] /\ mined \subseteq Block
      /\ rProcessed \subseteq Height
      /\ \A h \in rProcessed : PaidFrom(rPayouts, h, Order)
  BY <1>1 DEF BothInv, RebuildInv, CycleInv, TypeOK
<1>3. /\ rPayouts' \in [Miner -> Seq(Payout)]
      /\ rProcessed' \subseteq Height
      /\ \A h \in rProcessed' : PaidFrom(rPayouts', h, Order)
  <2>1. CASE UNCHANGED <<rPayouts, rProcessed>>
    BY <1>2, <2>1
  <2>2. CASE ~UNCHANGED <<rPayouts, rProcessed>>
    <3> DEFINE x == R!Current.block
               c == chain[R!CurrentH]
    <3>1. /\ HasCoinbase(R!CurrentH)
          /\ rPayouts' = Credit(rPayouts, x, c, rOrder)
          /\ rProcessed' = rProcessed \cup {R!CurrentH}
      BY <2>2 DEF RebuildBlock, R!Marked
    <3>2. x \in mined /\ R!CurrentH = HeightOf[x] /\ R!CurrentH \in Height
      BY <1>1, <1>2, RebuildCurrent, LedgerAssumption DEF BothInv, Known, R!CurrentH
    <3>3. c \in mined \cup {Foreign} /\ Outputs[c] > 0
      BY <3>1, <3>2 DEF BothInv, CycleInv, MinedInv, HasCoinbase
    <3> HIDE DEF x, c
    <3>4. /\ rPayouts' \in [Miner -> Seq(Payout)]
          /\ \A h \in rProcessed \cup {HeightOf[x]} : PaidFrom(rPayouts', h, Order)
      BY <1>2, <3>1, <3>2, <3>3, RestCredit
    <3> QED
      BY <1>2, <3>1, <3>2, <3>4
  <2> QED
    BY <2>1, <2>2
<1>4. \A h \in rProcessed' : PaidFrom(rPayouts, h, Order)'
  BY <1>1, <1>3 DEF PaidFrom
<1>5. RebuildInv'
  BY <1>1, <1>2, <1>3, <1>4 DEF BothInv, RebuildInv, Known
<1>6. foundList' \in Seq(mined) /\ redisFound' \in Seq(FoundBlock)
  BY <1>1 DEF BothInv, CycleInv, MinedInv, TypeOK
<1> QED
  BY <1>1, <1>5, <1>6, RebuildOwn

(* Its save begins,                                                        *)
LEMMA RebuildEndPayKeeps ==
  ASSUME BothInv, RebuildEndPay
  PROVE  BothInv'
<1> USE DEF vars, world, ledger, redis, memory, locals
<1>1. /\ UNCHANGED <<vars, load, rFoundBlocks, rValid, rOrder, rPayouts, rProcessed, rI>>
      /\ torn' = torn \ {"rebuild"}
      /\ rPc = "pay" /\ rPc' \in {"save", "reward"}
      /\ rPc' = "save" => rUnsaved' = {m \in Miner : rPayouts[m] # << >>}
  BY DEF RebuildEndPay, R!EndPay, R!memory
<1>2. RebuildInv'
  BY <1>1 DEF BothInv, RebuildInv, Known, PaidFrom
<1>3. foundList' \in Seq(mined) /\ redisFound' \in Seq(FoundBlock)
  BY <1>1 DEF BothInv, CycleInv, MinedInv, TypeOK
<1> QED
  BY <1>1, <1>2, <1>3, RebuildOwn

(* and the process may end at any time without storing anything.           *)
LEMMA RebuildDiesKeeps ==
  ASSUME BothInv, RebuildDies
  PROVE  BothInv'
<1> USE DEF world, ledger, redis
<1>1. /\ R!ProcessEnds /\ UNCHANGED <<world, redis>>
      /\ UNCHANGED <<memory, pc, locals, load>>
      /\ torn' = torn \ {"rebuild"}
  BY DEF RebuildDies, R!Crash, R!world, R!redis, R!ledger
<1>2. NoPayouts \in [Miner -> Seq(Payout)]
  BY EmptySeq DEF NoPayouts
<1>3. RebuildInv'
  BY <1>1, <1>2, EmptySeq DEF R!ProcessEnds, R!NoPayouts, NoPayouts, RebuildInv
<1>4. foundList' \in Seq(mined) /\ redisFound' \in Seq(FoundBlock)
  BY <1>1 DEF BothInv, CycleInv, MinedInv, TypeOK
<1>5. rPc' = "down"
  BY <1>1 DEF R!ProcessEnds
<1> QED
  BY <1>1, <1>3, <1>4, <1>5, RebuildOwn

(* The SET of a payouts key of a rebuild tears what the daemon holds or    *)
(* saves,                                                                  *)
LEMMA RebuildSaveKeeps ==
  ASSUME RestReadable, BothInv, RebuildSave
  PROVE  BothInv'
<1> USE DEF world, memory, locals, load
<1>1. PICK x \in Miner : R!SavePayouts(x)
  BY DEF RebuildSave
<1>2. /\ rPc = "save" /\ rPc' = "save"
      /\ redisPayouts' = [redisPayouts EXCEPT ![x] = rPayouts[x]]
      /\ rUnsaved' = rUnsaved \ {x}
      /\ UNCHANGED <<world, foundList, redisFound, redisProcessed, redisSnapshots>>
      /\ UNCHANGED <<memory, pc, locals, load>>
      /\ UNCHANGED <<rFoundBlocks, rProcessed, rPayouts, rOrder, rI, rValid>>
      /\ torn' = RebuildStores \cup {"redis"} \cup (IF pc = "save" THEN {"daemon"} ELSE {})
  BY <1>1 DEF RebuildSave, R!SavePayouts, R!Stores, R!world, R!memory, RestReadable
<1>3. /\ redisPayouts \in [Miner -> Seq(Payout)] /\ rPayouts \in [Miner -> Seq(Payout)]
      /\ foundList \in Seq(mined) /\ redisFound \in Seq(FoundBlock)
      /\ redisProcessed \subseteq Height
  BY DEF BothInv, CycleInv, TypeOK, MinedInv, RebuildInv
<1>4. redisPayouts' \in [Miner -> Seq(Payout)]
  BY <1>2, <1>3
<1>5. CycleInv'
  BY <1>2, <1>3, <1>4, StoredTypes DEF BothInv
<1>6. RebuildInv'
  BY <1>2 DEF BothInv, RebuildInv, Known, PaidFrom
<1>7. LoadInv'
  BY <1>2 DEF BothInv, LoadInv
<1>8. ASSUME "memory" \notin torn'
      PROVE  Sound' /\ ~Reading'
  <2>1. ~Exposed /\ "memory" \notin torn
    BY <1>2, <1>8 DEF RebuildStores
  <2>2. ~Reading /\ Sound
    BY <2>1 DEF Exposed, Reading, BothInv, LoadInv, UntornInv
  <2>3. \A h \in processedPayouts' : PaidFrom(minerPayouts, h, Order)'
    BY <1>2, <2>2 DEF Sound, PaidFrom
  <2>4. ~(processedPayouts' = {} /\ minerPayouts' # NoPayouts)
    BY <1>2, <2>1 DEF Exposed
  <2> QED
    BY <1>2, <2>2, <2>3, <2>4 DEF Sound, Reading
<1>9. pc' = "save" => "daemon" \in torn'
  BY <1>2
<1>10. ASSUME "rebuild" \notin torn', NEW m \in Miner \ rUnsaved', rPayouts'[m] # << >>
       PROVE  redisPayouts'[m] = rPayouts'[m]
  <2>1. m = x \/ redisPayouts[m] = rPayouts[m]
    BY <1>2, <1>10 DEF BothInv, UntornInv, RebuildStores
  <2> QED
    BY <1>2, <1>3, <2>1
<1>11. "redis" \in torn'
  BY <1>2
<1>12. UntornInv'
  BY <1>8, <1>9, <1>10, <1>11 DEF UntornInv
<1> QED
  BY <1>5, <1>6, <1>7, <1>12 DEF BothInv

(* and the SET of its processed heights ends it.                           *)
LEMMA RebuildEndsKeeps ==
  ASSUME RestReadable, BothInv, RebuildEnds
  PROVE  BothInv'
<1> USE DEF world, memory, locals, load
<1>1. /\ rPc = "save" /\ rPc' = "down" /\ rUnsaved = {}
      /\ redisProcessed' = rProcessed
      /\ UNCHANGED <<world, foundList, redisFound, redisPayouts, redisSnapshots>>
      /\ UNCHANGED <<memory, pc, locals, load>>
      /\ R!ProcessEnds /\ torn' = RebuildStored
  BY DEF RebuildEnds, R!ProcessEnds, Stores, RestReadable
<1>2. /\ redisPayouts \in [Miner -> Seq(Payout)] /\ rPayouts \in [Miner -> Seq(Payout)]
      /\ foundList \in Seq(mined) /\ redisFound \in Seq(FoundBlock)
      /\ rProcessed \subseteq Height /\ mined \subseteq Block
      /\ \A h \in rProcessed : PaidFrom(rPayouts, h, Order)
  BY DEF BothInv, CycleInv, TypeOK, MinedInv, RebuildInv
<1>3. CycleInv'
  BY <1>1, <1>2, StoredTypes DEF BothInv
<1>4. NoPayouts \in [Miner -> Seq(Payout)]
  BY EmptySeq DEF NoPayouts
<1>5. RebuildInv'
  BY <1>1, <1>4, EmptySeq DEF R!ProcessEnds, R!NoPayouts, NoPayouts, RebuildInv
<1>6. LoadInv'
  BY <1>1 DEF BothInv, LoadInv
<1>7. ASSUME "redis" \notin torn'
      PROVE  \A h \in redisProcessed' : PaidFrom(redisPayouts, h, Order)'
  <2>1. "rebuild" \notin torn
    BY <1>1, <1>7 DEF RebuildStored
  <2>2. \A m \in Miner : rPayouts[m] # << >> => redisPayouts[m] = rPayouts[m]
    BY <1>1, <2>1 DEF BothInv, UntornInv
  <2>3. \A h \in rProcessed : PaidFrom(redisPayouts, h, Order)
    BY <1>2, <2>2, RestSaved
  <2> QED
    BY <1>1, <2>3 DEF PaidFrom
<1>8. ASSUME "memory" \notin torn'
      PROVE  Sound' /\ ~Reading'
  <2>1. ~Exposed /\ "memory" \notin torn
    BY <1>1, <1>8 DEF RebuildStores, RebuildStored
  <2>2. ~Reading /\ Sound
    BY <2>1 DEF Exposed, Reading, BothInv, LoadInv, UntornInv
  <2>3. \A h \in processedPayouts' : PaidFrom(minerPayouts, h, Order)'
    BY <1>1, <2>2 DEF Sound, PaidFrom
  <2>4. ~(processedPayouts' = {} /\ minerPayouts' # NoPayouts)
    BY <1>1, <2>1 DEF Exposed
  <2> QED
    BY <1>1, <2>2, <2>3, <2>4 DEF Sound, Reading
<1>9. pc' = "save" /\ "daemon" \notin torn' => \A m \in Miner \ unsaved' :
        minerPayouts'[m] # << >> => redisPayouts'[m] = minerPayouts'[m]
  BY <1>1 DEF BothInv, UntornInv, RebuildStores, RebuildStored
<1>10. UntornInv'
  BY <1>1, <1>7, <1>8, <1>9 DEF UntornInv
<1> QED
  BY <1>3, <1>5, <1>6, <1>10 DEF BothInv

(* No step of the daemon, of a rebuild or of the world breaks it.          *)
LEMMA BothNext ==
  ASSUME RestReadable, BothInv, [RebuildNext]_both
  PROVE  BothInv'
<1>1. CASE UNCHANGED both
  <2>1. /\ UNCHANGED <<vars, load, process, torn>> /\ mined \subseteq mined'
        /\ UNCHANGED <<redisPayouts, redisProcessed, processedPayouts, minerPayouts,
                       pc, unsaved, rPayouts, rPc, rUnsaved, foundBlocks>>
    BY <1>1 DEF both, vars, world, redis, ledger, memory, locals, process
  <2>2. CycleInv' /\ RebuildInv'
    BY <2>1, CycleStep, RebuildFrame DEF BothInv
  <2>3. LoadInv'
    BY <2>1 DEF BothInv, LoadInv, load
  <2>4. UntornInv'
    BY <2>1, UntornFrame DEF BothInv
  <2> QED
    BY <2>2, <2>3, <2>4 DEF BothInv
<1>2. CASE WorldMoves
  BY <1>2, WorldKeeps
<1>3. CASE DaemonStep
  <2>1. ASSUME NEW m \in Miner, LoadPayouts(m) PROVE BothInv'
    BY <2>1, LoadPayoutsKeeps
  <2> QED
    BY <1>3, <2>1, CycleKeeps, LoadProcessedKeeps, ListKeeps, LoadSnapshotsKeeps,
       EndPayKeeps, DaemonSaveKeeps, DaemonMarkKeeps, DaemonDiesKeeps DEF DaemonStep
<1>4. CASE RebuildStep
  BY <1>4, RebuildStartKeeps, RebuildFindsKeeps, RebuildBlockKeeps,
     RebuildEndPayKeeps, RebuildSaveKeeps, RebuildEndsKeeps, RebuildDiesKeeps
     DEF RebuildStep
<1> QED
  BY <1>1, <1>2, <1>3, <1>4 DEF RebuildNext

(* However a daemon and any number of rebuilds interleave, and wherever    *)
(* they die: once one of them ends a save that no other tore, every height *)
(* that is stored as processed has all the outputs of a coinbase that have *)
(* a miner stored, along some order of TopMiners.                          *)
THEOREM UntornPaid ==
  ASSUME RestReadable
  PROVE  RebuildSpec => []PaidUnlessTorn
<1>1. BothInv => PaidUnlessTorn
  BY DEF BothInv, UntornInv, PaidUnlessTorn, FullyPaid, PaidFrom, SettledBy
<1>2. BothInv /\ [RebuildNext]_both => BothInv'
  BY BothNext
<1> QED
  BY BothInit, <1>1, <1>2, PTL DEF RebuildSpec

=============================================================================
