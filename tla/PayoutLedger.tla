---------------------------- MODULE PayoutLedger ----------------------------
(***************************************************************************)
(* The found-block and payout half of the observer daemon                  *)
(* (cmd/daemon/main.go): what one syncCycle does to the payout ledger in   *)
(* Redis, one action per group of steps between which another process, a   *)
(* chain reorganisation or the death of the daemon can be observed.        *)
(*                                                                         *)
(* The daemon is one goroutine.  Around it move the C++ p2pool, which      *)
(* appends to the Redis list p2pool:found_blocks, and the main chain that  *)
(* the Salvium node reports.  A crash loses the daemon's memory and keeps  *)
(* Redis; SIGTERM is the same thing, because it cancels the context every  *)
(* later Redis and RPC call of the cycle is made with.                     *)
(*                                                                         *)
(* Data: a found block is a value of Block, an amount is the coinbase      *)
(* output it was read from (the block whose coinbase it is, and the        *)
(* position of the output after the descending sort), a reward is known or *)
(* not yet known.  Who found a block, its effort and the rest of the       *)
(* statistics have no influence on the ledger and are left out.            *)
(***************************************************************************)
EXTENDS Naturals, Sequences

CONSTANTS
  Block,        \* blocks this pool finds
  Height,       \* main-chain heights
  HeightOf,     \* the height of each found block
  Legacy,       \* blocks whose list entry has four fields, no total_hashes
  Foreign,      \* a main-chain block this pool did not find
  NoBlock,      \* the height is above the tip the node knows
  Miner,        \* payout addresses
  Order,        \* the miner orders TopMiners can return
  Outputs,      \* how many outputs the coinbase of a block pays to miners
  CrashPoint,   \* the points of the cycle at which the daemon may die
  MaxHistory,   \* bound: crashes while saving only happen while every
                \* payouts key is shorter than this
  RpcMayFail,   \* may an RPC to the Salvium node fail?
  SetMayFail,   \* the keys whose SET or LREM may fail
  GetMayFail    \* the keys whose GET or KEYS may fail

Point == {"idle", "found", "publish", "check", "lrem", "load", "pay", "save",
          "snap", "reward"}

(* p2pool:found_blocks, cache:found_blocks, miner:{addr}:payouts,          *)
(* cache:processed_payouts and cache:pplns_snapshots.                      *)
RedisKey == {"list", "found", "payouts", "processed", "snapshots"}

Injective(s) == \A j, k \in DOMAIN s : s[j] = s[k] => j = k

(***************************************************************************)
(* A PPLNS result lists each miner once (its shares are keyed by address). *)
(***************************************************************************)
ASSUME LedgerAssumption ==
  /\ HeightOf \in [Block -> Height]
  /\ Legacy \subseteq Block
  /\ Foreign \notin Block
  /\ NoBlock \notin Block \cup {Foreign}
  /\ \A o \in Order : o \in Seq(Miner) /\ o # << >> /\ Injective(o)
  /\ Outputs \in [Block \cup {Foreign} -> Nat]
  /\ CrashPoint \subseteq Point
  /\ MaxHistory \in Nat
  /\ RpcMayFail \in BOOLEAN
  /\ SetMayFail \subseteq RedisKey
  /\ GetMayFail \subseteq RedisKey

VARIABLES
  chain,            \* the main chain as the node reports it, by height
  mined,            \* the blocks this pool has found so far
  \* Redis
  foundList,        \* p2pool:found_blocks, appended to by the C++ p2pool
  redisFound,       \* cache:found_blocks, what the API serves
  redisPayouts,     \* miner:{addr}:payouts, << >> when the key is absent
  redisProcessed,   \* cache:processed_payouts
  redisSnapshots,   \* cache:pplns_snapshots
  \* fields of the Daemon
  foundBlocks,
  processedPayouts,
  minerPayouts,
  pplnsSnapshots,
  \* where the daemon is, and the locals of the call it is in
  pc,
  order,            \* pplns.TopMiners of this cycle
  i,                \* index of the loop over foundBlocks
  validBlocks,
  dirty,            \* newPayouts > 0 || newSnapshots > 0
  rewardsUpdated,
  unsaved           \* miners whose payout key is still to be SET

world  == <<chain, mined>>
ledger == <<redisPayouts, redisProcessed, redisSnapshots>>
redis  == <<foundList, redisFound, ledger>>
memory == <<foundBlocks, processedPayouts, minerPayouts, pplnsSnapshots>>
locals == <<order, i, validBlocks, dirty, rewardsUpdated, unsaved>>
vars   == <<world, redis, memory, pc, locals>>

NoOrder    == << >>
NoPayouts  == [m \in Miner |-> << >>]
NoSnapshot == [h \in Height |-> NoOrder]

FoundBlock == [block : Block, reward : BOOLEAN]
Payout == [block : Block, output : (Block \cup {Foreign}) \X Nat]

FlagsOK ==
  /\ dirty \in BOOLEAN
  /\ rewardsUpdated \in BOOLEAN

(* LREM is issued for an entry the loop is at.                             *)
IndexOK == pc = "lrem" => i <= Len(foundBlocks)

TypeOK ==
  /\ chain \in [Height -> Block \cup {Foreign, NoBlock}]
  /\ mined \subseteq Block
  /\ foundList \in Seq(Block)
  /\ redisFound \in Seq(FoundBlock)
  /\ redisPayouts \in [Miner -> Seq(Payout)]
  /\ redisProcessed \subseteq Height
  /\ redisSnapshots \in [Height -> Order \cup {NoOrder}]
  /\ foundBlocks \in Seq(FoundBlock)
  /\ processedPayouts \subseteq Height
  /\ minerPayouts \in [Miner -> Seq(Payout)]
  /\ pplnsSnapshots \in [Height -> Order \cup {NoOrder}]
  /\ pc \in Point \cup {"down"}
  /\ FlagsOK
  /\ IndexOK
  /\ order \in Order \cup {NoOrder}
  /\ i \in Nat \ {0}
  /\ validBlocks \in Seq(FoundBlock)
  /\ unsaved \subseteq Miner

MemoryEmpty ==
  /\ foundBlocks = << >>
  /\ processedPayouts = {}
  /\ minerPayouts = NoPayouts
  /\ pplnsSnapshots = NoSnapshot

Init ==
  /\ chain = [h \in Height |-> NoBlock]
  /\ mined = {}
  /\ foundList = << >>
  /\ redisFound = << >>
  /\ redisPayouts = NoPayouts
  /\ redisProcessed = {}
  /\ redisSnapshots = NoSnapshot
  /\ MemoryEmpty
  /\ pc = "down"
  /\ order = NoOrder
  /\ i = 1
  /\ validBlocks = << >>
  /\ dirty = FALSE
  /\ rewardsUpdated = FALSE
  /\ unsaved = {}

-----------------------------------------------------------------------------
(***************************************************************************)
(* The world around the daemon.                                            *)
(***************************************************************************)

(* p2pool finds b and appends it to the list; the node may learn of it     *)
(* later, or never when another block won the race for the height.         *)
Mine(b) ==
  /\ b \notin mined
  /\ mined' = mined \cup {b}
  /\ foundList' = Append(foundList, b)
  /\ \/ chain' = chain
     \/ /\ chain[HeightOf[b]] = NoBlock
        /\ chain' = [chain EXCEPT ![HeightOf[b]] = b]
  /\ UNCHANGED <<redisFound, ledger, memory, pc, locals>>

(* The node connects a block at h, or replaces the one it had (a reorg, or *)
(* a failover to a node on another fork).                                  *)
ChainMoves(h) ==
  /\ \E c \in {Foreign} \cup {b \in mined : HeightOf[b] = h} :
       /\ c # chain[h]
       /\ chain' = [chain EXCEPT ![h] = c]
  /\ UNCHANGED <<mined, redis, memory, pc, locals>>

-----------------------------------------------------------------------------
(***************************************************************************)
(* Outcomes of a Redis SET (its error is ignored) and of a Redis GET (on   *)
(* an error the field keeps its empty value).                              *)
(***************************************************************************)
Stores(key, old, new) == {new} \cup (IF key \in SetMayFail THEN {old} ELSE {})

(* Mutation: nothing is loaded after a restart.                            *)
LoadsNothing(key, stored, empty) == {empty}

Loads(key, stored, empty) ==
  {stored} \cup (IF key \in GetMayFail THEN {empty} ELSE {})

(* Mutation: the history of a miner is not loaded after a restart.         *)
LoadsNoPayouts == {NoPayouts}

(* loadMinerPayouts reads one key per miner and skips the keys that fail.  *)
LoadsPayouts ==
  IF "payouts" \in GetMayFail
  THEN {[m \in Miner |-> IF m \in K THEN redisPayouts[m] ELSE << >>]
          : K \in SUBSET Miner}
  ELSE {redisPayouts}

(* GetCoinbaseOutputs(h) has something to return.                          *)
HasCoinbase(h) == chain[h] # NoBlock /\ Outputs[chain[h]] > 0
FetchFails(h)  == RpcMayFail \/ ~HasCoinbase(h)

(* Mutation: the loop stops one output short.                              *)
MatchButLast(c, addrs) ==
  IF Outputs[c] < Len(addrs) THEN Outputs[c] - 1 ELSE Len(addrs) - 1

(* How many outputs find a miner: output[k] goes to addrs[k].              *)
MatchCount(c, addrs) ==
  IF Outputs[c] < Len(addrs) THEN Outputs[c] ELSE Len(addrs)

(* Mutation: the payout names the block the chain has at the height.       *)
PayoutOfChain(b, c, k) == [block |-> c, output |-> <<c, k>>]

(* The payout that block b, paid by the coinbase of c, owes to addrs[k].   *)
PayoutAt(b, c, k) == [block |-> b, output |-> <<c, k>>]

(* Mutation: a miner's list is replaced by its newest payout.              *)
CreditOverwrites(pay, b, c, addrs) ==
  [m \in Miner |->
     IF \E k \in 1..MatchCount(c, addrs) : addrs[k] = m
     THEN <<PayoutAt(b, c, CHOOSE k \in 1..MatchCount(c, addrs) : addrs[k] = m)>>
     ELSE pay[m]]

Credit(pay, b, c, addrs) ==
  [m \in Miner |->
     IF \E k \in 1..MatchCount(c, addrs) : addrs[k] = m
     THEN Append(pay[m],
            PayoutAt(b, c, CHOOSE k \in 1..MatchCount(c, addrs) : addrs[k] = m))
     ELSE pay[m]]

(* Mutation: the formatted entry never equals the stored one.              *)
LremNothing(list, b) == list

(* LREM of the entry as the daemon formats it.  Each block is in the list  *)
(* once; a legacy entry is formatted with a fifth, empty field and matches *)
(* nothing.                                                                *)
Lrem(list, b) ==
  IF b \in Legacy \/ \A k \in 1..Len(list) : list[k] # b
  THEN list
  ELSE LET at == CHOOSE k \in 1..Len(list) : list[k] = b
       IN  [k \in 1..(Len(list) - 1) |-> IF k < at THEN list[k] ELSE list[k + 1]]

Current  == foundBlocks[i]
CurrentH == HeightOf[Current.block]

-----------------------------------------------------------------------------
(***************************************************************************)
(* The daemon.                                                             *)
(***************************************************************************)

(* syncCycle up to CalculatePPLNS.  A cycle that finds no shares returns   *)
(* without touching anything modelled here.                                *)
BeginCycle ==
  /\ pc = "idle"
  /\ order' \in Order
  /\ pc' = "found"
  /\ UNCHANGED <<world, redis, memory, i, validBlocks, dirty,
                 rewardsUpdated, unsaved>>

(* LRANGE p2pool:found_blocks and the parse loop: every entry again, with  *)
(* no reward.                                                              *)
ReadFoundList ==
  /\ pc = "found"
  /\ foundList # << >>
  /\ foundBlocks' = [k \in 1..Len(foundList) |->
                       [block |-> foundList[k], reward |-> FALSE]]
  /\ pc' = "publish"
  /\ UNCHANGED <<world, redis, processedPayouts, minerPayouts, pplnsSnapshots,
                 locals>>

(* An error of LRANGE (always possible) or an empty list returns at once:  *)
(* foundBlocks keeps what an earlier cycle left there, and no orphan check *)
(* is made.                                                                *)
SkipFoundList ==
  /\ pc = "found"
  /\ pc' = "load"
  /\ UNCHANGED <<world, redis, memory, locals>>

PublishFound ==
  /\ pc = "publish"
  /\ redisFound' \in Stores("found", redisFound, foundBlocks)
  /\ i' = 1
  /\ validBlocks' = << >>
  /\ pc' = "check"
  /\ UNCHANGED <<world, foundList, ledger, memory, order, dirty,
                 rewardsUpdated, unsaved>>

(* The node confirms the block, or cannot answer for its height.           *)
KeepBlock ==
  /\ pc = "check"
  /\ i <= Len(foundBlocks)
  /\ chain[CurrentH] \in {Current.block, NoBlock} \/ RpcMayFail
  /\ validBlocks' = Append(validBlocks, Current)
  /\ i' = i + 1
  /\ UNCHANGED <<world, redis, memory, pc, order, dirty,
                 rewardsUpdated, unsaved>>

(* The node has another block at the height; LREM is still to come.        *)
DetectOrphan ==
  /\ pc = "check"
  /\ i <= Len(foundBlocks)
  /\ chain[CurrentH] \notin {Current.block, NoBlock}
  /\ pc' = "lrem"
  /\ UNCHANGED <<world, redis, memory, locals>>

RemoveOrphan ==
  /\ pc = "lrem"
  /\ foundList' \in Stores("list", foundList, Lrem(foundList, Current.block))
  /\ i' = i + 1
  /\ pc' = "check"
  /\ UNCHANGED <<world, redisFound, ledger, memory, order,
                 validBlocks, dirty, rewardsUpdated, unsaved>>

EndCheck ==
  /\ pc = "check"
  /\ i > Len(foundBlocks)
  /\ IF Len(validBlocks) < Len(foundBlocks)
     THEN /\ foundBlocks' = validBlocks
          /\ redisFound' \in Stores("found", redisFound, validBlocks)
     ELSE UNCHANGED <<foundBlocks, redisFound>>
  /\ pc' = "load"
  /\ UNCHANGED <<world, foundList, ledger, processedPayouts, minerPayouts,
                 pplnsSnapshots, locals>>

-----------------------------------------------------------------------------
NothingFound ==
  /\ pc = "load"
  /\ foundBlocks = << >>
  /\ pc' = "idle"
  /\ order' = NoOrder
  /\ UNCHANGED <<world, redis, memory, i, validBlocks, dirty,
                 rewardsUpdated, unsaved>>

(* Each of the three maps is read from Redis only while it is empty.       *)
LoadLedger ==
  /\ pc = "load"
  /\ foundBlocks # << >>
  /\ processedPayouts' \in IF processedPayouts = {}
                           THEN Loads("processed", redisProcessed, {})
                           ELSE {processedPayouts}
  /\ minerPayouts' \in IF minerPayouts = NoPayouts
                       THEN LoadsPayouts ELSE {minerPayouts}
  /\ pplnsSnapshots' \in IF pplnsSnapshots = NoSnapshot
                         THEN Loads("snapshots", redisSnapshots, NoSnapshot)
                         ELSE {pplnsSnapshots}
  /\ i' = 1
  /\ dirty' = FALSE
  /\ rewardsUpdated' = FALSE
  /\ pc' = "pay"
  /\ UNCHANGED <<world, redis, foundBlocks, order, validBlocks,
                 unsaved>>

(* Mutation: a paid height is skipped, its missing reward with it.         *)
SkipPaid ==
  /\ pc = "pay" /\ i <= Len(foundBlocks)
  /\ CurrentH \in processedPayouts
  /\ i' = i + 1
  /\ UNCHANGED <<world, redis, memory, pc, order, validBlocks, dirty,
                 rewardsUpdated, unsaved>>

(* The height has been paid: only its missing reward is fetched.           *)
RefetchReward ==
  /\ pc = "pay" /\ i <= Len(foundBlocks)
  /\ CurrentH \in processedPayouts
  /\ \/ /\ ~Current.reward
        /\ HasCoinbase(CurrentH)
        /\ foundBlocks' = [foundBlocks EXCEPT ![i].reward = TRUE]
        /\ rewardsUpdated' = TRUE
     \/ /\ Current.reward \/ FetchFails(CurrentH)
        /\ UNCHANGED <<foundBlocks, rewardsUpdated>>
  /\ i' = i + 1
  /\ UNCHANGED <<world, redis, processedPayouts, minerPayouts, pplnsSnapshots,
                 pc, order, validBlocks, dirty, unsaved>>

(* Mutation: the order of this cycle, whatever was recorded at discovery.  *)
OrderNow(h) == order

(* The miner order a new block at h is paid in.                            *)
SnapshotOf(h) ==
  IF pplnsSnapshots[h] = NoOrder THEN order ELSE pplnsSnapshots[h]

Marked(h) == processedPayouts \cup {h}

(* A new height: snapshot the order, and pay when the coinbase arrives.    *)
PayNewBlock ==
  /\ pc = "pay" /\ i <= Len(foundBlocks)
  /\ CurrentH \notin processedPayouts
  /\ HasCoinbase(CurrentH)
  /\ pplnsSnapshots' = [pplnsSnapshots EXCEPT ![CurrentH] = SnapshotOf(CurrentH)]
  /\ minerPayouts' = Credit(minerPayouts, Current.block, chain[CurrentH],
                            SnapshotOf(CurrentH))
  /\ processedPayouts' = Marked(CurrentH)
  /\ foundBlocks' = [foundBlocks EXCEPT ![i].reward = TRUE]
  /\ rewardsUpdated' = (rewardsUpdated \/ ~Current.reward)
  /\ dirty' = TRUE
  /\ i' = i + 1
  /\ UNCHANGED <<world, redis, pc, order, validBlocks, unsaved>>

(* The coinbase cannot be fetched: only the snapshot remains.              *)
SnapshotOnly ==
  /\ pc = "pay" /\ i <= Len(foundBlocks)
  /\ CurrentH \notin processedPayouts
  /\ FetchFails(CurrentH)
  /\ pplnsSnapshots' = [pplnsSnapshots EXCEPT ![CurrentH] = SnapshotOf(CurrentH)]
  /\ dirty' = (dirty \/ pplnsSnapshots[CurrentH] = NoOrder)
  /\ i' = i + 1
  /\ UNCHANGED <<world, redis, foundBlocks, processedPayouts, minerPayouts, pc,
                 order, validBlocks, rewardsUpdated, unsaved>>

(* Mutation: the processed heights are stored before the payouts.          *)
EndPayMarkFirst ==
  /\ pc = "pay"
  /\ i > Len(foundBlocks)
  /\ pc' = "save"
  /\ unsaved' = {m \in Miner : minerPayouts[m] # << >>}
  /\ redisProcessed' = processedPayouts
  /\ UNCHANGED <<world, foundList, redisFound, redisPayouts, redisSnapshots,
                 memory, order, i, validBlocks, dirty, rewardsUpdated>>

EndPay ==
  /\ pc = "pay"
  /\ i > Len(foundBlocks)
  /\ IF dirty
     THEN /\ pc' = "save"
          /\ unsaved' = {m \in Miner : minerPayouts[m] # << >>}
     ELSE /\ pc' = "reward"
          /\ UNCHANGED unsaved
  /\ UNCHANGED <<world, redis, memory, order, i, validBlocks, dirty,
                 rewardsUpdated>>

(* One SET per miner, in the random order of a Go map.                     *)
SavePayouts(m) ==
  /\ pc = "save"
  /\ m \in unsaved
  /\ redisPayouts' \in
       Stores("payouts", redisPayouts, [redisPayouts EXCEPT ![m] = minerPayouts[m]])
  /\ unsaved' = unsaved \ {m}
  /\ UNCHANGED <<world, foundList, redisFound, redisProcessed, redisSnapshots,
                 memory, pc, order, i, validBlocks, dirty,
                 rewardsUpdated>>

SaveProcessed ==
  /\ pc = "save"
  /\ unsaved = {}
  /\ redisProcessed' \in Stores("processed", redisProcessed, processedPayouts)
  /\ pc' = "snap"
  /\ UNCHANGED <<world, foundList, redisFound, redisPayouts, redisSnapshots,
                 memory, locals>>

SaveSnapshots ==
  /\ pc = "snap"
  /\ redisSnapshots' \in Stores("snapshots", redisSnapshots, pplnsSnapshots)
  /\ pc' = "reward"
  /\ UNCHANGED <<world, foundList, redisFound, redisPayouts, redisProcessed,
                 memory, locals>>

(* The reward fields go to the API, and the cycle's locals go out of scope.*)
EndCycle ==
  /\ pc = "reward"
  /\ redisFound' \in IF rewardsUpdated THEN Stores("found", redisFound, foundBlocks)
                     ELSE {redisFound}
  /\ pc' = "idle"
  /\ order' = NoOrder
  /\ i' = 1
  /\ validBlocks' = << >>
  /\ dirty' = FALSE
  /\ rewardsUpdated' = FALSE
  /\ UNCHANGED <<world, foundList, ledger, memory, unsaved>>

-----------------------------------------------------------------------------
(* What a process that ends leaves behind: nothing in memory.              *)
ProcessEnds ==
  /\ pc' = "down"
  /\ foundBlocks' = << >>
  /\ processedPayouts' = {}
  /\ minerPayouts' = NoPayouts
  /\ pplnsSnapshots' = NoSnapshot
  /\ order' = NoOrder
  /\ i' = 1
  /\ validBlocks' = << >>
  /\ dirty' = FALSE
  /\ rewardsUpdated' = FALSE
  /\ unsaved' = {}

(* A crash while the keys are saved, or after the SET of the processed     *)
(* heights failed, has payouts appended once more by later cycles: the     *)
(* bound keeps the history finite.                                         *)
RoomLeft == \A m \in Miner : Len(redisPayouts[m]) < MaxHistory

Crash ==
  /\ pc \in CrashPoint
  /\ pc = "save" \/ "processed" \in SetMayFail \cup GetMayFail => RoomLeft
  /\ ProcessEnds
  /\ UNCHANGED <<world, redis>>

Start ==
  /\ pc = "down"
  /\ pc' = "idle"
  /\ UNCHANGED <<world, redis, memory, locals>>

-----------------------------------------------------------------------------
Daemon ==
  \/ BeginCycle \/ ReadFoundList \/ SkipFoundList \/ PublishFound
  \/ KeepBlock \/ DetectOrphan \/ RemoveOrphan \/ EndCheck
  \/ NothingFound \/ LoadLedger \/ RefetchReward \/ PayNewBlock \/ SnapshotOnly
  \/ EndPay \/ (\E m \in Miner : SavePayouts(m))
  \/ SaveProcessed \/ SaveSnapshots \/ EndCycle

World == (\E b \in Block : Mine(b)) \/ (\E h \in Height : ChainMoves(h))

Next == World \/ Daemon \/ Start \/ Crash

Spec == Init /\ [][Next]_vars

(***************************************************************************)
(* Fairness.  The ticker keeps starting cycles and a running cycle goes    *)
(* on; systemd restarts a daemon that died.  An RPC that is retried every  *)
(* cycle does not fail every time, which strong fairness says of each      *)
(* action that stands for a successful call.                               *)
(***************************************************************************)
PayHeight(h)  == PayNewBlock /\ CurrentH = h
Unmask(b)     == DetectOrphan /\ Current.block = b
Unlist(b)     == RemoveOrphan /\ Current.block = b /\ foundList' # foundList
Refetch(b)    == RefetchReward /\ Current.block = b /\ foundBlocks' # foundBlocks

Fairness ==
  /\ WF_vars(Daemon)
  /\ WF_vars(Start)
  /\ SF_vars(ReadFoundList)
  /\ \A h \in Height : SF_vars(PayHeight(h))
  /\ \A b \in Block : SF_vars(Unmask(b)) /\ SF_vars(Unlist(b)) /\ SF_vars(Refetch(b))

FairSpec == Spec /\ Fairness

-----------------------------------------------------------------------------
(***************************************************************************)
(* Properties.                                                             *)
(***************************************************************************)
Elements(s) == {s[k] : k \in DOMAIN s}

(* The history of a miner is only ever appended to: no SET of a payouts    *)
(* key drops or rewrites a payout an earlier cycle, or an earlier life of  *)
(* the daemon, recorded (saving the whole map over keys that were loaded   *)
(* when the map was empty).                                                *)
Extends(s, t) == Len(s) <= Len(t) /\ \A k \in DOMAIN s : t[k] = s[k]

LedgerAppendOnly ==
  [][\A m \in Miner : Extends(redisPayouts[m], redisPayouts'[m])]_vars

(* A miner is paid at most once for a height (the API stops at the first   *)
(* payout it meets: "Only one payout per miner per block").                *)
OncePerHeight ==
  \A m \in Miner : \A j, k \in DOMAIN redisPayouts[m] :
    HeightOf[redisPayouts[m][j].block] = HeightOf[redisPayouts[m][k].block]
      => j = k

(* Every output of one coinbase that has a miner is in that miner's key.   *)
FullyPaid(h, orders) ==
  \E b \in mined, c \in mined \cup {Foreign}, o \in orders :
    /\ HeightOf[b] = h
    /\ Outputs[c] > 0
    /\ \A k \in 1..MatchCount(c, o) :
         PayoutAt(b, c, k) \in Elements(redisPayouts[o[k]])

(* A height is marked processed only when it is fully paid, in the order   *)
(* of the stored snapshot.  A processed height is never visited again, so  *)
(* whatever is missing then is lost.                                       *)
ProcessedIsPaid ==
  \A h \in redisProcessed :
    FullyPaid(h, IF redisSnapshots[h] = NoOrder THEN Order
                                                ELSE {redisSnapshots[h]})

(* The order recorded for a height at its discovery is never replaced or   *)
(* forgotten, whatever order later cycles compute.                         *)
SnapshotStable ==
  [][\A h \in Height : redisSnapshots[h] # NoOrder =>
       redisSnapshots'[h] = redisSnapshots[h]]_vars

(* When a found block stays in the list and on the main chain, its height  *)
(* is paid (to the miners of the first block of that height that was).     *)
Paid(b) == \E m \in Miner : \E p \in Elements(redisPayouts[m]) : p.block = b

Settled(b) == b \in Elements(foundList) /\ chain[HeightOf[b]] = b

EventuallyPaid ==
  \A b \in Block :
    <>[]Settled(b) => <>(\E x \in Block : HeightOf[x] = HeightOf[b] /\ Paid(x))

(* A found block whose height the main chain gives to another block leaves *)
(* the list, and what the API serves, for good.                            *)
Orphaned(b) == b \in mined /\ chain[HeightOf[b]] \notin {b, NoBlock}
Published(b) == \E k \in DOMAIN redisFound : redisFound[k].block = b

OrphanLeaves ==
  \A b \in Block : <>[]Orphaned(b) => <>[](b \notin Elements(foundList))

OrphanUnpublished ==
  \A b \in Block : <>[]Orphaned(b) => <>[]~Published(b)

(* A paid block that stays is, again and again, served with its reward:    *)
(* the parse of each cycle forgets the reward, and each cycle restores it. *)
ServedWithReward(b) ==
  \E k \in DOMAIN redisFound : redisFound[k] = [block |-> b, reward |-> TRUE]

RewardRestored ==
  \A b \in Block :
    <>[]Settled(b) => []<>ServedWithReward(b)

(* The ledger implements PayoutBook as long as the daemon does not die     *)
(* between the first payout key and the processed heights of one save:     *)
(* SETting the processed heights is the moment their pages are settled.    *)
EntriesOf(m, h) ==
  {[miner |-> m, block |-> p.block, output |-> p.output] :
     p \in {p \in Elements(redisPayouts[m]) : HeightOf[p.block] = h}}

PageOf(h) == IF h \in redisProcessed
             THEN UNION {EntriesOf(m, h) : m \in Miner} ELSE {}

Book == INSTANCE PayoutBook WITH book <- [h \in Height |-> PageOf(h)]
BookSpec == Book!Spec

=============================================================================
