---------------------------- MODULE PayoutRebuild ---------------------------
(***************************************************************************)
(* The daemon of PayoutLedger and, beside it, a second process:            *)
(* p2pool-observer-daemon -rebuild-payouts (cmd/daemon/main.go:233-268 and *)
(* RebuildAllPayouts).  Nothing keeps the operator from starting it while  *)
(* the daemon runs: both read and SET the same keys of Redis, and any of   *)
(* their steps interleave.                                                 *)
(*                                                                         *)
(* The rebuild runs loadFoundBlocks and its own payment loop in a memory   *)
(* of its own: R is the code of PayoutLedger in that process.  The daemon  *)
(* is as in PayoutLedger, but it no longer loads the ledger in one step:   *)
(* the processed heights, the names of the payouts keys and each of the    *)
(* keys are read one after the other.                                      *)
(***************************************************************************)
EXTENDS PayoutLedger

CONSTANTS
  MaxRebuilds,  \* bound: how often -rebuild-payouts is run
  Moving        \* bound: the heights at which the main chain moves other than
                \* by connecting a block of this pool when it is found

ASSUME RebuildAssumption == MaxRebuilds \in Nat /\ Moving \subseteq Height

VARIABLES
  \* the daemon inside LoadLedger
  loading,      \* which part of the ledger it reads: "no", "keys" or "gets"
  unread,       \* miners whose payouts key was listed and is still to be read
  \* the process that rebuilds
  rFoundBlocks, rProcessed, rPayouts, rSnapshots,
  rPc, rOrder, rI, rValid, rDirty, rRewards, rUnsaved,
  rebuilds,     \* how many were started
  \* history
  torn

load    == <<loading, unread>>
process == <<rFoundBlocks, rProcessed, rPayouts, rSnapshots,
             rPc, rOrder, rI, rValid, rDirty, rRewards, rUnsaved>>
both    == <<vars, load, process, rebuilds, torn>>

(* The same code in the process that rebuilds.  It neither reads nor       *)
(* stores a snapshot or a reward.                                          *)
R == INSTANCE PayoutLedger WITH
       foundBlocks <- rFoundBlocks, processedPayouts <- rProcessed,
       minerPayouts <- rPayouts, pplnsSnapshots <- rSnapshots,
       pc <- rPc, order <- rOrder, i <- rI, validBlocks <- rValid,
       dirty <- rDirty, rewardsUpdated <- rRewards, unsaved <- rUnsaved

(***************************************************************************)
(* What was torn by the two processes.                                     *)
(*   "daemon", "rebuild": since its save began, the other process has SET  *)
(*     a payouts key;                                                      *)
(*   "redis": what is stored does not come from one save that ended, that  *)
(*     was not torn, and of a memory that was not torn;                    *)
(*   "memory": the daemon did not read its payouts and its processed       *)
(*     heights from the same untorn Redis: it read them while "redis" was  *)
(*     torn, the rebuild stored something meanwhile, or (each is read only *)
(*     while it is empty) it holds payouts, has no processed heights, and  *)
(*     the rebuild has stored something since.                             *)
(***************************************************************************)
Tearable == {"daemon", "rebuild", "redis", "memory"}

RebuildTypeOK ==
  /\ loading \in {"no", "keys", "gets"}
  /\ unread \subseteq Miner
  /\ R!TypeOK
  /\ rebuilds \in 0..MaxRebuilds
  /\ torn \subseteq Tearable

RebuildInit ==
  /\ Init
  /\ loading = "no"
  /\ unread = {}
  /\ R!Init
  /\ rebuilds = 0
  /\ torn = {}

-----------------------------------------------------------------------------
(***************************************************************************)
(* The daemon beside a rebuild.                                            *)
(***************************************************************************)

(* The daemon is about to read a part that the rebuild changes under it.   *)
Exposed == loading # "no" \/ (processedPayouts = {} /\ minerPayouts # NoPayouts)

(* What a process stores tears the save, or the memory, of the other one.  *)
DaemonStores  == torn \cup {"redis"} \cup (IF rPc = "save" THEN {"rebuild"} ELSE {})
RebuildStores == torn \cup (IF Exposed THEN {"memory"} ELSE {})

(* The end of a save: the processed heights are SET after the payouts.     *)
DaemonStored ==
  (IF {"daemon", "memory"} \cap torn = {} THEN torn \ {"redis"}
                                          ELSE torn \cup {"redis"}) \ {"daemon"}
RebuildStored ==
  (IF "rebuild" \in torn THEN RebuildStores \cup {"redis"}
                         ELSE RebuildStores \ {"redis"}) \ {"rebuild"}

(* LoadLedger, one call of Redis at a time: loadProcessedPayouts,          *)
LoadProcessed ==
  /\ pc = "load" /\ loading = "no"
  /\ foundBlocks # << >>
  /\ processedPayouts' \in IF processedPayouts = {}
                           THEN Loads("processed", redisProcessed, {})
                           ELSE {processedPayouts}
  /\ loading' = IF minerPayouts = NoPayouts THEN "keys" ELSE "gets"
  /\ torn' = IF processedPayouts = {} /\ minerPayouts = NoPayouts /\ "redis" \in torn
             THEN torn \cup {"memory"} ELSE torn
  /\ UNCHANGED <<world, redis, foundBlocks, minerPayouts, pplnsSnapshots, pc,
                 locals, unread, process, rebuilds>>

(* KEYS miner:*:payouts and a GET of each in loadMinerPayouts,             *)
ListPayouts ==
  /\ loading = "keys"
  /\ loading' = "gets"
  /\ unread' \in Loads("payouts", {m \in Miner : redisPayouts[m] # << >>}, {})
  /\ UNCHANGED <<vars, process, rebuilds, torn>>

LoadPayouts(m) ==
  /\ m \in unread
  /\ unread' = unread \ {m}
  /\ minerPayouts' \in Loads("payouts",
                         [minerPayouts EXCEPT ![m] = redisPayouts[m]], minerPayouts)
  /\ UNCHANGED <<world, redis, foundBlocks, processedPayouts, pplnsSnapshots, pc,
                 locals, loading, process, rebuilds, torn>>

(* and loadPPLNSSnapshots, before the loop over the found blocks.          *)
LoadSnapshots ==
  /\ loading = "gets"
  /\ unread = {}
  /\ loading' = "no"
  /\ pplnsSnapshots' \in IF pplnsSnapshots = NoSnapshot
                         THEN Loads("snapshots", redisSnapshots, NoSnapshot)
                         ELSE {pplnsSnapshots}
  /\ i' = 1
  /\ dirty' = FALSE
  /\ rewardsUpdated' = FALSE
  /\ pc' = "pay"
  /\ UNCHANGED <<world, redis, foundBlocks, processedPayouts, minerPayouts, order,
                 validBlocks, unsaved, unread, process, rebuilds, torn>>

(* The steps of a cycle that neither read nor store the ledger.            *)
DaemonCycle ==
  /\ \/ BeginCycle \/ ReadFoundList \/ SkipFoundList \/ PublishFound
     \/ KeepBlock \/ DetectOrphan \/ RemoveOrphan \/ EndCheck
     \/ NothingFound \/ RefetchReward \/ PayNewBlock \/ SnapshotOnly
     \/ SaveSnapshots \/ EndCycle \/ Start
  /\ UNCHANGED <<load, process, rebuilds, torn>>

DaemonEndPay ==
  /\ EndPay
  /\ torn' = torn \ {"daemon"}
  /\ UNCHANGED <<load, process, rebuilds>>

DaemonSave ==
  /\ \E m \in Miner : SavePayouts(m)
  /\ torn' = DaemonStores
  /\ UNCHANGED <<load, process, rebuilds>>

DaemonMark ==
  /\ SaveProcessed
  /\ torn' = DaemonStored
  /\ UNCHANGED <<load, process, rebuilds>>

DaemonDies ==
  /\ Crash
  /\ loading' = "no"
  /\ unread' = {}
  /\ torn' = torn \ {"daemon", "memory"}
  /\ UNCHANGED <<process, rebuilds>>

-----------------------------------------------------------------------------
(***************************************************************************)
(* The rebuild.                                                            *)
(***************************************************************************)

(* The shares and the difficulty, and with them the order of the miners,   *)
(* are read when the process starts.                                       *)
StartRebuild ==
  /\ rPc = "down"
  /\ rebuilds < MaxRebuilds
  /\ rebuilds' = rebuilds + 1
  /\ rOrder' \in Order
  /\ rPc' = "found"
  /\ UNCHANGED <<vars, load, rFoundBlocks, rProcessed, rPayouts, rSnapshots, rI,
                 rValid, rDirty, rRewards, rUnsaved, torn>>

(* loadFoundBlocks, its check for orphans included.                        *)
RebuildFinds ==
  /\ \/ R!ReadFoundList \/ R!SkipFoundList \/ R!PublishFound
     \/ R!KeepBlock \/ R!DetectOrphan \/ R!RemoveOrphan \/ R!EndCheck
  /\ UNCHANGED <<memory, pc, locals, load, rebuilds, torn>>

(* RebuildAllPayouts clears the maps in memory and will always save,       *)
RebuildClear ==
  /\ rPc = "load"
  /\ rPayouts' = NoPayouts
  /\ rProcessed' = {}
  /\ rDirty' = TRUE
  /\ rI' = 1
  /\ rPc' = "pay"
  /\ UNCHANGED <<vars, load, rFoundBlocks, rSnapshots, rOrder, rValid, rRewards,
                 rUnsaved, rebuilds, torn>>

(* Mutation: a height is marked although its coinbase was not fetched.     *)
RebuildMarksAll ==
  /\ rPc = "pay" /\ rI <= Len(rFoundBlocks)
  /\ \/ /\ HasCoinbase(R!CurrentH)
        /\ rPayouts' =
             Credit(rPayouts, R!Current.block, chain[R!CurrentH], rOrder)
     \/ FetchFails(R!CurrentH) /\ UNCHANGED rPayouts
  /\ rProcessed' = R!Marked(R!CurrentH)
  /\ rI' = rI + 1
  /\ UNCHANGED <<vars, load, rFoundBlocks, rSnapshots, rPc, rOrder, rValid, rDirty,
                 rRewards, rUnsaved, rebuilds, torn>>

(* pays every block whose coinbase it gets, in the order of its own,       *)
RebuildBlock ==
  /\ rPc = "pay" /\ rI <= Len(rFoundBlocks)
  /\ \/ /\ HasCoinbase(R!CurrentH)
        /\ rPayouts' =
             Credit(rPayouts, R!Current.block, chain[R!CurrentH], rOrder)
        /\ rProcessed' = R!Marked(R!CurrentH)
     \/ /\ FetchFails(R!CurrentH)
        /\ UNCHANGED <<rPayouts, rProcessed>>
  /\ rI' = rI + 1
  /\ UNCHANGED <<vars, load, rFoundBlocks, rSnapshots, rPc, rOrder, rValid, rDirty,
                 rRewards, rUnsaved, rebuilds, torn>>

RebuildEndPay ==
  /\ R!EndPay
  /\ torn' = torn \ {"rebuild"}
  /\ UNCHANGED <<vars, load, rebuilds>>

(* and SETs the keys of the miners it paid,                                *)
RebuildSave ==
  /\ \E m \in Miner : R!SavePayouts(m)
  /\ torn' = RebuildStores \cup {"redis"} \cup
               (IF pc = "save" THEN {"daemon"} ELSE {})
  /\ UNCHANGED <<memory, pc, locals, load, rebuilds>>

(* then the processed heights, and the process ends.                       *)
RebuildEnds ==
  /\ rPc = "save"
  /\ rUnsaved = {}
  /\ redisProcessed' \in Stores("processed", redisProcessed, rProcessed)
  /\ R!ProcessEnds
  /\ torn' = RebuildStored
  /\ UNCHANGED <<world, foundList, redisFound, redisPayouts, redisSnapshots,
                 memory, pc, locals, load, rebuilds>>

(* It exits without a share to start from, or is killed.                   *)
RebuildDies ==
  /\ \/ rPc \in {"found", "load"} /\ R!ProcessEnds /\ UNCHANGED <<world, redis>>
     \/ R!Crash
  /\ torn' = torn \ {"rebuild"}
  /\ UNCHANGED <<memory, pc, locals, load, rebuilds>>

-----------------------------------------------------------------------------
WorldMoves ==
  /\ (\E b \in Block : Mine(b)) \/ (\E h \in Moving : ChainMoves(h))
  /\ UNCHANGED <<load, process, rebuilds, torn>>

DaemonStep ==
  \/ DaemonCycle
  \/ LoadProcessed \/ ListPayouts \/ (\E m \in Miner : LoadPayouts(m)) \/ LoadSnapshots
  \/ DaemonEndPay \/ DaemonSave \/ DaemonMark \/ DaemonDies

RebuildStep ==
  \/ StartRebuild \/ RebuildFinds \/ RebuildClear \/ RebuildBlock
  \/ RebuildEndPay \/ RebuildSave \/ RebuildEnds \/ RebuildDies

RebuildNext ==
  \/ WorldMoves
  \/ DaemonStep
  \/ RebuildStep

RebuildSpec == RebuildInit /\ [][RebuildNext]_both

-----------------------------------------------------------------------------
(***************************************************************************)
(* Properties.                                                             *)
(***************************************************************************)

(* However the steps of the daemon and of a rebuild interleave: once one   *)
(* of them ends a save that the other one did not tear, every height that  *)
(* is stored as processed is paid in full, along some order, until the     *)
(* next save begins.  Whichever was last, with its own order and with the  *)
(* heights it missed, its payouts and its processed heights agree, and     *)
(* what an earlier torn save left behind is repaired.                      *)
PaidUnlessTorn ==
  "redis" \notin torn => \A h \in redisProcessed : FullyPaid(h, Order)

=============================================================================
